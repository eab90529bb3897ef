# MongooseIM: specifications and proofs

TLA+ specifications of the parts of MongooseIM in which several Erlang
processes, nodes or connections have to agree about one thing (a user's session,
a stream, the table of domains, a BOSH session), TLC configurations that check them on
small instances, and TLAPS proofs for instances of any size. Paths below are
relative to the repository's `src/` (the Erlang sources) unless they start with
`doc/` or `big_tests/`.

1. [The system](#1-the-system)
2. [What is modelled](#2-what-is-modelled)
3. [The runs](#3-the-runs)
4. [The proofs](#4-the-proofs)
5. [Where code and documentation disagree](#5-where-code-and-documentation-disagree)
6. [What is not modelled, and the plan](#6-what-is-not-modelled-and-the-plan)

## 1. The system

MongooseIM is an XMPP server. A client connection is a process
(`mongoose_c2s`, a `gen_statem`); the processes of all nodes share replicated
tables (Mnesia or CETS) and otherwise talk by messages. A stanza is routed by
`ejabberd_router` through a chain of filters and, for a local user, ends in
`ejabberd_sm:route`, which looks the user's sessions up in the session table
and sends `{route, Acc}` to their pids. Nearly every feature is a module that
hangs on hooks (`gen_hook`) of these processes.

### Inventory

| part | state | operations | what is hard |
|---|---|---|---|
| stream management, `stream_management/` | `sm_state` of a process (buffer, two counters, peer), one named timer, the SMID registry, stale `h` records | enable, ack, ack request, buffering, detach, resume, give up | wrap-around of `h`, cuts with traffic in flight, two processes per resumption, late replies, a registry that is cleaned by one process while another writes it |
| c2s process, `c2s/` | the login state, socket, mod states, mailbox | login steps, route in, route out, stop, terminate | what is in the mailbox when a process ends; calls between processes |
| session manager, `ejabberd_sm*.erl` | one row per session | open, close, presence, replace, limit, route, clean up after a node | opening is two steps; SIDs are clock readings; stale pids |
| node cleaner, `mongoose_cleaner.erl` | none | on `nodedown` run the cleanup hooks | a node that is back before the cleanup |
| offline, `offline/` | stored messages, per-user limit | store, pop on presence | pop racing a store |
| presence and roster, `mod_presence.erl`, `roster/` | subscriptions and their pending states, directed presences | subscribe, approve, broadcast | two users change the same subscription at once |
| MUC, MUC Light, `muc/`, `muc_light/` | room processes; affiliations in a store | join, roles, affiliations, destroy, hibernate | concurrent affiliation changes; stop of a room with a message on its way |
| archive, inbox, markers, `mam/`, `inbox/`, `smart_markers/` | rows, counters, newest marker | asynchronous, batched writes, lookups | reordering and merging of writes, retries |
| async pools, `async_pools/` | queue of a worker, flush timer | put, flush, retry | a timer racing a full batch |
| BOSH, `bosh/` | rid window, held requests, pending elements, cached responses, three kinds of timers | request, send, wait timeout, inactivity, pause, close | requests out of order and twice, lost responses, timers that have already fired |
| s2s, components, `s2s/`, `component/` | outgoing queues, dialback keys, registered domains | connect, verify, bounce | both directions at once, timeouts |
| global distribution, `global_distrib/` | mapping cache, bounce queue, connections | route, bounce with a TTL, refresh | stale caches, endless bouncing |
| domains, `domain/` | settings and event tables, in-memory core and loader state of every node | insert, delete, enable, disable, cold load, follow the log, clean the log | gaps in the event sequence, commits out of order, restarts in the middle of a load, events removed before they are read |
| discovery, cluster id, `mongoose_cets_discovery_rdbms.erl`, `mongoose_cluster_id.erl` | rows of nodes with timestamps | register, expire, read | two nodes starting at once, clocks |
| authentication, `auth/`, `sasl/`, `fast_auth_token/` | credentials, tokens | SASL steps, token rotation | use of an old token during rotation |
| privacy, push, carbons, CSI, ping | lists, registrations, flags and timers of a session | one handler each | buffered stanzas at a state change |
| pubsub, vcard, upload, SIP, admin API, configuration, metrics, pools | stores or pure functions | request and response | little concurrency of their own |

### What makes the core correct

* A stanza for a session with stream management is delivered once and in
  order, or given back to the router, whatever happens to the connection.
* A stanza of the client is processed once.
* A full JID is held by one session; a stream is held by one process; these
  and the registry of SMIDs agree.
* A message on its way to a user is always somewhere, and comes to rest.
* Sessions that nobody resumes end; a process that waits for another goes on.
* Every node serves the enabled domains of the table and no others, once it
  finds nothing new in the log.
* The bodies of a BOSH client are processed once and in order, and it gets every
  stanza once and in order, over connections that fail.

`PROJECT.json` lists the places at which each of these could fail ("hazards")
with the properties that would show it.

## 2. What is modelled

| module | content |
|---|---|
| `ReliableStream` | what a stream promises, without counters, buffers or connections |
| `StreamMgmt` | one stream: `sm_state`, timer, socket, client; implements `ReliableStream` |
| `SessionManager` | the sessions of a user on several nodes, their table, message routing |
| `SmHandover` | resumption as a protocol between processes; refines the one step `Resume` of `StreamMgmt` in time, and takes sessions of one full JID from `SessionManager` |
| `DomainSync` | the database of domains with its event log, and the loader of every node that follows it |
| `Bosh` | the process of a BOSH session between HTTP requests and c2s |
| `MC...` | instances for TLC |
| `StreamMgmtProofs` | theorems about `StreamMgmt` that need only the server's side: types, buffer, counter, the watch on an over-full buffer |
| `StreamDeliveryProofs`, `StreamInboundProofs` | what the two directions of a stream guarantee; the refinement of `ReliableStream`; how long a session stays detached |
| `SessionManagerProofs`, `DomainSyncProofs`, `BoshProofs` | theorems about `SessionManager`, `DomainSync` and `Bosh` |
| `SmHandoverProofs`, `SmHandoverCopyProofs` | who holds a stream; where a message is during a handover |

A definition that starts with `Bad` is a wrong variant of the definition that
follows it. It is used by no specification: it stands for a plausible mistake,
and `PROJECT.json` ("mutants") says which property it would break.

### StreamMgmt

The state of the process is `c2s` (the states `session_established`,
`resume_session` and the end), `smState` and the fields of `#sm_state{}`, the
timer `{timeout, mod_stream_management}` (what it will deliver and when) and
the mailbox. The socket has two sequences of elements and can be up, cut (not
noticed by the server) or closed. A client counts what it receives, answers
`<r/>`, keeps what it sent until it is acknowledged and sends it again after a
resumption. A stanza of the stream is its position, and the buffer is kept
oldest first. All counting is modulo the constant `HMax + 1`, `2^32` in the
source.

One action stands for one handler with its hooks: `HandleRoute` is
`user_receive_packet` and `xmpp_presend_element`, i.e. buffering, the check of
the limit, the write and the ack request; `HandleA` is `handle_a` to
`finish_handle_a`; `EnterResume` is what `handle_user_stopping` makes of a stop
request or of a closed socket; `Terminate` is `terminate/3` with
`reroute_unacked_messages`. `age` is a history variable: the time since the
session became detached, which goes on when `EnterResume` finds it detached
already. Four details of the source that the model keeps:

* `stop` is a request, which a session with an `sm_state` answers by becoming
  detached, with its socket still open; `hard_stop` and `{exit, _}` end the
  process.
* Both uses of the timer have the same name, so that one cancels the other.
* `handle_user_stopping` starts `resume_timeout` again for a session that is
  detached already, at every stop request and when the socket closes.
* `recover_messages` keeps messages of the mailbox and drops other stanzas.

Left out: `stale_h`, the `<delay/>` elements, the duplicate test of
`prevent_buffer_duplication` (every stanza is different here), inline enabling
with SASL2, and the check of `user_receive_packet` for conflicts between
sessions, which a single stream has no use for and which is in `SmHandover`
(`SessionManager` too speaks of `ejabberd_sm` and `c2s` without stream
management). The bound in `RouteIn` keeps fewer than `2^32` stanzas outstanding:
with more, `h` does not determine what was received.

### SessionManager

A row is named by its process. `open_session` is `SetSession` and
`ReplaceSessions`, since other processes run between the write of the row and
the reading of the table. A `SID` is a clock reading: `Connect` picks any number not in
use, so that the order of SIDs is no order of events. The end of a session is
`CloseSession` (the row), `BounceMessage` (one at a time, each routed before
the next) and `Finish`. Routing is `LookUp` and one `SendTo` for every
receiver, in the sender's process or in the terminating one; `RouteTargets`
follows `do_route`, `do_route_offline` and `route_message`. `Crash`,
`NodeCleanup` and `Restart` are the node events; the cleanup removes rows by
node name. `{exit, {replaced, _}}` is delivered as a message to the replaced
process, whose mailbox is in order.

Abstracted: the payload of stanzas, session info, hooks that only observe, the
types of messages other than `chat` (they end in the same place or in an error
reply).

### SmHandover

The processes of one full JID are numbers, in the order of their SIDs. The
resume call is `ResumeRequest` (look up the SMID, send the call),
`HandleResumeCall` or `RefuseResumeCall` on the old process, and `CallFails`
or `CallTimeout` on the new one; a reply that comes after the timeout is
dropped by the alias of the call, and the stream with it. The new process then
writes its row, replaces others and registers the SMID, while the old one
closes its session, unregisters (read, then delete), reroutes its buffer and
bounces its mailbox. `Backend` chooses between the registries: a table indexed
by SID (Mnesia) or two entries for a session (CETS). `delivered` means
acknowledged, or written by a session without stream management. `Places`, the
places at which a message is, counts the buffers and mailboxes of living
processes only: what a process still has when it ends is gone. What
`recover_messages` takes out of a mailbox (`Payloads`), and what it leaves
(`Others`), is defined by the ranks of positions and not by recursion, so that it
can be reasoned about.

Before a routed message is delivered or buffered, `user_receive_packet` checks
where it came from. `origin` is the process whose client sent it (`origin_sid`,
which a reroute keeps), `resumedFrom` the process that a process resumed (the
`{sid, _}` in its peer). `Conflict`, the translation of
`is_conflict_incoming_acc`, holds for a message of another session of the same
full JID, and `HandleRoute` then drops it; `dropped` records by whom. Messages
that are handed over in a resumption (`recover_messages`) and those in the
buffer are not checked. The second half of the source's condition,
`receiver_sid`, is set for iqs and presences only, when they are rerouted, and
these are not modelled.

Simplified: `do_remove_smid` runs twice for a detached session and the second
time finds nothing; a mailbox is bounced in one step, and the messages of it
are then routed in any order.

### DomainSync

A transaction of `mongoose_domain_sql` is `Select` (what it reads), `Write` (it
draws an event id, and waits for another writer of the same row) and `Commit`
or `Abort`: ids become visible out of order, and an abort leaves a hole for
ever. The database is external and assumed to give what the code relies on, in
the words of `fix_gaps`: "only one insert for a key succeeded".

The loader of a node is a program counter over its queries, because the tables
change between them. `InitialLoad`, `ColdGaps`, `LoadRow` and `LoadDone` are the
cold load, `CheckForUpdates` and `FetchPage` a page of the log, `InsertDummy` and
`ReadGap` a round of `fix_gaps`, `EndRun` the writing of the loader state.
`fresh` is the set of core entries whose source is the running process, which
`remove_outdated_domains_from_core` spares. `QueryFails` is a query that is not
inside one of the two `catch`es: the process crashes, and its successor finds the
loader state and the core as they were. `LoadFails` and the detection of a
truncated log put `reset_and_shutdown` in the mailbox and go on.

Two assumptions are explicit in the module. `AgedOut` is what `event_max_age`
(two hours) is for: when the cleaner removes events, no transaction or loader
run that old is under way, and only one node at a time has missed them. `Fragile`
names the two places at which a failed query does harm; `FaultsAnywhere` chooses
whether it may happen there. Left out: static domains, host types that a node
does not know, domain admins, the crash of the core itself.

### Bosh

`s` is `#state{}` with the name of the state; a handler of an event is an
operator from states to states (`HandleStreamEvent`, `SendOrStore`,
`ReturnSurplusHandlers`, ... named as in the source), which collects the messages
for the HTTP handlers in `reply`, and `Finish` ends the step: it delivers them
and, if the process stops, closes the handlers that `terminate` sees, which after
a crash are those of the state before. One action is one message: `Arrive` (a
request), `WaitTimeout`, `InactivityTimeout`, `AccOff`, the elements of c2s and
its `close`. A timer that fires puts its message in the mailbox in a step of its
own (`WaitFires`, `InactivityFires`), so that an event can come in between; the
cancellation of a timer does not take the message back. The list of handlers is
kept as the code has it and sorted where the code sorts it (`Sorted`, by rid and
then by the reference of the timer, each handler at its `Place`); the loops that
answer handlers one after the other are the recursive function in `Returned`.

The client and the network are external: a client that keeps to the window of
two requests, connections that break before the request arrives, while it is
held, or with the response, and requests repeated afterwards. A request of a
broken connection is either handled before it is repeated or never. c2s answers
stream starts, sends numbered stanzas, ends the stream and closes. `doubled` says
that a repeated request met an open one in one of the ways of `Doubles`: its own
first copy was held, it had been answered before its turn, or the server held an
earlier request, to which `resend_cached` would give its response (section 5
says what happens then).
Left out: acknowledgements and reports (`client_acks`), the lengths of `wait`,
`hold` and `inactivity`, a session with `inactivity = infinity` (which has no
inactivity timer), and the table of sessions.

### Fairness

`TimerFairness` (StreamMgmt): time passes and the event of an expired timer is
handled; the Erlang runtime gives both. `SessionManager!Fairness` and
`SmHandover!Fairness`: a process with a message it can handle, or inside a
handler, is eventually scheduled; this is the fairness of the Erlang
scheduler. In `SmHandover` a caller also learns of the death of the process it
calls, from the monitor of `gen_statem:call`. Clients, routers of new messages,
cuts, crashes and restarts are never assumed to act, and `CallEnds` does not
use the timeout of the call. `DomainSync!Fairness`: a transaction ends (the
database drivers have timeouts), a loader runs (it is woken up every 30 seconds)
and handles the messages in its mailbox. `Bosh` is checked for safety only.

## 3. The runs

Every run stops at the bounds on inputs of its configuration, hence
`CHECK_DEADLOCK FALSE`.

| run | instance | states | shows |
|---|---|---|---|
| `SmStream` | `HMax = 3`, 5 stanzas to and 2 from the client, 2 cuts, a stop, limit of 1 unacknowledged stanza | 1.1 million | `counter_out` counts what was acknowledged (`CounterOutIsAcked`); to the client nothing is lost (`NoSilentLoss`), repeated or reordered (`InOrderOnce`); a correct ack is accepted (`HonestAckAccepted`); an over-full buffer has a timer (`OverfullIsTimed`); from the client each stanza is processed once and in order (`InboundInOrderOnce`) or still with the client (`NoInboundLoss`); refinement of `ReliableStream` |
| `SmDetached` | `HMax = 2`, 4 stanzas, a buffer of 1, any `h` in two acks or resumptions, a second `<enable/>`, a stop, a cut; fair timers | 300 000 | `TypeOK`, `BufferIsTail`; a detached session is kept for one `resume_timeout`, one more for each stop request or misdeed, and one check for each stanza above the limit (`DetachedTimeBound`); it ends (`DetachedEnds`) |
| `SessRoute` | 3 processes on 2 nodes, 2 resources, limit of 2 sessions, a crash, a message | 650 000 | `TypeOK`, `OneSessionPerResource`, `OpenIsRegistered`, `NoMessageVanishes` |
| `SessLive` | 2 processes, limit of 1 session, 2 stops, a presence, a message; fair | 84 000 | `ConflictEnds`, `MessagesSettle` |
| `HandoverChain` | 3 processes, CETS, a message that the client of the first sends to its own full JID, a call that times out | 1.4 million | `ExactlyOneCopy`, `OneHolder`, `NoDanglingSmid`; the conflict check spares the messages of the own stream (`OwnMessagesPass`) |
| `HandoverLive` | 2 processes, Mnesia, a message, a timeout, a bad `h`, 2 stops; fair | 106 000 | `TypeOK`, `ExactlyOneCopy`, `OneHolder`, `CallEnds` |
| `DomSync` | 2 domains, 1 node, 2 clients, 3 event ids, pages of 2, a failed query, a cleaning of the log; fair | 330 000 | `TypeOK`; a node that finds no new updates has the table's domains (`InSync`); no event can appear in a range it has read (`RangeIsFinal`); it comes to be in sync (`EventuallyInSync`) |
| `BoshSession` | 4 requests, one of them a restart or a pause, 2 stanzas, a broken connection, a wait timer that fires | 1.2 million | `TypeOK`, `InboundOnce`, `NoStanzaLost`, `RepeatIsSafe`, `IdleIsTimed`, `PromptDelivery`, `HeldIsTimed`; what `bosh_wrap` fails over (`WrapFails`) |
| `SmHWrap`, `SmSharedTimer`, `HandoverSmidCets`, `DomFirstLoad` | | | counterexamples, see section 5 |

Why these bounds are enough to be interesting:

* With `HMax = 3` the counters wrap after four stanzas; five stanzas and two
  cuts give a wrap before, during and after a resumption. Only two stanzas come
  from the client, since `counter_in` wraps at the wrong place (see section 5).
* `BufferMax = 1` makes the buffer over-full with two unacknowledged stanzas.
* Three processes are the smallest number in which two conflict with a third,
  or in which a stream is handed on while it is still being handed over; two of
  them share a node, so that a crash takes two, and a cleanup meets sessions
  of both nodes.
* `Senders` bounds who sends the messages. With three processes it is the first
  one: a stream that is resumed twice starts there, and so does a session that is
  replaced, and its message can stay in the router while the other two come and go.
  In `HandoverLive` each process, and another user, may be the sender. Three processes
  with any sender were explored as well (5.7 million states, without failures), and so
  was the registry alone, without messages, with two timeouts and a stop (2.0 million);
  they are too slow for a regular run.
* One message is enough for the properties on messages, which speak of each
  message by itself; order within a buffer is a property of `StreamMgmt`.
* Three event ids let a transaction stay open below and inside a range that
  has been read, with a page boundary after two; one retry of `fix_gaps` makes
  its exhaustion reachable with one failure. Nodes only meet through the
  database, where one sees dummy events of another; an instance with two nodes
  and one domain (1.7 million states) was explored as well, without failures,
  and is too slow for a regular run.
* Four requests are the first one and a window that moves on twice, so that the
  cache of two responses overflows; with one broken connection each of them can
  be lost, held or repeated. All properties also held with two broken
  connections and one stanza (2.7 million states), and with three requests, two
  broken connections and two timers that fire (1.2 million states).
* `SmDetached` has an over-full buffer, a stop request, misdeeds and a socket
  that closes later, hence everything that starts the timer again.
  `SmSharedTimer` checks the single `resume_timeout` of the documentation, and has
  no stop request.

The processes of a node, and the resources, are interchangeable in
`SessionManager` (symmetry). The instances of `SmHandover` are ordered and have
none. No symmetry is used with liveness.

## 4. The proofs

A theorem holds for every value of the constants that satisfies the assumptions
of the module (`SmAssumption`, `SessionAssumption`, `HandoverAssumption`,
`SendersAssumption`, `DomainSyncAssumption`, `BoshAssumption`: types and ranges of configuration values, finite sets of
clients, different names for different things; `JobNames`: the jobs of
processes and of messages are told apart; `ProcsFinite`) and, where the theorem
has one, its own condition.

**Types** (`TypeCorrect`, `SessionTypes`, `HandoverTypes`, `DomainTypes`, `BoshTypes`). One
step for each action. The types of `DomainSync` are not inductive by themselves:
`DomTypes` adds that ids are left for the transactions that have yet to draw one
(`EnoughIds`) and what a loader has at each place of its program (`Fits`). Those of
`SmHandover` need that nobody who sends messages knows a process that has not
opened its session.

**The buffer** (`BufferCorrect`). `BufferIsTail` is inductive together with
`TypeOK`: an acknowledgement that is accepted drops between none and all of the
buffer (`ToDropRange`), and what it leaves is a shorter tail of the stream
(`TailAfterAck`). Nothing is assumed of the client.

**The counter** (`CounterOutCorrect`). `CounterInv` adds that nothing is
counted before `<enable/>` (`NothingBeforeEnable`) and that an honest client
puts only remainders on the wire (`AcksInRange`). The arithmetic is in `ModUp`
and `ModWrap`: with or without a wrap, `calc_to_drop` is the distance that
takes a number of remainder `counter_out` to one of remainder `h`.

**The over-full buffer** (`OverfullWatched`). The strengthening says that a
detached session always has a timer (`DetachedIsTimed`) and that "just resumed"
is a phase of a living session (`QuietIsOn`).

**The resume timeout** (`DetachedNotLonger`). A detached session is not removed
after `resume_timeout`, as section 5 shows, but it is after a time that grows
only with what starts the timer again (`DetachedTimeBound`). `BudgetInv`: the time
it has been detached and the time left of its timer add up to no more than the
timer was given since (`Budget`), namely a `resume_timeout` for each stop request,
each misdeed of the client and the end of the connection, and a `CheckTimeout` for
each stanza above `BufferMax`. The proof is in `StreamInboundProofs` since it
needs that a session whose socket was closed is detached for good (`WireDown`) and that
a correct ack is not refused (`DeliveryInv`), which would detach a session
without a reason that is counted; this is also why there has to be a
buffer.

**To the client** (`DeliveredInOrderOnce`, `NothingLost`, `HonestNeverRejected`).
`DeliveryInv` relates the server, both directions of the wire and the client.
`Position`: the client has the first stanzas of the stream, as many as its `h`
says; those on the wire come next and, while the session is attached, they are
all of the rest (`Carries`); the acknowledgements under way lie between
what is acknowledged and what the client has, later ones not below earlier ones
(`Acks`). `Enabling`: `<enabled/>` separates the stanzas that are counted from
those before it. `Window`: at most `HMax` stanzas are outstanding, so that an `h`
determines the stanza it stands for (`ModDistance`). The decisive cases are the
resumption, where the buffer starts where the client stopped, and
the end of the process, where the whole rest is rerouted. The properties
are about a buffered stream and a client that has sent no wrong `h`.

**Refinement** (`StreamImplementsReliableStream`). With a buffer and an honest client
(`MaxBadAcks = 0`), every step of `StreamMgmt` is one of `ReliableStream` or
changes nothing there; the invariant is `DeliveryInv` with `Unbuffered`.

**From the client** (`ProcessedInOrderOnce`, `NothingLostInbound`). `InboundInv`
adds to `DeliveryInv` what the server has processed (`Counted`), that the answer
to `<resume/>` is the first thing a resuming client gets and tells exactly that
(`Waiting`), and that the wire carries the rest (`InFlight`). It cannot stand
without `DeliveryInv`: a correct `<a/>` that is refused would detach a
session with its socket open. Conditions: `BufferOn`, for that reason,
and `MaxIn < HMax`, since `incr_counter` wraps at the wrong place (`SmHWrap`); as
in the properties themselves, there is no stop request.

**One session for a full JID** (`OneSession`). The property is about settled
states, so the invariant has to say why an unsettled one will not settle
wrongly. `ConflictsHandled`: of two rows for one resource, the one with the
smaller SID has an exit in its mailbox, or one of the two processes has yet to
look at the table, or it belongs to a node that will be cleaned. It needs that
SIDs differ (`SidsDiffer`), which rows there are (`RowsInv`) and what a node
that is down implies (`NodesInv`). The decisive case is `ReplaceSessions`,
where the process that looks sees every row that was written before. The same
invariant gives `LiveSessionsRegistered`: no step but its own removes the row of
a live session. `MessagesStay` (`NoMessageVanishes`): every step that takes a
message out of a router or a mailbox puts it somewhere else.

**One holder of a stream, no dangling SMID** (`StreamHasOneHolder`,
`RegistryHasNoDangling`). `HandoverInv` says for every process in a call that
it calls a process of the stream it asks for (`CallsRight`), for every SMID
that it leads to a process of that stream (`SmidsRight`), and for every process
about to delete an SMID that it read its own (`FoundRight`). That a stream
changes hands in a single step (`HandoverAnswered`), and that a reply nobody
waits for makes no new holder, gives `OneHolder`. Both registries are covered
by one proof.

**One copy of a message** (`MessagesInOnePlace`). `ExactlyOneCopy` counts places,
which no step of a proof can do directly. `CopyInv` says instead, with a box for
each place, that a message that was sent is in exactly one box (`Sorted`) and once
in it (`Single`); then each action is a move of messages from boxes to a box, and
the lemmas `SortedStays`, `SortedMove` and `SortedHandover` cover all of
them. Three facts are needed for the moves to be right: a process that has
not opened its session is known to no sender (`EarlyIsUnknown`), so its mailbox is
empty when a buffer is handed to it; a process that gave its stream away has
an empty buffer, and one that ends has nothing left (`Emptied`); and `HandoverInv`,
which says who answers whom. The step from boxes to the cardinality of `Places` is
`OnePlace`. That the messages taken out of a mailbox and those left in
it are all of its content rests on `Ranks` and `PickedSeq`. Both registries, any
number of processes and messages, any mix of stops, refusals and timeouts.
The set that each process dropped as a conflict is a box as well.

**Own messages** (`OwnMessagesAreNotDropped`, property `OwnMessagesPass`). A client
may send to its own full JID, and the message may meet the process that resumed
the stream. `Lineage` says how the
processes of one stream are related: one of them has not handed the stream over, it
resumed another one, and all older ones were resumed before that (`ResumedRight`,
`OneNewest`, `OlderResumed`). So a process that drops a message of its own stream
resumed a process that is not the origin and that had itself resumed one.
`OriginsOpen` and `DropsOpen` say that the origin of a message, and a process that
dropped one, were established and are past the point at which they could join a stream. Nothing
follows for a stream that was resumed twice, and such a message really is dropped
(section 5).

**A range that was read is final** (`RangesAreFinal`). An id that was drawn and
that no transaction holds is `Final`: nobody will add an event with it, except for
a dummy. This is stable, since a transaction gets a new id. `RangeInv`
says that an id of the range a run works on is still to be looked at (`Open`: in
the page to read, below it, or a gap) or final, and with `LogInv` (the id of a
transaction is its own, below the sequence and not in the log) that an id found
in the log is final; so is one for which `InsertDummy` succeeded or met another
event. The proof covers every interleaving of transactions, nodes, crashes,
retries and cleanings of the log.

**A node that is up to date has the table's domains** (`NodesInSync`). The
condition is that no query fails at one of the two `Fragile` places
(`~ FaultsAnywhere`); with it the theorem is about any number of nodes, clients,
domains, page sizes, crashes and cleanings of the log. `InSync` is about the
quiet moments only, so `SyncInv` says of every node and domain why the core may
differ from the table at all others. `Synced`: unless the cold load has yet to
look at the domain (`Unloaded`), the entry that the run would leave (`Entry`) is
what the table has; or a reset is in the mailbox (`cast`); or the log has an event
of the domain that the loader has neither applied nor covered by a row it read
(`Waits`, `SeenIds`); or such an event was removed and the node will find out,
since the log begins after the last id it has read and nobody adds an event below
(`Behind`). `Kept` says that a cleaning leaves an event in the log. A row that
changes does so with an event, which nobody has seen (`SyncTransaction`); an event
that is read is applied with the row of the same moment; an id that is passed
over is final, by `RangeInv` (`SeenIsFinal`); and the cleaner leaves at most one
node behind, by `AgedOut` (`MissedIsAfter`, `SyncRemoval`). TLC checked `SyncInv` on 1 node (330 000
states), 2 nodes (770 000) and 1 node with 4 ids, 2 failures and 2 removals (1.3
million) before it was proved. The proof found one flaw of the model: two arms of
the `CASE` in `Unread` overlapped, of which TLC takes the first and
TLA+ promises nothing.

**A BOSH session** (`BoshInboundOnce`, `BoshIdleIsTimed`, `BoshHeldIsTimed`,
`BoshPromptDelivery`, `BoshWrapFails`). The handlers of events are functions from states to
states that call each other, so the proofs go along relations between the state
before and after one of them. `Sends(t, u)`: handlers were answered, each once,
and nothing else happened. `Handles(t, u)`: and requests may have been forwarded,
or the process is to stop. Both are composed as the operators are
(`SendsMore`, `HandlesMore`), so that there is one lemma for an operator
(`SendsPending`, `ReturnsSome`, `SendsSurplus`, `HandlesPause`, `HandlesDeferred`,
`HandlesEvent`), and one for `Finish` (`FinishStep`), which all actions share. Under
them lie facts about sorted handlers (`PlaceIs`, `SortedIs`, `PickIs`), about the
merged cache (`CacheIs`) and about the recursive function in `Returned`, which is
shown to exist and is unfolded once (`ReturnedIs`). `SessionInv` is `TypeOK` with
the connections of the handlers and of the messages (nobody is answered twice),
the forwarded and the deferred requests, and the timer of a session without
handlers. `HoldInv` for `BoshPromptDelivery` adds that a request is ahead of
its turn only if it is the one that is deferred (`AheadIn`): without that,
`return_surplus_handlers` could find a handler which it may not answer and
leave something pending although another one could take it. The theorem covers
all states of the process as far as its statement does: that a request which
could take a stanza is held alone, and that two are held only as two copies of
the deferred one, is for every state; that nothing waits is for `normal` only, as
elements do wait in `accumulate`, which is its purpose, and in `closing` (section
5). `BoshWrapFails` is about the steps in which `bosh_wrap` has no clause. `Wraps(t, u)`
says that it failed between `t` and `u` only if two stream events were pending in
`t`, and that none came together; it is composed along the same operators, with
`OneEvent` for what is sent alone. What c2s sends in a step is
added to what is pending only if no request can take it, by `HoldInv`; and an
event after a stream end does not occur (`EndLast`), hence one of the two is a
start (`StartIsThere`). No condition on the client is needed.

**The stanzas of a BOSH session** (`BoshRepeatIsSafe`, `BoshNoStanzaLost`). Both
hold as long as no repeated request met an open one (`Doubles`: its own first copy,
an earlier request, or its own copy that was answered before its turn); that is the
common case of a client that reconnects while the server still holds its request, so
the theorems say what holds until then and section 5 what can happen
afterwards. `RepeatIsSafe` leaves the failure of `bosh_wrap`, which does not depend
on repetitions, to `WrapFails`. Both theorems need the same invariant. `WindowInv` is the client's side:
a request without an answer is one of its last two (`Window`), all but the last
one are normal requests, and one transmission at most of a request is under way.
`FineInv` ties the process to it. `Tidy`: the cache is in the order of the rids,
the requests that wait are different ones and neither answered nor cached.
`Blank`: nothing was told to requests that were not processed, nor to those from
the first one on that waits. `Line`: what the client was told, or is told if it
repeats a request (`Told`), and then what is pending, are the stanzas in order.
`Cover`: a request of the window that was processed or deferred (`Seen`) waits
or is cached, and one that was not has no response. `Linked`: a response on its
way is the cached one, and a wait timer that has fired finds its handler or none.
`RepeatIsSafe` follows because a request that arrives is the next one, the one
after that, or cached with nothing before it (`ComesInTurn`): `Cover` and
`Window` leave nothing else, and `Blank` is why a response given to the first
request that waits, which `pick_handler` chooses, goes behind all that was told
before. `Keeps(t, u, g)` is the relation of the answers that the process gives in a
step, composed along the operators as above (`KeepsOne`, `KeepsReturned`,
`KeepsPending`, `KeepsSurplus`, `ComesEvent`): the cache never drops a response of
the window, since it holds as many as the window (`CacheKeeps`), and answering the
first request moves the line but does not break it (`LineMoves`). TLC checked the
invariant on instances of up to 4 requests (1.2 million states) before it was
proved.

Only model-checked: everything under
fairness (`DetachedEnds`, `ConflictEnds`, `MessagesSettle`, `CallEnds`,
`EventuallyInSync`), which is out of the prover's reach.

## 5. Where code and documentation disagree

Four disagreements are kept as runs in which TLC finds a behaviour of the
model against a sentence of the documentation; `PROJECT.json` ("findings") has
the quotations.

| run | what happens |
|---|---|
| `SmHWrap` | `incr_counter` goes to 0 after `2^32 - 2`: after the wrap the server's `h` is one too high |
| `SmSharedTimer` | the check of an over-full buffer cancels the resume timeout of a detached session |
| `HandoverSmidCets` | the old process deletes the record that the new one has written: the resumed session cannot be resumed again |
| `DomFirstLoad` | the first cold load of a node crashes in `fix_gaps` after filling the core: the next process takes the core for empty and keeps a domain that was disabled meanwhile |

Others are visible in the models as exceptions in the properties, or as
transitions that a reader may not expect:

* The socket of a session that a stop request has detached stays open; when it
  closes, `resume_timeout` starts again, and the session stays detached for almost
  twice as long. With `MaxStops = 1` and a buffer that is never over-full TLC finds
  this against `DetachedTimeLimit` too (`StopRequest`, ticks, `Cut`, `SocketClosed`, a
  tick): it is the same sentence of the documentation as in `SmSharedTimer`. What does hold
  is `DetachedTimeBound`.
* With `buffer = false` a correct acknowledgement is refused
  (`BufferOn` in `HonestAckAccepted`).
* After a stop request (a ping timeout with `timeout_action = kill`) the socket
  stays open, and stanzas that still arrive are acknowledged and dropped
  (`stops = 0` in `InboundInOrderOnce` and `NoInboundLoss`).
* Stanzas forwarded by a resumption are followed by no ack request (`ResumeOk`).
* Processes that open sessions at the same time evict the same oldest session,
  and the user stays above `max_user_sessions` (`CheckMaxSessions`).
* A new connection whose SID is smaller than that of the old one tells itself
  to go (`CheckExistingResources`).
* A node that is back before its cleanup loses the rows of live sessions
  (`early` in `OneSessionPerResource` and `OpenIsRegistered`).
* With Mnesia too the old process may delete the record of the new one, if the
  registration falls between its read and its delete (`UnregisterRead`,
  `UnregisterDelete`).
* A message bounced by the old process before the new one has written its row
  is stored offline while the stream lives on (`BounceMessages`, `LookUp`).
* The buffer of a replaced session is sent to its replacer even when that one
  has ended (`RerouteBuffer`).
* A message that a client sent to its own full JID is dropped, neither delivered
  nor stored, if it meets a process that did not resume its session directly: one
  that replaced it, or one that resumed what had resumed it (`Conflict`, `HandleRoute`,
  the exception in `OwnMessagesPass`). The check is meant for the race of a
  reconnection.
* The request to reset the domains of a node is lost if its process crashes
  before handling it and after setting its state (`cast` in `Fragile`).
* A node that has only seen an empty event log and is cut off for longer than
  `event_max_age` does not notice what it missed; nor may the second of two such
  nodes, since the first one inserts dummy events that lower the minimum
  (`AgedOut`).
* `set_status` may overwrite `deleting` (`Proceeds`, `Write`).
* A BOSH request repeated while the first copy is held gives two handlers with
  one rid: an empty response may go to the live connection and the next stanza
  to the dead one, and a second copy of a deferred request is held beside it and
  ends the session (`doubled` in `NoStanzaLost` and `RepeatIsSafe`, the second
  conjunct of `PromptDelivery`). No property says what a client still gets then.
* A request that is ahead of its turn can be answered by a wait timeout, and its
  response is cached. If that is lost and the request is repeated when the one
  before it has just arrived, `resend_cached` gives the cached response to the
  first handler in order, which is that of the request before. Its own response is
  then not cached: if it is lost as well, its repetition is refused with an
  invalid rid (`ResendCached`, `Doubles`).
* A wait timeout finds the other handler of such a rid, for which there is no
  clause: the process crashes, and the request it is handling at a crash is
  never answered (`WaitTimeout`, `HeldIsTimed`).
* A stream start and a stream end that wait together have no body: the process
  crashes (`NoBody`). No repeated request is needed: `WrapFails` says when it
  happens.
* A `close` during accumulation leaves the pending elements waiting beside a held
  request that could take them, until the next request, since `acc_off` is ignored
  in `closing`; the wait timeout answers with an empty body (`AccOff`,
  `WaitTimeout`, the exception in `PromptDelivery`).
* An inactivity message that is already in the mailbox ends a session that has
  just made a request (`InactivityTimeout`).

For `NoMessageVanishes` and `ExactlyOneCopy` a message that is sent to a dead
process, or that is part of a reply that came too late, counts as lost and not
as vanished: the source says "we will lose message if PID is not alive". In
`ExactlyOneCopy` a message that the conflict check dropped counts as dropped, by
the one process that did it.

## 6. What is not modelled, and the plan

Out of scope for good: transports and sockets, XML parsing, cryptography, SQL,
the replication inside Mnesia and CETS, configuration parsing, the
administration interfaces and metrics (see the notes in `PROJECT.json`).

The JavaScript files under `doc/` and `big_tests/priv` are copies of third-party
libraries for the documentation and the test reports; the server is written in
Erlang.

Done: `ReliableStream`, `StreamMgmt`, `SessionManager`, `SmHandover`, `DomainSync`
and `Bosh` with their proofs. Order of the further work:

1. `C2sLogin`: the states of `mongoose_c2s` before a session, with retries,
   SASL2 and the ways to an open session; theorem: no session without
   authentication and bind.
2. `Roster`: the subscription states of both users of a pair, with requests
   that cross; abstract specification: the table of RFC 6121.
3. `MucLight` and `MucRoom`: affiliations and roles; a room keeps an owner.
4. `AsyncWorker`: batches, timer and retries, then `Inbox` and markers on top:
   counters under merged writes.
5. `Offline`: limit and pop, composed with `SessionManager`.
6. `CetsDiscovery`: node numbers, expiry.
7. `GlobalDistrib`: bounce with a TTL, stale mappings.
8. Privacy lists, CSI, carbons, push, FAST tokens, s2s dialback.

Every safety property that a run finds to hold is a theorem. The `stale_h`
table and the SASL2 path of resumption belong to `SmHandover`.
