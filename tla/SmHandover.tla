----------------------------- MODULE SmHandover -----------------------------
(***************************************************************************)
(* The resumption of a stream as the c2s processes of one full JID carry   *)
(* it out: the registry of SMIDs, the call in which the old process hands  *)
(* its sm_state to the new one, the row of the session table that moves,   *)
(* the steps of terminate, and the messages routed meanwhile.              *)
(*                                                                         *)
(* A process is a number: the order of numbers is the order of SIDs. The   *)
(* SMID that a process generates has the number of the process. Only       *)
(* messages are modelled, not iqs and presences (which a reroute binds to  *)
(* the SID of the process that had them); a socket is not: what the client *)
(* acknowledged counts as delivered.                                       *)
(***************************************************************************)
EXTENDS Integers, Sequences, FiniteSets

CONSTANTS
    Procs,
    Messages,
    Senders,        \* bound: the connections of the JID whose clients send
                    \* the messages to it, None for another JID
    Backend,        \* of mod_stream_management: "mnesia" or "cets"
    MaxTimeouts,    \* bound: resume calls that time out
    MaxBadH,        \* bound: resumptions with an h that is too high
    MaxStops        \* bound: streams ended, sockets closed, resume timeouts

None == 0

ASSUME HandoverAssumption ==
    /\ Procs \subseteq Nat \ {None}
    /\ Backend \in {"mnesia", "cets"}
    /\ MaxTimeouts \in Nat /\ MaxBadH \in Nat /\ MaxStops \in Nat

ASSUME SendersAssumption == Senders \subseteq Procs \cup {None}

\* Only so many connections were ever made.
ASSUME ProcsFinite == IsFiniteSet(Procs)

VARIABLES
    \* c2s processes
    pc,         \* "down", "auth" (authenticated), "calling" (in the resume
                \* call), "got" (has the stream), "set" (row written),
                \* "register" (about to register the SMID), "established",
                \* "detached" (resume_session), then the steps of terminate:
                \* "closing", "read", "delete", "reroute", "bounce", "dead"
    sm,         \* the processes that have an sm_state
    buffer,     \* its buffer, oldest first
    previd,     \* the SMID a process resumes or resumed
    callee,     \* whom a process calls
    ref,        \* the number of calls of a process that timed out
    peer,       \* the process that the stream was handed to
    replacer,   \* the process that {replaced, Pid} names
    found,      \* the SMID that unregister_smid read
    mailbox,
    \* tables of the cluster
    table,      \* the processes with a row in the session table
    bySmid,     \* sm_session, and in CETS the entries {smid, SMID}
    bySid,      \* in CETS the entries {sid, SID}
    \* messages
    sent,
    flight,     \* in a router: [m, to, via]; to is None before the lookup,
                \* via is the terminating process that routes it
    delivered, offline, lost,
    \* what user_receive_packet tells conflicts from
    origin,     \* the process a message was sent from, None for another JID
    resumedFrom,\* the process that a process resumed, {sid, Sid} in its peer
    dropped,    \* what a process dropped
    timeouts, badHs, stops

stateVars == <<pc, sm, buffer, previd, callee, ref, peer, replacer, found>>
smidVars  == <<bySmid, bySid>>
msgVars   == <<sent, flight, delivered, offline, lost>>
checkVars == <<origin, resumedFrom, dropped>>
bounds    == <<timeouts, badHs, stops>>
vars      == <<stateVars, mailbox, table, smidVars, msgVars, checkVars, bounds>>

Route(m) == [tag |-> "route", m |-> m]
Exit(p) == [tag |-> "exit", p |-> p]
Call(p, r) == [tag |-> "call", p |-> p, r |-> r]

Live(p) == pc[p] \notin {"down", "dead"}
Serving(p) == pc[p] \in {"established", "detached"}
Set(s) == {s[i] : i \in 1 .. Len(s)}

\* The messages of a mailbox, and what a selective receive of them leaves: the
\* elements at the positions P, in their order.
RoutesAt(s) == {i \in 1 .. Len(s) : s[i].tag = "route"}
Rank(P, i) == Cardinality({j \in P : j <= i})
Picked(s, P) == [k \in 1 .. Cardinality(P) |-> s[CHOOSE i \in P : Rank(P, i) = k]]
Payloads(s) == LET routes == Picked(s, RoutesAt(s)) IN
               [i \in 1 .. Len(routes) |-> routes[i].m]
Others(s) == Picked(s, (1 .. Len(s)) \ RoutesAt(s))
Routes(s) == [i \in 1 .. Len(s) |-> Route(s[i])]
Newest == CHOOSE p \in table : \A q \in table : q <= p

Goto(p, l) == pc' = [pc EXCEPT ![p] = l]
Receive(p) == mailbox' = [mailbox EXCEPT ![p] = Tail(@)]
First(p, tag) == mailbox[p] # <<>> /\ Head(mailbox[p]).tag = tag

(***************************************************************************)
(* The registry of SMIDs                                                   *)
(***************************************************************************)
RegisterSmid(s, p) ==
    /\ bySmid' = [bySmid EXCEPT ![s] = p]
    /\ bySid' = IF Backend = "cets" THEN [bySid EXCEPT ![p] = s] ELSE bySid

\* unregister_smid reads the SMID of a SID first, by the index of sm_session
\* or from the entry {sid, SID},
FoundSmid(p) ==
    IF Backend = "cets" THEN bySid[p]
    ELSE IF \E s \in Procs : bySmid[s] = p
           THEN CHOOSE s \in Procs : bySmid[s] = p ELSE None

\* and deletes by SMID, whatever the record of the SMID has become.
DeleteSmid(p, s) ==
    IF s = None THEN UNCHANGED smidVars
    ELSE /\ bySmid' = [bySmid EXCEPT ![s] = None]
         /\ bySid' = IF Backend = "cets" THEN [bySid EXCEPT ![p] = None] ELSE bySid

(***************************************************************************)
(* Opening a session, fresh or resumed                                     *)
(***************************************************************************)
Connect(p) ==
    /\ pc[p] = "down"
    /\ Goto(p, "auth")
    /\ UNCHANGED <<sm, buffer, previd, callee, ref, peer, replacer, found,
                   mailbox, table, smidVars, msgVars, checkVars, bounds>>

\* open_session from bind, or from do_resume.
SetSession(p) ==
    /\ pc[p] \in {"auth", "got"}
    /\ Goto(p, "set")
    /\ table' = table \cup {p}
    /\ UNCHANGED <<sm, buffer, previd, callee, ref, peer, replacer, found,
                   mailbox, smidVars, msgVars, checkVars, bounds>>

\* check_existing_resources: all rows but the newest are replaced.
ReplaceSessions(p) ==
    /\ pc[p] = "set"
    /\ Goto(p, IF p \in sm THEN "register" ELSE "established")
    /\ mailbox' = [q \in Procs |->
                     IF q \in table \ {Newest} /\ Live(q)
                       THEN Append(mailbox[q], Exit(p)) ELSE mailbox[q]]
    /\ UNCHANGED <<sm, buffer, previd, callee, ref, peer, replacer, found,
                   table, smidVars, msgVars, checkVars, bounds>>

\* The end of do_resume.
ResumeDone(p) ==
    /\ pc[p] = "register"
    /\ Goto(p, "established")
    /\ RegisterSmid(previd[p], p)
    /\ UNCHANGED <<sm, buffer, previd, callee, ref, peer, replacer, found,
                   mailbox, table, msgVars, checkVars, bounds>>

\* <enable resume='true'/>
Enable(p) ==
    /\ pc[p] = "established" /\ p \notin sm
    /\ sm' = sm \cup {p}
    /\ RegisterSmid(p, p)
    /\ UNCHANGED <<pc, buffer, previd, callee, ref, peer, replacer, found,
                   mailbox, table, msgVars, checkVars, bounds>>

(***************************************************************************)
(* The resume call                                                         *)
(***************************************************************************)

\* <resume previd='s'/>: the new process finds the old one and calls it.
ResumeRequest(p, s) ==
    /\ pc[p] = "auth" /\ bySmid[s] # None
    /\ Goto(p, "calling")
    /\ previd' = [previd EXCEPT ![p] = s]
    /\ callee' = [callee EXCEPT ![p] = bySmid[s]]
    /\ mailbox' = IF Live(bySmid[s])
                    THEN [mailbox EXCEPT ![bySmid[s]] = Append(@, Call(p, ref[p]))]
                    ELSE mailbox
    /\ UNCHANGED <<sm, buffer, ref, peer, replacer, found, table, smidVars,
                   msgVars, checkVars, bounds>>

\* The next call in the mailbox of q is one that p made, and waits for.
CallFrom(q, p) == Serving(q) /\ q \in sm /\ First(q, "call") /\ Head(mailbox[q]).p = p
Awaited(q, p) ==
    pc[p] = "calling" /\ callee[p] = q /\ ref[p] = Head(mailbox[q]).r

\* Mutants: the mailbox is forgotten; its entries are not unwrapped.
BadPassedNoRecover(q, n) == SubSeq(buffer[q], n + 1, Len(buffer[q]))
BadPassedRaw(q, n) == SubSeq(buffer[q], n + 1, Len(buffer[q]))
                      \o Picked(Tail(mailbox[q]), RoutesAt(Tail(mailbox[q])))

\* What the old process passes on: the buffer after the acknowledgement of n
\* stanzas, and the messages in its mailbox (recover_messages).
Passed(q, n) ==
    SubSeq(buffer[q], n + 1, Len(buffer[q])) \o Payloads(Tail(mailbox[q]))

\* Mutant: the old process keeps its buffer, and reroutes it.
BadResumeKeepsBuffer(q, p) ==
    /\ CallFrom(q, p)
    /\ \E n \in 0 .. Len(buffer[q]) :
         /\ delivered' = delivered \cup Set(SubSeq(buffer[q], 1, n))
         /\ IF Awaited(q, p)
              THEN /\ pc' = [pc EXCEPT ![q] = "closing", ![p] = "got"]
                   /\ buffer' = [buffer EXCEPT ![p] = Passed(q, n)]
                   /\ sm' = sm \cup {p}
                   /\ resumedFrom' = [resumedFrom EXCEPT ![p] = q]
                   /\ callee' = [callee EXCEPT ![p] = None]
              ELSE /\ Goto(q, "closing")
                   /\ UNCHANGED <<sm, buffer, callee, resumedFrom>>
    /\ mailbox' = [mailbox EXCEPT ![q] = Others(Tail(@))]
    /\ peer' = [peer EXCEPT ![q] = p]
    /\ UNCHANGED <<previd, ref, replacer, found, table, smidVars, sent, flight,
                   offline, lost, origin, dropped, bounds>>

\* Mutant: the old process stays when the stream has been handed over.
BadResumeStays(q, p) ==
    /\ CallFrom(q, p) /\ Awaited(q, p)
    /\ \E n \in 0 .. Len(buffer[q]) :
         /\ delivered' = delivered \cup Set(SubSeq(buffer[q], 1, n))
         /\ buffer' = [buffer EXCEPT ![q] = <<>>, ![p] = Passed(q, n)]
    /\ Goto(p, "got")
    /\ sm' = sm \cup {p}
    /\ resumedFrom' = [resumedFrom EXCEPT ![p] = q]
    /\ callee' = [callee EXCEPT ![p] = None]
    /\ mailbox' = [mailbox EXCEPT ![q] = Others(Tail(@))]
    /\ peer' = [peer EXCEPT ![q] = p]
    /\ UNCHANGED <<previd, ref, replacer, found, table, smidVars, sent, flight,
                   offline, lost, origin, dropped, bounds>>

\* handle_resume_call with an h that acknowledges n stanzas of the buffer. A
\* reply that nobody waits for is dropped, with the stream.
HandleResumeCall(q, p) ==
    /\ CallFrom(q, p)
    /\ \E n \in 0 .. Len(buffer[q]) :
         /\ delivered' = delivered \cup Set(SubSeq(buffer[q], 1, n))
         /\ IF Awaited(q, p)
              THEN /\ pc' = [pc EXCEPT ![q] = "closing", ![p] = "got"]
                   /\ buffer' = [buffer EXCEPT ![q] = <<>>, ![p] = Passed(q, n)]
                   /\ sm' = sm \cup {p}
                   /\ resumedFrom' = [resumedFrom EXCEPT ![p] = q]
                   /\ callee' = [callee EXCEPT ![p] = None]
                   /\ UNCHANGED lost
              ELSE /\ Goto(q, "closing")
                   /\ buffer' = [buffer EXCEPT ![q] = <<>>]
                   /\ lost' = lost \cup Set(Passed(q, n))
                   /\ UNCHANGED <<sm, callee, resumedFrom>>
    /\ mailbox' = [mailbox EXCEPT ![q] = Others(Tail(@))]
    /\ peer' = [peer EXCEPT ![q] = p]
    /\ UNCHANGED <<previd, ref, replacer, found, table, smidVars, sent, flight,
                   offline, origin, dropped, bounds>>

\* handle_resume_call with an h that is too high: both processes stop, the
\* old one with its buffer.
RefuseResumeCall(q, p) ==
    /\ CallFrom(q, p) /\ badHs < MaxBadH
    /\ badHs' = badHs + 1
    /\ IF Awaited(q, p) THEN pc' = [pc EXCEPT ![q] = "closing", ![p] = "dead"]
                        ELSE Goto(q, "closing")
    /\ Receive(q)
    /\ UNCHANGED <<sm, buffer, previd, callee, ref, peer, replacer, found,
                   table, smidVars, msgVars, checkVars, timeouts, stops>>

\* Mutant: only a process that was dead when it was called is noticed.
BadCallFails(p) ==
    /\ pc[p] = "calling" /\ pc[callee[p]] = "dead" /\ bySmid[previd[p]] = callee[p]
    /\ Goto(p, "auth")
    /\ previd' = [previd EXCEPT ![p] = None]
    /\ callee' = [callee EXCEPT ![p] = None]
    /\ UNCHANGED <<sm, buffer, ref, peer, replacer, found, mailbox,
                   table, smidVars, msgVars, checkVars, bounds>>

\* gen_statem:call raises when the called process is dead or dies.
CallFails(p) ==
    /\ pc[p] = "calling" /\ pc[callee[p]] = "dead"
    /\ Goto(p, "auth")
    /\ previd' = [previd EXCEPT ![p] = None]
    /\ callee' = [callee EXCEPT ![p] = None]
    /\ UNCHANGED <<sm, buffer, ref, peer, replacer, found, mailbox,
                   table, smidVars, msgVars, checkVars, bounds>>

\* ... and after 5 seconds without a reply.
CallTimeout(p) ==
    /\ pc[p] = "calling" /\ timeouts < MaxTimeouts
    /\ timeouts' = timeouts + 1
    /\ ref' = [ref EXCEPT ![p] = @ + 1]
    /\ Goto(p, "auth")
    /\ previd' = [previd EXCEPT ![p] = None]
    /\ callee' = [callee EXCEPT ![p] = None]
    /\ UNCHANGED <<sm, buffer, peer, replacer, found, mailbox, table,
                   smidVars, msgVars, checkVars, badHs, stops>>

(***************************************************************************)
(* A session at work                                                       *)
(***************************************************************************)

\* Mutant: the process that was resumed counts as another connection.
BadConflict(p, m) == origin[m] \notin {None, p}

\* is_conflict_incoming_acc: the message comes from a session of this JID that
\* is neither this one nor the one it resumed. What resumed it in its turn
\* knows its SID no more. (No message has a receiver_sid.)
Conflict(p, m) == origin[m] \notin {None, p, resumedFrom[p]}

\* user_receive_packet, which drops a conflict, then xmpp_presend_element.
\* Without stream management a message is written to the socket and forgotten.
HandleRoute(p) ==
    /\ Serving(p) /\ First(p, "route")
    /\ LET m == Head(mailbox[p]).m IN
         \/ /\ Conflict(p, m)
            /\ dropped' = [dropped EXCEPT ![p] = @ \cup {m}]
            /\ UNCHANGED <<buffer, delivered>>
         \/ /\ ~Conflict(p, m) /\ p \in sm
            /\ buffer' = [buffer EXCEPT ![p] = Append(@, m)]
            /\ UNCHANGED <<dropped, delivered>>
         \/ /\ ~Conflict(p, m) /\ p \notin sm
            /\ delivered' = delivered \cup {m}
            /\ UNCHANGED <<dropped, buffer>>
    /\ Receive(p)
    /\ UNCHANGED <<pc, sm, previd, callee, ref, peer, replacer, found, table,
                   smidVars, sent, flight, offline, lost, origin, resumedFrom,
                   bounds>>

ClientAcks(p) ==
    /\ pc[p] = "established" /\ buffer[p] # <<>>
    /\ delivered' = delivered \cup {Head(buffer[p])}
    /\ buffer' = [buffer EXCEPT ![p] = Tail(@)]
    /\ UNCHANGED <<pc, sm, previd, callee, ref, peer, replacer, found, mailbox,
                   table, smidVars, sent, flight, offline, lost, checkVars, bounds>>

SocketClosed(p) ==
    /\ pc[p] = "established" /\ stops < MaxStops
    /\ stops' = stops + 1
    /\ Goto(p, IF p \in sm THEN "detached" ELSE "closing")
    /\ UNCHANGED <<sm, buffer, previd, callee, ref, peer, replacer, found,
                   mailbox, table, smidVars, msgVars, checkVars, timeouts, badHs>>

\* The client ends the stream, or resume_timeout is over.
Stop(p) ==
    /\ Serving(p) /\ stops < MaxStops
    /\ stops' = stops + 1
    /\ Goto(p, "closing")
    /\ UNCHANGED <<sm, buffer, previd, callee, ref, peer, replacer, found,
                   mailbox, table, smidVars, msgVars, checkVars, timeouts, badHs>>

HandleExit(p) ==
    /\ Serving(p) /\ First(p, "exit")
    /\ Goto(p, "closing")
    /\ replacer' = [replacer EXCEPT ![p] = Head(mailbox[p]).p]
    /\ Receive(p)
    /\ UNCHANGED <<sm, buffer, previd, callee, ref, peer, found, table,
                   smidVars, msgVars, checkVars, bounds>>

(***************************************************************************)
(* terminate                                                               *)
(***************************************************************************)
CloseSession(p) ==
    /\ pc[p] = "closing"
    /\ table' = table \ {p}
    /\ Goto(p, IF p \in sm THEN "read" ELSE "bounce")
    /\ UNCHANGED <<sm, buffer, previd, callee, ref, peer, replacer, found,
                   mailbox, smidVars, msgVars, checkVars, bounds>>

\* do_remove_smid. The source calls it twice for a detached session; the
\* second call finds nothing.
UnregisterRead(p) ==
    /\ pc[p] = "read"
    /\ Goto(p, "delete")
    /\ found' = [found EXCEPT ![p] = FoundSmid(p)]
    /\ UNCHANGED <<sm, buffer, previd, callee, ref, peer, replacer, mailbox,
                   table, smidVars, msgVars, checkVars, bounds>>

\* Mutant: the record is left behind.
BadUnregisterKeeps(p) ==
    /\ pc[p] = "delete"
    /\ Goto(p, "reroute")
    /\ UNCHANGED <<sm, buffer, previd, callee, ref, peer, replacer, found,
                   mailbox, table, smidVars, msgVars, checkVars, bounds>>

UnregisterDelete(p) ==
    /\ pc[p] = "delete"
    /\ Goto(p, "reroute")
    /\ DeleteSmid(p, found[p])
    /\ found' = [found EXCEPT ![p] = None]
    /\ UNCHANGED <<sm, buffer, previd, callee, ref, peer, replacer, mailbox,
                   table, msgVars, checkVars, bounds>>

\* reroute_buffer: to the process that took over or replaced this one,
\* otherwise to the router. What is sent to a dead process is lost.
Heir(p) == IF peer[p] # None THEN peer[p] ELSE replacer[p]

RerouteBuffer(p) ==
    /\ pc[p] = "reroute"
    /\ Goto(p, "bounce")
    /\ buffer' = [buffer EXCEPT ![p] = <<>>]
    /\ CASE Heir(p) = None ->
              /\ flight' = flight \cup
                   {[m |-> m, to |-> None, via |-> p] : m \in Set(buffer[p])}
              /\ UNCHANGED <<mailbox, lost>>
         [] Heir(p) # None /\ Live(Heir(p)) ->
              /\ mailbox' = [mailbox EXCEPT ![Heir(p)] = @ \o Routes(buffer[p])]
              /\ UNCHANGED <<flight, lost>>
         [] OTHER ->
              /\ lost' = lost \cup Set(buffer[p])
              /\ UNCHANGED <<mailbox, flight>>
    /\ UNCHANGED <<sm, previd, callee, ref, peer, replacer, found, table,
                   smidVars, sent, delivered, offline, checkVars, bounds>>

\* bounce_messages: messages go to the router, calls and exits are dropped.
BounceMessages(p) ==
    /\ pc[p] = "bounce" /\ mailbox[p] # <<>>
    /\ mailbox' = [mailbox EXCEPT ![p] = <<>>]
    /\ flight' = flight \cup
         {[m |-> m, to |-> None, via |-> p] : m \in Set(Payloads(mailbox[p]))}
    /\ UNCHANGED <<stateVars, table, smidVars, sent, delivered, offline, lost,
                   checkVars, bounds>>

Die(p) ==
    /\ pc[p] = "bounce" /\ mailbox[p] = <<>>
    /\ Goto(p, "dead")
    /\ UNCHANGED <<sm, buffer, previd, callee, ref, peer, replacer, found,
                   mailbox, table, smidVars, msgVars, checkVars, bounds>>

(***************************************************************************)
(* Routing to the full JID                                                 *)
(***************************************************************************)
\* From the client of a session of this JID, or from another JID.
SendMessage(m) ==
    /\ m \notin sent
    /\ sent' = sent \cup {m}
    /\ \E p \in {q \in Senders : q # None => pc[q] = "established"} :
         origin' = [origin EXCEPT ![m] = p]
    /\ flight' = flight \cup {[m |-> m, to |-> None, via |-> None]}
    /\ UNCHANGED <<stateVars, mailbox, table, smidVars, delivered, offline,
                   lost, resumedFrom, dropped, bounds>>

LookUp(f) ==
    /\ f.to = None
    /\ IF table = {}
         THEN /\ offline' = offline \cup {f.m}
              /\ flight' = flight \ {f}
         ELSE /\ flight' = (flight \ {f}) \cup {[f EXCEPT !.to = Newest]}
              /\ UNCHANGED offline
    /\ UNCHANGED <<stateVars, mailbox, table, smidVars, sent, delivered, lost,
                   checkVars, bounds>>

Arrive(f) ==
    /\ f.to # None
    /\ flight' = flight \ {f}
    /\ IF Live(f.to)
         THEN /\ mailbox' = [mailbox EXCEPT ![f.to] = Append(@, Route(f.m))]
              /\ UNCHANGED lost
         ELSE /\ lost' = lost \cup {f.m}
              /\ UNCHANGED mailbox
    /\ UNCHANGED <<stateVars, table, smidVars, sent, delivered, offline,
                   checkVars, bounds>>

-----------------------------------------------------------------------------
Init ==
    /\ pc = [p \in Procs |-> "down"]
    /\ sm = {}
    /\ buffer = [p \in Procs |-> <<>>]
    /\ previd = [p \in Procs |-> None] /\ callee = [p \in Procs |-> None]
    /\ ref = [p \in Procs |-> 0]
    /\ peer = [p \in Procs |-> None] /\ replacer = [p \in Procs |-> None]
    /\ found = [p \in Procs |-> None]
    /\ mailbox = [p \in Procs |-> <<>>]
    /\ table = {}
    /\ bySmid = [s \in Procs |-> None] /\ bySid = [p \in Procs |-> None]
    /\ sent = {} /\ flight = {} /\ delivered = {} /\ offline = {} /\ lost = {}
    /\ origin = [m \in Messages |-> None] /\ resumedFrom = [p \in Procs |-> None]
    /\ dropped = [p \in Procs |-> {}]
    /\ timeouts = 0 /\ badHs = 0 /\ stops = 0

Opening(p) == Connect(p) \/ SetSession(p) \/ ReplaceSessions(p)
              \/ ResumeDone(p) \/ Enable(p)
Calling(p) == (\E s \in Procs : ResumeRequest(p, s))
              \/ CallFails(p) \/ CallTimeout(p)
Handling(p) == \/ \E q \in Procs : HandleResumeCall(p, q) \/ RefuseResumeCall(p, q)
               \/ HandleRoute(p) \/ HandleExit(p)
Client(p) == ClientAcks(p) \/ SocketClosed(p) \/ Stop(p)
Terminating(p) == CloseSession(p) \/ UnregisterRead(p) \/ UnregisterDelete(p)
                  \/ RerouteBuffer(p) \/ BounceMessages(p) \/ Die(p)
Router == (\E m \in Messages : SendMessage(m))
          \/ \E f \in flight : LookUp(f) \/ Arrive(f)

Next ==
    \/ \E p \in Procs : Opening(p) \/ Calling(p) \/ Handling(p) \/ Client(p)
                        \/ Terminating(p)
    \/ Router

Spec == Init /\ [][Next]_vars

\* The Erlang scheduler runs every process that has something to do, and a
\* caller hears of the death of the process it calls. Clients, and the timer
\* of a call, need not act.
Fairness ==
    \A p \in Procs : /\ WF_vars(SetSession(p) /\ pc[p] = "got")
                     /\ WF_vars(ReplaceSessions(p) \/ ResumeDone(p))
                     /\ WF_vars(CallFails(p))
                     /\ WF_vars(Handling(p))
                     /\ WF_vars(Terminating(p))

LiveSpec == Spec /\ Fairness

-----------------------------------------------------------------------------
Entry == {Route(m) : m \in Messages} \cup {Exit(p) : p \in Procs}
         \cup [tag : {"call"}, p : Procs, r : Nat]
OrNone == Procs \cup {None}
Stage == {"down", "auth", "calling", "got", "set", "register", "established",
          "detached", "closing", "read", "delete", "reroute", "bounce", "dead"}

CheckTypes ==
    /\ origin \in [Messages -> OrNone] /\ resumedFrom \in [Procs -> OrNone]
    /\ dropped \in [Procs -> SUBSET Messages]

\* Every variable has the type of the field or table it stands for.
TypeOK ==
    /\ pc \in [Procs -> Stage]
    /\ sm \subseteq Procs
    /\ buffer \in [Procs -> Seq(Messages)]
    /\ previd \in [Procs -> OrNone] /\ callee \in [Procs -> OrNone]
    /\ ref \in [Procs -> Nat]
    /\ peer \in [Procs -> OrNone] /\ replacer \in [Procs -> OrNone]
    /\ found \in [Procs -> OrNone]
    /\ mailbox \in [Procs -> Seq(Entry)]
    /\ table \subseteq Procs
    /\ bySmid \in [Procs -> OrNone] /\ bySid \in [Procs -> OrNone]
    /\ flight \subseteq [m : Messages, to : OrNone, via : OrNone]
    /\ sent \subseteq Messages /\ delivered \subseteq Messages
    /\ offline \subseteq Messages /\ lost \subseteq Messages
    /\ CheckTypes
    /\ timeouts \in Nat /\ badHs \in Nat /\ stops \in Nat

\* The places where a message is: what a process that is dead still had is
\* nowhere.
LiveProcs == {p \in Procs : Live(p)}
InRouter(m) == {<<"flight", f>> : f \in {g \in flight : g.m = m}}
InBuffers(m) ==
    UNION {{<<"buffer", p, i>> : i \in {j \in 1 .. Len(buffer[p]) : buffer[p][j] = m}}
           : p \in LiveProcs}
InMailboxes(m) ==
    UNION {{<<"mailbox", p, i>> : i \in {j \in 1 .. Len(mailbox[p]) :
                                          mailbox[p][j] = Route(m)}} : p \in LiveProcs}
AtRest(m) == {<<"end", k>> : k \in {j \in 1 .. 3 : m \in <<delivered, offline, lost>>[j]}}
Drops(m) == {<<"dropped", p>> : p \in {q \in Procs : m \in dropped[q]}}
Places(m) == InRouter(m) \cup InBuffers(m) \cup InMailboxes(m) \cup AtRest(m)
             \cup Drops(m)

\* A message to the full JID is at exactly one place: whatever resumptions,
\* replacements and terminations it meets, no process that passes it on loses
\* it (recover_messages, reroute_buffer, bounce_messages) or keeps a second
\* copy (sm_state_to_keep). It does not reach a client only if it goes to the
\* offline storage, is sent to a dead process, goes with a reply that comes too
\* late, or is dropped as a conflict.
ExactlyOneCopy == \A m \in sent : Cardinality(Places(m)) = 1

\* The SMID of the stream that a process holds.
SmidOf(p) == IF previd[p] = None THEN p ELSE previd[p]
Holds(p) == p \in sm /\ pc[p] \in {"got", "set", "register", "established",
                                   "detached"}

\* A message that the client sends to its own full JID is not dropped by the
\* processes of its own stream (the one it was sent from, the one that resumed
\* it, an older one), unless the stream was resumed twice since.
OwnMessagesPass ==
    \A p \in Procs : \A m \in dropped[p] :
      SmidOf(origin[m]) = SmidOf(p) =>
        \E q \in Procs \ {p, origin[m]} :
          resumedFrom[p] = q /\ SmidOf(q) = SmidOf(p) /\ resumedFrom[q] # None

\* A stream is never held by two processes, however many resume it at once
\* and whichever calls time out.
OneHolder ==
    \A p, q \in Procs : Holds(p) /\ Holds(q) /\ SmidOf(p) = SmidOf(q) => p = q

\* No SMID leads to a process that has unregistered or is dead: a client that
\* resumes too late is told so at once.
NoDanglingSmid ==
    \A s \in Procs : bySmid[s] # None =>
      Holds(bySmid[s]) \/ pc[bySmid[s]] \in {"closing", "read", "delete"}

\* A resume call ends, with or without its timeout: nobody waits for ever for
\* a process that terminates.
CallEnds == \A p \in Procs : pc[p] = "calling" ~> pc[p] # "calling"

\* Cleaning the record of a dying session leaves the others alone: a session
\* that was enabled or resumed can be resumed while it lives.
ResumableStays ==
    \A p \in Procs : Serving(p) /\ p \in sm => bySmid[SmidOf(p)] = p

=============================================================================
