--------------------------- MODULE SessionManager ---------------------------
(***************************************************************************)
(* The sessions of one user as kept by ejabberd_sm: c2s processes on the   *)
(* nodes of a cluster bind resources, write their row of the replicated    *)
(* session table, replace each other, change their priority, end, and      *)
(* crash with their node; messages are routed by what the table says.      *)
(*                                                                         *)
(* A row of the table is named by its process: the key, a SID, is a        *)
(* timestamp and a pid. Writes of the table are atomic (sync_dirty), but   *)
(* opening a session, routing a message and ending a process take several  *)
(* steps between which others run.                                         *)
(***************************************************************************)
EXTENDS Integers, Sequences, FiniteSets

CONSTANTS
    Procs,          \* c2s processes
    Nodes, NodeOf,  \* cluster nodes, and the node of each process
    Resources,
    Priorities,     \* priorities of presences
    MaxSessions,    \* the max_user_sessions rule
    Messages,       \* messages sent to the user
    MaxSent,        \* bound: messages sent
    MaxStops,       \* bound: connections closed
    MaxCrashes,     \* bound: node crashes
    MaxPresences    \* bound: presences sent

\* The priority of a session without presence; XMPP's are -128 .. 127.
Undefined == -129
Bare == "bare"

ASSUME SessionAssumption ==
    /\ Priorities \subseteq -128 .. 127
    /\ MaxSessions \in Nat \ {0}
    /\ NodeOf \in [Procs -> Nodes]
    /\ Bare \notin Resources /\ Bare \notin Messages
    /\ IsFiniteSet(Procs)
    /\ MaxSent \in Nat /\ MaxStops \in Nat /\ MaxCrashes \in Nat
    /\ MaxPresences \in Nat

\* A routing job is named by a process or by a message.
ASSUME JobNames == Procs \cap Messages = {}

VARIABLES
    \* c2s processes
    pc,         \* "down" (not started), "connected", "set" (in open_session,
                \* row written), "open", "closing" (in terminate, row deleted),
                \* "ended", "crashed"
    sid,        \* the timestamp of the SID
    mailbox,
    \* the session table
    table,      \* the processes that have a row
    res, prio,  \* fields of the row
    \* routing, in the process of a sender (named by its message) or in a
    \* terminating process
    job,        \* "unsent", "idle", "lookup" (about to read the table), "send"
    jobMsg, jobTo,  \* the message, and the processes it is still to be sent to
    dest,       \* who each message is for: a resource or Bare
    got,        \* messages each process handled
    offline,    \* messages given to the offline_message hook
    lost,       \* messages sent to a process that no longer existed, or
                \* that a node took with it
    \* nodes
    down,       \* nodes that are down
    uncleaned,  \* nodes whose cleanup has not run yet
    early,      \* number of nodes that came back before their cleanup
    stops, crashes, presences

procVars  == <<pc, sid, mailbox>>
tableVars == <<table, res, prio>>
msgVars   == <<job, jobMsg, jobTo, dest, got, offline, lost>>
nodeVars  == <<down, uncleaned, early>>
bounds    == <<stops, crashes, presences>>
vars      == <<procVars, tableVars, msgVars, nodeVars, bounds>>

Exit == [tag |-> "exit"]
Route(m) == [tag |-> "route", m |-> m]

Alive(p) == pc[p] \notin {"down", "ended", "crashed"}
HasExit(p) == \E i \in 1 .. Len(mailbox[p]) : mailbox[p][i] = Exit

(***************************************************************************)
(* Opening a session                                                       *)
(***************************************************************************)

\* Mutant: the SID holds the monotonic time, which is negative.
BadConnectMonotonic(p) ==
    /\ pc[p] = "down" /\ NodeOf[p] \notin down
    /\ \E t \in 1 .. Cardinality(Procs) :
         /\ \A q \in Procs : pc[q] # "down" => sid[q] # -t
         /\ sid' = [sid EXCEPT ![p] = -t]
    /\ pc' = [pc EXCEPT ![p] = "connected"]
    /\ UNCHANGED <<mailbox, tableVars, msgVars, nodeVars, bounds>>

\* A connection is accepted. The SID holds the system time of the node, so
\* the order of SIDs is not the order of connections.
Connect(p) ==
    /\ pc[p] = "down" /\ NodeOf[p] \notin down
    /\ \E t \in 1 .. Cardinality(Procs) :
         /\ \A q \in Procs : pc[q] # "down" => sid[q] # t
         /\ sid' = [sid EXCEPT ![p] = t]
    /\ pc' = [pc EXCEPT ![p] = "connected"]
    /\ UNCHANGED <<mailbox, tableVars, msgVars, nodeVars, bounds>>

\* The row is written with priority 0 before any presence is sent.
SetSession(p, r) ==
    /\ pc[p] = "connected"
    /\ pc' = [pc EXCEPT ![p] = "set"]
    /\ table' = table \cup {p}
    /\ res' = [res EXCEPT ![p] = r]
    /\ prio' = [prio EXCEPT ![p] = 0]
    /\ UNCHANGED <<sid, mailbox, msgVars, nodeVars, bounds>>

\* Mutant: only the oldest session of the resource is replaced.
BadExistingOnlyOldest(r) ==
    LET same == {p \in table : res[p] = r} IN
    IF Cardinality(same) <= 1 THEN {}
    ELSE {p \in same : \A q \in same : sid[p] <= sid[q]}

\* All sessions of resource r but the one with the greatest SID.
CheckExistingResources(r) ==
    {p \in table : res[p] = r /\ \E q \in table : res[q] = r /\ sid[q] > sid[p]}

\* Mutant: with few enough sessions nobody is replaced.
BadMaxForgetsReplaced(replaced) ==
    LET rest == table \ replaced IN
    IF Cardinality(rest) <= MaxSessions THEN {}
    ELSE replaced \cup {p \in rest : \A q \in rest : sid[p] <= sid[q]}

\* With more than MaxSessions left, also the oldest of them: one, however
\* many are too many.
CheckMaxSessions(replaced) ==
    LET rest == table \ replaced IN
    IF Cardinality(rest) <= MaxSessions THEN replaced
    ELSE replaced \cup {p \in rest : \A q \in rest : sid[p] <= sid[q]}

\* check_for_sessions_to_replace: the rest of open_session.
ReplaceSessions(p) ==
    /\ pc[p] = "set"
    /\ pc' = [pc EXCEPT ![p] = "open"]
    /\ LET replaced == CheckMaxSessions(CheckExistingResources(res[p])) IN
         mailbox' = [q \in Procs |-> IF q \in replaced /\ Alive(q)
                                       THEN Append(mailbox[q], Exit)
                                       ELSE mailbox[q]]
    /\ UNCHANGED <<sid, tableVars, msgVars, nodeVars, bounds>>

\* set_presence and unset_presence write the whole row.
SetPresence(p) ==
    /\ pc[p] = "open" /\ presences < MaxPresences
    /\ presences' = presences + 1
    /\ table' = table \cup {p}
    /\ \E n \in Priorities \cup {Undefined} : prio' = [prio EXCEPT ![p] = n]
    /\ UNCHANGED <<procVars, res, msgVars, nodeVars, stops, crashes>>

(***************************************************************************)
(* Ending a session                                                        *)
(***************************************************************************)

\* terminate up to close_session: the row goes, the mailbox stays for now.
CloseSession(p) ==
    /\ pc' = [pc EXCEPT ![p] = "closing"]
    /\ table' = table \ {p}

\* The connection is closed, or a session is stopped for another reason.
StopSession(p) ==
    /\ pc[p] = "open" /\ stops < MaxStops
    /\ stops' = stops + 1
    /\ CloseSession(p)
    /\ UNCHANGED <<sid, mailbox, res, prio, msgVars, nodeVars, crashes, presences>>

HandleExit(p) ==
    /\ pc[p] = "open" /\ mailbox[p] # <<>> /\ Head(mailbox[p]) = Exit
    /\ mailbox' = [mailbox EXCEPT ![p] = Tail(@)]
    /\ CloseSession(p)
    /\ UNCHANGED <<sid, res, prio, msgVars, nodeVars, bounds>>

\* bounce_messages: what is left in the mailbox goes back to the router, one
\* message after the other; anything else is dropped.
BounceMessage(p) ==
    /\ pc[p] = "closing" /\ job[p] = "idle" /\ mailbox[p] # <<>>
    /\ mailbox' = [mailbox EXCEPT ![p] = Tail(@)]
    /\ LET e == Head(mailbox[p]) IN
         IF e = Exit THEN UNCHANGED <<job, jobMsg>>
         ELSE /\ job' = [job EXCEPT ![p] = "lookup"]
              /\ jobMsg' = [jobMsg EXCEPT ![p] = e.m]
    /\ UNCHANGED <<pc, sid, tableVars, jobTo, dest, got, offline, lost,
                   nodeVars, bounds>>

\* Mutant: the process ends with messages in its mailbox.
BadFinishNoBounce(p) ==
    /\ pc[p] = "closing" /\ job[p] = "idle"
    /\ pc' = [pc EXCEPT ![p] = "ended"]
    /\ mailbox' = [mailbox EXCEPT ![p] = <<>>]
    /\ UNCHANGED <<sid, tableVars, msgVars, nodeVars, bounds>>

\* terminate ends when nothing is left in the mailbox.
Finish(p) ==
    /\ pc[p] = "closing" /\ job[p] = "idle" /\ mailbox[p] = <<>>
    /\ pc' = [pc EXCEPT ![p] = "ended"]
    /\ UNCHANGED <<sid, mailbox, tableVars, msgVars, nodeVars, bounds>>

(***************************************************************************)
(* Routing                                                                 *)
(***************************************************************************)

\* Somebody sends message m to a resource of the user or to the bare JID.
SendMessage(m, d) ==
    /\ job[m] = "unsent"
    /\ Cardinality({k \in Messages : job[k] # "unsent"}) < MaxSent
    /\ job' = [job EXCEPT ![m] = "lookup"]
    /\ jobMsg' = [jobMsg EXCEPT ![m] = m]
    /\ dest' = [dest EXCEPT ![m] = d]
    /\ UNCHANGED <<procVars, tableVars, jobTo, got, offline, lost, nodeVars,
                   bounds>>

\* get_session: the row with the greatest SID for the full JID.
GetSession(r) ==
    {p \in table : res[p] = r /\ \A q \in table : res[q] = r => sid[q] <= sid[p]}

\* get_user_present_pids: of each resource the row with the greatest SID,
\* when it has a priority.
PresentPids == {p \in table : p \in GetSession(res[p]) /\ prio[p] # Undefined}

\* route_message: every present session of the highest priority, unless that
\* is negative.
RouteMessage ==
    {p \in PresentPids : prio[p] >= 0 /\ \A q \in PresentPids : prio[q] <= prio[p]}

\* do_route; with no session for a full JID, do_route_offline falls back to
\* route_message.
RouteTargets(d) == IF d \in Resources /\ GetSession(d) # {}
                     THEN GetSession(d) ELSE RouteMessage

LookUp(c) ==
    /\ job[c] = "lookup"
    /\ LET to == RouteTargets(dest[jobMsg[c]]) IN
         IF to = {}
           THEN /\ offline' = offline \cup {jobMsg[c]}
                /\ job' = [job EXCEPT ![c] = "idle"]
                /\ UNCHANGED jobTo
           ELSE /\ job' = [job EXCEPT ![c] = "send"]
                /\ jobTo' = [jobTo EXCEPT ![c] = to]
                /\ UNCHANGED offline
    /\ UNCHANGED <<procVars, tableVars, jobMsg, dest, got, lost, nodeVars, bounds>>

\* Pid ! {route, Acc}: "we will lose message if PID is not alive".
SendTo(c, p) ==
    /\ job[c] = "send" /\ p \in jobTo[c]
    /\ jobTo' = [jobTo EXCEPT ![c] = @ \ {p}]
    /\ job' = [job EXCEPT ![c] = IF jobTo[c] = {p} THEN "idle" ELSE @]
    /\ IF Alive(p)
         THEN /\ mailbox' = [mailbox EXCEPT ![p] = Append(@, Route(jobMsg[c]))]
              /\ UNCHANGED lost
         ELSE /\ lost' = lost \cup {jobMsg[c]}
              /\ UNCHANGED mailbox
    /\ UNCHANGED <<pc, sid, tableVars, jobMsg, dest, got, offline, nodeVars, bounds>>

\* handle_route of an open session: the message is written to the client.
HandleRoute(p) ==
    /\ pc[p] = "open" /\ mailbox[p] # <<>> /\ Head(mailbox[p]) # Exit
    /\ mailbox' = [mailbox EXCEPT ![p] = Tail(@)]
    /\ got' = [got EXCEPT ![p] = @ \cup {Head(mailbox[p]).m}]
    /\ UNCHANGED <<pc, sid, tableVars, job, jobMsg, jobTo, dest, offline, lost,
                   nodeVars, bounds>>

(***************************************************************************)
(* Nodes                                                                   *)
(***************************************************************************)
Queued(p) ==
    {m \in Messages : \E i \in 1 .. Len(mailbox[p]) : mailbox[p][i] = Route(m)}
Carried(p) == IF job[p] \in {"lookup", "send"} THEN {jobMsg[p]} ELSE {}

\* A node goes down with its processes, their mailboxes and what they route.
Crash(n) ==
    /\ n \notin down /\ n \notin uncleaned /\ crashes < MaxCrashes
    /\ crashes' = crashes + 1
    /\ down' = down \cup {n} /\ uncleaned' = uncleaned \cup {n}
    /\ LET victims == {p \in Procs : NodeOf[p] = n /\ Alive(p)} IN
         /\ pc' = [p \in Procs |-> IF p \in victims THEN "crashed" ELSE pc[p]]
         /\ mailbox' = [p \in Procs |-> IF p \in victims THEN <<>> ELSE mailbox[p]]
         /\ job' = [c \in Procs \cup Messages |->
                      IF c \in victims THEN "idle" ELSE job[c]]
         /\ lost' = lost \cup UNION {Queued(p) \cup Carried(p) : p \in victims}
    /\ UNCHANGED <<sid, tableVars, jobMsg, jobTo, dest, got, offline, early,
                   stops, presences>>

\* Mutant: the rows of the other nodes go.
BadCleanupOthers(n) ==
    /\ n \in uncleaned /\ \E other \in Nodes : other \notin down /\ other # n
    /\ uncleaned' = uncleaned \ {n}
    /\ table' = {p \in table : NodeOf[p] = n}
    /\ UNCHANGED <<procVars, res, prio, msgVars, down, early, bounds>>

\* mongoose_cleaner on another node: every row whose pid is of the node goes,
\* whether the node is still down or not.
NodeCleanup(n) ==
    /\ n \in uncleaned /\ \E other \in Nodes : other \notin down /\ other # n
    /\ uncleaned' = uncleaned \ {n}
    /\ table' = {p \in table : NodeOf[p] # n}
    /\ UNCHANGED <<procVars, res, prio, msgVars, down, early, bounds>>

Restart(n) ==
    /\ n \in down
    /\ down' = down \ {n}
    /\ early' = IF n \in uncleaned THEN early + 1 ELSE early
    /\ UNCHANGED <<procVars, tableVars, msgVars, uncleaned, bounds>>

-----------------------------------------------------------------------------
Init ==
    /\ pc = [p \in Procs |-> "down"]
    /\ sid = [p \in Procs |-> 0]
    /\ mailbox = [p \in Procs |-> <<>>]
    /\ table = {}
    /\ res = [p \in Procs |-> Bare]
    /\ prio = [p \in Procs |-> Undefined]
    /\ job = [c \in Procs \cup Messages |->
                IF c \in Messages THEN "unsent" ELSE "idle"]
    /\ jobMsg = [c \in Procs \cup Messages |-> Bare]
    /\ jobTo = [c \in Procs \cup Messages |-> {}]
    /\ dest = [m \in Messages |-> Bare]
    /\ got = [p \in Procs |-> {}]
    /\ offline = {} /\ lost = {}
    /\ down = {} /\ uncleaned = {} /\ early = 0
    /\ stops = 0 /\ crashes = 0 /\ presences = 0

Opening(p) == \/ Connect(p)
              \/ \E r \in Resources : SetSession(p, r)
              \/ ReplaceSessions(p)
Ending(p) == StopSession(p) \/ HandleExit(p) \/ BounceMessage(p) \/ Finish(p)
Routing(c) == LookUp(c) \/ \E p \in Procs : SendTo(c, p)

Next ==
    \/ \E p \in Procs : Opening(p) \/ SetPresence(p) \/ Ending(p) \/ HandleRoute(p)
    \/ \E m \in Messages, d \in Resources \cup {Bare} : SendMessage(m, d)
    \/ \E c \in Procs \cup Messages : Routing(c)
    \/ \E n \in Nodes : Crash(n) \/ NodeCleanup(n) \/ Restart(n)

Spec == Init /\ [][Next]_vars

\* The Erlang scheduler runs every process that has something to do.
Fairness ==
    /\ \A p \in Procs : /\ WF_vars(ReplaceSessions(p))
                         /\ WF_vars(HandleExit(p) \/ HandleRoute(p))
                         /\ WF_vars(BounceMessage(p) \/ Finish(p))
    /\ \A c \in Procs \cup Messages : WF_vars(Routing(c))

LiveSpec == Spec /\ Fairness

-----------------------------------------------------------------------------
\* Every variable has the type of its record field.
TypeOK ==
    /\ pc \in [Procs -> {"down", "connected", "set", "open", "closing", "ended",
                         "crashed"}]
    /\ sid \in [Procs -> Nat]
    /\ mailbox \in [Procs -> Seq({Exit} \cup {Route(m) : m \in Messages})]
    /\ table \subseteq Procs
    /\ res \in [Procs -> Resources \cup {Bare}] /\ prio \in [Procs -> Int]
    /\ job \in [Procs \cup Messages -> {"unsent", "idle", "lookup", "send"}]
    /\ jobMsg \in [Procs \cup Messages -> Messages \cup {Bare}]
    /\ \A c \in Procs \cup Messages :
         job[c] \in {"lookup", "send"} => jobMsg[c] \in Messages
    /\ jobTo \in [Procs \cup Messages -> SUBSET Procs]
    /\ dest \in [Messages -> Resources \cup {Bare}]
    /\ got \in [Procs -> SUBSET Messages]
    /\ offline \subseteq Messages /\ lost \subseteq Messages
    /\ down \subseteq Nodes /\ uncleaned \subseteq Nodes /\ early \in Nat
    /\ stops \in Nat /\ crashes \in Nat /\ presences \in Nat

\* Nobody is in the middle of opening or has been told to go, and the rows of
\* a lost node are gone.
Settled == /\ \A p \in Procs : pc[p] # "set" /\ ~HasExit(p)
           /\ uncleaned = {}

\* When everything has settled, a full JID has at most one session, however
\* the processes that bound it interleaved and whatever the order of their
\* SIDs (check_existing_resources), unless a node came back before the
\* cleanup of its rows.
OneSessionPerResource ==
    Settled /\ early = 0 =>
      \A p, q \in table : res[p] = res[q] => p = q

\* A live session can be found in the table: closing a session and cleaning
\* up after a node remove the rows of dead sessions only, unless a node came
\* back before its cleanup.
OpenIsRegistered ==
    early = 0 => \A p \in Procs : pc[p] = "open" => p \in table

\* A message that was sent is with a live process, being routed, delivered,
\* stored, or was lost with a dead process: termination, also of several
\* processes that pass it on to each other, loses none.
Located(m) ==
    \/ m \in offline \cup lost
    \/ \E p \in Procs : m \in got[p] \/ (Alive(p) /\ m \in Queued(p))
    \/ \E c \in Procs \cup Messages : job[c] \in {"lookup", "send"} /\ jobMsg[c] = m
NoMessageVanishes == \A m \in Messages : job[m] # "unsent" => Located(m)

\* Of two sessions for one resource all but one end, also when their rows are
\* written at the same time.
ConflictEnds ==
    \A p, q \in Procs : p # q =>
      ({p, q} \subseteq table /\ res[p] = res[q] /\ pc[p] = "open" /\ pc[q] = "open")
        ~> ~({p, q} \subseteq table /\ pc[p] = "open" /\ pc[q] = "open")

\* A message is eventually delivered, stored or lost: it is not passed on
\* between terminating processes for ever.
MessagesSettle ==
    \A m \in Messages :
      job[m] = "lookup" ~> m \in offline \cup lost \cup UNION {got[p] : p \in Procs}

=============================================================================
