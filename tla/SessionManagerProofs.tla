----------------------- MODULE SessionManagerProofs -------------------------
(***************************************************************************)
(* Proofs about module SessionManager, for any number of processes, nodes, *)
(* resources and messages: the types, and that a full JID keeps one        *)
(* session however the processes that bind it interleave.                  *)
(***************************************************************************)
EXTENDS SessionManager, TLAPS

Entry == {Exit} \cup {Route(m) : m \in Messages}

\* A mailbox that loses its oldest entry or gets a new one stays a mailbox.
LEMMA MailboxType ==
  ASSUME NEW s \in Seq(Entry)
  PROVE  /\ s # <<>> => Tail(s) \in Seq(Entry) /\ Head(s) \in Entry
         /\ \A e \in Entry : Append(s, e) \in Seq(Entry)
  OBVIOUS

\* A route entry carries a message.
LEMMA RouteEntry ==
  ASSUME NEW e \in Entry, e # Exit
  PROVE  e.m \in Messages
  BY DEF Entry, Route, Exit

\* Initially every variable has its type.
LEMMA TypeInit == Init => TypeOK
  BY SessionAssumption DEF Init, TypeOK, Undefined

\* Opening a session and presences keep the types.
LEMMA TypeOpening ==
  ASSUME TypeOK, NEW p \in Procs, Opening(p) \/ SetPresence(p)
  PROVE  TypeOK'
<1> USE SessionAssumption DEF TypeOK
<1>1. CASE Connect(p)
  <2>1. PICK t \in 1 .. Cardinality(Procs) : sid' = [sid EXCEPT ![p] = t]
    BY <1>1 DEF Connect
  <2>2. sid' \in [Procs -> Nat]
    BY <2>1
  <2> QED
    BY <1>1, <2>2 DEF Connect, tableVars, msgVars, nodeVars, bounds
<1>2. CASE \E r \in Resources : SetSession(p, r)
  <2>1. PICK r \in Resources : SetSession(p, r)
    BY <1>2
  <2>2. /\ pc' \in [Procs -> {"down", "connected", "set", "open", "closing", "ended",
                              "crashed"}]
        /\ table' \subseteq Procs
    BY <2>1 DEF SetSession
  <2>3. res' \in [Procs -> Resources \cup {Bare}] /\ prio' \in [Procs -> Int]
    BY <2>1 DEF SetSession
  <2>4. UNCHANGED <<sid, mailbox, job, jobMsg, jobTo, dest, got, offline, lost, down,
                    uncleaned, early, stops, crashes, presences>>
    BY <2>1 DEF SetSession, msgVars, nodeVars, bounds
  <2> QED
    BY <2>2, <2>3, <2>4
<1>3. CASE ReplaceSessions(p)
  <2> DEFINE replaced == CheckMaxSessions(CheckExistingResources(res[p]))
  <2>1. mailbox' = [q \in Procs |-> IF q \in replaced /\ Alive(q)
                                      THEN Append(mailbox[q], Exit) ELSE mailbox[q]]
    BY <1>3 DEF ReplaceSessions
  <2> HIDE DEF replaced
  <2>2. \A q \in Procs : mailbox[q] \in Seq(Entry) /\ Append(mailbox[q], Exit) \in Seq(Entry)
    BY MailboxType DEF Entry
  <2>3. mailbox' \in [Procs -> Seq(Entry)]
    BY <2>1, <2>2
  <2> QED
    BY <1>3, <2>3 DEF ReplaceSessions, tableVars, msgVars, nodeVars, bounds, Entry
<1>4. CASE SetPresence(p)
  <2>1. PICK n \in Priorities \cup {Undefined} : prio' = [prio EXCEPT ![p] = n]
    BY <1>4 DEF SetPresence
  <2>2. n \in Int
    BY <2>1 DEF Undefined
  <2>3. prio' \in [Procs -> Int]
    BY <2>1, <2>2
  <2>4. table' \subseteq Procs /\ presences' \in Nat
    BY <1>4 DEF SetPresence
  <2>5. UNCHANGED <<pc, sid, mailbox, res, job, jobMsg, jobTo, dest, got, offline,
                    lost, down, uncleaned, early, stops, crashes>>
    BY <1>4 DEF SetPresence, procVars, msgVars, nodeVars
  <2> QED
    BY <2>3, <2>4, <2>5
<1> QED
  BY <1>1, <1>2, <1>3, <1>4 DEF Opening

\* Ending a session keeps the types.
LEMMA TypeEnding ==
  ASSUME TypeOK, NEW p \in Procs, Ending(p) \/ HandleRoute(p)
  PROVE  TypeOK'
<1> USE SessionAssumption DEF TypeOK
<1>1. CASE StopSession(p)
  <2>1. pc' \in [Procs -> {"down", "connected", "set", "open", "closing", "ended",
                           "crashed"}]
        /\ table' \subseteq Procs /\ stops' \in Nat
    BY <1>1 DEF StopSession, CloseSession
  <2>2. UNCHANGED <<sid, mailbox, res, prio, job, jobMsg, jobTo, dest, got, offline,
                    lost, down, uncleaned, early, crashes, presences>>
    BY <1>1 DEF StopSession, msgVars, nodeVars
  <2> QED
    BY <2>1, <2>2
<1>a. mailbox[p] \in Seq(Entry)
  BY DEF Entry
<1>b. mailbox' = [mailbox EXCEPT ![p] = Tail(@)] /\ mailbox[p] # <<>>
      => mailbox' \in [Procs -> Seq({Exit} \cup {Route(m) : m \in Messages})]
  <2>1. mailbox[p] # <<>> => Tail(mailbox[p]) \in Seq(Entry)
    BY <1>a, MailboxType
  <2>2. mailbox \in [Procs -> Seq(Entry)]
    BY DEF Entry
  <2>3. mailbox' = [mailbox EXCEPT ![p] = Tail(mailbox[p])] /\ mailbox[p] # <<>>
        => mailbox' \in [Procs -> Seq(Entry)]
    BY <2>1, <2>2
  <2> QED
    BY <2>3 DEF Entry
<1>2. CASE HandleExit(p)
  BY <1>2, <1>b DEF HandleExit, CloseSession, msgVars, nodeVars, bounds
<1>3. CASE BounceMessage(p)
  <2>1. mailbox' \in [Procs -> Seq({Exit} \cup {Route(m) : m \in Messages})]
    BY <1>3, <1>b DEF BounceMessage
  <2>2. Head(mailbox[p]) # Exit => Head(mailbox[p]).m \in Messages
    BY <1>3, <1>a, MailboxType, RouteEntry DEF BounceMessage
  <2>3. job' \in [Procs \cup Messages -> {"unsent", "idle", "lookup", "send"}]
        /\ jobMsg' \in [Procs \cup Messages -> Messages \cup {Bare}]
        /\ \A c \in Procs \cup Messages :
             job'[c] \in {"lookup", "send"} => jobMsg'[c] \in Messages
    BY <1>3, <2>2 DEF BounceMessage
  <2> QED
    BY <1>3, <2>1, <2>3 DEF BounceMessage, tableVars, nodeVars, bounds
<1>4. CASE Finish(p)
  BY <1>4 DEF Finish, tableVars, msgVars, nodeVars, bounds
<1>5. CASE HandleRoute(p)
  <2>1. mailbox' \in [Procs -> Seq({Exit} \cup {Route(m) : m \in Messages})]
    BY <1>5, <1>b DEF HandleRoute
  <2>2. Head(mailbox[p]).m \in Messages
    BY <1>5, <1>a, MailboxType, RouteEntry DEF HandleRoute
  <2>3. got' \in [Procs -> SUBSET Messages]
    BY <1>5, <2>2 DEF HandleRoute
  <2> QED
    BY <1>5, <2>1, <2>3 DEF HandleRoute, tableVars, nodeVars, bounds
<1> QED
  BY <1>1, <1>2, <1>3, <1>4, <1>5 DEF Ending

\* Sending and routing messages keep the types.
LEMMA TypeRouting ==
  ASSUME TypeOK,
         \/ \E m \in Messages, d \in Resources \cup {Bare} : SendMessage(m, d)
         \/ \E c \in Procs \cup Messages : Routing(c)
  PROVE  TypeOK'
<1> USE SessionAssumption DEF TypeOK
<1>1. CASE \E m \in Messages, d \in Resources \cup {Bare} : SendMessage(m, d)
  <2>1. PICK m \in Messages, d \in Resources \cup {Bare} : SendMessage(m, d)
    BY <1>1
  <2>2. /\ job' \in [Procs \cup Messages -> {"unsent", "idle", "lookup", "send"}]
        /\ jobMsg' \in [Procs \cup Messages -> Messages \cup {Bare}]
        /\ \A c \in Procs \cup Messages :
             job'[c] \in {"lookup", "send"} => jobMsg'[c] \in Messages
    BY <2>1 DEF SendMessage
  <2>3. dest' \in [Messages -> Resources \cup {Bare}]
    BY <2>1 DEF SendMessage
  <2>4. UNCHANGED <<procVars, tableVars, jobTo, got, offline, lost, nodeVars, bounds>>
    BY <2>1 DEF SendMessage
  <2> QED
    BY <2>2, <2>3, <2>4 DEF procVars, tableVars, nodeVars, bounds
<1>2. ASSUME NEW c \in Procs \cup Messages, LookUp(c)
      PROVE  TypeOK'
  <2>1. RouteTargets(dest[jobMsg[c]]) \subseteq Procs
    BY DEF RouteTargets, GetSession, RouteMessage, PresentPids
  <2>2. dest' = dest /\ jobMsg' = jobMsg /\ got' = got /\ lost' = lost
        /\ UNCHANGED <<procVars, tableVars, nodeVars, bounds>>
    BY <1>2 DEF LookUp
  <2>3. /\ job' \in [Procs \cup Messages -> {"unsent", "idle", "lookup", "send"}]
        /\ \A d \in Procs \cup Messages :
             job'[d] \in {"lookup", "send"} => jobMsg[d] \in Messages
    BY <1>2 DEF LookUp
  <2>4. jobTo' \in [Procs \cup Messages -> SUBSET Procs]
    <3> DEFINE to == RouteTargets(dest[jobMsg[c]])
    <3>1. jobTo' = jobTo \/ jobTo' = [jobTo EXCEPT ![c] = to]
      BY <1>2 DEF LookUp
    <3> HIDE DEF to
    <3>2. to \subseteq Procs
      BY <2>1 DEF to
    <3> QED
      BY <3>1, <3>2
  <2>5. offline' \subseteq Messages
    BY <1>2 DEF LookUp
  <2> QED
    BY <2>2, <2>3, <2>4, <2>5 DEF procVars, tableVars, nodeVars, bounds
<1>3. ASSUME NEW c \in Procs \cup Messages, NEW p \in Procs, SendTo(c, p)
      PROVE  TypeOK'
  <2>1. jobMsg[c] \in Messages
    BY <1>3 DEF SendTo
  <2>2. Append(mailbox[p], Route(jobMsg[c])) \in Seq(Entry)
    BY <2>1, MailboxType DEF Entry
  <2>3. mailbox' \in [Procs -> Seq(Entry)]
    BY <1>3, <2>2 DEF SendTo, Entry
  <2>4. lost' \subseteq Messages
    BY <1>3, <2>1 DEF SendTo
  <2>5. job' \in [Procs \cup Messages -> {"unsent", "idle", "lookup", "send"}]
        /\ jobTo' \in [Procs \cup Messages -> SUBSET Procs]
        /\ \A d \in Procs \cup Messages :
             job'[d] \in {"lookup", "send"} => jobMsg[d] \in Messages
    BY <1>3 DEF SendTo
  <2>6. UNCHANGED <<pc, sid, tableVars, jobMsg, dest, got, offline, nodeVars, bounds>>
    BY <1>3 DEF SendTo
  <2> QED
    BY <2>3, <2>4, <2>5, <2>6 DEF tableVars, nodeVars, bounds, Entry
<1> QED
  BY <1>1, <1>2, <1>3 DEF Routing

\* Crashes, cleanups and restarts keep the types.
LEMMA TypeNodes ==
  ASSUME TypeOK, NEW n \in Nodes, Crash(n) \/ NodeCleanup(n) \/ Restart(n)
  PROVE  TypeOK'
<1> USE SessionAssumption DEF TypeOK
<1>1. CASE Crash(n)
  <2> DEFINE victims == {p \in Procs : NodeOf[p] = n /\ Alive(p)}
  <2>1. /\ pc' = [p \in Procs |-> IF p \in victims THEN "crashed" ELSE pc[p]]
        /\ mailbox' = [p \in Procs |-> IF p \in victims THEN <<>> ELSE mailbox[p]]
        /\ job' = [c \in Procs \cup Messages |->
                      IF c \in victims THEN "idle" ELSE job[c]]
        /\ lost' = lost \cup UNION {Queued(p) \cup Carried(p) : p \in victims}
    BY <1>1 DEF Crash
  <2>2. /\ down' \subseteq Nodes /\ uncleaned' \subseteq Nodes /\ crashes' \in Nat
        /\ UNCHANGED <<sid, tableVars, jobMsg, jobTo, dest, got, offline, early,
                       stops, presences>>
    BY <1>1 DEF Crash
  <2> HIDE DEF victims
  <2>3. pc' \in [Procs -> {"down", "connected", "set", "open", "closing", "ended",
                           "crashed"}]
    BY <2>1
  <2>4. mailbox' \in [Procs -> Seq({Exit} \cup {Route(m) : m \in Messages})]
    <3>1. mailbox \in [Procs -> Seq(Entry)]
      BY DEF Entry
    <3>2. <<>> \in Seq(Entry)
      OBVIOUS
    <3>3. mailbox' \in [Procs -> Seq(Entry)]
      BY <2>1, <3>1, <3>2
    <3> QED
      BY <3>3 DEF Entry
  <2>5. /\ job' \in [Procs \cup Messages -> {"unsent", "idle", "lookup", "send"}]
        /\ \A c \in Procs \cup Messages :
             job'[c] \in {"lookup", "send"} => jobMsg[c] \in Messages
    BY <2>1
  <2>6. lost' \subseteq Messages
    <3>1. victims \subseteq Procs
      BY DEF victims
    <3>2. \A p \in Procs : Queued(p) \cup Carried(p) \subseteq Messages
      BY DEF Queued, Carried
    <3> QED
      BY <2>1, <3>1, <3>2
  <2> QED
    BY <2>2, <2>3, <2>4, <2>5, <2>6 DEF tableVars
<1>2. CASE NodeCleanup(n)
  <2>1. table' \subseteq Procs /\ uncleaned' \subseteq Nodes
    BY <1>2 DEF NodeCleanup
  <2>2. UNCHANGED <<procVars, res, prio, msgVars, down, early, bounds>>
    BY <1>2 DEF NodeCleanup
  <2> QED
    BY <2>1, <2>2 DEF procVars, msgVars, bounds
<1>3. CASE Restart(n)
  <2>1. down' \subseteq Nodes /\ early' \in Nat
    BY <1>3 DEF Restart
  <2>2. UNCHANGED <<procVars, tableVars, msgVars, uncleaned, bounds>>
    BY <1>3 DEF Restart
  <2> QED
    BY <2>1, <2>2 DEF procVars, tableVars, msgVars, bounds
<1> QED
  BY <1>1, <1>2, <1>3

\* Every step keeps the types.
LEMMA TypeStep == TypeOK /\ [Next]_vars => TypeOK'
<1> SUFFICES ASSUME TypeOK, [Next]_vars PROVE TypeOK'
  OBVIOUS
<1>1. CASE Next
  BY <1>1, TypeOpening, TypeEnding, TypeRouting, TypeNodes DEF Next
<1>2. CASE UNCHANGED vars
  BY <1>2 DEF TypeOK, vars, procVars, tableVars, msgVars, nodeVars, bounds
<1> QED
  BY <1>1, <1>2

\* The types hold in every reachable state.
THEOREM SessionTypes == Spec => []TypeOK
  BY TypeInit, TypeStep, PTL DEF Spec

-----------------------------------------------------------------------------
\* One session for each full JID.

\* Nothing runs on a node that is down, and without an early restart a node
\* is down until its rows are cleaned up.
NodesInv ==
  /\ \A p \in Procs : NodeOf[p] \in down => ~Alive(p)
  /\ early = 0 => uncleaned \subseteq down

\* Rows belong to processes that have opened and not closed their session; the
\* row of a crashed process waits for the cleanup of its node.
RowsInv ==
  /\ \A p \in table : pc[p] \in {"set", "open", "crashed"}
  /\ \A p \in table : pc[p] = "crashed" => NodeOf[p] \in uncleaned
  /\ early = 0 => \A p \in Procs : pc[p] \in {"set", "open"} => p \in table

\* No two processes have the same SID.
SidsDiffer ==
  \A p, q \in Procs : p # q /\ pc[p] # "down" /\ pc[q] # "down" => sid[p] # sid[q]

\* Of two rows for a full JID one is still being opened, or belongs to a
\* crashed process, or the one with the smaller SID has been told to go.
Handled(p, q) == \/ pc[p] \in {"set", "crashed"}
                 \/ pc[q] \in {"set", "crashed"}
                 \/ HasExit(p)
ConflictsHandled ==
  early = 0 => \A p, q \in table :
                 res[p] = res[q] /\ sid[p] < sid[q] => Handled(p, q)

SessionInv == TypeOK /\ NodesInv /\ RowsInv /\ SidsDiffer /\ ConflictsHandled

\* An exit in the mailbox stays there when something is appended, and when
\* the oldest entry that is taken is not an exit.
LEMMA ExitStays ==
  ASSUME NEW s \in Seq(Entry), \E i \in 1 .. Len(s) : s[i] = Exit
  PROVE  /\ \A e \in Entry : \E i \in 1 .. Len(Append(s, e)) : Append(s, e)[i] = Exit
         /\ s # <<>> /\ Head(s) # Exit => \E i \in 1 .. Len(Tail(s)) : Tail(s)[i] = Exit
<1>1. PICK i \in 1 .. Len(s) : s[i] = Exit
  OBVIOUS
<1>2. ASSUME NEW e \in Entry
      PROVE  \E k \in 1 .. Len(Append(s, e)) : Append(s, e)[k] = Exit
  <2>1. i \in 1 .. Len(Append(s, e)) /\ Append(s, e)[i] = Exit
    BY <1>1
  <2> QED
    BY <2>1
<1>3. ASSUME s # <<>>, Head(s) # Exit
      PROVE  \E k \in 1 .. Len(Tail(s)) : Tail(s)[k] = Exit
  <2>1. i # 1
    BY <1>1, <1>3
  <2>2. i - 1 \in 1 .. Len(Tail(s)) /\ Tail(s)[i - 1] = Exit
    BY <1>1, <1>3, <2>1
  <2> QED
    BY <2>2
<1> QED
  BY <1>2, <1>3

\* A mailbox an exit was appended to has one.
LEMMA ExitArrives ==
  ASSUME NEW s \in Seq(Entry)
  PROVE  \E i \in 1 .. Len(Append(s, Exit)) : Append(s, Exit)[i] = Exit
<1>1. Len(s) + 1 \in 1 .. Len(Append(s, Exit)) /\ Append(s, Exit)[Len(s) + 1] = Exit
  BY DEF Entry
<1> QED
  BY <1>1

\* A step that leaves the processes, the table and the nodes alone, and only
\* adds to mailboxes or takes entries that are not exits, keeps SessionInv.
LEMMA SessionUntouched ==
  ASSUME SessionInv, TypeOK', UNCHANGED <<pc, sid, table, res, nodeVars>>,
         \A p \in Procs : HasExit(p) => HasExit(p)'
  PROVE  SessionInv'
<1>1. NodesInv' /\ RowsInv' /\ SidsDiffer'
  BY DEF SessionInv, NodesInv, RowsInv, SidsDiffer, Alive, nodeVars
<1>2. ConflictsHandled'
  BY DEF SessionInv, ConflictsHandled, Handled, nodeVars, TypeOK
<1> QED
  BY <1>1, <1>2 DEF SessionInv

\* Opening a session keeps SessionInv. The case that matters is
\* ReplaceSessions: the process that has just read the table tells every
\* process but the one with the greatest SID to go.
LEMMA SessionOpening ==
  ASSUME SessionInv, TypeOK', NEW p \in Procs, Opening(p) \/ SetPresence(p)
  PROVE  SessionInv'
<1> USE SessionAssumption DEF SessionInv, TypeOK
<1>1. CASE Connect(p)
  <2>1. /\ pc' = [pc EXCEPT ![p] = "connected"] /\ pc[p] = "down"
        /\ NodeOf[p] \notin down
        /\ UNCHANGED <<mailbox, table, res, down, uncleaned, early>>
        /\ \A q \in Procs : q # p => sid'[q] = sid[q]
    BY <1>1 DEF Connect, tableVars, nodeVars
  <2>2. p \notin table
    BY <2>1 DEF RowsInv
  <2>3. NodesInv'
    BY <2>1 DEF NodesInv, Alive
  <2>4. RowsInv'
    BY <2>1, <2>2 DEF RowsInv
  <2>5. SidsDiffer'
    BY <1>1, <2>1 DEF SidsDiffer, Connect
  <2>6. ConflictsHandled'
    <3>1. \A q \in table : sid'[q] = sid[q] /\ pc'[q] = pc[q] /\ HasExit(q)' = HasExit(q)
      BY <2>1, <2>2 DEF HasExit
    <3> SUFFICES ASSUME early = 0, NEW a \in table, NEW b \in table,
                        res[a] = res[b], sid'[a] < sid'[b]
                 PROVE  Handled(a, b)'
      BY <2>1 DEF ConflictsHandled
    <3>2. Handled(a, b)
      BY <3>1 DEF ConflictsHandled
    <3> QED
      BY <3>1, <3>2 DEF Handled
  <2> QED
    BY <2>3, <2>4, <2>5, <2>6
<1>2. CASE \E r \in Resources : SetSession(p, r)
  <2>1. PICK r \in Resources : SetSession(p, r)
    BY <1>2
  <2>2. /\ pc' = [pc EXCEPT ![p] = "set"] /\ pc[p] = "connected"
        /\ table' = table \cup {p} /\ res' = [res EXCEPT ![p] = r]
        /\ UNCHANGED <<mailbox, sid, down, uncleaned, early>>
    BY <2>1 DEF SetSession, nodeVars
  <2>3. p \notin table
    BY <2>2 DEF RowsInv
  <2>4. NodesInv'
    BY <2>2 DEF NodesInv, Alive
  <2>5. RowsInv' /\ SidsDiffer'
    BY <2>2 DEF RowsInv, SidsDiffer
  <2>6. ConflictsHandled'
    <3>1. \A q \in table : res'[q] = res[q] /\ pc'[q] = pc[q] /\ HasExit(q)' = HasExit(q)
      BY <2>2, <2>3 DEF HasExit
    <3>2. pc'[p] = "set"
      BY <2>2
    <3> SUFFICES ASSUME early = 0, NEW a \in table \cup {p}, NEW b \in table \cup {p},
                        res'[a] = res'[b], sid[a] < sid[b]
                 PROVE  Handled(a, b)'
      BY <2>2 DEF ConflictsHandled
    <3>3. CASE a = p \/ b = p
      BY <3>2, <3>3 DEF Handled
    <3>4. CASE a \in table /\ b \in table
      <4>1. Handled(a, b)
        BY <3>1, <3>4 DEF ConflictsHandled
      <4> QED
        BY <3>1, <3>4, <4>1 DEF Handled
    <3> QED
      BY <3>3, <3>4
  <2> QED
    BY <2>4, <2>5, <2>6
<1>3. CASE ReplaceSessions(p)
  <2> DEFINE replaced == CheckMaxSessions(CheckExistingResources(res[p]))
  <2>1. /\ pc[p] = "set" /\ pc' = [pc EXCEPT ![p] = "open"]
        /\ mailbox' = [q \in Procs |-> IF q \in replaced /\ Alive(q)
                                        THEN Append(mailbox[q], Exit) ELSE mailbox[q]]
        /\ UNCHANGED <<sid, table, res, down, uncleaned, early>>
    BY <1>3 DEF ReplaceSessions, tableVars, nodeVars
  <2>2. CheckExistingResources(res[p]) \subseteq replaced
    BY DEF CheckMaxSessions
  <2> HIDE DEF replaced
  <2>3. NodesInv'
    BY <2>1 DEF NodesInv, Alive
  <2>4. RowsInv' /\ SidsDiffer'
    BY <2>1 DEF RowsInv, SidsDiffer
  <2>5. \A q \in Procs : HasExit(q) => HasExit(q)'
    BY <2>1, ExitStays DEF HasExit, Entry
  <2>6. \A q \in replaced \cap table : Alive(q) => HasExit(q)'
    BY <2>1, ExitArrives DEF HasExit, Entry
  <2>7. ConflictsHandled'
    <3> SUFFICES ASSUME early = 0, NEW a \in table, NEW b \in table,
                        res[a] = res[b], sid[a] < sid[b]
                 PROVE  Handled(a, b)'
      BY <2>1 DEF ConflictsHandled
    <3>1. Handled(a, b)
      BY DEF ConflictsHandled
    <3>2. CASE p # a /\ p # b
      BY <2>1, <2>5, <3>1, <3>2 DEF Handled
    <3>3. CASE p = a \/ p = b
      <4>1. a \in CheckExistingResources(res[p])
        BY <3>3 DEF CheckExistingResources
      <4>2. CASE Alive(a)
        BY <2>2, <2>6, <4>1, <4>2 DEF Handled
      <4>3. CASE ~Alive(a)
        <5>1. pc[a] = "crashed"
          BY <4>3 DEF Alive, RowsInv
        <5> QED
          BY <2>1, <5>1 DEF Handled
      <4> QED
        BY <4>2, <4>3
    <3> QED
      BY <3>2, <3>3
  <2> QED
    BY <2>3, <2>4, <2>7
<1>4. CASE SetPresence(p)
  <2>1. /\ pc[p] = "open" /\ table' = table \cup {p}
        /\ UNCHANGED <<pc, sid, mailbox, res, down, uncleaned, early>>
    BY <1>4 DEF SetPresence, procVars, nodeVars
  <2>2. NodesInv' /\ RowsInv' /\ SidsDiffer'
    BY <2>1 DEF NodesInv, RowsInv, SidsDiffer, Alive
  <2>3. early = 0 => table' = table
    BY <2>1 DEF RowsInv
  <2>4. ConflictsHandled'
    BY <2>1, <2>3 DEF ConflictsHandled, Handled, HasExit
  <2> QED
    BY <2>2, <2>4
<1> QED
  BY <1>1, <1>2, <1>3, <1>4 DEF Opening

\* Ending a session keeps SessionInv: an exit leaves the mailbox only with
\* the row, or when the row is gone already.
LEMMA SessionEnding ==
  ASSUME SessionInv, TypeOK', NEW p \in Procs, Ending(p) \/ HandleRoute(p)
  PROVE  SessionInv'
<1> USE SessionAssumption DEF SessionInv, TypeOK
<1>1. ASSUME pc[p] = "open", CloseSession(p),
             UNCHANGED <<sid, res, down, uncleaned, early>>,
             \A q \in Procs : q # p => mailbox'[q] = mailbox[q]
      PROVE  SessionInv'
  <2>1. pc' = [pc EXCEPT ![p] = "closing"] /\ table' = table \ {p}
    BY <1>1 DEF CloseSession
  <2>2. NodesInv' /\ RowsInv' /\ SidsDiffer'
    BY <1>1, <2>1 DEF NodesInv, RowsInv, SidsDiffer, Alive
  <2>3. ConflictsHandled'
    <3>1. \A q \in table \ {p} : pc'[q] = pc[q] /\ HasExit(q)' = HasExit(q)
      BY <1>1, <2>1 DEF HasExit
    <3> SUFFICES ASSUME early = 0, NEW a \in table \ {p}, NEW b \in table \ {p},
                        res[a] = res[b], sid[a] < sid[b]
                 PROVE  Handled(a, b)'
      BY <1>1, <2>1 DEF ConflictsHandled
    <3>2. Handled(a, b)
      BY DEF ConflictsHandled
    <3> QED
      BY <3>1, <3>2 DEF Handled
  <2> QED
    BY <2>2, <2>3
<1>2. CASE StopSession(p)
  BY <1>1, <1>2 DEF StopSession, nodeVars
<1>3. CASE HandleExit(p)
  BY <1>1, <1>3 DEF HandleExit, nodeVars
<1>4. ASSUME pc[p] = "closing", UNCHANGED <<sid, table, res, down, uncleaned, early>>,
             pc' = pc \/ pc' = [pc EXCEPT ![p] = "ended"],
             \A q \in Procs : q # p => mailbox'[q] = mailbox[q]
      PROVE  SessionInv'
  <2>1. p \notin table
    BY <1>4 DEF RowsInv
  <2>2. NodesInv' /\ RowsInv' /\ SidsDiffer'
    <3>1. CASE pc' = pc
      BY <1>4, <3>1 DEF NodesInv, RowsInv, SidsDiffer, Alive
    <3>2. CASE pc' = [pc EXCEPT ![p] = "ended"]
      <4>1. pc'[p] = "ended" /\ \A q \in Procs : q # p => pc'[q] = pc[q]
        BY <3>2
      <4>2. NodesInv'
        BY <1>4, <4>1 DEF NodesInv, Alive
      <4>3. RowsInv'
        BY <1>4, <2>1, <4>1 DEF RowsInv, Alive
      <4>4. SidsDiffer'
        BY <1>4, <4>1 DEF SidsDiffer, Alive
      <4> QED
        BY <4>2, <4>3, <4>4
    <3> QED
      BY <1>4, <3>1, <3>2
  <2>3. ConflictsHandled'
    <3>1. \A q \in table : pc'[q] = pc[q] /\ HasExit(q)' = HasExit(q)
      BY <1>4, <2>1 DEF HasExit
    <3> SUFFICES ASSUME early = 0, NEW a \in table, NEW b \in table,
                        res[a] = res[b], sid[a] < sid[b]
                 PROVE  Handled(a, b)'
      BY <1>4 DEF ConflictsHandled
    <3>2. Handled(a, b)
      BY DEF ConflictsHandled
    <3> QED
      BY <3>1, <3>2 DEF Handled
  <2> QED
    BY <2>2, <2>3
<1>5. CASE BounceMessage(p)
  BY <1>4, <1>5 DEF BounceMessage, tableVars, nodeVars
<1>6. CASE Finish(p)
  BY <1>4, <1>6 DEF Finish, tableVars, nodeVars
<1>7. CASE HandleRoute(p)
  <2>1. \A q \in Procs : HasExit(q) => HasExit(q)'
    <3> SUFFICES ASSUME NEW q \in Procs, HasExit(q)
                 PROVE  HasExit(q)'
      OBVIOUS
    <3>1. mailbox \in [Procs -> Seq(Entry)]
      BY DEF Entry
    <3>2. /\ mailbox' = [mailbox EXCEPT ![p] = Tail(@)]
          /\ mailbox[p] # <<>> /\ Head(mailbox[p]) # Exit
      BY <1>7 DEF HandleRoute
    <3>3. CASE q = p
      <4>1. mailbox'[p] = Tail(mailbox[p]) /\ mailbox[p] \in Seq(Entry)
        BY <3>1, <3>2
      <4>2. \E i \in 1 .. Len(mailbox[p]) : mailbox[p][i] = Exit
        BY <3>3 DEF HasExit
      <4>3. \E i \in 1 .. Len(Tail(mailbox[p])) : Tail(mailbox[p])[i] = Exit
        BY <3>2, <4>1, <4>2, ExitStays
      <4> QED
        BY <3>3, <4>1, <4>3 DEF HasExit
    <3>4. CASE q # p
      <4>1. mailbox'[q] = mailbox[q]
        BY <3>1, <3>2, <3>4
      <4> QED
        BY <4>1 DEF HasExit
    <3> QED
      BY <3>3, <3>4
  <2> QED
    BY <1>7, <2>1, SessionUntouched DEF HandleRoute, tableVars
<1> QED
  BY <1>2, <1>3, <1>5, <1>6, <1>7 DEF Ending

\* Routing keeps SessionInv: it only appends to mailboxes.
LEMMA SessionRouting ==
  ASSUME SessionInv, TypeOK',
         \/ \E m \in Messages, d \in Resources \cup {Bare} : SendMessage(m, d)
         \/ \E c \in Procs \cup Messages : Routing(c)
  PROVE  SessionInv'
<1>1. CASE \E m \in Messages, d \in Resources \cup {Bare} : SendMessage(m, d)
  BY <1>1, SessionUntouched DEF SendMessage, procVars, tableVars, HasExit
<1>2. CASE \E c \in Procs \cup Messages : LookUp(c)
  BY <1>2, SessionUntouched DEF LookUp, procVars, tableVars, HasExit
<1>3. ASSUME NEW c \in Procs \cup Messages, NEW p \in Procs, SendTo(c, p)
      PROVE  SessionInv'
  <2>1. Route(jobMsg[c]) \in Entry
    BY <1>3 DEF SessionInv, TypeOK, Entry, SendTo
  <2>2. mailbox' = mailbox \/ mailbox' = [mailbox EXCEPT ![p] = Append(@, Route(jobMsg[c]))]
    BY <1>3 DEF SendTo
  <2>3. mailbox \in [Procs -> Seq(Entry)]
    BY DEF SessionInv, TypeOK, Entry
  <2>4. \A q \in Procs : HasExit(q) => HasExit(q)'
    <3> SUFFICES ASSUME NEW q \in Procs, HasExit(q)
                 PROVE  HasExit(q)'
      OBVIOUS
    <3>1. mailbox[q] \in Seq(Entry)
      BY <2>3
    <3>2. \/ mailbox'[q] = mailbox[q]
          \/ mailbox'[q] = Append(mailbox[q], Route(jobMsg[c]))
      BY <2>2, <2>3
    <3>3. CASE mailbox'[q] = mailbox[q]
      BY <3>3 DEF HasExit
    <3>4. CASE mailbox'[q] = Append(mailbox[q], Route(jobMsg[c]))
      <4>1. \E i \in 1 .. Len(mailbox[q]) : mailbox[q][i] = Exit
        BY DEF HasExit
      <4>2. \E i \in 1 .. Len(mailbox'[q]) : mailbox'[q][i] = Exit
        BY <2>1, <3>1, <3>4, <4>1, ExitStays
      <4> QED
        BY <4>2 DEF HasExit
    <3> QED
      BY <3>2, <3>3, <3>4
  <2> QED
    BY <1>3, <2>4, SessionUntouched DEF SendTo, tableVars
<1> QED
  BY <1>1, <1>2, <1>3 DEF Routing

\* Crashes, cleanups and restarts keep SessionInv.
LEMMA SessionNodes ==
  ASSUME SessionInv, TypeOK', NEW n \in Nodes, Crash(n) \/ NodeCleanup(n) \/ Restart(n)
  PROVE  SessionInv'
<1> USE SessionAssumption DEF SessionInv, TypeOK
<1>1. CASE Crash(n)
  <2> DEFINE victims == {p \in Procs : NodeOf[p] = n /\ Alive(p)}
  <2>1. /\ pc' = [p \in Procs |-> IF p \in victims THEN "crashed" ELSE pc[p]]
        /\ mailbox' = [p \in Procs |-> IF p \in victims THEN <<>> ELSE mailbox[p]]
        /\ down' = down \cup {n} /\ uncleaned' = uncleaned \cup {n}
        /\ UNCHANGED <<sid, table, res, early>>
    BY <1>1 DEF Crash, tableVars
  <2>2. \A p \in Procs : p \in victims <=> NodeOf[p] = n /\ Alive(p)
    OBVIOUS
  <2> HIDE DEF victims
  <2>3. NodesInv'
    BY <2>1, <2>2 DEF NodesInv, Alive
  <2>4. RowsInv' /\ SidsDiffer'
    BY <2>1, <2>2 DEF RowsInv, SidsDiffer, Alive
  <2>5. ConflictsHandled'
    <3> SUFFICES ASSUME early = 0, NEW a \in table, NEW b \in table,
                        res[a] = res[b], sid[a] < sid[b]
                 PROVE  Handled(a, b)'
      BY <2>1 DEF ConflictsHandled
    <3>1. Handled(a, b)
      BY DEF ConflictsHandled
    <3>2. CASE a \in victims \/ b \in victims
      BY <2>1, <3>2 DEF Handled
    <3>3. CASE a \notin victims /\ b \notin victims
      BY <2>1, <3>1, <3>3 DEF Handled, HasExit
    <3> QED
      BY <3>2, <3>3
  <2> QED
    BY <2>3, <2>4, <2>5
<1>2. CASE NodeCleanup(n)
  <2>1. /\ n \in uncleaned /\ uncleaned' = uncleaned \ {n}
        /\ table' = {p \in table : NodeOf[p] # n}
        /\ UNCHANGED <<pc, sid, mailbox, res, down, early>>
    BY <1>2 DEF NodeCleanup, procVars
  <2>2. NodesInv' /\ SidsDiffer'
    BY <2>1 DEF NodesInv, SidsDiffer, Alive
  <2>3. early = 0 => \A p \in Procs : NodeOf[p] = n => ~Alive(p)
    BY <2>1 DEF NodesInv
  <2>4. RowsInv'
    BY <2>1, <2>3 DEF RowsInv, Alive
  <2>5. ConflictsHandled'
    BY <2>1 DEF ConflictsHandled, Handled, HasExit
  <2> QED
    BY <2>2, <2>4, <2>5
<1>3. CASE Restart(n)
  <2>1. /\ down' = down \ {n}
        /\ early' = IF n \in uncleaned THEN early + 1 ELSE early
        /\ UNCHANGED <<pc, sid, mailbox, table, res, uncleaned>>
    BY <1>3 DEF Restart, procVars, tableVars
  <2>2. early' = 0 => early = 0 /\ n \notin uncleaned
    BY <2>1
  <2>3. NodesInv' /\ RowsInv' /\ SidsDiffer'
    BY <2>1, <2>2 DEF NodesInv, RowsInv, SidsDiffer, Alive
  <2>4. ConflictsHandled'
    BY <2>1, <2>2 DEF ConflictsHandled, Handled, HasExit
  <2> QED
    BY <2>3, <2>4
<1> QED
  BY <1>1, <1>2, <1>3

\* SessionInv is inductive.
LEMMA SessionStep == SessionInv /\ [Next]_vars => SessionInv'
<1> SUFFICES ASSUME SessionInv, [Next]_vars PROVE SessionInv'
  OBVIOUS
<1>1. TypeOK'
  BY TypeStep DEF SessionInv
<1>2. CASE Next
  BY <1>1, <1>2, SessionOpening, SessionEnding, SessionRouting, SessionNodes DEF Next
<1>3. CASE UNCHANGED vars
  BY <1>1, <1>3, SessionUntouched DEF vars, procVars, tableVars, HasExit
<1> QED
  BY <1>2, <1>3

\* A full JID keeps at most one session: for any number of processes that bind
\* it at the same time, on any nodes, with SIDs in any order.
THEOREM OneSession == Spec => []OneSessionPerResource
<1>1. Init => SessionInv
  BY TypeInit DEF Init, SessionInv, NodesInv, RowsInv, SidsDiffer, ConflictsHandled
<1>2. SessionInv => OneSessionPerResource
  <2> SUFFICES ASSUME SessionInv, Settled, early = 0, NEW p \in table, NEW q \in table,
                      res[p] = res[q], p # q
               PROVE  FALSE
    BY DEF OneSessionPerResource
  <2>1. pc[p] = "open" /\ pc[q] = "open"
    BY DEF SessionInv, RowsInv, Settled, TypeOK
  <2>2. ~Handled(p, q) /\ ~Handled(q, p)
    BY <2>1 DEF Handled, Settled, SessionInv, TypeOK
  <2>3. sid[p] # sid[q] /\ sid[p] \in Nat /\ sid[q] \in Nat
    BY <2>1 DEF SessionInv, SidsDiffer, TypeOK
  <2> QED
    BY <2>2, <2>3 DEF SessionInv, ConflictsHandled
<1> QED
  BY <1>1, <1>2, SessionStep, PTL DEF Spec

\* No row of a live session is removed by the end of another one or by the
\* cleanup of a node that is down (ejabberd_sm_mnesia:cleanup), for any number
\* of nodes and crashes without an early restart.
THEOREM LiveSessionsRegistered == Spec => []OpenIsRegistered
<1>1. Init => SessionInv
  BY TypeInit DEF Init, SessionInv, NodesInv, RowsInv, SidsDiffer, ConflictsHandled
<1>2. SessionInv => OpenIsRegistered
  BY DEF SessionInv, RowsInv, OpenIsRegistered
<1> QED
  BY <1>1, <1>2, SessionStep, PTL DEF Spec


-----------------------------------------------------------------------------
\* No message vanishes.

\* What is queued in a mailbox that gets an entry, or loses its oldest one.
LEMMA QueuedEntries ==
  ASSUME NEW s \in Seq(Entry), NEW m \in Messages
  PROVE  /\ \A e \in Entry : (\E i \in 1 .. Len(s) : s[i] = Route(m)) =>
              \E i \in 1 .. Len(Append(s, e)) : Append(s, e)[i] = Route(m)
         /\ \E i \in 1 .. Len(Append(s, Route(m))) : Append(s, Route(m))[i] = Route(m)
         /\ s # <<>> /\ (\E i \in 1 .. Len(s) : s[i] = Route(m)) =>
              \/ Head(s) = Route(m)
              \/ \E i \in 1 .. Len(Tail(s)) : Tail(s)[i] = Route(m)
<1>1. ASSUME NEW e \in Entry, NEW i \in 1 .. Len(s), s[i] = Route(m)
      PROVE  \E j \in 1 .. Len(Append(s, e)) : Append(s, e)[j] = Route(m)
  <2>1. i \in 1 .. Len(Append(s, e)) /\ Append(s, e)[i] = Route(m)
    BY <1>1
  <2> QED
    BY <2>1
<1>2. \E i \in 1 .. Len(Append(s, Route(m))) : Append(s, Route(m))[i] = Route(m)
  <2>1. Route(m) \in Entry
    BY DEF Entry
  <2>2. Len(s) + 1 \in 1 .. Len(Append(s, Route(m)))
        /\ Append(s, Route(m))[Len(s) + 1] = Route(m)
    BY <2>1
  <2> QED
    BY <2>2
<1>3. ASSUME s # <<>>, NEW i \in 1 .. Len(s), s[i] = Route(m), Head(s) # Route(m)
      PROVE  \E j \in 1 .. Len(Tail(s)) : Tail(s)[j] = Route(m)
  <2>1. i # 1
    BY <1>3
  <2>2. i - 1 \in 1 .. Len(Tail(s)) /\ Tail(s)[i - 1] = s[i]
    BY <1>3, <2>1
  <2> QED
    BY <1>3, <2>2
<1> QED
  BY <1>1, <1>2, <1>3


\* A step keeps every message that was sent at some place: a handler that takes
\* it from a mailbox writes it to the client or routes it again, and a process
\* that routes it stores it or sends it on before it does anything else.
LEMMA VanishStep ==
  ASSUME TypeOK, TypeOK', NoMessageVanishes, [Next]_vars
  PROVE  NoMessageVanishes'
<1> USE JobNames
<1>0. /\ mailbox \in [Procs -> Seq(Entry)]
      /\ job \in [Procs \cup Messages -> {"unsent", "idle", "lookup", "send"}]
      /\ jobMsg \in [Procs \cup Messages -> Messages \cup {Bare}]
      /\ jobTo \in [Procs \cup Messages -> SUBSET Procs]
      /\ got \in [Procs -> SUBSET Messages]
      /\ pc \in [Procs -> {"down", "connected", "set", "open", "closing", "ended", "crashed"}]
  BY DEF TypeOK, Entry
<1> DEFINE Kept == \A m \in Messages : job[m] # "unsent" => Located(m)
<1>1. Kept
  BY DEF NoMessageVanishes
\* Steps that leave messages alone.
<1>2. ASSUME UNCHANGED msgVars,
             \A p \in Procs : Alive(p) => Alive(p)',
             \A p \in Procs, m \in Messages : m \in Queued(p) => m \in Queued(p)'
      PROVE  NoMessageVanishes'
  <2>1. UNCHANGED <<job, jobMsg, jobTo, got, offline, lost>>
    BY <1>2 DEF msgVars
  <2>2. ASSUME NEW m \in Messages, Located(m)
        PROVE  Located(m)'
    BY <1>2, <2>1, <2>2 DEF Located
  <2> QED
    BY <1>1, <2>1, <2>2 DEF NoMessageVanishes
<1>3. CASE UNCHANGED vars
  BY <1>2, <1>3 DEF vars, procVars, Alive, Queued
<1>4. ASSUME NEW p \in Procs, Opening(p) \/ SetPresence(p)
      PROVE  NoMessageVanishes'
  <2>1. UNCHANGED msgVars
    BY <1>4 DEF Opening, Connect, SetSession, ReplaceSessions, SetPresence
  <2>2. \A q \in Procs : Alive(q) => Alive(q)'
    BY <1>0, <1>4 DEF Opening, Connect, SetSession, ReplaceSessions, SetPresence, Alive,
       procVars
  <2>3. ASSUME NEW q \in Procs, NEW m \in Messages, m \in Queued(q)
        PROVE  m \in Queued(q)'
    <3>1. mailbox'[q] \in {mailbox[q], Append(mailbox[q], Exit)}
      BY <1>0, <1>4 DEF Opening, Connect, SetSession, ReplaceSessions, SetPresence, procVars
    <3>2. mailbox[q] \in Seq(Entry) /\ Exit \in Entry
      BY <1>0 DEF Entry
    <3>3. \E i \in 1 .. Len(mailbox[q]) : mailbox[q][i] = Route(m)
      BY <2>3 DEF Queued
    <3>4. \E i \in 1 .. Len(Append(mailbox[q], Exit)) : Append(mailbox[q], Exit)[i] = Route(m)
      BY <3>2, <3>3, QueuedEntries
    <3>5. \E i \in 1 .. Len(mailbox'[q]) : mailbox'[q][i] = Route(m)
      BY <3>1, <3>3, <3>4
    <3> QED
      BY <3>5 DEF Queued
  <2> QED
    BY <1>2, <2>1, <2>2, <2>3
\* The process p takes the oldest entry e from its mailbox.
<1>5. ASSUME NEW p \in Procs, mailbox[p] # <<>>, Alive(p)',
             mailbox' = [mailbox EXCEPT ![p] = Tail(@)],
             \A q \in Procs : q # p /\ Alive(q) => Alive(q)',
             UNCHANGED <<offline, lost>>,
             \A q \in Procs : got[q] \subseteq got'[q],
             \A c \in Procs \cup Messages : job[c] \in {"lookup", "send"} =>
               job'[c] = job[c] /\ jobMsg'[c] = jobMsg[c],
             \A m \in Messages : job'[m] # "unsent" => job[m] # "unsent",
             \A m \in Messages : Head(mailbox[p]) = Route(m) =>
               \/ m \in got'[p]
               \/ job'[p] = "lookup" /\ jobMsg'[p] = m
      PROVE  NoMessageVanishes'
  <2>1. mailbox'[p] = Tail(mailbox[p]) /\ \A q \in Procs : q # p => mailbox'[q] = mailbox[q]
    BY <1>0, <1>5
  <2>2. ASSUME NEW m \in Messages, NEW q \in Procs, Alive(q), m \in Queued(q)
        PROVE  (Alive(q)' /\ m \in Queued(q)') \/ m \in got'[p]
               \/ (job'[p] = "lookup" /\ jobMsg'[p] = m)
    <3>1. CASE q # p
      BY <1>5, <2>1, <2>2, <3>1 DEF Queued
    <3>2. CASE q = p
      <4>1. mailbox[p] \in Seq(Entry)
        BY <1>0
      <4>2. \E i \in 1 .. Len(mailbox[p]) : mailbox[p][i] = Route(m)
        BY <2>2, <3>2 DEF Queued
      <4>3. \/ Head(mailbox[p]) = Route(m)
            \/ \E i \in 1 .. Len(Tail(mailbox[p])) : Tail(mailbox[p])[i] = Route(m)
        BY <1>5, <4>1, <4>2, QueuedEntries
      <4> QED
        BY <1>5, <2>1, <3>2, <4>3 DEF Queued
    <3> QED
      BY <3>1, <3>2
  <2>3. ASSUME NEW m \in Messages, Located(m)
        PROVE  Located(m)'
    <3>1. CASE m \in offline \cup lost
      BY <1>5, <3>1 DEF Located
    <3>2. CASE \E q \in Procs : m \in got[q]
      BY <1>5, <3>2 DEF Located
    <3>3. CASE \E q \in Procs : Alive(q) /\ m \in Queued(q)
      BY <2>2, <3>3 DEF Located
    <3>4. CASE \E c \in Procs \cup Messages : job[c] \in {"lookup", "send"} /\ jobMsg[c] = m
      BY <1>5, <3>4 DEF Located
    <3> QED
      BY <2>3, <3>1, <3>2, <3>3, <3>4 DEF Located
  <2> QED
    BY <1>1, <1>5, <2>3 DEF NoMessageVanishes
<1>6. ASSUME NEW p \in Procs, Ending(p) \/ HandleRoute(p)
      PROVE  NoMessageVanishes'
  <2>0. mailbox[p] \in Seq(Entry) /\ (mailbox[p] # <<>> => Head(mailbox[p]) \in Entry)
    BY <1>0, MailboxType
  <2>1. CASE StopSession(p)
    BY <1>0, <1>2, <2>1 DEF StopSession, CloseSession, Alive, Queued
  <2>2. CASE HandleExit(p)
    <3>1. pc' = [pc EXCEPT ![p] = "closing"] /\ UNCHANGED <<got, offline, lost, job, jobMsg>>
          /\ Head(mailbox[p]) = Exit /\ mailbox[p] # <<>>
          /\ mailbox' = [mailbox EXCEPT ![p] = Tail(@)]
      BY <2>2 DEF HandleExit, CloseSession, msgVars
    <3>2. Alive(p)' /\ \A q \in Procs : q # p /\ Alive(q) => Alive(q)'
      BY <1>0, <3>1 DEF Alive
    <3>3. \A m \in Messages : Head(mailbox[p]) # Route(m)
      BY <3>1 DEF Exit, Route
    <3> QED
      BY <1>5, <3>1, <3>2, <3>3
  <2>3. CASE BounceMessage(p)
    <3>1. /\ job[p] = "idle" /\ pc[p] = "closing" /\ mailbox[p] # <<>>
          /\ mailbox' = [mailbox EXCEPT ![p] = Tail(@)]
          /\ IF Head(mailbox[p]) = Exit THEN UNCHANGED <<job, jobMsg>>
             ELSE /\ job' = [job EXCEPT ![p] = "lookup"]
                  /\ jobMsg' = [jobMsg EXCEPT ![p] = Head(mailbox[p]).m]
          /\ UNCHANGED <<pc, got, offline, lost>>
      BY <2>3 DEF BounceMessage
    <3>2. Alive(p)' /\ \A q \in Procs : q # p /\ Alive(q) => Alive(q)'
      BY <1>0, <3>1 DEF Alive
    <3>3. \A m \in Messages : Head(mailbox[p]) = Route(m) =>
            job'[p] = "lookup" /\ jobMsg'[p] = m
      BY <1>0, <3>1 DEF Exit, Route
    <3>4. \A c \in Procs \cup Messages : c # p => job'[c] = job[c] /\ jobMsg'[c] = jobMsg[c]
      BY <1>0, <3>1
    <3>5. \A c \in Procs \cup Messages : job[c] \in {"lookup", "send"} =>
            job'[c] = job[c] /\ jobMsg'[c] = jobMsg[c]
      BY <3>1, <3>4
    <3>6. \A m \in Messages : job'[m] # "unsent" => job[m] # "unsent"
      BY <3>1, <3>4
    <3> QED
      BY <1>5, <3>1, <3>2, <3>3, <3>5, <3>6
  <2>4. CASE Finish(p)
    <3>1. mailbox[p] = <<>> /\ pc' = [pc EXCEPT ![p] = "ended"] /\ UNCHANGED mailbox
          /\ UNCHANGED <<job, jobMsg, got, offline, lost>>
      BY <2>4 DEF Finish, msgVars
    <3>2. \A m \in Messages, q \in Procs : Alive(q) /\ m \in Queued(q) =>
            (Alive(q) /\ m \in Queued(q))'
      BY <1>0, <3>1 DEF Alive, Queued
    <3>3. ASSUME NEW m \in Messages, Located(m)
          PROVE  Located(m)'
      BY <3>1, <3>2, <3>3 DEF Located
    <3> QED
      BY <1>1, <3>1, <3>3 DEF NoMessageVanishes
  <2>5. CASE HandleRoute(p)
    <3>1. /\ pc[p] = "open" /\ mailbox[p] # <<>>
          /\ mailbox' = [mailbox EXCEPT ![p] = Tail(@)]
          /\ got' = [got EXCEPT ![p] = @ \cup {Head(mailbox[p]).m}]
          /\ UNCHANGED <<pc, job, jobMsg, offline, lost>>
      BY <2>5 DEF HandleRoute
    <3>2. Alive(p)' /\ \A q \in Procs : q # p /\ Alive(q) => Alive(q)'
      BY <1>0, <3>1 DEF Alive
    <3>3. \A m \in Messages : Head(mailbox[p]) = Route(m) => m \in got'[p]
      BY <1>0, <3>1 DEF Route
    <3>4. \A q \in Procs : got[q] \subseteq got'[q]
      BY <1>0, <3>1
    <3> QED
      BY <1>5, <3>1, <3>2, <3>3, <3>4
  <2> QED
    BY <1>6, <2>1, <2>2, <2>3, <2>4, <2>5 DEF Ending
<1>7. ASSUME NEW m \in Messages, NEW d \in Resources \cup {Bare}, SendMessage(m, d)
      PROVE  NoMessageVanishes'
  <2>1. /\ job[m] = "unsent" /\ job' = [job EXCEPT ![m] = "lookup"]
        /\ jobMsg' = [jobMsg EXCEPT ![m] = m]
        /\ UNCHANGED <<pc, mailbox, got, offline, lost>>
    BY <1>7 DEF SendMessage, procVars
  <2>2. job'[m] = "lookup" /\ jobMsg'[m] = m
        /\ \A c \in Procs \cup Messages : c # m => job'[c] = job[c] /\ jobMsg'[c] = jobMsg[c]
    BY <1>0, <2>1
  <2>3. Located(m)'
    BY <2>2 DEF Located
  <2>4. ASSUME NEW k \in Messages, Located(k)
        PROVE  Located(k)'
    <3>1. \A c \in Procs \cup Messages : job[c] \in {"lookup", "send"} =>
            job'[c] = job[c] /\ jobMsg'[c] = jobMsg[c]
      BY <2>1, <2>2
    <3>2. \A p \in Procs : Alive(p)' = Alive(p) /\ Queued(p)' = Queued(p)
      BY <2>1 DEF Alive, Queued
    <3> QED
      BY <2>1, <2>4, <3>1, <3>2 DEF Located
  <2> QED
    BY <1>1, <2>2, <2>3, <2>4 DEF NoMessageVanishes
<1>8. ASSUME NEW c \in Procs \cup Messages, Routing(c)
      PROVE  NoMessageVanishes'
  <2>1. /\ job[c] \in {"lookup", "send"} /\ UNCHANGED <<pc, got, jobMsg>>
        /\ offline \subseteq offline' /\ lost \subseteq lost'
        /\ \A b \in Procs \cup Messages : b # c => job'[b] = job[b]
    BY <1>0, <1>8 DEF Routing, LookUp, SendTo, procVars
  <2>2. jobMsg[c] \in Messages
    BY <2>1 DEF TypeOK
  \* Mailboxes only grow.
  <2>3. ASSUME NEW m \in Messages, NEW q \in Procs, m \in Queued(q)
        PROVE  m \in Queued(q)'
    <3>1. mailbox[q] \in Seq(Entry) /\ Route(jobMsg[c]) \in Entry
      BY <1>0, <2>2 DEF Entry
    <3>2. mailbox'[q] \in {mailbox[q], Append(mailbox[q], Route(jobMsg[c]))}
      BY <1>0, <1>8 DEF Routing, LookUp, SendTo, procVars
    <3>3. \E i \in 1 .. Len(mailbox[q]) : mailbox[q][i] = Route(m)
      BY <2>3 DEF Queued
    <3>4. \E i \in 1 .. Len(Append(mailbox[q], Route(jobMsg[c]))) :
            Append(mailbox[q], Route(jobMsg[c]))[i] = Route(m)
      BY <3>1, <3>3, QueuedEntries
    <3> QED
      BY <3>2, <3>3, <3>4 DEF Queued
  \* The message that is routed.
  <2>4. Located(jobMsg[c])'
    <3>1. CASE LookUp(c)
      <4>1. \/ jobMsg[c] \in offline'
            \/ job'[c] = "send" /\ jobMsg' = jobMsg
        BY <1>0, <3>1 DEF LookUp
      <4> QED
        BY <2>1, <4>1 DEF Located
    <3>2. CASE \E p \in Procs : SendTo(c, p)
      <4>1. PICK p \in Procs : SendTo(c, p)
        BY <3>2
      <4>2. CASE ~ Alive(p)
        BY <2>1, <4>1, <4>2 DEF SendTo, Located
      <4>3. CASE Alive(p)
        <5>1. mailbox[p] \in Seq(Entry) /\ mailbox'[p] = Append(mailbox[p], Route(jobMsg[c]))
          BY <1>0, <4>1, <4>3 DEF SendTo
        <5>2. \E i \in 1 .. Len(mailbox'[p]) : mailbox'[p][i] = Route(jobMsg[c])
          BY <2>2, <5>1, QueuedEntries
        <5>3. jobMsg[c] \in Queued(p)' /\ Alive(p)'
          BY <2>1, <2>2, <4>3, <5>2 DEF Queued, Alive
        <5> QED
          BY <2>1, <5>3 DEF Located
      <4> QED
        BY <4>2, <4>3
    <3> QED
      BY <1>8, <3>1, <3>2 DEF Routing
  <2>5. ASSUME NEW m \in Messages, Located(m)
        PROVE  Located(m)'
    <3>1. CASE m = jobMsg[c]
      BY <2>1, <2>4, <3>1 DEF Located
    <3>2. CASE m # jobMsg[c]
      <4>1. \A b \in Procs \cup Messages : job[b] \in {"lookup", "send"} /\ jobMsg[b] = m =>
              job'[b] \in {"lookup", "send"} /\ jobMsg'[b] = m
        BY <2>1, <3>2
      <4>2. \A q \in Procs : Alive(q)' = Alive(q)
        BY <2>1 DEF Alive
      <4> QED
        BY <2>1, <2>3, <2>5, <4>1, <4>2 DEF Located
    <3> QED
      BY <3>1, <3>2
  <2>6. \A m \in Messages : job'[m] # "unsent" => job[m] # "unsent"
    BY <2>1
  <2> QED
    BY <1>1, <2>5, <2>6 DEF NoMessageVanishes
<1>9. ASSUME NEW n \in Nodes, Crash(n)
      PROVE  NoMessageVanishes'
  <2> DEFINE victims == {p \in Procs : NodeOf[p] = n /\ Alive(p)}
  <2>1. /\ pc' = [p \in Procs |-> IF p \in victims THEN "crashed" ELSE pc[p]]
        /\ mailbox' = [p \in Procs |-> IF p \in victims THEN <<>> ELSE mailbox[p]]
        /\ job' = [c \in Procs \cup Messages |-> IF c \in victims THEN "idle" ELSE job[c]]
        /\ lost' = lost \cup UNION {Queued(p) \cup Carried(p) : p \in victims}
        /\ UNCHANGED <<jobMsg, got, offline>>
    BY <1>9 DEF Crash
  <2>2. victims \subseteq Procs
    OBVIOUS
  <2> HIDE DEF victims
  <2>3. \A p \in Procs : p \notin victims =>
          Alive(p)' = Alive(p) /\ Queued(p)' = Queued(p)
    BY <1>0, <2>1 DEF Alive, Queued
  <2>4. \A p \in victims : Queued(p) \subseteq lost' /\ Carried(p) \subseteq lost'
    BY <2>1
  <2>5. ASSUME NEW m \in Messages, Located(m)
        PROVE  Located(m)'
    <3>1. CASE m \in offline \cup lost
      BY <2>1, <3>1 DEF Located
    <3>2. CASE \E q \in Procs : m \in got[q]
      BY <2>1, <3>2 DEF Located
    <3>3. CASE \E q \in Procs : Alive(q) /\ m \in Queued(q)
      <4>1. PICK q \in Procs : Alive(q) /\ m \in Queued(q)
        BY <3>3
      <4>2. CASE q \in victims
        BY <2>4, <4>1, <4>2 DEF Located
      <4>3. CASE q \notin victims
        <5>1. Alive(q)' /\ m \in Queued(q)'
          BY <2>3, <4>1, <4>3
        <5> QED
          BY <5>1 DEF Located
      <4> QED
        BY <4>2, <4>3
    <3>4. CASE \E c \in Procs \cup Messages : job[c] \in {"lookup", "send"} /\ jobMsg[c] = m
      <4>1. PICK c \in Procs \cup Messages : job[c] \in {"lookup", "send"} /\ jobMsg[c] = m
        BY <3>4
      <4>2. CASE c \in victims
        BY <2>4, <4>1, <4>2 DEF Located, Carried
      <4>3. CASE c \notin victims
        BY <2>1, <4>1, <4>3 DEF Located
      <4> QED
        BY <4>2, <4>3
    <3> QED
      BY <2>5, <3>1, <3>2, <3>3, <3>4 DEF Located
  <2>6. \A m \in Messages : job'[m] = job[m]
    BY <2>1, <2>2
  <2> QED
    BY <1>1, <2>5, <2>6 DEF NoMessageVanishes
<1>10. ASSUME NEW n \in Nodes, NodeCleanup(n) \/ Restart(n)
       PROVE  NoMessageVanishes'
  BY <1>2, <1>10 DEF NodeCleanup, Restart, procVars, Alive, Queued
<1> QED
  BY <1>3, <1>4, <1>6, <1>7, <1>8, <1>9, <1>10 DEF Next

\* A message that was sent is with a live process, being routed, delivered,
\* stored, or was lost with a dead process, for any number of processes that
\* end and pass it on to each other in bounce_messages.
THEOREM MessagesStay == Spec => []NoMessageVanishes
<1>1. Init => NoMessageVanishes
  BY JobNames DEF Init, NoMessageVanishes
<1> QED
  BY <1>1, TypeInit, TypeStep, VanishStep, PTL DEF Spec
=============================================================================
