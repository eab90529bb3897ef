-------------------------- MODULE SmHandoverProofs --------------------------
(***************************************************************************)
(* For any number of processes and both backends: a stream has one holder, *)
(* and the registry leads to no process that is gone.                      *)
(***************************************************************************)
EXTENDS SmHandover, TLAPS

\* The variables that the argument is about; the contents of buffers and
\* mailboxes do not matter.
Shapes ==
    /\ pc \in [Procs -> Stage] /\ sm \subseteq Procs
    /\ previd \in [Procs -> OrNone] /\ callee \in [Procs -> OrNone]
    /\ found \in [Procs -> OrNone]
    /\ bySmid \in [Procs -> OrNone] /\ bySid \in [Procs -> OrNone]

\* Where in its life a process has an sm_state and a previd.
Stages == \A p \in Procs :
    /\ pc[p] \in {"down", "auth", "calling"} => p \notin sm
    /\ pc[p] \in {"got", "register", "detached", "read", "delete", "reroute"}
         => p \in sm
    /\ pc[p] \in {"got", "register"} => previd[p] # None
    /\ pc[p] = "set" /\ p \in sm => previd[p] # None
    /\ pc[p] \in {"down", "auth", "set", "established"} /\ p \notin sm
         => previd[p] = None

\* A process calls one that has, or had, the stream of the previd.
CallsRight == \A p \in Procs : pc[p] = "calling" =>
    /\ previd[p] # None
    /\ callee[p] \in sm /\ SmidOf(callee[p]) = previd[p]

\* An SMID in use was generated, and is registered for a process of its own.
SmidsRight ==
    /\ \A p \in Procs : previd[p] # None => previd[p] \in sm
    /\ \A s \in Procs : bySmid[s] # None =>
         /\ s \in sm /\ bySmid[s] \in sm /\ SmidOf(bySmid[s]) = s
         /\ Backend = "cets" => bySid[bySmid[s]] = s

\* A process about to delete a record has found the one that leads to it.
FoundRight == \A p, s \in Procs : pc[p] = "delete" /\ bySmid[s] = p => found[p] = s

HandoverInv ==
    Shapes /\ Stages /\ CallsRight /\ SmidsRight /\ FoundRight /\ OneHolder
    /\ NoDanglingSmid

-----------------------------------------------------------------------------
\* Steps that leave processes and registry alone keep HandoverInv.
LEMMA HandoverQuiet ==
  ASSUME HandoverInv, UNCHANGED <<pc, sm, previd, callee, found, smidVars>>
  PROVE  HandoverInv'
BY DEF HandoverInv, Shapes, Stages, CallsRight, SmidsRight, FoundRight, OneHolder,
       NoDanglingSmid, Holds, SmidOf, smidVars, None

\* The steps of the life of a process that change nothing but its pc.
Advances(p, old, new) ==
    \/ old = "down" /\ new = "auth"
    \/ old \in {"auth", "got"} /\ new = "set"
    \/ old = "set" /\ new = IF p \in sm THEN "register" ELSE "established"
    \/ old = "established" /\ new = "detached" /\ p \in sm
    \/ old \in {"established", "detached"} /\ new = "closing"
    \/ old = "closing" /\ new = IF p \in sm THEN "read" ELSE "bounce"
    \/ old = "reroute" /\ new = "bounce"
    \/ old = "bounce" /\ new = "dead"

\* Such a step of one process keeps HandoverInv: nobody becomes a holder, and
\* a process that leaves the registry's reach has no sm_state.
LEMMA HandoverAdvance ==
  ASSUME HandoverInv, NEW p \in Procs, NEW l \in Stage, Advances(p, pc[p], l),
         pc' = [pc EXCEPT ![p] = l],
         UNCHANGED <<sm, previd, callee, found, smidVars>>
  PROVE  HandoverInv'
<1> USE HandoverAssumption DEF HandoverInv
<1>1. pc'[p] = l /\ \A q \in Procs : q # p => pc'[q] = pc[q]
  BY DEF Shapes
<1>2. Shapes'
  BY DEF Shapes, smidVars
<1>3. Stages'
  BY <1>1 DEF Stages, Advances, Shapes, None
<1>4. CallsRight'
  BY <1>1 DEF CallsRight, Advances, Shapes, SmidOf, None
<1>5. SmidsRight'
  BY DEF SmidsRight, Shapes, SmidOf, smidVars, None
<1>6. FoundRight'
  BY <1>1 DEF FoundRight, Advances, Shapes, smidVars
<1>7. \A q \in Procs : Holds(q)' => Holds(q)
  BY <1>1 DEF Holds, Advances, Stages, Shapes
<1>8. OneHolder'
  BY <1>7 DEF OneHolder, SmidOf
<1>9. NoDanglingSmid'
  <2> SUFFICES ASSUME NEW s \in Procs, NEW q \in Procs, bySmid[s] = q, q # None
               PROVE  Holds(q)' \/ pc'[q] \in {"closing", "read", "delete"}
    BY DEF NoDanglingSmid, smidVars, Shapes, OrNone
  <2>1. q \in sm
    BY DEF SmidsRight
  <2>2. Holds(q) \/ pc[q] \in {"closing", "read", "delete"}
    BY DEF NoDanglingSmid
  <2> QED
    BY <1>1, <2>1, <2>2 DEF Holds, Advances
<1> QED
  BY <1>2, <1>3, <1>4, <1>5, <1>6, <1>8, <1>9

\* Binding, ending and terminating: one advance each.
LEMMA HandoverLife ==
  ASSUME HandoverInv, NEW p \in Procs,
         \/ Connect(p) \/ SetSession(p) \/ ReplaceSessions(p)
         \/ SocketClosed(p) \/ Stop(p) \/ HandleExit(p)
         \/ CloseSession(p) \/ RerouteBuffer(p) \/ Die(p)
  PROVE  HandoverInv'
<1> DEFINE Moves(l) == /\ Advances(p, pc[p], l) /\ pc' = [pc EXCEPT ![p] = l]
                       /\ UNCHANGED <<sm, previd, callee, found, smidVars>>
<1>1. \A l \in Stage : Moves(l) => HandoverInv'
  BY HandoverAdvance
<1> HIDE DEF Moves
<1>2. CASE Connect(p)
  <2>1. Moves("auth")
    BY <1>2 DEF Connect, Goto, Advances, smidVars, Moves
  <2> QED
    BY <1>1, <2>1 DEF Stage
<1>3. CASE SetSession(p)
  <2>1. Moves("set")
    BY <1>3 DEF SetSession, Goto, Advances, smidVars, Moves
  <2> QED
    BY <1>1, <2>1 DEF Stage
<1>4. CASE ReplaceSessions(p)
  <2>1. Moves(IF p \in sm THEN "register" ELSE "established")
    BY <1>4 DEF ReplaceSessions, Goto, Advances, smidVars, Moves
  <2> QED
    BY <1>1, <2>1 DEF Stage
<1>5. CASE SocketClosed(p)
  <2>1. Moves(IF p \in sm THEN "detached" ELSE "closing")
    BY <1>5 DEF SocketClosed, Goto, Advances, smidVars, Moves
  <2> QED
    BY <1>1, <2>1 DEF Stage
<1>6. CASE Stop(p)
  <2>1. Moves("closing")
    BY <1>6 DEF Stop, Goto, Advances, smidVars, Moves, Serving
  <2> QED
    BY <1>1, <2>1 DEF Stage
<1>7. CASE HandleExit(p)
  <2>1. Moves("closing")
    BY <1>7 DEF HandleExit, Goto, Advances, smidVars, Moves, Serving
  <2> QED
    BY <1>1, <2>1 DEF Stage
<1>8. CASE CloseSession(p)
  <2>1. Moves(IF p \in sm THEN "read" ELSE "bounce")
    BY <1>8 DEF CloseSession, Goto, Advances, smidVars, Moves
  <2> QED
    BY <1>1, <2>1 DEF Stage
<1>9. CASE RerouteBuffer(p)
  <2>1. Moves("bounce")
    BY <1>9 DEF RerouteBuffer, Goto, Advances, smidVars, Moves
  <2> QED
    BY <1>1, <2>1 DEF Stage
<1>10. CASE Die(p)
  <2>1. Moves("dead")
    BY <1>10 DEF Die, Goto, Advances, smidVars, Moves
  <2> QED
    BY <1>1, <2>1 DEF Stage
<1> QED
  BY <1>2, <1>3, <1>4, <1>5, <1>6, <1>7, <1>8, <1>9, <1>10

\* Registration keeps HandoverInv: a new SMID is used by nobody else, and a
\* resumed one is held by the process that registers it.
LEMMA HandoverRegister ==
  ASSUME HandoverInv, NEW p \in Procs, ResumeDone(p) \/ Enable(p)
  PROVE  HandoverInv'
<1> USE HandoverAssumption DEF HandoverInv
<1>1. PICK s \in Procs :
        /\ s = (IF previd[p] = None THEN p ELSE previd[p])
        /\ RegisterSmid(s, p)
        /\ pc[p] \in {"register", "established"} /\ pc' = [pc EXCEPT ![p] = "established"]
        /\ sm' = sm \cup {p} /\ UNCHANGED <<previd, callee, found>>
        /\ pc[p] = "register" => p \in sm
        /\ pc[p] = "established" => p \notin sm /\ previd[p] = None
  <2>1. CASE ResumeDone(p)
    <3>1. /\ pc[p] = "register" /\ RegisterSmid(previd[p], p)
          /\ pc' = [pc EXCEPT ![p] = "established"]
          /\ UNCHANGED <<sm, previd, callee, found>>
      BY <2>1 DEF ResumeDone, Goto
    <3>2. p \in sm /\ previd[p] # None
      BY <3>1 DEF Stages
    <3>3. previd[p] \in Procs
      BY <3>2 DEF Shapes, OrNone
    <3>4. sm' = sm \cup {p}
      BY <3>1, <3>2
    <3> WITNESS previd[p] \in Procs
    <3> QED
      BY <3>1, <3>2, <3>4
  <2>2. CASE Enable(p)
    BY <2>2 DEF Enable, Stages, Shapes, None
  <2> QED
    BY <2>1, <2>2
<1>2. pc'[p] = "established" /\ \A q \in Procs : q # p => pc'[q] = pc[q]
  BY <1>1 DEF Shapes
<1>3. /\ bySmid'[s] = p /\ \A r \in Procs : r # s => bySmid'[r] = bySmid[r]
      /\ Backend = "cets" => /\ bySid'[p] = s
                             /\ \A q \in Procs : q # p => bySid'[q] = bySid[q]
  BY <1>1 DEF RegisterSmid, Shapes
<1>4. Shapes'
  <2>1. bySmid' \in [Procs -> OrNone]
    BY <1>1 DEF Shapes, RegisterSmid, OrNone
  <2>2. bySid' \in [Procs -> OrNone]
    BY <1>1 DEF Shapes, RegisterSmid, OrNone
  <2>3. pc' \in [Procs -> Stage] /\ sm' \subseteq Procs
    BY <1>1 DEF Shapes, Stage
  <2> QED
    BY <1>1, <2>1, <2>2, <2>3 DEF Shapes
<1>5. \A q \in Procs : SmidOf(q)' = SmidOf(q)
  BY <1>1 DEF SmidOf
<1>6. SmidOf(p) = s /\ s \in sm'
  <2>1. SmidOf(p) = s
    BY <1>1 DEF SmidOf
  <2>2. CASE previd[p] = None
    BY <1>1, <2>1, <2>2
  <2>3. CASE previd[p] # None
    BY <1>1, <2>1, <2>3 DEF SmidsRight
  <2> QED
    BY <2>1, <2>2, <2>3
<1>7. Stages'
  BY <1>1, <1>2 DEF Stages, Shapes, None
<1>8. CallsRight'
  BY <1>1, <1>2 DEF CallsRight, Shapes, SmidOf
<1>9. SmidsRight'
  <2>1. \A q \in Procs : previd'[q] # None => previd'[q] \in sm'
    BY <1>1 DEF SmidsRight
  <2> SUFFICES ASSUME NEW r \in Procs, NEW q \in Procs, bySmid'[r] = q
               PROVE  /\ r \in sm' /\ q \in sm' /\ SmidOf(q)' = r
                      /\ Backend = "cets" => bySid'[q] = r
    <3>1. bySmid' \in [Procs -> OrNone]
      BY <1>4 DEF Shapes
    <3> QED
      BY <2>1, <3>1 DEF SmidsRight, OrNone, SmidOf
  <2>2. CASE r = s
    BY <1>1, <1>3, <1>5, <1>6, <2>2
  <2>3. CASE r # s
    <3>1. bySmid[r] = q /\ q # None
      BY <1>3, <2>3 DEF None
    <3>2. r \in sm /\ q \in sm /\ SmidOf(q) = r /\ (Backend = "cets" => bySid[q] = r)
      BY <3>1 DEF SmidsRight
    <3>3. q # p
      BY <1>6, <2>3, <3>2
    <3> QED
      BY <1>1, <1>3, <1>5, <3>2, <3>3
  <2> QED
    BY <2>2, <2>3
<1>10. FoundRight'
  BY <1>1, <1>2, <1>3 DEF FoundRight, Shapes
<1>11. OneHolder'
  <2>1. \A q \in Procs : q # p /\ Holds(q)' => Holds(q)
    BY <1>1, <1>2 DEF Holds
  <2>2. \A q \in Procs : q # p /\ Holds(q) => SmidOf(q) # s
    <3>1. CASE pc[p] = "register"
      BY <1>1, <1>6, <3>1 DEF OneHolder, Holds
    <3>2. CASE pc[p] = "established"
      <4>1. s = p /\ p \notin sm
        BY <1>1, <3>2
      <4> QED
        BY <4>1 DEF SmidOf, SmidsRight, None
    <3> QED
      BY <1>1, <3>1, <3>2
  <2> QED
    BY <1>5, <1>6, <2>1, <2>2 DEF OneHolder
<1>12. NoDanglingSmid'
  <2> SUFFICES ASSUME NEW r \in Procs, NEW q \in Procs, bySmid'[r] = q
               PROVE  Holds(q)' \/ pc'[q] \in {"closing", "read", "delete"}
    BY <1>4, ZenonT(60) DEF NoDanglingSmid, Shapes, OrNone
  <2>1. CASE q = p
    BY <1>1, <1>2, <2>1 DEF Holds
  <2>2. CASE q # p
    <3>1. bySmid[r] = q /\ q # None
      BY <1>3, <2>2 DEF None
    <3> QED
      BY <1>1, <1>2, <2>2, <3>1 DEF NoDanglingSmid, Holds
  <2> QED
    BY <2>1, <2>2
<1> QED
  BY <1>4, <1>7, <1>8, <1>9, <1>10, <1>11, <1>12

\* A call, and its failure, keep HandoverInv: the registry leads to a process
\* of the stream that is asked for.
LEMMA HandoverCalling ==
  ASSUME HandoverInv, NEW p \in Procs, Calling(p)
  PROVE  HandoverInv'
<1> USE HandoverAssumption DEF HandoverInv
<1>1. CASE \E s \in Procs : ResumeRequest(p, s)
  <2>1. PICK s \in Procs : ResumeRequest(p, s)
    BY <1>1
  <2>2. /\ pc[p] = "auth" /\ bySmid[s] # None
        /\ pc' = [pc EXCEPT ![p] = "calling"]
        /\ previd' = [previd EXCEPT ![p] = s]
        /\ callee' = [callee EXCEPT ![p] = bySmid[s]]
        /\ UNCHANGED <<sm, found, bySmid, bySid>>
    BY <2>1 DEF ResumeRequest, Goto, smidVars
  <2>3. bySmid[s] \in Procs /\ bySmid[s] \in sm /\ s \in sm /\ p \notin sm /\ s # None
    BY <2>2 DEF SmidsRight, Stages, Shapes, OrNone, None
  <2>4. Shapes'
    BY <2>2, <2>3 DEF Shapes, OrNone, Stage
  <2>5. pc'[p] = "calling" /\ \A q \in Procs : q # p => pc'[q] = pc[q]
    BY <2>2 DEF Shapes
  <2>6. previd'[p] = s /\ \A q \in Procs : q # p => previd'[q] = previd[q]
    BY <2>2 DEF Shapes
  <2>7. callee'[p] = bySmid[s] /\ \A q \in Procs : q # p => callee'[q] = callee[q]
    BY <2>2 DEF Shapes
  <2>8. \A q \in Procs : q # p => SmidOf(q)' = SmidOf(q)
    BY <2>6 DEF SmidOf
  <2>9. Stages'
    BY <2>2, <2>3, <2>5, <2>6 DEF Stages
  <2>10. CallsRight'
    <3> SUFFICES ASSUME NEW q \in Procs, pc'[q] = "calling"
                 PROVE  /\ previd'[q] # None /\ callee'[q] \in sm
                        /\ (IF previd'[callee'[q]] = None THEN callee'[q]
                              ELSE previd'[callee'[q]]) = previd'[q]
      BY <2>2 DEF CallsRight, SmidOf
    <3>1. CASE q = p
      <4>1. SmidOf(bySmid[s]) = s /\ bySmid[s] # p
        BY <2>2, <2>3 DEF SmidsRight
      <4> QED
        BY <2>3, <2>6, <2>7, <3>1, <4>1 DEF SmidOf
    <3>2. CASE q # p
      <4>1. previd[q] # None /\ callee[q] \in sm /\ SmidOf(callee[q]) = previd[q]
        BY <2>5, <3>2 DEF CallsRight
      <4>2. callee[q] \in Procs /\ callee[q] # p
        BY <2>3, <4>1 DEF Shapes
      <4> QED
        BY <2>6, <2>7, <3>2, <4>1, <4>2 DEF SmidOf
    <3> QED
      BY <3>1, <3>2
  <2>11. SmidsRight'
    <3>1. \A q \in Procs : previd'[q] # None => previd'[q] \in sm
      BY <2>3, <2>6 DEF SmidsRight
    <3>2. ASSUME NEW r \in Procs, bySmid[r] # None
          PROVE  /\ r \in sm /\ bySmid[r] \in sm
                 /\ (IF previd'[bySmid[r]] = None THEN bySmid[r]
                       ELSE previd'[bySmid[r]]) = r
                 /\ Backend = "cets" => bySid[bySmid[r]] = r
      <4>1. r \in sm /\ bySmid[r] \in sm /\ SmidOf(bySmid[r]) = r
            /\ (Backend = "cets" => bySid[bySmid[r]] = r)
        BY <3>2 DEF SmidsRight
      <4>2. bySmid[r] \in Procs /\ bySmid[r] # p
        BY <2>3, <4>1 DEF Shapes
      <4> QED
        BY <2>6, <4>1, <4>2 DEF SmidOf
    <3> QED
      BY <2>2, <3>1, <3>2 DEF SmidsRight, SmidOf
  <2>12. FoundRight'
    BY <2>2, <2>5 DEF FoundRight
  <2>13. \A q \in Procs : Holds(q)' => q # p /\ Holds(q)
    BY <2>2, <2>3, <2>5 DEF Holds
  <2>14. OneHolder'
    BY <2>8, <2>13 DEF OneHolder
  <2>15. NoDanglingSmid'
    <3> SUFFICES ASSUME NEW r \in Procs, NEW q \in Procs, bySmid[r] = q, q # None
                 PROVE  Holds(q)' \/ pc'[q] \in {"closing", "read", "delete"}
      BY <2>2 DEF NoDanglingSmid, Shapes, OrNone
    <3>1. Holds(q) \/ pc[q] \in {"closing", "read", "delete"}
      BY DEF NoDanglingSmid
    <3>2. q \in sm
      BY DEF SmidsRight
    <3> QED
      BY <2>2, <2>3, <2>5, <3>1, <3>2 DEF Holds
  <2> QED
    BY <2>4, <2>9, <2>10, <2>11, <2>12, <2>14, <2>15
<1>2. CASE CallFails(p) \/ CallTimeout(p)
  <2>1. /\ pc[p] = "calling" /\ pc' = [pc EXCEPT ![p] = "auth"]
        /\ previd' = [previd EXCEPT ![p] = None]
        /\ callee' = [callee EXCEPT ![p] = None]
        /\ UNCHANGED <<sm, found, bySmid, bySid>>
    BY <1>2 DEF CallFails, CallTimeout, Goto, smidVars
  <2>2. p \notin sm
    BY <2>1 DEF Stages
  <2>3. Shapes'
    BY <2>1 DEF Shapes, OrNone, Stage
  <2>4. pc'[p] = "auth" /\ \A q \in Procs : q # p => pc'[q] = pc[q]
    BY <2>1 DEF Shapes
  <2>5. previd'[p] = None /\ \A q \in Procs : q # p => previd'[q] = previd[q]
    BY <2>1 DEF Shapes
  <2>6. \A q \in Procs : q # p => callee'[q] = callee[q]
    BY <2>1 DEF Shapes
  <2>7. \A q \in Procs : q # p => SmidOf(q)' = SmidOf(q)
    BY <2>5 DEF SmidOf
  <2>8. Stages'
    BY <2>1, <2>2, <2>4, <2>5 DEF Stages
  <2>9. CallsRight'
    <3> SUFFICES ASSUME NEW q \in Procs, pc'[q] = "calling"
                 PROVE  /\ previd'[q] # None /\ callee'[q] \in sm
                        /\ (IF previd'[callee'[q]] = None THEN callee'[q]
                              ELSE previd'[callee'[q]]) = previd'[q]
      BY <2>1 DEF CallsRight, SmidOf
    <3>1. q # p
      BY <2>4
    <3>2. previd[q] # None /\ callee[q] \in sm /\ SmidOf(callee[q]) = previd[q]
      BY <2>4, <3>1 DEF CallsRight
    <3>3. callee[q] \in Procs /\ callee[q] # p
      BY <2>2, <3>2 DEF Shapes
    <3> QED
      BY <2>5, <2>6, <3>1, <3>2, <3>3 DEF SmidOf
  <2>10. SmidsRight'
    <3>1. \A q \in Procs : previd'[q] # None => previd'[q] \in sm
      BY <2>5 DEF SmidsRight
    <3>2. ASSUME NEW r \in Procs, bySmid[r] # None
          PROVE  /\ r \in sm /\ bySmid[r] \in sm
                 /\ (IF previd'[bySmid[r]] = None THEN bySmid[r]
                       ELSE previd'[bySmid[r]]) = r
                 /\ Backend = "cets" => bySid[bySmid[r]] = r
      <4>1. r \in sm /\ bySmid[r] \in sm /\ SmidOf(bySmid[r]) = r
            /\ (Backend = "cets" => bySid[bySmid[r]] = r)
        BY <3>2 DEF SmidsRight
      <4>2. bySmid[r] \in Procs /\ bySmid[r] # p
        BY <2>2, <4>1 DEF Shapes
      <4> QED
        BY <2>5, <4>1, <4>2 DEF SmidOf
    <3> QED
      BY <2>1, <3>1, <3>2 DEF SmidsRight, SmidOf
  <2>11. FoundRight'
    BY <2>1, <2>4 DEF FoundRight
  <2>12. \A q \in Procs : Holds(q)' => q # p /\ Holds(q)
    BY <2>1, <2>2, <2>4 DEF Holds
  <2>13. OneHolder'
    BY <2>7, <2>12 DEF OneHolder
  <2>14. NoDanglingSmid'
    <3> SUFFICES ASSUME NEW r \in Procs, NEW q \in Procs, bySmid[r] = q, q # None
                 PROVE  Holds(q)' \/ pc'[q] \in {"closing", "read", "delete"}
      BY <2>1 DEF NoDanglingSmid, Shapes, OrNone
    <3>1. Holds(q) \/ pc[q] \in {"closing", "read", "delete"}
      BY DEF NoDanglingSmid
    <3>2. q \in sm
      BY DEF SmidsRight
    <3> QED
      BY <2>1, <2>2, <2>4, <3>1, <3>2 DEF Holds
  <2> QED
    BY <2>3, <2>8, <2>9, <2>10, <2>11, <2>13, <2>14
<1> QED
  BY <1>1, <1>2 DEF Calling

\* An answered call keeps HandoverInv: the stream changes hands in one step,
\* or the caller ends.
LEMMA HandoverAnswered ==
  ASSUME HandoverInv, NEW q \in Procs, NEW p \in Procs, Serving(q), q \in sm,
         pc[p] = "calling", callee[p] = q,
         UNCHANGED <<previd, found, bySmid, bySid>>,
         \/ /\ pc' = [pc EXCEPT ![q] = "closing", ![p] = "got"]
            /\ sm' = sm \cup {p}
            /\ callee' = [callee EXCEPT ![p] = None]
         \/ /\ pc' = [pc EXCEPT ![q] = "closing", ![p] = "dead"]
            /\ UNCHANGED <<sm, callee>>
  PROVE  HandoverInv'
<1> USE HandoverAssumption DEF HandoverInv
<1>1. p # q /\ p \notin sm /\ previd[p] # None /\ SmidOf(q) = previd[p]
  BY DEF Serving, Stages, CallsRight
<1>2. /\ pc'[q] = "closing" /\ pc'[p] \in {"got", "dead"}
      /\ \A r \in Procs : r # p /\ r # q => pc'[r] = pc[r]
  BY <1>1 DEF Shapes
<1>3. \A r \in Procs : r # p => (r \in sm' <=> r \in sm) /\ callee'[r] = callee[r]
  BY DEF Shapes
<1>4. sm \subseteq sm' /\ sm' \subseteq Procs
  BY DEF Shapes
<1>5. pc'[p] = "got" => p \in sm'
  BY <1>1, <1>2 DEF Shapes
<1>6. Shapes'
  <2>1. pc' \in [Procs -> Stage]
    BY DEF Shapes, Stage
  <2>2. callee' \in [Procs -> OrNone]
    BY DEF Shapes, OrNone
  <2> QED
    BY <1>4, <2>1, <2>2 DEF Shapes
<1>7. Stages'
  BY <1>1, <1>2, <1>3, <1>5 DEF Stages, Serving
<1>8. CallsRight'
  <2> SUFFICES ASSUME NEW r \in Procs, pc'[r] = "calling"
               PROVE  /\ previd[r] # None /\ callee'[r] \in sm'
                      /\ (IF previd[callee'[r]] = None THEN callee'[r]
                            ELSE previd[callee'[r]]) = previd[r]
    BY DEF CallsRight, SmidOf
  <2>1. r # p /\ r # q
    BY <1>2
  <2>2. previd[r] # None /\ callee[r] \in sm /\ SmidOf(callee[r]) = previd[r]
    BY <1>2, <2>1 DEF CallsRight
  <2> QED
    BY <1>3, <1>4, <2>1, <2>2 DEF SmidOf
<1>9. SmidsRight'
  BY <1>4 DEF SmidsRight, SmidOf
<1>10. FoundRight'
  BY <1>2 DEF FoundRight
<1>11. OneHolder'
  <2>1. \A r \in Procs : Holds(r)' => r = p \/ (r # q /\ Holds(r))
    BY <1>2, <1>3 DEF Holds
  <2>2. \A r \in Procs : r # q /\ Holds(r) => SmidOf(r) # SmidOf(p)
    <3>1. Holds(q)
      BY DEF Holds, Serving
    <3>2. SmidOf(p) = SmidOf(q)
      BY <1>1 DEF SmidOf
    <3> QED
      BY <3>1, <3>2 DEF OneHolder
  <2>3. \A r \in Procs : SmidOf(r)' = SmidOf(r)
    BY DEF SmidOf
  <2> QED
    BY <2>1, <2>2, <2>3 DEF OneHolder
<1>12. NoDanglingSmid'
  <2> SUFFICES ASSUME NEW s \in Procs, NEW r \in Procs, bySmid[s] = r, r # None
               PROVE  Holds(r)' \/ pc'[r] \in {"closing", "read", "delete"}
    BY ZenonT(60) DEF NoDanglingSmid, Shapes, OrNone
  <2>1. Holds(r) \/ pc[r] \in {"closing", "read", "delete"}
    BY DEF NoDanglingSmid
  <2>2. r # p
    BY <1>1 DEF SmidsRight
  <2> QED
    BY <1>2, <1>3, <2>1, <2>2 DEF Holds
<1> QED
  BY <1>6, <1>7, <1>8, <1>9, <1>10, <1>11, <1>12

\* The handlers of a resume call keep HandoverInv, whether the caller still
\* waits or not.
LEMMA HandoverCall ==
  ASSUME HandoverInv, NEW q \in Procs, NEW p \in Procs,
         HandleResumeCall(q, p) \/ RefuseResumeCall(q, p)
  PROVE  HandoverInv'
<1>1. Serving(q) /\ q \in sm /\ UNCHANGED <<previd, found, bySmid, bySid>>
  BY DEF HandleResumeCall, RefuseResumeCall, CallFrom, smidVars
<1>2. CASE Awaited(q, p)
  <2>1. \/ /\ pc' = [pc EXCEPT ![q] = "closing", ![p] = "got"]
           /\ sm' = sm \cup {p}
           /\ callee' = [callee EXCEPT ![p] = None]
        \/ /\ pc' = [pc EXCEPT ![q] = "closing", ![p] = "dead"]
           /\ UNCHANGED <<sm, callee>>
    BY <1>2 DEF HandleResumeCall, RefuseResumeCall
  <2> QED
    BY <1>1, <1>2, <2>1, HandoverAnswered DEF Awaited
<1>3. CASE ~Awaited(q, p)
  <2>1. pc' = [pc EXCEPT ![q] = "closing"] /\ UNCHANGED <<sm, callee>>
    BY <1>3 DEF HandleResumeCall, RefuseResumeCall, Goto
  <2>2. Advances(q, pc[q], "closing") /\ "closing" \in Stage
    BY <1>1 DEF Serving, Advances, Stage
  <2> QED
    BY <1>1, <2>1, <2>2, HandoverAdvance DEF smidVars
<1> QED
  BY <1>2, <1>3

\* The two steps of unregister_smid keep HandoverInv: after them no record
\* leads to the process, though they may delete one that leads to another.
LEMMA HandoverUnregister ==
  ASSUME HandoverInv, NEW p \in Procs, UnregisterRead(p) \/ UnregisterDelete(p)
  PROVE  HandoverInv'
<1> USE HandoverAssumption DEF HandoverInv
<1>1. CASE UnregisterRead(p)
  <2>1. /\ pc[p] = "read" /\ pc' = [pc EXCEPT ![p] = "delete"]
        /\ found' = [found EXCEPT ![p] = FoundSmid(p)]
        /\ UNCHANGED <<sm, previd, callee, bySmid, bySid>>
    BY <1>1 DEF UnregisterRead, Goto, smidVars
  <2>2. pc'[p] = "delete" /\ \A q \in Procs : q # p => pc'[q] = pc[q]
    BY <2>1 DEF Shapes
  <2>3. found'[p] = FoundSmid(p) /\ \A q \in Procs : q # p => found'[q] = found[q]
    BY <2>1 DEF Shapes
  <2>4. FoundSmid(p) \in OrNone
    BY DEF FoundSmid, Shapes, OrNone
  <2>5. \A s \in Procs : bySmid[s] = p => FoundSmid(p) = s
    <3> SUFFICES ASSUME NEW s \in Procs, bySmid[s] = p
                 PROVE  FoundSmid(p) = s
      OBVIOUS
    <3>1. p # None
      BY DEF None
    <3>2. \A r \in Procs : bySmid[r] = p => r = s
      BY <3>1 DEF SmidsRight
    <3>3. Backend = "cets" => bySid[p] = s
      BY <3>1 DEF SmidsRight
    <3> QED
      BY <3>2, <3>3 DEF FoundSmid
  <2>6. Shapes'
    BY <2>1, <2>4 DEF Shapes, Stage
  <2>7. Stages'
    BY <2>1, <2>2 DEF Stages
  <2>8. CallsRight' /\ SmidsRight'
    BY <2>1, <2>2 DEF CallsRight, SmidsRight, SmidOf
  <2>9. FoundRight'
    BY <2>1, <2>2, <2>3, <2>5 DEF FoundRight
  <2>10. OneHolder'
    BY <2>1, <2>2 DEF OneHolder, Holds, SmidOf
  <2>11. NoDanglingSmid'
    BY <2>1, <2>2 DEF NoDanglingSmid, Holds, Shapes, OrNone
  <2> QED
    BY <2>6, <2>7, <2>8, <2>9, <2>10, <2>11
<1>2. CASE UnregisterDelete(p)
  <2>1. /\ pc[p] = "delete" /\ pc' = [pc EXCEPT ![p] = "reroute"]
        /\ DeleteSmid(p, found[p])
        /\ found' = [found EXCEPT ![p] = None]
        /\ UNCHANGED <<sm, previd, callee>>
    BY <1>2 DEF UnregisterDelete, Goto
  <2>2. pc'[p] = "reroute" /\ \A q \in Procs : q # p => pc'[q] = pc[q]
    BY <2>1 DEF Shapes
  <2>3. \A q \in Procs : q # p => found'[q] = found[q]
    BY <2>1 DEF Shapes
  <2>4. Shapes'
    <3>1. found' \in [Procs -> OrNone] /\ pc' \in [Procs -> Stage]
      BY <2>1 DEF Shapes, OrNone, Stage
    <3>2. bySmid' \in [Procs -> OrNone] /\ bySid' \in [Procs -> OrNone]
      BY <2>1 DEF Shapes, OrNone, DeleteSmid, smidVars
    <3> QED
      BY <2>1, <3>1, <3>2 DEF Shapes
  <2>5. \A s \in Procs : bySmid'[s] # None => bySmid'[s] = bySmid[s] /\ bySmid[s] # p
    <3> SUFFICES ASSUME NEW s \in Procs, bySmid'[s] # None
                 PROVE  bySmid'[s] = bySmid[s] /\ bySmid[s] # p
      OBVIOUS
    <3>1. bySmid'[s] = bySmid[s] /\ (found[p] # None => s # found[p])
      BY <2>1 DEF DeleteSmid, Shapes, smidVars, OrNone
    <3>2. s # found[p]
      BY <3>1 DEF None
    <3> QED
      BY <2>1, <3>1, <3>2 DEF FoundRight
  <2>6. \A q \in Procs : q # p => bySid'[q] = bySid[q]
    BY <2>1 DEF DeleteSmid, Shapes, smidVars
  <2>7. Stages'
    BY <2>1, <2>2 DEF Stages
  <2>8. CallsRight'
    BY <2>1, <2>2 DEF CallsRight, SmidOf
  <2>9. SmidsRight'
    <3> SUFFICES ASSUME NEW s \in Procs, NEW q \in Procs, bySmid'[s] = q, q # None
                 PROVE  /\ s \in sm /\ q \in sm /\ SmidOf(q) = s
                        /\ Backend = "cets" => bySid'[q] = s
      <4>1. bySmid' \in [Procs -> OrNone]
        BY <2>4 DEF Shapes
      <4>2. \A q \in Procs : previd'[q] # None => previd'[q] \in sm'
        BY <2>1 DEF SmidsRight
      <4> QED
        BY <2>1, <4>1, <4>2, ZenonT(60) DEF SmidsRight, SmidOf, OrNone
    <3>1. bySmid[s] = q /\ q # p
      BY <2>5
    <3> QED
      BY <2>6, <3>1 DEF SmidsRight
  <2>10. FoundRight'
    <3> SUFFICES ASSUME NEW q \in Procs, NEW s \in Procs, pc'[q] = "delete",
                        bySmid'[s] = q
                 PROVE  found'[q] = s
      BY DEF FoundRight
    <3>1. q # p /\ q # None
      BY <2>2 DEF None
    <3>2. bySmid[s] = q
      BY <2>5, <3>1
    <3> QED
      BY <2>2, <2>3, <3>1, <3>2 DEF FoundRight
  <2>11. OneHolder'
    BY <2>1, <2>2 DEF OneHolder, Holds, SmidOf
  <2>12. NoDanglingSmid'
    <3> SUFFICES ASSUME NEW s \in Procs, NEW q \in Procs, bySmid'[s] = q, q # None
                 PROVE  Holds(q)' \/ pc'[q] \in {"closing", "read", "delete"}
      <4>1. bySmid' \in [Procs -> OrNone]
        BY <2>4 DEF Shapes
      <4> QED
        BY <4>1 DEF NoDanglingSmid, OrNone
    <3>1. bySmid[s] = q /\ q # p
      BY <2>5
    <3>2. Holds(q) \/ pc[q] \in {"closing", "read", "delete"}
      BY <3>1 DEF NoDanglingSmid
    <3> QED
      BY <2>1, <2>2, <3>1, <3>2 DEF Holds
  <2> QED
    BY <2>4, <2>7, <2>8, <2>9, <2>10, <2>11, <2>12
<1> QED
  BY <1>1, <1>2

-----------------------------------------------------------------------------
\* Before anybody connects HandoverInv holds: nobody holds a stream.
LEMMA HandoverInit ==
  ASSUME Init
  PROVE  HandoverInv
BY HandoverAssumption DEF Init, HandoverInv, Shapes, Stages, CallsRight, SmidsRight,
   FoundRight, OneHolder, NoDanglingSmid, Holds, SmidOf, OrNone, Stage, None

\* HandoverInv is inductive: one case per action of Next.
LEMMA HandoverStep ==
  ASSUME HandoverInv, [Next]_vars
  PROVE  HandoverInv'
<1>1. CASE UNCHANGED vars
  BY <1>1, HandoverQuiet DEF vars, stateVars, smidVars
<1>2. ASSUME NEW p \in Procs, Opening(p)
      PROVE  HandoverInv'
  BY <1>2, HandoverLife, HandoverRegister DEF Opening
<1>3. ASSUME NEW p \in Procs, Calling(p)
      PROVE  HandoverInv'
  BY <1>3, HandoverCalling
<1>4. ASSUME NEW p \in Procs, Handling(p)
      PROVE  HandoverInv'
  <2>1. CASE \E q \in Procs : HandleResumeCall(p, q) \/ RefuseResumeCall(p, q)
    BY <2>1, HandoverCall
  <2>2. CASE HandleRoute(p)
    BY <2>2, HandoverQuiet DEF HandleRoute, smidVars
  <2>3. CASE HandleExit(p)
    BY <2>3, HandoverLife
  <2> QED
    BY <1>4, <2>1, <2>2, <2>3 DEF Handling
<1>5. ASSUME NEW p \in Procs, Client(p)
      PROVE  HandoverInv'
  <2>1. CASE ClientAcks(p)
    BY <2>1, HandoverQuiet DEF ClientAcks, smidVars
  <2> QED
    BY <1>5, <2>1, HandoverLife DEF Client
<1>6. ASSUME NEW p \in Procs, Terminating(p)
      PROVE  HandoverInv'
  <2>1. CASE BounceMessages(p)
    BY <2>1, HandoverQuiet DEF BounceMessages, stateVars, smidVars
  <2> QED
    BY <1>6, <2>1, HandoverLife, HandoverUnregister DEF Terminating
<1>7. CASE Router
  <2>1. UNCHANGED <<stateVars, smidVars>>
    BY <1>7 DEF Router, SendMessage, LookUp, Arrive
  <2> QED
    BY <2>1, HandoverQuiet DEF stateVars
<1> QED
  BY <1>1, <1>2, <1>3, <1>4, <1>5, <1>6, <1>7 DEF Next

\* A stream has at most one holder: handle_resume_call gives it away and ends
\* the process in one step, for any number of processes that resume at once,
\* late replies included, with either backend.
THEOREM StreamHasOneHolder == Spec => []OneHolder
<1>1. HandoverInv => OneHolder
  BY DEF HandoverInv
<1> QED
  BY <1>1, HandoverInit, HandoverStep, PTL DEF Spec

\* A record of the SMID registry leads to a process that holds the stream or
\* has not yet reached its unregister_smid.
THEOREM RegistryHasNoDangling == Spec => []NoDanglingSmid
<1>1. HandoverInv => NoDanglingSmid
  BY DEF HandoverInv
<1> QED
  BY <1>1, HandoverInit, HandoverStep, PTL DEF Spec
=============================================================================
