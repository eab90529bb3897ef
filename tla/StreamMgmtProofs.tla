-------------------------- MODULE StreamMgmtProofs --------------------------
(***************************************************************************)
(* Safety of stream management for every value of the constants.           *)
(***************************************************************************)
EXTENDS StreamMgmt, FiniteSetTheorems, TLAPS

-----------------------------------------------------------------------------
\* Helpers.

\* The number of recovered messages is a number: the mailbox is finite.
LEMMA RecoveredNat ==
  ASSUME TypeOK
  PROVE  Recovered \in Nat
<1> DEFINE S == {i \in 1 .. Len(mailbox) : mailbox[i] = "message"}
<1>1. IsFiniteSet(1 .. Len(mailbox))
  BY FS_Interval DEF TypeOK, ServerTypeOK
<1>2. IsFiniteSet(S)
  BY <1>1, FS_Subset
<1> QED
  BY <1>2, FS_CardinalityType DEF Recovered

\* Taking an element off the wire.
LEMMA IncomingType ==
  ASSUME TypeOK, NEW tag, Incoming(tag)
  PROVE  /\ toServer' \in Seq(Element)
         /\ Head(toServer) \in Element
         /\ Head(toServer).n \in Nat
         /\ tag = "a" => Head(toServer).n \in 0 .. HMax + 1
<1>1. /\ toServer \in Seq(Element) /\ toServer # <<>>
      /\ toServer' = Tail(toServer) /\ Head(toServer).tag = tag
  BY DEF TypeOK, WireTypeOK, Incoming
<1>2. Head(toServer) \in Element
  BY <1>1
<1>3. /\ Head(toServer).n \in Nat
      /\ tag = "a" => Head(toServer).n \in 0 .. HMax + 1
  BY <1>1, <1>2, SmAssumption DEF Element
<1> QED
  BY <1>1, <1>2, <1>3

\* Writing well-typed elements.
LEMMA SendType ==
  ASSUME TypeOK, NEW els \in Seq(Element), Send(els)
  PROVE  toClient' \in Seq(Element)
  BY DEF TypeOK, WireTypeOK, Send

\* An element whose tag and number are well typed is one.
LEMMA ElType ==
  /\ \A tag \in {"enable", "enabled", "stanza", "r", "resumed"}, n \in Nat :
       El(tag, n) \in Element
  /\ \A n \in 0 .. HMax + 1 : El("a", n) \in Element
  BY DEF El, Element

\* The elements that carry a sequence of stanzas.
LEMMA StanzasType ==
  ASSUME NEW s \in Seq(Nat)
  PROVE  Stanzas(s) \in Seq(Element) /\ Len(Stanzas(s)) = Len(s)
<1>1. \A i \in 1 .. Len(s) : El("stanza", s[i]) \in Element
  BY ElType
<1>2. Len(s) \in Nat
  OBVIOUS
<1> QED
  BY <1>1, <1>2 DEF Stanzas

\* An accepted acknowledgement drops between none and all of the buffer.
LEMMA ToDropRange ==
  ASSUME TypeOK, NEW h \in 0 .. HMax + 1, AckAccepted(h)
  PROVE  CalcToDrop(h, counterOut) \in 0 .. bufferSize
  BY SmAssumption DEF TypeOK, ServerTypeOK, AckAccepted, CalcToDrop

\* What an accepted acknowledgement leaves in the buffer.
LEMMA AckType ==
  ASSUME TypeOK, NEW h \in 0 .. HMax + 1, AckAccepted(h)
  PROVE  /\ BufferAfterAck(h) \in Seq(Nat)
         /\ SizeAfterAck(h) \in Nat
<1> DEFINE d == CalcToDrop(h, counterOut)
<1>1. d \in 0 .. bufferSize
  BY ToDropRange
<1>2. buffer \in Seq(Nat) /\ bufferSize \in Nat
  BY DEF TypeOK, ServerTypeOK
<1> HIDE DEF d
<1>3. SubSeq(buffer, d + 1, Len(buffer)) \in Seq(Nat)
  BY <1>1, <1>2
<1> QED
  BY <1>1, <1>2, <1>3 DEF BufferAfterAck, SizeAfterAck, d

\* The stanzas that a resumption forwards: what the acknowledgement leaves,
\* then the recovered messages.
LEMMA KeptType ==
  ASSUME TypeOK, NEW h \in 0 .. HMax + 1, AckAccepted(h)
  PROVE  /\ Run(out + 1, out + Recovered) \in Seq(Nat)
         /\ Len(Run(out + 1, out + Recovered)) = Recovered
         /\ BufferAfterAck(h) \o Run(out + 1, out + Recovered) \in Seq(Nat)
<1>1. Recovered \in Nat /\ out \in Nat
  BY RecoveredNat DEF TypeOK, HistoryTypeOK
<1>2. Run(out + 1, out + Recovered) = [i \in 1 .. Recovered |-> out + i]
  BY <1>1 DEF Run
<1>3. /\ Run(out + 1, out + Recovered) \in Seq(Nat)
      /\ Len(Run(out + 1, out + Recovered)) = Recovered
  BY <1>1, <1>2
<1>4. BufferAfterAck(h) \in Seq(Nat)
  BY AckType
<1> QED
  BY <1>3, <1>4

-----------------------------------------------------------------------------
\* Type correctness.

\* The initial state is well typed.
LEMMA TypeInit == Init => TypeOK
  BY SmAssumption DEF Init, TypeOK, ServerTypeOK, WireTypeOK, ClientTypeOK,
     HistoryTypeOK

\* Termination of the process keeps every variable in its type.
LEMMA TypeTerminate ==
  ASSUME TypeOK, Terminate, UnchangedByTerminate,
         stops' \in Nat, cuts' \in Nat, badAcks' \in Nat
  PROVE  TypeOK'
<1>1. ServerTypeOK'
  BY DEF TypeOK, ServerTypeOK, Terminate, UnchangedByTerminate
<1>2. WireTypeOK'
  BY DEF WireTypeOK, Terminate
<1>3. ClientTypeOK'
  BY DEF TypeOK, ClientTypeOK, UnchangedByTerminate, client
<1>4. rerouted' \subseteq Nat
  BY DEF TypeOK, ServerTypeOK, Terminate
<1>5. HistoryTypeOK'
  BY <1>4 DEF TypeOK, HistoryTypeOK, UnchangedByTerminate
<1> QED
  BY <1>1, <1>2, <1>3, <1>5 DEF TypeOK

\* So does a resumption, accepted or not.
LEMMA TypeResume ==
  ASSUME TypeOK, NEW h \in 0 .. HMax + 1, Resume(h),
         stops' \in Nat, cuts' \in Nat, badAcks' \in Nat
  PROVE  TypeOK'
<1>1. CASE ResumeOk(h)
  <2> DEFINE kept == BufferAfterAck(h) \o Run(out + 1, out + Recovered)
  <2>1. AckAccepted(h) /\ buffer' = kept
        /\ toClient' = <<El("resumed", counterIn)>> \o Stanzas(kept)
    BY <1>1 DEF ResumeOk
  <2>2. kept \in Seq(Nat) /\ SizeAfterAck(h) \in Nat /\ Recovered \in Nat
    BY <2>1, KeptType, AckType, RecoveredNat
  <2> HIDE DEF kept
  <2>3. El("resumed", counterIn) \in Element
    BY ElType DEF TypeOK, ServerTypeOK
  <2>4. Stanzas(kept) \in Seq(Element)
    BY <2>2, StanzasType
  <2>5. toClient' \in Seq(Element)
    BY <2>1, <2>3, <2>4
  <2>6. buffer' \in Seq(Nat)
    BY <2>1, <2>2 DEF TypeOK, HistoryTypeOK
  <2>7. ServerTypeOK'
    <3>1. /\ bufferSize' = SizeAfterAck(h) + Recovered /\ counterOut' = h
          /\ c2s' = "session_established" /\ timer' = "none" /\ left' = 0
          /\ mailbox' = <<>> /\ UNCHANGED <<smState, smid, counterIn>>
      BY <1>1 DEF ResumeOk
    <3> QED
      BY <2>2, <2>6, <3>1, SMTT(30) DEF TypeOK, ServerTypeOK
  <2>8. WireTypeOK'
    BY <1>1, <2>5 DEF WireTypeOK, ResumeOk
  <2>9. ClientTypeOK' /\ HistoryTypeOK'
    BY <1>1, <2>2, <2>6, SMTT(30) DEF TypeOK, ClientTypeOK, HistoryTypeOK, ResumeOk, client
  <2> QED
    BY <2>7, <2>8, <2>9 DEF TypeOK
<1>2. CASE ResumeFails(h)
  BY <1>2, TypeTerminate DEF ResumeFails
<1> QED
  BY <1>1, <1>2 DEF Resume

\* So does any element a misbehaving client may send.
LEMMA TypeMisbehaves ==
  ASSUME TypeOK, NEW e \in Element, ClientMisbehaves(e)
  PROVE  TypeOK'
  BY DEF TypeOK, ServerTypeOK, WireTypeOK, ClientTypeOK, HistoryTypeOK,
     ClientMisbehaves, ClientWrites, server, client

\* Every step keeps every variable in its type.
LEMMA TypeStep ==
  ASSUME TypeOK, Next
  PROVE  TypeOK'
<1> USE SmAssumption DEF TypeOK
<1>1. CASE HandleEnable
  <2>1. toServer' \in Seq(Element) /\ Head(toServer).n \in Nat
    BY <1>1, IncomingType DEF HandleEnable
  <2>2. <<El("enabled", Head(toServer).n)>> \in Seq(Element)
    BY <2>1, ElType
  <2>3. toClient' \in Seq(Element)
    BY <1>1, <2>2, SendType DEF HandleEnable
  <2> QED
    BY <1>1, <2>1, <2>3 DEF ServerTypeOK, WireTypeOK, ClientTypeOK, HistoryTypeOK,
       HandleEnable, client, history
<1>2. CASE HandleEnableAgain
  BY <1>2, IncomingType DEF ServerTypeOK, WireTypeOK, ClientTypeOK, HistoryTypeOK,
     HandleEnableAgain, EnterResume, AgeWhenStopping, client
<1>3. CASE IgnoreEnable
  BY <1>3, IncomingType DEF ServerTypeOK, WireTypeOK, ClientTypeOK, HistoryTypeOK,
     IgnoreEnable, server, client, history
<1>4. CASE HandleStanza
  <2>1. toServer' \in Seq(Element) /\ Head(toServer).n \in Nat
    BY <1>4, IncomingType DEF HandleStanza
  <2>2. counterIn' \in 0 .. HMax /\ received' \in Nat
    BY <1>4 DEF ServerTypeOK, HistoryTypeOK, HandleStanza, IncrCounter
  <2>3. handled' \in Seq(Nat)
    BY <1>4, <2>1 DEF HistoryTypeOK, HandleStanza
  <2> QED
    BY <1>4, <2>1, <2>2, <2>3 DEF ServerTypeOK, WireTypeOK, ClientTypeOK,
       HistoryTypeOK, HandleStanza, client
<1>5. CASE HandleR
  <2>1. toServer' \in Seq(Element)
    BY <1>5, IncomingType DEF HandleR
  <2>2. El("a", counterIn) \in Element
    BY ElType DEF ServerTypeOK
  <2>3. (IF sm /\ c2s = "session_established"
           THEN <<El("a", counterIn)>> ELSE <<>>) \in Seq(Element)
    BY <2>2
  <2>4. toClient' \in Seq(Element)
    BY <1>5, <2>3, SendType DEF HandleR
  <2> QED
    BY <1>5, <2>1, <2>4 DEF ServerTypeOK, WireTypeOK, ClientTypeOK, HistoryTypeOK,
       HandleR, server, client, history
<1>6. CASE HandleA
  <2> DEFINE h == Head(toServer).n
  <2>1. toServer' \in Seq(Element) /\ h \in 0 .. HMax + 1
    BY <1>6, IncomingType DEF HandleA
  <2> HIDE DEF h
  <2>2. CASE AckAccepted(h)
    <3>1. counterOut' = h /\ bufferSize' = SizeAfterAck(h)
          /\ buffer' = BufferAfterAck(h) /\ UNCHANGED <<c2s, timer, left, age>>
      BY <1>6, <2>2 DEF HandleA, h
    <3>2. bufferSize' \in Nat /\ buffer' \in Seq(Nat)
      BY <2>1, <2>2, <3>1, AckType
    <3> QED
      BY <1>6, <2>1, <3>1, <3>2 DEF ServerTypeOK, WireTypeOK, ClientTypeOK,
         HistoryTypeOK, HandleA, client
  <2>3. CASE ~AckAccepted(h)
    <3>1. EnterResume /\ UNCHANGED <<counterOut, bufferSize, buffer>>
      BY <1>6, <2>3 DEF HandleA, h
    <3> QED
      BY <1>6, <2>1, <3>1 DEF ServerTypeOK, WireTypeOK, ClientTypeOK,
         HistoryTypeOK, HandleA, EnterResume, AgeWhenStopping, client
  <2> QED
    BY <2>2, <2>3
<1>7. CASE IgnoreA
  BY <1>7, IncomingType DEF ServerTypeOK, WireTypeOK, ClientTypeOK, HistoryTypeOK,
     IgnoreA, server, client, history
<1>8. CASE \E kind \in {"message", "iq"} : RouteIn(kind)
  BY <1>8 DEF ServerTypeOK, WireTypeOK, ClientTypeOK, HistoryTypeOK,
     RouteIn, wire, client
<1>9. CASE HandleRoute
  <2>1. mailbox' \in Seq({"message", "iq"})
    BY <1>9 DEF ServerTypeOK, HandleRoute
  <2>2. /\ buffer' \in Seq(Nat) /\ bufferSize' \in Nat /\ out' \in Nat
        /\ timer' \in {"none", "check_buffer_full", "resume_timeout"}
        /\ left' \in Nat
    BY <1>9 DEF ServerTypeOK, HistoryTypeOK, HandleRoute
  <2> DEFINE newSize == IF sm /\ BufferOn THEN bufferSize + 1 ELSE bufferSize
             st == El("stanza", IF sm THEN out + 1 ELSE 0)
             req == IF sm THEN AckRequest(newSize, c2s) ELSE <<>>
             els == IF c2s = "resume_session" THEN <<>> ELSE <<st>> \o req
  <2>3. Send(els)
    BY <1>9 DEF HandleRoute
  <2>4. st \in Element /\ El("r", 0) \in Element
    BY ElType DEF HistoryTypeOK
  <2>5. req \in Seq(Element)
    BY <2>4 DEF AckRequest
  <2>6. els \in Seq(Element)
    BY <2>4, <2>5
  <2> HIDE DEF els
  <2>7. toClient' \in Seq(Element)
    BY <2>3, <2>6, SendType
  <2> QED
    BY <1>9, <2>1, <2>2, <2>7 DEF ServerTypeOK, WireTypeOK, ClientTypeOK,
       HistoryTypeOK, HandleRoute, client
<1>10. CASE SocketClosed
  <2>1. stops' \in Nat /\ cuts' \in Nat /\ badAcks' \in Nat
    BY <1>10 DEF HistoryTypeOK, SocketClosed
  <2>2. CASE sm
    <3>1. /\ EnterResume
          /\ link' = "closed"
          /\ UNCHANGED <<smState, smid, buffer, bufferSize, counterIn,
                         counterOut, mailbox, toClient, toServer, client, out,
                         routed, handled, received, rerouted, phase>>
      BY <1>10, <2>2 DEF SocketClosed
    <3> QED
      BY <2>1, <3>1 DEF ServerTypeOK, WireTypeOK, ClientTypeOK, HistoryTypeOK,
         EnterResume, AgeWhenStopping, client
  <2>3. CASE ~sm
    BY <1>10, <2>1, <2>3, TypeTerminate DEF SocketClosed
  <2> QED
    BY <2>2, <2>3
<1>11. CASE StopRequest
  <2>1. stops' \in Nat /\ cuts' \in Nat /\ badAcks' \in Nat
    BY <1>11 DEF HistoryTypeOK, StopRequest
  <2>2. CASE sm
    <3>1. /\ EnterResume
          /\ UNCHANGED <<smState, smid, buffer, bufferSize, counterIn,
                         counterOut, mailbox, wire, client, out, routed,
                         handled, received, rerouted, phase>>
      BY <1>11, <2>2 DEF StopRequest
    <3> QED
      BY <2>1, <3>1 DEF ServerTypeOK, WireTypeOK, ClientTypeOK, HistoryTypeOK,
         EnterResume, AgeWhenStopping, client, wire
  <2>3. CASE ~sm
    BY <1>11, <2>1, <2>3, TypeTerminate DEF StopRequest
  <2> QED
    BY <2>2, <2>3
<1>12. CASE Exit
  BY <1>12, TypeTerminate DEF HistoryTypeOK, Exit
<1>13. CASE Tick
  BY <1>13 DEF ServerTypeOK, WireTypeOK, ClientTypeOK, HistoryTypeOK, Tick,
     client, wire
<1>14. CASE CheckBufferFull
  <2>1. stops' \in Nat /\ cuts' \in Nat /\ badAcks' \in Nat
    BY <1>14 DEF HistoryTypeOK, CheckBufferFull
  <2>2. CASE IsBufferFull(bufferSize)
    BY <1>14, <2>1, <2>2, TypeTerminate DEF CheckBufferFull
  <2>3. CASE ~IsBufferFull(bufferSize)
    BY <1>14, <2>3 DEF ServerTypeOK, WireTypeOK, ClientTypeOK, HistoryTypeOK,
       CheckBufferFull, client, wire
  <2> QED
    BY <2>2, <2>3
<1>15. CASE ResumeTimeoutFires
  BY <1>15, TypeTerminate DEF HistoryTypeOK, ResumeTimeoutFires
<1>16. CASE ResumeHonestly
  <2>1. /\ clientH \in 0 .. HMax + 1 /\ Resume(clientH)
        /\ stops' \in Nat /\ cuts' \in Nat /\ badAcks' \in Nat
    BY <1>16 DEF ClientTypeOK, HistoryTypeOK, ResumeHonestly
  <2> QED
    BY <2>1, TypeResume
<1>17. CASE \E h \in 0 .. HMax + 1 : ResumeWithWrongH(h)
  BY <1>17, TypeResume DEF HistoryTypeOK, ResumeWithWrongH
<1>18. CASE \E resume \in {0, 1} : ClientEnable(resume)
  <2> PICK resume \in {0, 1} : ClientEnable(resume)
    BY <1>18
  <2>1. El("enable", resume) \in Element
    BY ElType
  <2> QED
    BY <2>1 DEF ServerTypeOK, WireTypeOK, ClientTypeOK, HistoryTypeOK,
       ClientEnable, ClientWrites, server, client, history
<1>19. CASE ClientSends
  <2>1. El("stanza", sent + 1) \in Element
    BY ElType DEF ClientTypeOK
  <2> QED
    BY <1>19, <2>1 DEF ServerTypeOK, WireTypeOK, ClientTypeOK, HistoryTypeOK,
       ClientSends, ClientWrites, server, history
<1>20. CASE ClientAsks
  <2>1. El("r", 0) \in Element
    BY ElType
  <2> QED
    BY <1>20, <2>1 DEF ServerTypeOK, WireTypeOK, ClientTypeOK, HistoryTypeOK,
       ClientAsks, ClientWrites, server, client, history
<1>21. CASE \E e \in {El("enable", 1)} \cup {El("a", h) : h \in 0 .. HMax + 1} :
          ClientMisbehaves(e)
  <2> PICK e \in {El("enable", 1)} \cup {El("a", h) : h \in 0 .. HMax + 1} :
        ClientMisbehaves(e)
    BY <1>21
  <2>1. e \in Element
    <3>1. CASE e = El("enable", 1)
      BY <3>1, ElType
    <3>2. CASE \E h \in 0 .. HMax + 1 : e = El("a", h)
      BY <3>2, ElType
    <3> QED
      BY <3>1, <3>2
  <2> QED
    BY <2>1, TypeMisbehaves
<1>22. CASE ClientReceives
  <2> DEFINE e == Head(toClient)
  <2>1. /\ e \in Element /\ e.n \in Nat /\ toClient' \in Seq(Element)
        /\ UNCHANGED <<server, link, history>>
    <3>1. toClient # <<>> /\ toClient' = Tail(toClient)
          /\ UNCHANGED <<server, link, history>>
      BY <1>22 DEF ClientReceives
    <3>2. e \in Element /\ toClient' \in Seq(Element)
      BY <3>1 DEF WireTypeOK
    <3> QED
      BY <3>1, <3>2 DEF Element
  <2> HIDE DEF e
  <2>2. ClientDrops(e.n) \in Seq(Nat)
    <3> DEFINE n == (e.n - ackedH) % Modulus
               k == IF n <= Len(unacked) THEN n ELSE 0
    <3>1. n \in Nat
      BY <2>1 DEF ClientTypeOK, Modulus
    <3>2. k \in 0 .. Len(unacked) /\ unacked \in Seq(Nat)
      BY <3>1 DEF ClientTypeOK
    <3> HIDE DEF k
    <3>3. SubSeq(unacked, k + 1, Len(unacked)) \in Seq(Nat)
      BY <3>2
    <3> QED
      BY <3>3 DEF ClientDrops, k
  <2>3. CASE e.tag = "enabled"
    <3>1. clientSm' = "on" /\ UNCHANGED <<clientH, got, sent, unacked, ackedH, toServer>>
      BY <1>22, <2>3 DEF ClientReceives, e
    <3> QED
      BY <2>1, <3>1 DEF ServerTypeOK, WireTypeOK, ClientTypeOK, HistoryTypeOK,
         server, history
  <2>4. CASE e.tag = "stanza"
    <3>1. /\ clientH' = IF clientOn THEN (clientH + 1) % Modulus ELSE clientH
          /\ got' = IF clientOn THEN Append(got, e.n) ELSE got
          /\ UNCHANGED <<clientSm, sent, unacked, ackedH, toServer>>
      BY <1>22, <2>4 DEF ClientReceives, e
    <3>2. clientH' \in 0 .. HMax
      BY <3>1 DEF ClientTypeOK, Modulus
    <3>3. got' \in Seq(Nat)
      BY <2>1, <3>1 DEF ClientTypeOK
    <3> QED
      BY <2>1, <3>1, <3>2, <3>3 DEF ServerTypeOK, WireTypeOK, ClientTypeOK,
         HistoryTypeOK, server, history
  <2>5. CASE e.tag = "r"
    <3>1. toServer' = Append(toServer, El("a", clientH)) /\ UNCHANGED client
      BY <1>22, <2>5 DEF ClientReceives, e
    <3>2. El("a", clientH) \in Element
      BY ElType DEF ClientTypeOK
    <3> QED
      BY <2>1, <3>1, <3>2 DEF ServerTypeOK, WireTypeOK, ClientTypeOK,
         HistoryTypeOK, server, history, client
  <2>6. CASE e.tag = "a"
    <3>1. /\ unacked' = ClientDrops(e.n) /\ ackedH' = e.n
          /\ UNCHANGED <<clientSm, clientH, got, sent, toServer>>
      BY <1>22, <2>6 DEF ClientReceives, e
    <3> QED
      BY <2>1, <2>2, <3>1 DEF ServerTypeOK, WireTypeOK, ClientTypeOK,
         HistoryTypeOK, server, history
  <2>7. CASE e.tag = "resumed"
    <3>1. /\ unacked' = ClientDrops(e.n) /\ ackedH' = e.n
          /\ toServer' = toServer \o Stanzas(unacked')
          /\ UNCHANGED <<clientSm, clientH, got, sent>>
      BY <1>22, <2>7 DEF ClientReceives, e
    <3>2. unacked' \in Seq(Nat)
      BY <2>2, <3>1
    <3>3. Stanzas(unacked') \in Seq(Element)
      BY <3>2, StanzasType
    <3> QED
      BY <2>1, <3>1, <3>2, <3>3 DEF ServerTypeOK, WireTypeOK, ClientTypeOK,
         HistoryTypeOK, server, history
  <2> QED
    BY <1>22, <2>3, <2>4, <2>5, <2>6, <2>7 DEF ClientReceives, e
<1>23. CASE Cut
  BY <1>23 DEF ServerTypeOK, WireTypeOK, ClientTypeOK, HistoryTypeOK, Cut,
     server, client
<1> QED
  BY <1>1, <1>2, <1>3, <1>4, <1>5, <1>6, <1>7, <1>8, <1>9, <1>10, <1>11, <1>12,
     <1>13, <1>14, <1>15, <1>16, <1>17, <1>18, <1>19, <1>20, <1>21, <1>22, <1>23
     DEF Next, FromClient, Timers

\* TypeOK holds in every state: the counters stay below 2^32, the buffer, the
\* mailbox and both directions of the socket hold only what the code puts there.
THEOREM TypeCorrect == Spec => []TypeOK
<1>1. Init => TypeOK
  BY TypeInit
<1>2. TypeOK /\ [Next]_vars => TypeOK'
  <2>1. TypeOK /\ Next => TypeOK'
    BY TypeStep
  <2>2. TypeOK /\ UNCHANGED vars => TypeOK'
    BY DEF TypeOK, ServerTypeOK, WireTypeOK, ClientTypeOK, HistoryTypeOK, vars,
       server, wire, client, history
  <2> QED
    BY <2>1, <2>2
<1> QED
  BY <1>1, <1>2, PTL DEF Spec

-----------------------------------------------------------------------------
\* The buffer.

\* A step that leaves the buffer and the stream alone keeps BufferIsTail.
LEMMA BufferUntouched ==
  ASSUME BufferIsTail,
         UNCHANGED <<smState, buffer, bufferSize, out>>,
         c2s' # "closed" => c2s # "closed"
  PROVE  BufferIsTail'
  BY DEF BufferIsTail, sm

\* A step that ends the process keeps it.
LEMMA BufferClosed ==
  ASSUME Terminate
  PROVE  BufferIsTail'
  BY DEF BufferIsTail, Terminate

\* What an acknowledgement leaves is the shorter tail of the stream.
LEMMA TailAfterAck ==
  ASSUME TypeOK, BufferIsTail, sm, BufferOn, c2s # "closed",
         NEW h \in 0 .. HMax + 1, AckAccepted(h)
  PROVE  /\ SizeAfterAck(h) = Len(BufferAfterAck(h))
         /\ SizeAfterAck(h) \in Nat /\ SizeAfterAck(h) <= out
         /\ \A i \in 1 .. Len(BufferAfterAck(h)) :
              BufferAfterAck(h)[i] = out - SizeAfterAck(h) + i
<1> DEFINE d == CalcToDrop(h, counterOut)
<1>1. d \in 0 .. bufferSize
  BY ToDropRange
<1>2. /\ buffer \in Seq(Nat) /\ bufferSize \in Nat /\ out \in Nat
      /\ bufferSize = Len(buffer) /\ bufferSize <= out
      /\ \A i \in 1 .. Len(buffer) : buffer[i] = out - bufferSize + i
  BY DEF TypeOK, ServerTypeOK, HistoryTypeOK, BufferIsTail
<1> HIDE DEF d
<1> DEFINE s == SubSeq(buffer, d + 1, Len(buffer))
<1>3. Len(s) = bufferSize - d
  BY <1>1, <1>2
<1>4. \A i \in 1 .. Len(s) : s[i] = buffer[d + i]
  BY <1>1, <1>2, <1>3
<1>5. \A i \in 1 .. Len(s) : s[i] = out - (bufferSize - d) + i
  BY <1>1, <1>2, <1>3, <1>4
<1>6. BufferAfterAck(h) = s /\ SizeAfterAck(h) = bufferSize - d
  BY <1>2 DEF BufferAfterAck, SizeAfterAck, d
<1> HIDE DEF s
<1> QED
  BY <1>1, <1>2, <1>3, <1>5, <1>6, SMTT(30)

\* Every step keeps BufferIsTail.
LEMMA BufferStep ==
  ASSUME TypeOK, BufferIsTail, Next
  PROVE  BufferIsTail'
<1>1. CASE HandleEnable
  BY <1>1 DEF HandleEnable, BufferIsTail, TypeOK, HistoryTypeOK, history
<1>2. CASE HandleA
  <2> DEFINE h == Head(toServer).n
  <2>1. h \in 0 .. HMax + 1 /\ sm /\ c2s = "session_established"
    BY <1>2, IncomingType DEF HandleA
  <2>2. UNCHANGED <<smState, out>>
    BY <1>2 DEF HandleA
  <2> HIDE DEF h
  <2>3. CASE AckAccepted(h)
    <3>1. buffer' = BufferAfterAck(h) /\ bufferSize' = SizeAfterAck(h)
      BY <1>2, <2>3 DEF HandleA, h
    <3> SUFFICES ASSUME BufferOn
                 PROVE  BufferIsTail'
      BY DEF BufferIsTail
    <3> QED
      BY <2>1, <2>2, <2>3, <3>1, TailAfterAck DEF BufferIsTail
  <2>4. CASE ~AckAccepted(h)
    BY <1>2, <2>2, <2>4, BufferUntouched DEF HandleA, h
  <2> QED
    BY <2>3, <2>4
<1>3. CASE HandleRoute
  <2>1. /\ buffer \in Seq(Nat) /\ bufferSize \in Nat /\ out \in Nat
    BY DEF TypeOK, ServerTypeOK, HistoryTypeOK
  <2>2. CASE sm /\ BufferOn
    <3>1. /\ buffer' = Append(buffer, out + 1) /\ bufferSize' = bufferSize + 1
          /\ out' = out + 1 /\ c2s # "closed"
      BY <1>3, <2>2 DEF HandleRoute
    <3>2. /\ bufferSize = Len(buffer) /\ bufferSize <= out
          /\ \A i \in 1 .. Len(buffer) : buffer[i] = out - bufferSize + i
      BY <2>2, <3>1 DEF BufferIsTail
    <3>3. \A i \in 1 .. Len(buffer') : buffer'[i] = out' - bufferSize' + i
      BY <2>1, <3>1, <3>2
    <3>4. bufferSize' = Len(buffer') /\ bufferSize' <= out'
      BY <2>1, <3>1, <3>2
    <3> QED
      BY <3>3, <3>4 DEF BufferIsTail
  <2>3. CASE ~(sm /\ BufferOn)
    <3>1. smState' = smState
      BY <1>3 DEF HandleRoute
    <3> QED
      BY <2>3, <3>1 DEF BufferIsTail, sm
  <2> QED
    BY <2>2, <2>3
<1>4. CASE \E h \in 0 .. HMax + 1 : Resume(h)
  <2> PICK h \in 0 .. HMax + 1 : Resume(h)
    BY <1>4
  <2>1. CASE ResumeOk(h)
    <3> DEFINE b == BufferAfterAck(h)
               r == Run(out + 1, out + Recovered)
    <3>1. /\ AckAccepted(h) /\ buffer' = b \o r
          /\ bufferSize' = SizeAfterAck(h) + Recovered
          /\ out' = out + Recovered /\ smState' = smState /\ c2s # "closed"
      BY <2>1 DEF ResumeOk, Resume
    <3> SUFFICES ASSUME sm, BufferOn
                 PROVE  BufferIsTail'
      BY <3>1 DEF BufferIsTail, sm
    <3>2. /\ SizeAfterAck(h) = Len(b) /\ SizeAfterAck(h) \in Nat
          /\ SizeAfterAck(h) <= out
          /\ \A i \in 1 .. Len(b) : b[i] = out - SizeAfterAck(h) + i
      BY <3>1, TailAfterAck
    <3>3. /\ b \in Seq(Nat) /\ r \in Seq(Nat) /\ Len(r) = Recovered
          /\ Recovered \in Nat /\ out \in Nat
      BY <3>1, KeptType, AckType, RecoveredNat DEF TypeOK, HistoryTypeOK
    <3>4. \A i \in 1 .. Recovered : r[i] = out + i
      BY <3>3 DEF Run
    <3> HIDE DEF b, r
    <3>5. Len(b \o r) = Len(b) + Recovered
      BY <3>3
    <3>6. \A i \in 1 .. Len(b \o r) :
            (b \o r)[i] = out + Recovered - (SizeAfterAck(h) + Recovered) + i
      BY <3>2, <3>3, <3>4, <3>5
    <3> QED
      BY <3>1, <3>2, <3>3, <3>5, <3>6 DEF BufferIsTail
  <2>2. CASE ResumeFails(h)
    BY <2>2, BufferClosed DEF ResumeFails
  <2> QED
    BY <2>1, <2>2 DEF Resume
<1>5. CASE ResumeHonestly
  <2>1. clientH \in 0 .. HMax + 1
    BY SmAssumption DEF TypeOK, ClientTypeOK
  <2> QED
    BY <1>4, <1>5, <2>1 DEF ResumeHonestly
<1>6. CASE \E h \in 0 .. HMax + 1 : ResumeWithWrongH(h)
  BY <1>4, <1>6 DEF ResumeWithWrongH
<1>7. CASE SocketClosed \/ StopRequest \/ Exit \/ CheckBufferFull \/ ResumeTimeoutFires
  BY <1>7, BufferClosed, BufferUntouched DEF SocketClosed, StopRequest, Exit,
     CheckBufferFull, ResumeTimeoutFires
<1>8. CASE HandleEnableAgain \/ IgnoreEnable \/ HandleStanza \/ HandleR \/ IgnoreA
  BY <1>8, BufferUntouched DEF HandleEnableAgain, IgnoreEnable, HandleStanza,
     HandleR, IgnoreA, server, history
<1>9. CASE \/ \E kind \in {"message", "iq"} : RouteIn(kind)
           \/ Tick \/ Cut \/ ClientSends \/ ClientAsks \/ ClientReceives
           \/ \E resume \in {0, 1} : ClientEnable(resume)
  BY <1>9, BufferUntouched DEF RouteIn, Tick, Cut, ClientSends, ClientAsks,
     ClientReceives, ClientEnable, server, history
<1>10. CASE \E e \in {El("enable", 1)} \cup {El("a", h) : h \in 0 .. HMax + 1} :
              ClientMisbehaves(e)
  BY <1>10, BufferUntouched DEF ClientMisbehaves, server
<1> QED
  BY <1>1, <1>2, <1>3, <1>5, <1>6, <1>7, <1>8, <1>9, <1>10
     DEF Next, FromClient, Timers

\* The buffer is always exactly the unacknowledged tail of the stream, in
\* order, and buffer_size its length, whatever the client acknowledges.
THEOREM BufferCorrect == Spec => []BufferIsTail
<1>1. Init => BufferIsTail
  BY DEF Init, BufferIsTail, sm
<1>2. TypeOK /\ BufferIsTail /\ [Next]_vars => BufferIsTail'
  <2>1. TypeOK /\ BufferIsTail /\ Next => BufferIsTail'
    BY BufferStep
  <2>2. BufferIsTail /\ UNCHANGED vars => BufferIsTail'
    BY BufferUntouched DEF vars, server, history
  <2> QED
    BY <2>1, <2>2
<1> QED
  BY <1>1, <1>2, TypeCorrect, PTL DEF Spec

-----------------------------------------------------------------------------
\* The wrap-around of h.

\* A remainder is recognised by its range.
LEMMA ModUnique ==
  ASSUME NEW M \in Nat \ {0}, NEW q \in Int, NEW r \in 0 .. M - 1
  PROVE  (M * q + r) % M = r
  OBVIOUS

\* The arithmetic of calc_to_drop: advancing x by the distance from its
\* remainder c up to h gives a number whose remainder is h ...
LEMMA ModUp ==
  ASSUME NEW M \in Nat \ {0}, NEW x \in Nat, NEW c \in Nat, c = x % M,
         NEW h \in 0 .. M - 1, h >= c
  PROVE  (x + (h - c)) % M = h
<1> DEFINE q == x \div M
<1>1. q \in Int /\ x = M * q + c /\ c \in 0 .. M - 1
  OBVIOUS
<1> HIDE DEF q
<1>2. x + (h - c) = M * q + h
  BY <1>1
<1> QED
  BY <1>1, <1>2, ModUnique

\* ... also when the way from c to h passes a multiple of M.
LEMMA ModWrap ==
  ASSUME NEW M \in Nat \ {0}, NEW x \in Nat, NEW c \in Nat, c = x % M,
         NEW h \in 0 .. M - 1, h < c
  PROVE  (x + (h + M - c)) % M = h
<1> DEFINE q == x \div M
<1>1. q \in Int /\ x = M * q + c /\ c \in 0 .. M - 1
  OBVIOUS
<1> HIDE DEF q
<1>2. x + (h + M - c) = M * q + M + h
  BY <1>1
<1>3. M * q + M = M * (q + 1)
  BY <1>1
<1>4. q + 1 \in Int /\ x + (h + M - c) = M * (q + 1) + h
  BY <1>1, <1>2, <1>3
<1>5. (M * (q + 1) + h) % M = h
  BY <1>4, ModUnique
<1> QED
  BY <1>4, <1>5

-----------------------------------------------------------------------------
\* counter_out.

\* Before <enable/> nothing has entered the stream and no SMID exists.
NothingBeforeEnable == ~sm => out = 0 /\ smid = "none"

\* Every acknowledgement in s is a number below 2^32.
InRange(s) == \A i \in 1 .. Len(s) : s[i].tag = "a" => s[i].n <= HMax

\* A client that has always behaved has only such numbers in flight.
AcksInRange == Honest => InRange(toServer)

\* Every step keeps NothingBeforeEnable: only a process with an sm_state
\* counts, and no step takes the sm_state away.
LEMMA NothingStep ==
  ASSUME TypeOK, NothingBeforeEnable, Next
  PROVE  NothingBeforeEnable'
<1> USE DEF NothingBeforeEnable, sm
<1>1. CASE HandleRoute
  BY <1>1 DEF HandleRoute
<1>2. CASE HandleEnable
  BY <1>2 DEF HandleEnable
<1>3. CASE \E h : Resume(h)
  <2> PICK h : Resume(h)
    BY <1>3
  <2>1. smState = "on" /\ smState' = smState
    BY DEF Resume, ResumeOk, ResumeFails, UnchangedByTerminate, resumable,
       TypeOK, ServerTypeOK
  <2> QED
    BY <2>1
<1>4. CASE ResumeHonestly \/ \E h \in 0 .. HMax + 1 : ResumeWithWrongH(h)
  BY <1>3, <1>4 DEF ResumeHonestly, ResumeWithWrongH
<1>5. CASE SocketClosed \/ StopRequest \/ Exit \/ CheckBufferFull \/ ResumeTimeoutFires
  BY <1>5 DEF SocketClosed, StopRequest, Exit, CheckBufferFull, ResumeTimeoutFires,
     Terminate, UnchangedByTerminate
<1>6. CASE HandleEnableAgain \/ IgnoreEnable \/ HandleStanza \/ HandleR \/ HandleA
           \/ IgnoreA
  BY <1>6 DEF HandleEnableAgain, IgnoreEnable, HandleStanza, HandleR, HandleA,
     IgnoreA, server, history
<1>7. CASE \/ \E kind \in {"message", "iq"} : RouteIn(kind)
           \/ Tick \/ Cut \/ ClientSends \/ ClientAsks \/ ClientReceives
           \/ \E resume \in {0, 1} : ClientEnable(resume)
  BY <1>7 DEF RouteIn, Tick, Cut, ClientSends, ClientAsks, ClientReceives,
     ClientEnable, server, history
<1>8. CASE \E e \in {El("enable", 1)} \cup {El("a", h) : h \in 0 .. HMax + 1} :
             ClientMisbehaves(e)
  BY <1>8 DEF ClientMisbehaves, server
<1> QED
  BY <1>1, <1>2, <1>4, <1>5, <1>6, <1>7, <1>8 DEF Next, FromClient, Timers

\* InRange of sequences taken apart and put together.
LEMMA InRangeFacts ==
  /\ InRange(<<>>)
  /\ \A s \in Seq(Element) : s # <<>> /\ InRange(s) => InRange(Tail(s))
  /\ \A s \in Seq(Element), e \in Element :
       InRange(s) /\ (e.tag = "a" => e.n <= HMax) =>
         InRange(Append(s, e)) /\ InRange(s \o <<e>>)
  /\ \A s \in Seq(Element), t \in Seq(Nat) :
       InRange(s) => InRange(s \o Stanzas(t))
<1>1. InRange(<<>>)
  BY DEF InRange
<1>2. ASSUME NEW s \in Seq(Element), s # <<>>, InRange(s)
      PROVE  InRange(Tail(s))
  BY <1>2 DEF InRange
<1>3. ASSUME NEW s \in Seq(Element), NEW e \in Element, InRange(s),
             e.tag = "a" => e.n <= HMax
      PROVE  InRange(Append(s, e)) /\ InRange(s \o <<e>>)
  BY <1>3 DEF InRange
<1>4. ASSUME NEW s \in Seq(Element), NEW t \in Seq(Nat), InRange(s)
      PROVE  InRange(s \o Stanzas(t))
  <2>1. Stanzas(t) \in Seq(Element) /\ Len(Stanzas(t)) = Len(t)
    BY StanzasType
  <2>2. \A i \in 1 .. Len(t) : Stanzas(t)[i].tag = "stanza"
    BY DEF Stanzas, El
  <2> DEFINE u == Stanzas(t)
  <2> HIDE DEF u
  <2> SUFFICES ASSUME NEW i \in 1 .. Len(s \o u), (s \o u)[i].tag = "a"
               PROVE  (s \o u)[i].n <= HMax
    BY DEF InRange, u
  <2>3. u \in Seq(Element) /\ Len(u) = Len(t)
    BY <2>1 DEF u
  <2>4. CASE i <= Len(s)
    <3>1. (s \o u)[i] = s[i] /\ i \in 1 .. Len(s)
      BY <2>3, <2>4
    <3> QED
      BY <1>4, <3>1 DEF InRange
  <2>5. CASE i > Len(s)
    <3>1. (s \o u)[i] = u[i - Len(s)] /\ i - Len(s) \in 1 .. Len(t)
      BY <2>3, <2>5
    <3> QED
      BY <2>2, <3>1 DEF u
  <2> QED
    BY <2>4, <2>5
<1> QED
  BY <1>1, <1>2, <1>3, <1>4

\* Every step keeps AcksInRange: a client that behaves puts its own count on
\* the wire, and that is a remainder modulo 2^32.
LEMMA RangeStep ==
  ASSUME TypeOK, AcksInRange, Next
  PROVE  AcksInRange'
<1> USE InRangeFacts DEF AcksInRange, Honest, TypeOK, WireTypeOK
<1>1. CASE \E tag : Incoming(tag) /\ badAcks' = badAcks
  BY <1>1 DEF Incoming
<1>2. CASE FromClient
  BY <1>1, <1>2 DEF FromClient, HandleEnable, HandleEnableAgain, IgnoreEnable,
     HandleStanza, HandleR, HandleA, IgnoreA, history
<1>3. CASE toServer' = <<>> /\ badAcks' \in {badAcks, badAcks + 1}
  BY <1>3
<1>4. CASE ResumeHonestly \/ \E h \in 0 .. HMax + 1 : ResumeWithWrongH(h)
  BY <1>3, <1>4 DEF ResumeHonestly, ResumeWithWrongH, Resume, ResumeOk,
     ResumeFails, Terminate
<1>5. CASE SocketClosed \/ StopRequest \/ Exit \/ CheckBufferFull \/ ResumeTimeoutFires
  BY <1>5 DEF SocketClosed, StopRequest, Exit, CheckBufferFull, ResumeTimeoutFires,
     Terminate, wire
<1>6. CASE HandleRoute \/ Tick \/ Cut \/ \E kind \in {"message", "iq"} : RouteIn(kind)
  BY <1>6 DEF HandleRoute, Tick, Cut, RouteIn, wire
<1>7. CASE ClientSends
  <2>1. El("stanza", sent + 1) \in Element /\ El("stanza", sent + 1).tag = "stanza"
    BY ElType DEF ClientTypeOK, El
  <2> QED
    BY <1>7, <2>1 DEF ClientSends, ClientWrites, history
<1>8. CASE ClientAsks
  <2>1. El("r", 0) \in Element /\ El("r", 0).tag = "r"
    BY ElType DEF El
  <2> QED
    BY <1>8, <2>1 DEF ClientAsks, ClientWrites, history
<1>9. CASE \E resume \in {0, 1} : ClientEnable(resume)
  <2> PICK resume \in {0, 1} : ClientEnable(resume)
    BY <1>9
  <2>1. El("enable", resume) \in Element /\ El("enable", resume).tag = "enable"
    BY ElType DEF El
  <2> QED
    BY <2>1 DEF ClientEnable, ClientWrites, history
<1>10. CASE \E e \in {El("enable", 1)} \cup {El("a", h) : h \in 0 .. HMax + 1} :
              ClientMisbehaves(e)
  BY <1>10 DEF ClientMisbehaves, HistoryTypeOK
<1>11. CASE ClientReceives
  <2>1. badAcks' = badAcks
    BY <1>11 DEF ClientReceives, history
  <2>2. CASE toServer' = toServer
    BY <2>1, <2>2
  <2>3. CASE toServer' = Append(toServer, El("a", clientH))
    <3>1. El("a", clientH) \in Element /\ El("a", clientH).n <= HMax
      BY ElType, SmAssumption DEF ClientTypeOK, El
    <3> QED
      BY <2>1, <2>3, <3>1
  <2>4. CASE toServer' = toServer \o Stanzas(unacked')
    <3>1. unacked' \in Seq(Nat)
      BY TypeStep DEF ClientTypeOK
    <3> QED
      BY <2>1, <2>4, <3>1
  <2> QED
    BY <1>11, <2>2, <2>3, <2>4 DEF ClientReceives, client
<1> QED
  BY <1>2, <1>4, <1>5, <1>6, <1>7, <1>8, <1>9, <1>10, <1>11 DEF Next, Timers

\* An acknowledgement below 2^32 moves counter_out to the number of stanzas
\* acknowledged with it, modulo 2^32.
LEMMA CounterAfterAck ==
  ASSUME TypeOK, BufferIsTail, sm, BufferOn, c2s # "closed",
         counterOut = (out - bufferSize) % Modulus,
         NEW h \in 0 .. HMax, AckAccepted(h)
  PROVE  h = (out - SizeAfterAck(h)) % Modulus
<1> DEFINE x == out - bufferSize
           d == CalcToDrop(h, counterOut)
<1>1. x \in Nat /\ Modulus \in Nat \ {0} /\ h \in 0 .. Modulus - 1
  BY SmAssumption DEF BufferIsTail, TypeOK, ServerTypeOK, HistoryTypeOK, Modulus
<1>2. counterOut = x % Modulus
  OBVIOUS
<1>3. d = IF h >= counterOut THEN h - counterOut ELSE h + Modulus - counterOut
  <2>1. HMax \in Nat /\ counterOut \in Nat /\ h \in Nat
    BY SmAssumption DEF TypeOK, ServerTypeOK
  <2> QED
    BY <2>1 DEF CalcToDrop, Modulus
<1>4. d \in 0 .. bufferSize
  BY ToDropRange, SmAssumption
<1>5. out - SizeAfterAck(h) = x + d
  BY <1>4 DEF SizeAfterAck, TypeOK, ServerTypeOK, HistoryTypeOK
<1> HIDE DEF x, d
<1>6. (x + d) % Modulus = h
  <2>1. counterOut \in Nat /\ h \in Nat
    BY DEF TypeOK, ServerTypeOK
  <2>2. CASE h >= counterOut
    <3>1. (x + (h - counterOut)) % Modulus = h
      BY ONLY <1>1, <1>2, <2>1, <2>2, ModUp
    <3> QED
      BY <1>3, <2>2, <3>1
  <2>3. CASE h < counterOut
    <3>1. (x + (h + Modulus - counterOut)) % Modulus = h
      BY ONLY <1>1, <1>2, <2>1, <2>3, ModWrap
    <3>2. d = h + Modulus - counterOut
      BY ONLY <1>1, <1>3, <2>1, <2>3
    <3> QED
      BY <3>1, <3>2
  <2> QED
    BY <2>1, <2>2, <2>3
<1> QED
  BY <1>5, <1>6

\* A step that leaves the stream alone keeps CounterOutIsAcked.
LEMMA CounterUntouched ==
  ASSUME CounterOutIsAcked,
         UNCHANGED <<smState, bufferSize, counterOut, out>>,
         c2s' # "closed" => c2s # "closed",
         badAcks' = 0 => badAcks = 0
  PROVE  CounterOutIsAcked'
  BY DEF CounterOutIsAcked, sm, Honest

\* Every step keeps CounterOutIsAcked.
LEMMA CounterStep ==
  ASSUME TypeOK, BufferIsTail, NothingBeforeEnable, AcksInRange,
         CounterOutIsAcked, Next
  PROVE  CounterOutIsAcked'
<1>1. CASE HandleEnable
  <2>1. counterOut' = 0 /\ bufferSize' = 0 /\ out' = 0
    BY <1>1 DEF HandleEnable, NothingBeforeEnable, history
  <2>2. (0 - 0) % Modulus = 0
    BY SmAssumption DEF Modulus
  <2> QED
    BY <2>1, <2>2 DEF CounterOutIsAcked
<1>2. CASE HandleA
  <2> DEFINE h == Head(toServer).n
  <2>1. /\ h \in 0 .. HMax + 1 /\ sm /\ c2s = "session_established"
        /\ toServer # <<>> /\ Head(toServer).tag = "a"
        /\ UNCHANGED <<smState, out, badAcks>>
    BY <1>2, IncomingType DEF HandleA, Incoming
  <2>2. Honest => h \in 0 .. HMax
    BY <2>1 DEF AcksInRange, InRange, TypeOK, WireTypeOK
  <2> HIDE DEF h
  <2>3. CASE AckAccepted(h)
    <3>1. counterOut' = h /\ bufferSize' = SizeAfterAck(h)
      BY <1>2, <2>3 DEF HandleA, h
    <3> SUFFICES ASSUME BufferOn, Honest
                 PROVE  h = (out - SizeAfterAck(h)) % Modulus
      BY <2>1, <3>1 DEF CounterOutIsAcked, Honest
    <3>2. counterOut = (out - bufferSize) % Modulus
      BY <2>1 DEF CounterOutIsAcked
    <3> QED
      BY <2>1, <2>2, <2>3, <3>2, CounterAfterAck
  <2>4. CASE ~AckAccepted(h)
    BY <1>2, <2>1, <2>4, CounterUntouched DEF HandleA, h
  <2> QED
    BY <2>3, <2>4
<1>3. CASE HandleRoute
  <2>1. smState' = smState /\ counterOut' = counterOut /\ c2s' = c2s
        /\ badAcks' = badAcks
    BY <1>3 DEF HandleRoute
  <2>2. CASE sm /\ BufferOn
    <3>1. out' - bufferSize' = out - bufferSize
      BY <1>3, <2>2 DEF HandleRoute, TypeOK, ServerTypeOK, HistoryTypeOK
    <3> QED
      BY <2>1, <3>1 DEF CounterOutIsAcked, sm, Honest
  <2>3. CASE ~(sm /\ BufferOn)
    BY <2>1, <2>3 DEF CounterOutIsAcked, sm
  <2> QED
    BY <2>2, <2>3
<1>4. CASE ResumeHonestly
  <2>1. clientH \in 0 .. HMax /\ clientH \in 0 .. HMax + 1 /\ Resume(clientH)
        /\ badAcks' = badAcks
    BY <1>4, SmAssumption DEF TypeOK, ClientTypeOK, ResumeHonestly
  <2>2. CASE ResumeOk(clientH)
    <3>1. /\ AckAccepted(clientH) /\ counterOut' = clientH
          /\ bufferSize' = SizeAfterAck(clientH) + Recovered
          /\ out' = out + Recovered /\ smState' = smState /\ c2s # "closed"
      BY <2>1, <2>2 DEF ResumeOk, Resume
    <3>2. Recovered \in Nat /\ SizeAfterAck(clientH) \in Nat /\ out \in Nat
      BY <2>1, <3>1, RecoveredNat, AckType DEF TypeOK, HistoryTypeOK
    <3>3. out' - bufferSize' = out - SizeAfterAck(clientH)
      BY <3>1, <3>2
    <3> SUFFICES ASSUME sm, BufferOn, Honest
                 PROVE  clientH = (out - SizeAfterAck(clientH)) % Modulus
      BY <2>1, <3>1, <3>3 DEF CounterOutIsAcked, Honest, sm
    <3>4. counterOut = (out - bufferSize) % Modulus
      BY <3>1 DEF CounterOutIsAcked
    <3> QED
      BY <2>1, <3>1, <3>4, CounterAfterAck
  <2>3. CASE ResumeFails(clientH)
    BY <2>3 DEF ResumeFails, Terminate, CounterOutIsAcked
  <2> QED
    BY <2>1, <2>2, <2>3 DEF Resume
<1>5. CASE \E h \in 0 .. HMax + 1 : ResumeWithWrongH(h)
  BY <1>5 DEF ResumeWithWrongH, CounterOutIsAcked, Honest, TypeOK, HistoryTypeOK
<1>6. CASE SocketClosed \/ StopRequest \/ Exit \/ CheckBufferFull \/ ResumeTimeoutFires
  <2>1. CASE Terminate
    BY <2>1 DEF Terminate, CounterOutIsAcked
  <2>2. CASE ~Terminate
    BY <1>6, <2>2, CounterUntouched DEF SocketClosed, StopRequest, Exit,
       CheckBufferFull, ResumeTimeoutFires
  <2> QED
    BY <2>1, <2>2
<1>7. CASE HandleEnableAgain \/ IgnoreEnable \/ HandleStanza \/ HandleR \/ IgnoreA
  BY <1>7, CounterUntouched DEF HandleEnableAgain, IgnoreEnable, HandleStanza,
     HandleR, IgnoreA, server, history
<1>8. CASE \/ \E kind \in {"message", "iq"} : RouteIn(kind)
           \/ Tick \/ Cut \/ ClientSends \/ ClientAsks \/ ClientReceives
           \/ \E resume \in {0, 1} : ClientEnable(resume)
  BY <1>8, CounterUntouched DEF RouteIn, Tick, Cut, ClientSends, ClientAsks,
     ClientReceives, ClientEnable, server, history
<1>9. CASE \E e \in {El("enable", 1)} \cup {El("a", h) : h \in 0 .. HMax + 1} :
             ClientMisbehaves(e)
  BY <1>9 DEF ClientMisbehaves, CounterOutIsAcked, Honest, TypeOK, HistoryTypeOK
<1> QED
  BY <1>1, <1>2, <1>3, <1>4, <1>5, <1>6, <1>7, <1>8, <1>9
     DEF Next, FromClient, Timers

\* The inductive invariant behind CounterOutIsAcked.
CounterInv ==
  TypeOK /\ BufferIsTail /\ NothingBeforeEnable /\ AcksInRange /\ CounterOutIsAcked

\* counter_out is the number of acknowledged stanzas modulo 2^32 after any
\* number of wrap-arounds, as long as the client acknowledges what it counted.
THEOREM CounterOutCorrect == Spec => []CounterOutIsAcked
<1>1. Init => CounterInv
  <2>1. Init => TypeOK
    BY TypeInit
  <2>2. Init => BufferIsTail /\ NothingBeforeEnable /\ AcksInRange
                /\ CounterOutIsAcked
    BY InRangeFacts DEF Init, BufferIsTail, NothingBeforeEnable, AcksInRange,
       CounterOutIsAcked, sm
  <2> QED
    BY <2>1, <2>2 DEF CounterInv
<1>2. CounterInv /\ [Next]_vars => CounterInv'
  <2>1. CounterInv /\ Next => CounterInv'
    BY TypeStep, BufferStep, NothingStep, RangeStep, CounterStep DEF CounterInv
  <2>2. CounterInv /\ UNCHANGED vars => CounterInv'
    BY DEF CounterInv, TypeOK, ServerTypeOK, WireTypeOK, ClientTypeOK,
       HistoryTypeOK, BufferIsTail, NothingBeforeEnable, AcksInRange, InRange,
       CounterOutIsAcked, Honest, sm, vars, server, wire, client, history
  <2> QED
    BY <2>1, <2>2
<1>3. CounterInv => CounterOutIsAcked
  BY DEF CounterInv
<1> QED
  BY <1>1, <1>2, <1>3, PTL DEF Spec

-----------------------------------------------------------------------------
\* The shared timer.

\* A process in resume_session runs resume_timeout, or a check of a buffer
\* that no acknowledgement can make smaller before the check runs.
DetachedIsTimed ==
  c2s = "resume_session" =>
    \/ timer = "resume_timeout"
    \/ timer = "check_buffer_full" /\ bufferSize > BufferMax

\* Only a process with an sm_state was resumed.
QuietIsOn == quiet => sm

\* Every step keeps OverfullIsTimed, DetachedIsTimed and QuietIsOn.
LEMMA TimedStep ==
  ASSUME TypeOK, NothingBeforeEnable, OverfullIsTimed, DetachedIsTimed, QuietIsOn,
         Next
  PROVE  OverfullIsTimed' /\ DetachedIsTimed' /\ QuietIsOn'
<1> USE SmAssumption DEF OverfullIsTimed, DetachedIsTimed, QuietIsOn, quiet, sm
<1>1. CASE Terminate /\ UNCHANGED <<smState, phase>>
  BY <1>1 DEF Terminate
<1>2. CASE EnterResume /\ UNCHANGED <<bufferSize, smState, phase>>
  BY <1>2 DEF EnterResume
<1>3. CASE UNCHANGED <<c2s, smState, bufferSize, timer, phase>>
  BY <1>3
<1>4. CASE HandleEnable
  BY <1>4 DEF HandleEnable, TypeOK, ServerTypeOK
<1>5. CASE HandleA
  <2> DEFINE h == Head(toServer).n
  <2>1. h \in 0 .. HMax + 1
    BY <1>5, IncomingType DEF HandleA
  <2> HIDE DEF h
  <2>2. CASE AckAccepted(h)
    <3>1. bufferSize' = SizeAfterAck(h) /\ UNCHANGED <<c2s, smState, timer, phase>>
      BY <1>5, <2>2 DEF HandleA, h
    <3>a. c2s = "session_established"
      BY <1>5 DEF HandleA
    <3>2. SizeAfterAck(h) \in Nat /\ SizeAfterAck(h) <= bufferSize
      BY <2>1, <2>2, ToDropRange, AckType DEF SizeAfterAck, TypeOK, ServerTypeOK
    <3> QED
      BY <3>1, <3>2, <3>a DEF TypeOK, ServerTypeOK
  <2>3. CASE ~AckAccepted(h)
    BY <1>2, <1>5, <2>3 DEF HandleA, h
  <2> QED
    BY <2>2, <2>3
<1>6. CASE HandleRoute
  <2>1. c2s' = c2s /\ smState' = smState /\ phase' = "busy"
    BY <1>6 DEF HandleRoute
  <2>2. CASE sm /\ BufferOn
    <3>1. bufferSize' = bufferSize + 1 /\ bufferSize \in Nat
      BY <1>6, <2>2 DEF HandleRoute, TypeOK, ServerTypeOK
    <3>2. CASE bufferSize + 1 > BufferMax
      <4>1. timer' = "check_buffer_full"
        BY <1>6, <2>2, <3>2 DEF HandleRoute, IsBufferFull
      <4> QED
        BY <2>1, <3>1, <3>2, <4>1
    <3>3. CASE ~(bufferSize + 1 > BufferMax)
      <4>1. timer' = timer
        BY <1>6, <2>2, <3>3 DEF HandleRoute, IsBufferFull
      <4> QED
        BY <2>1, <3>1, <3>3, <4>1
    <3> QED
      BY <3>2, <3>3
  <2>3. CASE ~(sm /\ BufferOn)
    <3>1. UNCHANGED <<bufferSize, timer>>
      BY <1>6, <2>3 DEF HandleRoute
    <3> QED
      BY <2>1, <2>3, <3>1
  <2> QED
    BY <2>2, <2>3
<1>7. CASE SocketClosed \/ StopRequest \/ Exit \/ ResumeTimeoutFires
  BY <1>1, <1>2, <1>7 DEF SocketClosed, StopRequest, Exit, ResumeTimeoutFires,
     UnchangedByTerminate
<1>8. CASE CheckBufferFull
  <2>1. CASE Terminate /\ UnchangedByTerminate
    BY <1>1, <2>1 DEF UnchangedByTerminate
  <2>2. CASE ~IsBufferFull(bufferSize)
    <3>1. timer = "check_buffer_full" /\ UNCHANGED <<c2s, smState, bufferSize, phase>>
          /\ ~(bufferSize > BufferMax)
      BY <1>8, <2>2 DEF CheckBufferFull, IsBufferFull
    <3> QED
      BY <3>1
  <2> QED
    BY <1>8, <2>1, <2>2 DEF CheckBufferFull
<1>9. CASE ResumeHonestly \/ \E h \in 0 .. HMax + 1 : ResumeWithWrongH(h)
  <2>1. PICK h : Resume(h)
    BY <1>9 DEF ResumeHonestly, ResumeWithWrongH
  <2>2. CASE ResumeOk(h)
    <3>1. sm /\ smState' = smState /\ c2s' = "session_established"
          /\ phase' = "quiet"
      BY <2>1, <2>2 DEF Resume, ResumeOk, resumable, NothingBeforeEnable
    <3> QED
      BY <3>1
  <2>3. CASE ResumeFails(h)
    BY <1>1, <2>3 DEF ResumeFails, UnchangedByTerminate
  <2> QED
    BY <2>1, <2>2, <2>3 DEF Resume
<1>10. CASE HandleEnableAgain
  BY <1>2, <1>10 DEF HandleEnableAgain
<1>11. CASE IgnoreEnable \/ HandleStanza \/ HandleR \/ IgnoreA
  BY <1>3, <1>11 DEF IgnoreEnable, HandleStanza, HandleR, IgnoreA, server, history
<1>12. CASE \/ \E kind \in {"message", "iq"} : RouteIn(kind)
            \/ Tick \/ Cut \/ ClientSends \/ ClientAsks \/ ClientReceives
            \/ \E resume \in {0, 1} : ClientEnable(resume)
  BY <1>3, <1>12 DEF RouteIn, Tick, Cut, ClientSends, ClientAsks, ClientReceives,
     ClientEnable, server, history
<1>13. CASE \E e \in {El("enable", 1)} \cup {El("a", h) : h \in 0 .. HMax + 1} :
              ClientMisbehaves(e)
  BY <1>3, <1>13 DEF ClientMisbehaves, server
<1> QED
  BY <1>4, <1>5, <1>6, <1>7, <1>8, <1>9, <1>10, <1>11, <1>12, <1>13
     DEF Next, FromClient, Timers

\* A session over buffer_max that was not just resumed always has a timer
\* running, although its two uses overwrite each other.
THEOREM OverfullWatched == Spec => []OverfullIsTimed
<1> DEFINE Inv == TypeOK /\ NothingBeforeEnable /\ OverfullIsTimed
                    /\ DetachedIsTimed /\ QuietIsOn
<1>1. Init => Inv
  BY TypeInit, SmAssumption DEF Init, OverfullIsTimed, DetachedIsTimed, QuietIsOn,
     NothingBeforeEnable, quiet
<1>2. Inv /\ [Next]_vars => Inv'
  <2>1. Inv /\ Next => Inv'
    BY TypeStep, NothingStep, TimedStep
  <2>2. Inv /\ UNCHANGED vars => Inv'
    BY DEF TypeOK, ServerTypeOK, WireTypeOK, ClientTypeOK, HistoryTypeOK,
       OverfullIsTimed, DetachedIsTimed, QuietIsOn, NothingBeforeEnable, sm,
       quiet, vars, server, wire, client, history
  <2> QED
    BY <2>1, <2>2
<1> QED
  BY <1>1, <1>2, PTL DEF Spec

-----------------------------------------------------------------------------
\* What is outstanding.

\* recover_messages takes no more than there is.
LEMMA RecoveredBound ==
  ASSUME TypeOK
  PROVE  Recovered \in Nat /\ Recovered <= Len(mailbox)
<1> DEFINE S == {i \in 1 .. Len(mailbox) : mailbox[i] = "message"}
<1>1. Len(mailbox) \in Nat
  BY DEF TypeOK, ServerTypeOK
<1>2. IsFiniteSet(1 .. Len(mailbox)) /\ Cardinality(1 .. Len(mailbox)) = Len(mailbox)
  <2> DEFINE n == Len(mailbox)
  <2>1. n \in Int /\ 1 \in Int /\ n >= 0
    BY <1>1
  <2> HIDE DEF n
  <2>2. IsFiniteSet(1 .. n) /\ Cardinality(1 .. n) = IF 1 > n THEN 0 ELSE n - 1 + 1
    BY <2>1, FS_Interval
  <2>3. (IF 1 > n THEN 0 ELSE n - 1 + 1) = n
    BY <2>1
  <2> QED
    BY <2>2, <2>3 DEF n
<1>3. Cardinality(S) <= Cardinality(1 .. Len(mailbox))
  BY <1>2, FS_Subset
<1> QED
  BY <1>2, <1>3, RecoveredNat DEF Recovered

\* Stanzas routed to the client that it has not acknowledged.
Outstanding == bufferSize + Len(mailbox)

\* It is a number.
LEMMA OutstandingType ==
  ASSUME TypeOK
  PROVE  Outstanding \in Nat
<1>1. bufferSize \in Nat /\ mailbox \in Seq({"message", "iq"})
  BY DEF TypeOK, ServerTypeOK
<1>2. Len(mailbox) \in Nat
  BY <1>1
<1> QED
  BY <1>1, <1>2 DEF Outstanding

\* It is one after every step, too.
LEMMA OutstandingNext ==
  ASSUME TypeOK, Next
  PROVE  Outstanding' \in Nat
<1>1. TypeOK'
  BY TypeStep
<1>2. bufferSize' \in Nat /\ mailbox' \in Seq({"message", "iq"})
  BY <1>1 DEF TypeOK, ServerTypeOK
<1>3. Len(mailbox') \in Nat
  BY <1>2
<1> QED
  BY <1>2, <1>3 DEF Outstanding

\* Only routing makes it grow: the handling of a routed stanza moves it from the
\* mailbox to the buffer, and a resumption keeps what it does not recover out.
LEMMA OutstandingStep ==
  ASSUME TypeOK, Next
  PROVE  \/ Outstanding' <= Outstanding /\ routed' = routed
         \/ /\ Outstanding' = Outstanding + 1 /\ Outstanding < HMax
            /\ routed' = routed + 1 /\ routed < MaxOut
<1>a. /\ bufferSize \in Nat /\ mailbox \in Seq({"message", "iq"}) /\ HMax \in Nat
      /\ Len(mailbox) \in Nat
  <2>1. bufferSize \in Nat /\ mailbox \in Seq({"message", "iq"})
    BY DEF TypeOK, ServerTypeOK
  <2> QED
    BY <2>1, SmAssumption
<1> USE DEF Outstanding
<1>1. CASE Terminate /\ routed' = routed
  BY <1>1, <1>a DEF Terminate
<1>2. CASE UNCHANGED <<bufferSize, mailbox, routed>>
  BY <1>2, <1>a
<1>3. CASE HandleEnable
  BY <1>3, <1>a DEF HandleEnable, history
<1>4. CASE HandleA
  <2> DEFINE h == Head(toServer).n
  <2>1. h \in 0 .. HMax + 1 /\ UNCHANGED <<mailbox, routed>>
    BY <1>4, IncomingType DEF HandleA
  <2>2. \/ UNCHANGED bufferSize
        \/ AckAccepted(h) /\ bufferSize' = SizeAfterAck(h)
    BY <1>4 DEF HandleA
  <2> HIDE DEF h
  <2>3. AckAccepted(h) => SizeAfterAck(h) <= bufferSize /\ SizeAfterAck(h) \in Nat
    BY <1>a, <2>1, ToDropRange, AckType DEF SizeAfterAck
  <2> QED
    BY <1>a, <2>1, <2>2, <2>3
<1>5. CASE HandleRoute
  <2>1. mailbox # <<>> /\ mailbox' = Tail(mailbox) /\ routed' = routed
        /\ (bufferSize' = bufferSize \/ bufferSize' = bufferSize + 1)
    BY <1>5 DEF HandleRoute
  <2>2. Len(mailbox') = Len(mailbox) - 1
    BY <1>a, <2>1
  <2> QED
    BY <1>a, <2>1, <2>2
<1>6. CASE \E kind \in {"message", "iq"} : RouteIn(kind)
  <2> PICK kind \in {"message", "iq"} : RouteIn(kind)
    BY <1>6
  <2>1. mailbox' = Append(mailbox, kind) /\ bufferSize' = bufferSize
        /\ bufferSize + Len(mailbox) < HMax /\ routed' = routed + 1 /\ routed < MaxOut
    BY DEF RouteIn
  <2>2. Len(mailbox') = Len(mailbox) + 1
    BY <1>a, <2>1
  <2> QED
    BY <1>a, <2>1, <2>2
<1>7. CASE \E h \in 0 .. HMax + 1 : Resume(h)
  <2> PICK h \in 0 .. HMax + 1 : Resume(h)
    BY <1>7
  <2>1. CASE ResumeFails(h)
    BY <1>1, <2>1 DEF ResumeFails, UnchangedByTerminate
  <2>2. CASE ResumeOk(h)
    <3>1. AckAccepted(h) /\ bufferSize' = SizeAfterAck(h) + Recovered
          /\ mailbox' = <<>> /\ routed' = routed
      BY <2>2 DEF ResumeOk
    <3>2. SizeAfterAck(h) <= bufferSize /\ SizeAfterAck(h) \in Nat
      BY <1>a, <3>1, ToDropRange, AckType DEF SizeAfterAck
    <3> QED
      BY <1>a, <3>1, <3>2, RecoveredBound
  <2> QED
    BY <2>1, <2>2 DEF Resume
<1>8. CASE ResumeHonestly \/ \E h \in 0 .. HMax + 1 : ResumeWithWrongH(h)
  <2>1. clientH \in 0 .. HMax + 1
    BY SmAssumption DEF TypeOK, ClientTypeOK
  <2> QED
    BY <1>7, <1>8, <2>1 DEF ResumeHonestly, ResumeWithWrongH
<1>9. CASE SocketClosed \/ StopRequest \/ Exit \/ CheckBufferFull \/ ResumeTimeoutFires
  BY <1>1, <1>2, <1>9 DEF SocketClosed, StopRequest, Exit, CheckBufferFull,
     ResumeTimeoutFires, UnchangedByTerminate
<1>10. CASE HandleEnableAgain \/ IgnoreEnable \/ HandleStanza \/ HandleR \/ IgnoreA
  BY <1>2, <1>10 DEF HandleEnableAgain, IgnoreEnable, HandleStanza, HandleR, IgnoreA,
     server, history
<1>11. CASE \/ Tick \/ Cut \/ ClientSends \/ ClientAsks \/ ClientReceives
            \/ \E resume \in {0, 1} : ClientEnable(resume)
            \/ \E e \in {El("enable", 1)} \cup {El("a", h) : h \in 0 .. HMax + 1} :
                 ClientMisbehaves(e)
  BY <1>2, <1>11 DEF Tick, Cut, ClientSends, ClientAsks, ClientReceives,
     ClientEnable, ClientMisbehaves, server, history
<1> QED
  BY <1>3, <1>4, <1>5, <1>6, <1>8, <1>9, <1>10, <1>11 DEF Next, FromClient, Timers

=============================================================================
