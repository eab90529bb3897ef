------------------------- MODULE StreamInboundProofs -------------------------
(***************************************************************************)
(* The other direction of a stream, for every value of the constants: what *)
(* the client sends is processed in order, each stanza once, and what was  *)
(* not processed is still with the client.                                 *)
(***************************************************************************)
EXTENDS StreamDeliveryProofs

\* The setting: a buffer (without one an honest <a/> is rejected and detaches
\* the session with its socket open), a client that behaves, no stop request
\* (it does the same), and fewer stanzas than incr_counter can count before it
\* goes back to 0 one too early.
Straight == BufferOn /\ Honest /\ stops = 0 /\ MaxIn < HMax

-----------------------------------------------------------------------------
\* Answers to <r/> and <resume/> on the wire.

Answer(e) == e.tag \in {"a", "resumed"}

\* Each answer among the elements s names a number between lo and hi, later
\* ones none that is smaller.
Answers(s, lo, hi) ==
  /\ \A i \in 1 .. Len(s) : Answer(s[i]) => s[i].n \in lo .. hi
  /\ \A i, j \in 1 .. Len(s) :
       i < j /\ Answer(s[i]) /\ Answer(s[j]) => s[i].n <= s[j].n

\* There are none on an empty wire.
LEMMA AnswersEmpty == \A lo, hi : Answers(<<>>, lo, hi)
  BY DEF Answers

-----------------------------------------------------------------------------
\* The inductive invariant.

\* The session is attached as long as its connection is up.
Attached == Straight /\ link = "up" => c2s = "session_established"

\* The client enables once.
OneEnable ==
  Honest =>
    \A i \in 1 .. Len(toServer) :
      toServer[i].tag = "enable" =>
        ~sm /\ \A j \in 1 .. Len(toServer) : toServer[j].tag = "enable" => i = j

\* The client has sent the stanzas up to sent, the server has processed those
\* up to received, and the client keeps those that ackedH does not cover.
Counted ==
  /\ ackedH <= received /\ received <= sent /\ sent <= MaxIn
  /\ counterIn = received
  /\ Len(handled) = received /\ \A i \in 1 .. Len(handled) : handled[i] = i
  /\ Len(unacked) = sent - ackedH /\ \A i \in 1 .. Len(unacked) : unacked[i] = ackedH + i
  /\ ~clientOn => sent = 0

\* The client waits for the answer to a resumption: it comes first and tells
\* what the server has.
Waiting ==
  \A i \in 1 .. Len(toClient) :
    toClient[i].tag = "resumed" =>
      i = 1 /\ toClient[i].n = received /\ toServer = <<>> /\ clientOn

\* What is on the wire: answers, and the stanzas the server does not have yet,
\* unless the client waits.
InFlight ==
  /\ Answers(toClient, ackedH, received)
  /\ \A i \in 1 .. Len(toServer) : toServer[i].tag = "stanza" => toServer[i].n # 0
  /\ link = "up" /\ (\A i \in 1 .. Len(toClient) : toClient[i].tag # "resumed") =>
       Carries(toServer, received, sent)

\* The whole of it.
InboundInv ==
  DeliveryInv /\ Attached /\ OneEnable /\ (Straight => Counted /\ Waiting /\ InFlight)

-----------------------------------------------------------------------------
\* Facts about answers.

\* The first element is taken off.
LEMMA AnswersTail ==
  ASSUME NEW s \in Seq(Element), s # <<>>, NEW lo \in Nat, NEW hi \in Nat,
         Answers(s, lo, hi)
  PROVE  /\ Answers(Tail(s), lo, hi)
         /\ Answer(Head(s)) => Head(s).n \in lo .. hi /\ Answers(Tail(s), Head(s).n, hi)
<1> DEFINE t == Tail(s)
<1>1. /\ t \in Seq(Element) /\ Len(t) = Len(s) - 1 /\ Len(s) \in Nat \ {0}
      /\ Head(s) = s[1] /\ 1 \in 1 .. Len(s)
      /\ \A i \in 1 .. Len(t) : t[i] = s[i + 1] /\ i + 1 \in 1 .. Len(s) /\ 1 < i + 1
  OBVIOUS
<1> HIDE DEF t
<1>2. \A i \in 1 .. Len(t) : Answer(t[i]) => t[i].n \in lo .. hi
  BY <1>1 DEF Answers
<1>3. \A i, j \in 1 .. Len(t) :
        i < j /\ Answer(t[i]) /\ Answer(t[j]) => t[i].n <= t[j].n
  <2> TAKE i, j \in 1 .. Len(t)
  <2>1. /\ t[i] = s[i + 1] /\ i + 1 \in 1 .. Len(s)
        /\ t[j] = s[j + 1] /\ j + 1 \in 1 .. Len(s)
        /\ i < j => i + 1 < j + 1
    BY <1>1
  <2> QED
    BY <2>1 DEF Answers
<1>4. ASSUME Answer(Head(s)), NEW i \in 1 .. Len(t), Answer(t[i])
      PROVE  t[i].n \in Head(s).n .. hi
  <2>1. s[1].n \in lo .. hi /\ t[i].n \in lo .. hi /\ s[1].n <= t[i].n
    BY <1>1, <1>4 DEF Answers
  <2> QED
    BY <1>1, <2>1
<1>5. Answers(t, lo, hi)
  BY <1>2, <1>3 DEF Answers
<1>6. Answer(Head(s)) => Head(s).n \in lo .. hi /\ Answers(t, Head(s).n, hi)
  BY <1>1, <1>3, <1>4 DEF Answers
<1> QED
  BY <1>5, <1>6 DEF t

\* The server has received more.
LEMMA AnswersWiden ==
  ASSUME NEW s \in Seq(Element), NEW lo \in Nat, NEW hi \in Nat, NEW up \in Nat,
         hi <= up, Answers(s, lo, hi)
  PROVE  Answers(s, lo, up)
  BY DEF Answers

\* The server writes: an answer with its count, or something else.
LEMMA AnswersConcat ==
  ASSUME NEW s \in Seq(Element), NEW w \in Seq(Element), NEW lo \in Nat, NEW hi \in Nat,
         lo <= hi, Answers(s, lo, hi),
         \A i \in 1 .. Len(w) : Answer(w[i]) => w[i].n = hi
  PROVE  Answers(s \o w, lo, hi)
<1> DEFINE t == s \o w
<1>1. /\ Len(t) = Len(s) + Len(w) /\ Len(s) \in Nat /\ Len(w) \in Nat
      /\ \A i \in 1 .. Len(s) : t[i] = s[i]
  OBVIOUS
<1>2. ASSUME NEW i \in 1 .. Len(t), i > Len(s)
      PROVE  Answer(t[i]) => t[i].n = hi
  <2>1. i - Len(s) \in 1 .. Len(w) /\ t[i] = w[i - Len(s)]
    BY <1>1, <1>2
  <2> QED
    BY <2>1
<1> HIDE DEF t
<1>3. \A i \in 1 .. Len(t) : i \in 1 .. Len(s) \/ i > Len(s)
  BY <1>1
<1>4. \A i \in 1 .. Len(t) : Answer(t[i]) => t[i].n \in lo .. hi
  <2> TAKE i \in 1 .. Len(t)
  <2>1. CASE i \in 1 .. Len(s)
    BY <1>1, <2>1 DEF Answers
  <2>2. CASE i > Len(s)
    BY <1>2, <2>2
  <2> QED
    BY <1>3, <2>1, <2>2
<1>5. \A i, j \in 1 .. Len(t) :
        i < j /\ Answer(t[i]) /\ Answer(t[j]) => t[i].n <= t[j].n
  <2> SUFFICES ASSUME NEW i \in 1 .. Len(t), NEW j \in 1 .. Len(t),
                      i < j, Answer(t[i]), Answer(t[j])
               PROVE  t[i].n <= t[j].n
    OBVIOUS
  <2>1. CASE j \in 1 .. Len(s)
    <3>1. i \in 1 .. Len(s)
      BY <1>1, <2>1
    <3> QED
      BY <1>1, <2>1, <3>1 DEF Answers
  <2>2. CASE j > Len(s)
    BY <1>2, <1>4, <2>2
  <2> QED
    BY <1>3, <2>1, <2>2
<1>6. Answers(t, lo, hi)
  BY <1>4, <1>5 DEF Answers
<1> QED
  BY <1>6 DEF t

-----------------------------------------------------------------------------
\* The session stays attached.

\* A step never makes a client behave, nor takes a stop request back.
LEMMA StraightBack ==
  ASSUME TypeOK, Next
  PROVE  /\ Straight' => Straight /\ UNCHANGED <<stops, badAcks>>
         /\ Honest' => Honest
<1>1. stops \in Nat /\ badAcks \in Nat
  BY DEF TypeOK, HistoryTypeOK
<1>2. \/ UNCHANGED <<stops, badAcks>>
      \/ badAcks' = badAcks + 1
      \/ stops' = stops + 1 /\ badAcks' = badAcks
  <2>1. CASE FromClient
    BY <2>1 DEF FromClient, HandleEnable, HandleEnableAgain, IgnoreEnable,
       HandleStanza, HandleR, HandleA, IgnoreA, history
  <2>2. CASE HandleRoute \/ \E kind \in {"message", "iq"} : RouteIn(kind)
    BY <2>2 DEF HandleRoute, RouteIn
  <2>3. CASE SocketClosed \/ StopRequest \/ Exit \/ Timers
    BY <2>3 DEF SocketClosed, StopRequest, Exit, Timers, Tick, CheckBufferFull,
       ResumeTimeoutFires
  <2>4. CASE ResumeHonestly \/ \E h \in 0 .. HMax + 1 : ResumeWithWrongH(h)
    BY <2>4 DEF ResumeHonestly, ResumeWithWrongH
  <2>5. CASE \/ ClientSends \/ ClientAsks \/ ClientReceives \/ Cut
             \/ \E resume \in {0, 1} : ClientEnable(resume)
    BY <2>5 DEF ClientSends, ClientAsks, ClientReceives, Cut, ClientEnable, history
  <2>6. CASE \E e \in {El("enable", 1)} \cup {El("a", h) : h \in 0 .. HMax + 1} :
               ClientMisbehaves(e)
    BY <2>6 DEF ClientMisbehaves
  <2> QED
    BY <2>1, <2>2, <2>3, <2>4, <2>5, <2>6 DEF Next
<1> QED
  BY <1>1, <1>2 DEF Straight, Honest

\* The <a/> that is next on the wire is accepted.
LEMMA NextAckAccepted ==
  ASSUME DeliveryInv, BufferOn, Honest, HandleA
  PROVE  AckAccepted(Head(toServer).n)
<1>1. toServer # <<>> /\ Head(toServer).tag = "a" /\ sm /\ c2s # "closed"
  BY DEF HandleA, Incoming
<1>2. HonestAckAccepted
  BY DeliveryAccepts
<1> QED
  BY <1>1, <1>2 DEF HonestAckAccepted

\* Every step keeps Attached.
LEMMA AttachedStep ==
  ASSUME DeliveryInv, Attached, OneEnable, Next
  PROVE  Attached'
<1> SUFFICES ASSUME Straight', link' = "up"
             PROVE  c2s' = "session_established"
  BY DEF Attached
<1>1. TypeOK /\ WireDown
  BY DEF DeliveryInv, CounterInv
<1>2. Straight /\ UNCHANGED <<stops, badAcks>>
  BY <1>1, StraightBack
<1>3. link = "up" => c2s = "session_established"
  BY <1>2 DEF Attached
<1>4. CASE link = "up" /\ c2s' = c2s
  BY <1>3, <1>4
<1>5. CASE Terminate
  BY <1>5 DEF Terminate
<1>6. CASE FromClient
  <2>1. link = "up"
    BY <1>1, <1>6 DEF FromClient, HandleEnable, HandleEnableAgain, IgnoreEnable,
       HandleStanza, HandleR, HandleA, IgnoreA, Incoming, WireDown
  <2>2. CASE HandleEnableAgain
    <3>1. toServer # <<>> /\ Head(toServer).tag = "enable" /\ sm /\ toServer \in Seq(Element)
      BY <1>1, <2>2 DEF HandleEnableAgain, Incoming, TypeOK, WireTypeOK
    <3>2. 1 \in 1 .. Len(toServer) /\ Head(toServer) = toServer[1]
      BY <3>1
    <3> QED
      BY <1>2, <3>1, <3>2 DEF OneEnable, Straight
  <2>3. CASE HandleA
    <3>1. AckAccepted(Head(toServer).n)
      BY <1>2, <2>3, NextAckAccepted DEF Straight
    <3> QED
      BY <1>4, <2>1, <2>3, <3>1 DEF HandleA
  <2>4. CASE HandleEnable \/ IgnoreEnable \/ HandleStanza \/ HandleR \/ IgnoreA
    BY <1>4, <2>1, <2>4 DEF HandleEnable, IgnoreEnable, HandleStanza, HandleR, IgnoreA,
       server
  <2> QED
    BY <1>6, <2>2, <2>3, <2>4 DEF FromClient
<1>7. CASE HandleRoute \/ \E kind \in {"message", "iq"} : RouteIn(kind)
  BY <1>4, <1>7 DEF HandleRoute, RouteIn, wire
<1>8. CASE SocketClosed \/ Timers
  BY <1>4, <1>5, <1>8 DEF SocketClosed, Timers, Tick, CheckBufferFull,
     ResumeTimeoutFires, wire
<1>9. CASE StopRequest \/ Exit
  BY <1>1, <1>2, <1>9 DEF StopRequest, Exit, TypeOK, HistoryTypeOK
<1>10. CASE ResumeHonestly \/ \E h \in 0 .. HMax + 1 : ResumeWithWrongH(h)
  BY <1>5, <1>10 DEF ResumeHonestly, ResumeWithWrongH, Resume, ResumeOk, ResumeFails
<1>11. CASE \/ ClientSends \/ ClientAsks \/ ClientReceives \/ Cut
            \/ \E resume \in {0, 1} : ClientEnable(resume)
            \/ \E e \in {El("enable", 1)} \cup {El("a", h) : h \in 0 .. HMax + 1} :
                 ClientMisbehaves(e)
  BY <1>4, <1>11 DEF ClientSends, ClientAsks, ClientReceives, Cut, ClientEnable,
     ClientMisbehaves, server
<1> QED
  BY <1>6, <1>7, <1>8, <1>9, <1>10, <1>11 DEF Next

-----------------------------------------------------------------------------
\* One <enable/>.

\* Steps that take off the wire to the server, or empty it.
LEMMA OneEnablePopped ==
  ASSUME TypeOK, OneEnable, Honest' => Honest, toServer # <<>>,
         toServer' = Tail(toServer),
         smState' = smState \/ Head(toServer).tag = "enable"
  PROVE  OneEnable'
<1> SUFFICES ASSUME Honest', NEW i \in 1 .. Len(toServer'), toServer'[i].tag = "enable"
             PROVE  /\ ~sm'
                    /\ \A j \in 1 .. Len(toServer') : toServer'[j].tag = "enable" => i = j
  BY DEF OneEnable
<1>1. toServer \in Seq(Element)
  BY DEF TypeOK, WireTypeOK
<1>2. /\ Head(toServer) = toServer[1] /\ 1 \in 1 .. Len(toServer)
      /\ \A j \in 1 .. Len(toServer') :
           toServer'[j] = toServer[j + 1] /\ j + 1 \in 1 .. Len(toServer) /\ j + 1 # 1
  BY <1>1
<1>3. ~sm /\ \A j \in 1 .. Len(toServer) : toServer[j].tag = "enable" => i + 1 = j
  BY <1>2 DEF OneEnable
<1>4. Head(toServer).tag # "enable"
  BY <1>2, <1>3
<1>5. ASSUME NEW j \in 1 .. Len(toServer'), toServer'[j].tag = "enable"
      PROVE  i = j
  <2>1. i + 1 = j + 1
    BY <1>2, <1>3, <1>5
  <2> QED
    BY <2>1
<1> QED
  BY <1>3, <1>4, <1>5 DEF sm

\* Steps that write to it anything but <enable/>.
LEMMA OneEnableWritten ==
  ASSUME TypeOK, OneEnable, Honest' => Honest, smState' = smState,
         NEW w \in Seq(Element), toServer' = toServer \o w,
         \A i \in 1 .. Len(w) : w[i].tag # "enable"
  PROVE  OneEnable'
<1>1. toServer \in Seq(Element)
  BY DEF TypeOK, WireTypeOK
<1>2. /\ Len(toServer') = Len(toServer) + Len(w) /\ Len(toServer) \in Nat /\ Len(w) \in Nat
      /\ \A i \in 1 .. Len(toServer) : toServer'[i] = toServer[i]
  BY <1>1
<1>3. ASSUME NEW i \in 1 .. Len(toServer'), toServer'[i].tag = "enable"
      PROVE  i \in 1 .. Len(toServer) /\ toServer[i].tag = "enable"
  <2>1. CASE i > Len(toServer)
    <3>1. i - Len(toServer) \in 1 .. Len(w) /\ toServer'[i] = w[i - Len(toServer)]
      BY <1>1, <1>2, <2>1
    <3> QED
      BY <1>3, <3>1
  <2>2. CASE i <= Len(toServer)
    BY <1>2, <1>3, <2>2
  <2> QED
    BY <1>2, <2>1, <2>2
<1> QED
  BY <1>3 DEF OneEnable, sm

\* Every step keeps OneEnable.
LEMMA OneEnableStep ==
  ASSUME DeliveryInv, OneEnable, Next
  PROVE  OneEnable'
<1>1. TypeOK /\ Enabling /\ (Honest' => Honest) /\ toServer \in Seq(Element)
  BY StraightBack DEF DeliveryInv, CounterInv, TypeOK, WireTypeOK
<1>2. CASE toServer' = <<>>
  BY <1>2 DEF OneEnable
<1>3. CASE UNCHANGED <<toServer, smState>>
  BY <1>1, <1>3 DEF OneEnable, sm
<1>4. CASE FromClient
  <2>1. /\ toServer # <<>> /\ toServer' = Tail(toServer)
        /\ smState' = smState \/ Head(toServer).tag = "enable"
    BY <1>4 DEF FromClient, HandleEnable, HandleEnableAgain, IgnoreEnable,
       HandleStanza, HandleR, HandleA, IgnoreA, Incoming, server
  <2> QED
    BY <1>1, <2>1, OneEnablePopped
<1>5. CASE HandleRoute \/ \E kind \in {"message", "iq"} : RouteIn(kind)
  BY <1>3, <1>5 DEF HandleRoute, RouteIn, wire
<1>6. CASE SocketClosed \/ StopRequest \/ Exit \/ Timers
  BY <1>2, <1>3, <1>6 DEF SocketClosed, StopRequest, Exit, Timers, Tick,
     CheckBufferFull, ResumeTimeoutFires, Terminate, wire
<1>7. CASE ResumeHonestly \/ \E h \in 0 .. HMax + 1 : ResumeWithWrongH(h)
  BY <1>2, <1>7 DEF ResumeHonestly, ResumeWithWrongH, Resume, ResumeOk, ResumeFails,
     Terminate
<1>8. CASE Cut
  BY <1>2, <1>8 DEF Cut
<1>9. CASE \E e \in {El("enable", 1)} \cup {El("a", h) : h \in 0 .. HMax + 1} :
             ClientMisbehaves(e)
  <2>1. badAcks' = badAcks + 1 /\ badAcks \in Nat
    BY <1>1, <1>9 DEF ClientMisbehaves, TypeOK, HistoryTypeOK
  <2> QED
    BY <2>1 DEF OneEnable, Honest
<1>10. CASE ClientSends \/ ClientAsks
  <2>1. \E e \in Element : e.tag # "enable" /\ toServer' = toServer \o <<e>>
    <3>1. CASE ClientSends
      <4>1. sent + 1 \in Nat
        BY <1>1 DEF TypeOK, ClientTypeOK
      <4>2. El("stanza", sent + 1) \in Element /\ El("stanza", sent + 1).tag = "stanza"
        BY <4>1, ElType DEF El
      <4> QED
        BY <3>1, <4>2 DEF ClientSends, ClientWrites
    <3>2. CASE ClientAsks
      <4>1. El("r", 0) \in Element /\ El("r", 0).tag = "r"
        BY ElType DEF El
      <4> QED
        BY <3>2, <4>1 DEF ClientAsks, ClientWrites
    <3> QED
      BY <1>10, <3>1, <3>2
  <2>2. PICK e \in Element : e.tag # "enable" /\ toServer' = toServer \o <<e>>
    BY <2>1
  <2> DEFINE w == <<e>>
  <2>3. w \in Seq(Element) /\ \A i \in 1 .. Len(w) : w[i].tag # "enable"
    BY <2>2
  <2>4. toServer' = toServer \o w
    BY <2>2
  <2> HIDE DEF w
  <2>5. smState' = smState
    BY <1>10 DEF ClientSends, ClientAsks, server
  <2> QED
    BY <1>1, <2>3, <2>4, <2>5, OneEnableWritten
<1>11. CASE \E resume \in {0, 1} : ClientEnable(resume)
  <2> PICK resume \in {0, 1} : ClientEnable(resume)
    BY <1>11
  <2> DEFINE e == El("enable", resume)
             l == Len(toServer)
  <2>1. /\ link = "up" /\ ~clientOn /\ smState' = smState /\ toServer' = toServer \o <<e>>
        /\ \A i \in 1 .. Len(toServer) : toServer[i].tag # "enable"
        /\ \A i \in 1 .. Len(toClient) : toClient[i].tag # "enabled"
    BY DEF ClientEnable, ClientWrites, server
  <2>2. ~sm
    BY <1>1, <2>1 DEF Enabling
  <2> HIDE DEF e
  <2>3. /\ Len(toServer') = l + 1 /\ l \in Nat
        /\ \A i \in 1 .. l : toServer'[i] = toServer[i]
    BY <1>1, <2>1
  <2>4. \A i \in 1 .. Len(toServer') : toServer'[i].tag = "enable" => i = l + 1
    BY <2>1, <2>3
  <2> QED
    BY <2>1, <2>2, <2>4 DEF OneEnable, sm
<1>12. CASE ClientReceives
  <2>1. smState' = smState
    BY <1>12 DEF ClientReceives, server
  <2>2. CASE toServer' = toServer
    BY <1>3, <2>1, <2>2
  <2>3. CASE toServer' = Append(toServer, El("a", clientH))
    <3> DEFINE e == El("a", clientH)
               w == <<e>>
    <3>1. e \in Element /\ e.tag = "a"
      <4>1. clientH \in 0 .. HMax + 1
        BY <1>1, SmAssumption DEF TypeOK, ClientTypeOK
      <4> QED
        BY <4>1, ElType DEF El
    <3>2. toServer' = toServer \o w
      BY <1>1, <2>3, <3>1, AppendIsConcat
    <3> HIDE DEF e
    <3>3. w \in Seq(Element) /\ \A i \in 1 .. Len(w) : w[i].tag # "enable"
      BY <3>1
    <3> HIDE DEF w
    <3> QED
      BY <1>1, <2>1, <3>2, <3>3, OneEnableWritten
  <2>4. CASE toServer' = toServer \o Stanzas(unacked')
    <3> DEFINE w == Stanzas(unacked')
    <3>1. unacked' \in Seq(Nat)
      BY <1>1, TypeStep DEF TypeOK, ClientTypeOK
    <3>2. w \in Seq(Element) /\ Len(w) = Len(unacked')
      BY <3>1, StanzasType
    <3>3. \A i \in 1 .. Len(w) : w[i].tag # "enable"
      BY <3>2 DEF Stanzas, El
    <3> HIDE DEF w
    <3>4. toServer' = toServer \o w
      BY <2>4 DEF w
    <3> QED
      BY <1>1, <2>1, <3>2, <3>3, <3>4, OneEnableWritten
  <2> QED
    BY <1>12, <2>2, <2>3, <2>4 DEF ClientReceives
<1> QED
  BY <1>4, <1>5, <1>6, <1>7, <1>8, <1>9, <1>10, <1>11, <1>12 DEF Next

-----------------------------------------------------------------------------
\* The stanzas of the client.

\* What the invariant says where it applies.
Inbound == Counted /\ Waiting /\ InFlight

\* Its variables have their types.
LEMMA InboundTypes ==
  ASSUME TypeOK
  PROVE  /\ sent \in Nat /\ received \in Nat /\ ackedH \in Nat /\ counterIn \in Nat
         /\ handled \in Seq(Nat) /\ unacked \in Seq(Nat)
         /\ toClient \in Seq(Element) /\ toServer \in Seq(Element)
         /\ HMax \in Nat /\ MaxIn \in Nat
  BY SmAssumption DEF TypeOK, ServerTypeOK, WireTypeOK, ClientTypeOK, HistoryTypeOK

\* Steps that lose the connection.
LEMMA InboundCleared ==
  ASSUME Inbound, UNCHANGED <<client, counterIn, received, handled>>,
         toClient' = <<>>, toServer' = <<>>, link' # "up"
  PROVE  Inbound'
  BY AnswersEmpty DEF Inbound, Counted, Waiting, InFlight, client, clientOn

\* Steps of the server that write no <resumed/>, answer with the count, and take
\* no stanza off the wire.
LEMMA InboundWritten ==
  ASSUME TypeOK, Inbound, UNCHANGED <<client, counterIn, received, handled>>,
         link' = "up" => link = "up",
         NEW w \in Seq(Element),
         toClient' = toClient \o w \/ toClient' = toClient,
         \A i \in 1 .. Len(w) :
           w[i].tag # "resumed" /\ (w[i].tag = "a" => w[i].n = received),
         \/ toServer' = toServer
         \/ /\ toServer # <<>> /\ Head(toServer).tag # "stanza"
            /\ toServer' = Tail(toServer)
  PROVE  Inbound'
<1>1. /\ sent \in Nat /\ received \in Nat /\ ackedH \in Nat
      /\ toClient \in Seq(Element) /\ toServer \in Seq(Element)
  BY InboundTypes
<1>2. Counted'
  BY DEF Inbound, Counted, client, clientOn
<1>3. UNCHANGED <<sent, ackedH, received, clientSm>>
  BY DEF client
<1>4. ASSUME NEW i \in 1 .. Len(toClient'), toClient'[i].tag = "resumed"
      PROVE  i \in 1 .. Len(toClient) /\ toClient'[i] = toClient[i]
  <2>1. CASE toClient' = toClient
    BY <1>4, <2>1
  <2>2. CASE toClient' = toClient \o w
    <3>1. Len(toClient') = Len(toClient) + Len(w) /\ Len(toClient) \in Nat
          /\ \A j \in 1 .. Len(toClient) : toClient'[j] = toClient[j]
      BY <1>1, <2>2
    <3>2. CASE i > Len(toClient)
      <4>1. i - Len(toClient) \in 1 .. Len(w) /\ toClient'[i] = w[i - Len(toClient)]
        BY <1>1, <2>2, <3>1, <3>2
      <4> QED
        BY <1>4, <4>1
    <3>3. CASE i <= Len(toClient)
      BY <3>1, <3>3
    <3> QED
      BY <3>1, <3>2, <3>3
  <2> QED
    BY <2>1, <2>2
<1>5. Waiting'
  <2> SUFFICES ASSUME NEW i \in 1 .. Len(toClient'), toClient'[i].tag = "resumed"
               PROVE  i = 1 /\ toClient'[i].n = received /\ toServer' = <<>> /\ clientOn
    BY <1>3 DEF Waiting, clientOn
  <2>1. i \in 1 .. Len(toClient) /\ toClient'[i] = toClient[i]
    BY <1>4
  <2>2. i = 1 /\ toClient[i].n = received /\ toServer = <<>> /\ clientOn
    BY <2>1 DEF Inbound, Waiting
  <2> QED
    BY <2>1, <2>2
<1>6. Answers(toClient', ackedH, received)
  <2>1. ackedH <= received /\ Answers(toClient, ackedH, received)
    BY DEF Inbound, Counted, InFlight
  <2>2. \A i \in 1 .. Len(w) : Answer(w[i]) => w[i].n = received
    BY DEF Answer
  <2>3. Answers(toClient \o w, ackedH, received)
    BY <1>1, <2>1, <2>2, AnswersConcat
  <2> QED
    BY <2>1, <2>3
<1>7. \A i \in 1 .. Len(toServer') : toServer'[i].tag = "stanza" => toServer'[i].n # 0
  <2>1. \A i \in 1 .. Len(toServer) : toServer[i].tag = "stanza" => toServer[i].n # 0
    BY DEF Inbound, InFlight
  <2>2. toServer # <<>> => \A i \in 1 .. Len(Tail(toServer)) :
          i + 1 \in 1 .. Len(toServer) /\ Tail(toServer)[i] = toServer[i + 1]
    BY <1>1
  <2>3. CASE toServer' = toServer
    BY <2>1, <2>3
  <2>4. CASE toServer # <<>> /\ toServer' = Tail(toServer)
    BY <2>1, <2>2, <2>4
  <2> QED
    BY <2>3, <2>4
<1>8. ASSUME link' = "up", \A i \in 1 .. Len(toClient') : toClient'[i].tag # "resumed"
      PROVE  Carries(toServer', received, sent)
  <2>1. \A i \in 1 .. Len(toClient) : toClient[i].tag # "resumed"
    <3>1. Len(toClient') >= Len(toClient) /\ Len(toClient) \in Nat /\ Len(toClient') \in Nat
          /\ \A i \in 1 .. Len(toClient) : toClient'[i] = toClient[i]
      <4>1. Len(toClient \o w) = Len(toClient) + Len(w) /\ Len(toClient) \in Nat
            /\ Len(w) \in Nat
            /\ \A j \in 1 .. Len(toClient) : (toClient \o w)[j] = toClient[j]
        BY <1>1
      <4> QED
        BY <4>1
    <3> QED
      BY <1>8, <3>1
  <2>2. Carries(toServer, received, sent)
    BY <1>8, <2>1 DEF Inbound, InFlight
  <2>3. toServer # <<>> /\ Head(toServer).tag # "stanza" =>
          Carries(Tail(toServer), received, sent)
    BY <1>1, <2>2, CarriesTail DEF Numbered
  <2> QED
    BY <2>2, <2>3
<1>9. InFlight'
  BY <1>3, <1>6, <1>7, <1>8 DEF InFlight
<1> QED
  BY <1>2, <1>5, <1>9 DEF Inbound

\* Steps that write nothing.
LEMMA InboundUntouched ==
  ASSUME TypeOK, Inbound,
         UNCHANGED <<client, counterIn, received, handled, toClient, toServer>>,
         link' = "up" => link = "up"
  PROVE  Inbound'
<1> DEFINE w == <<>>
<1>1. w \in Seq(Element) /\ Len(w) = 0
  OBVIOUS
<1> HIDE DEF w
<1>2. \A i \in 1 .. Len(w) :
        w[i].tag # "resumed" /\ (w[i].tag = "a" => w[i].n = received)
  BY <1>1
<1>3. /\ UNCHANGED <<client, counterIn, received, handled>>
      /\ toClient' = toClient /\ toServer' = toServer
  OBVIOUS
<1> QED
  BY <1>1, <1>2, <1>3, InboundWritten

\* user_send_packet counts a stanza and hands it on: it is the next one.
LEMMA InboundStanza ==
  ASSUME DeliveryInv, Attached, Straight, Inbound, HandleStanza
  PROVE  Inbound'
<1>1. /\ TypeOK /\ WireDown /\ Enabling
      /\ sent \in Nat /\ received \in Nat /\ ackedH \in Nat /\ counterIn \in Nat
      /\ handled \in Seq(Nat)
      /\ toClient \in Seq(Element) /\ toServer \in Seq(Element)
      /\ HMax \in Nat /\ MaxIn \in Nat
  BY InboundTypes DEF DeliveryInv, CounterInv
<1>2. /\ toServer # <<>> /\ Head(toServer).tag = "stanza" /\ toServer' = Tail(toServer)
      /\ UNCHANGED <<client, toClient, link>>
  BY DEF HandleStanza, Incoming
<1>3. link = "up" /\ c2s = "session_established"
  BY <1>1, <1>2 DEF WireDown, Attached
<1>4. \A i \in 1 .. Len(toClient) : toClient[i].tag # "resumed"
  BY <1>2 DEF Inbound, Waiting
<1>5. 1 \in 1 .. Len(toServer) /\ Head(toServer) = toServer[1]
      /\ \A i \in 1 .. Len(Tail(toServer)) :
           i + 1 \in 1 .. Len(toServer) /\ Tail(toServer)[i] = toServer[i + 1]
  BY <1>1, <1>2
<1>6. Numbered(Head(toServer))
  BY <1>2, <1>5 DEF Inbound, InFlight, Numbered
<1>7. /\ Head(toServer).n = received + 1 /\ received + 1 <= sent
      /\ Carries(Tail(toServer), received + 1, sent)
  <2>1. Carries(toServer, received, sent)
    BY <1>3, <1>4 DEF Inbound, InFlight
  <2> QED
    BY <1>1, <1>2, <1>6, <2>1, CarriesTail
<1>8. sm
  BY <1>1, <1>7 DEF Inbound, Counted, Enabling
<1>9. /\ ackedH <= received /\ sent <= MaxIn /\ counterIn = received
      /\ Len(handled) = received /\ \A i \in 1 .. Len(handled) : handled[i] = i
      /\ MaxIn < HMax
  BY DEF Inbound, Counted, Straight
<1>10. received' = received + 1 /\ handled' = Append(handled, received + 1)
       /\ counterIn' = IncrCounter(counterIn)
  BY <1>3, <1>7, <1>8 DEF HandleStanza
<1>11. counterIn' = received + 1
  BY <1>1, <1>7, <1>9, <1>10 DEF IncrCounter
<1>12. Len(handled') = received' /\ \A i \in 1 .. Len(handled') : handled'[i] = i
  <2>1. /\ Len(handled') = received + 1 /\ handled'[received + 1] = received + 1
        /\ \A i \in 1 .. received : handled'[i] = handled[i]
    BY <1>1, <1>9, <1>10
  <2>2. \A i \in 1 .. received + 1 : i \in 1 .. received \/ i = received + 1
    BY <1>1
  <2> QED
    BY <1>9, <1>10, <2>1, <2>2
<1>13. Counted'
  <2>1. ackedH <= received + 1
    BY <1>1, <1>9
  <2>2. UNCHANGED <<sent, ackedH, unacked, clientSm>>
    BY <1>2 DEF client
  <2>3. /\ Len(unacked) = sent - ackedH /\ (~clientOn => sent = 0)
        /\ \A i \in 1 .. Len(unacked) : unacked[i] = ackedH + i
    BY DEF Inbound, Counted
  <2> QED
    BY <1>7, <1>9, <1>10, <1>11, <1>12, <2>1, <2>2, <2>3 DEF Counted, clientOn
<1>14. Waiting'
  BY <1>2, <1>4 DEF Waiting
<1>15. InFlight'
  <2>1. Answers(toClient, ackedH, received + 1)
    <3>1. Answers(toClient, ackedH, received) /\ received <= received + 1
          /\ received + 1 \in Nat
      BY <1>1 DEF Inbound, InFlight
    <3> QED
      BY <1>1, <3>1, AnswersWiden
  <2>2. \A i \in 1 .. Len(toServer') : toServer'[i].tag = "stanza" => toServer'[i].n # 0
    BY <1>2, <1>5 DEF Inbound, InFlight
  <2>3. UNCHANGED <<sent, ackedH>>
    BY <1>2 DEF client
  <2> QED
    BY <1>2, <1>7, <1>10, <2>1, <2>2, <2>3 DEF InFlight
<1> QED
  BY <1>13, <1>14, <1>15 DEF Inbound

\* The client keeps exactly what the server's h does not cover.
LEMMA DropExact ==
  ASSUME TypeOK, Straight, Counted, NEW h \in Nat, ackedH <= h, h <= received
  PROVE  /\ ClientDrops(h) \in Seq(Nat)
         /\ Len(ClientDrops(h)) = sent - h
         /\ \A i \in 1 .. Len(ClientDrops(h)) : ClientDrops(h)[i] = h + i
<1>1. /\ sent \in Nat /\ received \in Nat /\ ackedH \in Nat /\ unacked \in Seq(Nat)
      /\ HMax \in Nat /\ MaxIn \in Nat /\ MaxIn < HMax
      /\ received <= sent /\ sent <= MaxIn
      /\ Len(unacked) = sent - ackedH /\ \A i \in 1 .. Len(unacked) : unacked[i] = ackedH + i
  BY InboundTypes DEF Counted, Straight
<1> DEFINE d == h - ackedH
           n == (h - ackedH) % Modulus
           k == IF n <= Len(unacked) THEN n ELSE 0
           u == SubSeq(unacked, k + 1, Len(unacked))
<1>2. d \in 0 .. HMax /\ d <= Len(unacked) /\ d \in Nat
  BY <1>1
<1>3. n = d
  <2> HIDE DEF d
  <2>1. Modulus \in Nat \ {0} /\ d \in 0 .. Modulus - 1
    BY <1>1, <1>2, SmAssumption DEF Modulus
  <2>2. Modulus * 0 + d = d
    BY <1>2, <2>1
  <2>3. (Modulus * 0 + d) % Modulus = d
    BY <2>1, ModUnique
  <2> QED
    BY <2>2, <2>3 DEF d
<1>4. k = d
  BY <1>2, <1>3
<1>5. ClientDrops(h) = u
  BY DEF ClientDrops
<1> HIDE DEF n, k
<1>6. u \in Seq(Nat) /\ Len(u) = Len(unacked) - d
      /\ \A i \in 1 .. Len(u) : u[i] = unacked[d + i] /\ d + i \in 1 .. Len(unacked)
  BY <1>1, <1>2, <1>4
<1> HIDE DEF u
<1>7. Len(u) = sent - h
  BY <1>1, <1>6
<1>8. \A i \in 1 .. Len(u) : u[i] = h + i
  <2> TAKE i \in 1 .. Len(u)
  <2>1. u[i] = ackedH + (d + i)
    BY <1>1, <1>6
  <2>2. i \in Int
    BY <1>7
  <2> QED
    BY <1>1, <2>1, <2>2
<1> QED
  BY <1>5, <1>6, <1>7, <1>8

\* The client sends its next stanza.
LEMMA InboundSends ==
  ASSUME TypeOK, Straight, Inbound, ClientSends
  PROVE  Inbound'
<1>1. /\ sent \in Nat /\ received \in Nat /\ ackedH \in Nat /\ unacked \in Seq(Nat)
      /\ toClient \in Seq(Element) /\ toServer \in Seq(Element)
      /\ MaxIn \in Nat
  BY InboundTypes
<1> DEFINE e == El("stanza", sent + 1)
<1>2. /\ \A i \in 1 .. Len(toClient) : toClient[i].tag # "resumed"
      /\ sent < MaxIn /\ sent' = sent + 1 /\ unacked' = Append(unacked, sent + 1)
      /\ toServer' = toServer \o <<e>> /\ link = "up" /\ clientOn
      /\ UNCHANGED <<toClient, link, ackedH, received, counterIn, handled, clientSm>>
  BY DEF ClientSends, ClientReady, ClientWrites, server, history
<1>3. e \in Element /\ Numbered(e) /\ e.n = sent + 1
  BY <1>1, ElType DEF El, Numbered
<1> HIDE DEF e
<1>4. toServer' = Append(toServer, e)
  BY <1>1, <1>2, <1>3, AppendIsConcat
<1>5. /\ ackedH <= received /\ received <= sent /\ counterIn = received
      /\ Len(handled) = received /\ \A i \in 1 .. Len(handled) : handled[i] = i
      /\ Len(unacked) = sent - ackedH /\ \A i \in 1 .. Len(unacked) : unacked[i] = ackedH + i
  BY DEF Inbound, Counted
<1>6. /\ Len(unacked') = sent' - ackedH
      /\ \A i \in 1 .. Len(unacked') : unacked'[i] = ackedH + i
  <2> DEFINE l == Len(unacked)
  <2>1. /\ Len(unacked') = l + 1 /\ unacked'[l + 1] = sent + 1 /\ l \in Nat
        /\ \A i \in 1 .. l : unacked'[i] = unacked[i]
    BY <1>1, <1>2
  <2>2. l = sent - ackedH
    BY <1>5
  <2> HIDE DEF l
  <2>3. \A i \in 1 .. l : unacked'[i] = ackedH + i
    BY <1>5, <2>1 DEF l
  <2>4. \A i \in 1 .. l + 1 : i \in 1 .. l \/ i = l + 1
    BY <2>1
  <2>5. ackedH + (l + 1) = sent + 1 /\ l + 1 = (sent + 1) - ackedH
    BY <1>1, <2>2
  <2>6. \A i \in 1 .. l + 1 : unacked'[i] = ackedH + i
    BY <2>1, <2>3, <2>4, <2>5
  <2>7. Len(unacked') = l + 1 /\ sent' - ackedH = l + 1
    <3>1. sent' = sent + 1
      BY <1>2
    <3> QED
      BY <1>1, <2>1, <2>5, <3>1
  <2> QED
    BY ONLY <2>6, <2>7
<1>7. Counted'
  <2>1. received <= sent + 1 /\ sent + 1 <= MaxIn
    BY <1>1, <1>2, <1>5
  <2> QED
    BY <1>2, <1>5, <1>6, <2>1 DEF Counted, clientOn
<1>8. Waiting'
  BY <1>2 DEF Waiting
<1>9. InFlight'
  <2>1. Carries(toServer', received, sent + 1)
    <3>1. Carries(toServer, received, sent)
      BY <1>2 DEF Inbound, InFlight
    <3> QED
      BY <1>1, <1>3, <1>4, <1>5, <3>1, CarriesAppend
  <2>2. \A i \in 1 .. Len(toServer') : toServer'[i].tag = "stanza" => toServer'[i].n # 0
    <3>1. Len(toServer') = Len(toServer) + 1 /\ toServer'[Len(toServer) + 1] = e
          /\ Len(toServer) \in Nat
          /\ \A i \in 1 .. Len(toServer) : toServer'[i] = toServer[i]
      BY <1>1, <1>3, <1>4
    <3>2. \A i \in 1 .. Len(toServer') : i \in 1 .. Len(toServer) \/ i = Len(toServer) + 1
      BY <3>1
    <3> QED
      BY <1>3, <3>1, <3>2 DEF Inbound, InFlight, Numbered
  <2>3. Answers(toClient, ackedH, received)
    BY DEF Inbound, InFlight
  <2> QED
    BY <1>2, <2>1, <2>2, <2>3 DEF InFlight
<1> QED
  BY <1>7, <1>8, <1>9 DEF Inbound

\* The client writes something else while it waits for nothing.
LEMMA InboundAsks ==
  ASSUME TypeOK, Inbound, UNCHANGED <<client, counterIn, received, handled, toClient, link>>,
         \A i \in 1 .. Len(toClient) : toClient[i].tag # "resumed",
         NEW e \in Element, e.tag # "stanza", toServer' = Append(toServer, e)
  PROVE  Inbound'
<1>1. /\ sent \in Nat /\ received \in Nat /\ toServer \in Seq(Element)
      /\ UNCHANGED <<sent, ackedH, unacked, clientSm>>
  BY InboundTypes DEF client
<1>2. Counted' /\ Waiting'
  BY <1>1 DEF Inbound, Counted, Waiting, clientOn
<1>3. \A i \in 1 .. Len(toServer') : toServer'[i].tag = "stanza" => toServer'[i].n # 0
  <2>1. Len(toServer') = Len(toServer) + 1 /\ toServer'[Len(toServer) + 1] = e
        /\ Len(toServer) \in Nat
        /\ \A i \in 1 .. Len(toServer) : toServer'[i] = toServer[i]
    BY <1>1
  <2>2. \A i \in 1 .. Len(toServer') : i \in 1 .. Len(toServer) \/ i = Len(toServer) + 1
    BY <2>1
  <2> QED
    BY <2>1, <2>2 DEF Inbound, InFlight
<1>4. link = "up" => Carries(toServer', received, sent)
  <2>1. link = "up" => Carries(toServer, received, sent)
    BY DEF Inbound, InFlight
  <2>2. received <= sent /\ ~Numbered(e)
    BY DEF Inbound, Counted, Numbered
  <2> QED
    BY <1>1, <2>1, <2>2, CarriesAppend
<1>5. InFlight'
  BY <1>1, <1>3, <1>4 DEF Inbound, InFlight
<1> QED
  BY <1>2, <1>5 DEF Inbound

\* The client takes the first element off the wire.
LEMMA InboundReceives ==
  ASSUME TypeOK, Straight, Inbound, ClientReceives
  PROVE  Inbound'
<1> DEFINE e == Head(toClient)
           t == Tail(toClient)
<1>1. /\ sent \in Nat /\ received \in Nat /\ ackedH \in Nat /\ unacked \in Seq(Nat)
      /\ toClient \in Seq(Element) /\ toServer \in Seq(Element)
  BY InboundTypes
<1>2. /\ link = "up" /\ toClient # <<>> /\ toClient' = t
      /\ UNCHANGED <<link, counterIn, received, handled>>
  BY DEF ClientReceives, server, history
<1>3. /\ 1 \in 1 .. Len(toClient) /\ e = toClient[1] /\ t \in Seq(Element)
      /\ \A i \in 1 .. Len(t) :
           t[i] = toClient[i + 1] /\ i + 1 \in 1 .. Len(toClient) /\ i + 1 # 1
  BY <1>1, <1>2
<1> HIDE DEF t
<1>4. \A i \in 1 .. Len(t) : t[i].tag # "resumed"
  BY <1>3 DEF Inbound, Waiting
<1>5. e.tag # "resumed" => \A i \in 1 .. Len(toClient) : toClient[i].tag # "resumed"
  BY <1>3 DEF Inbound, Waiting
<1>6. /\ ackedH <= received /\ received <= sent /\ sent <= MaxIn
      /\ counterIn = received
      /\ Len(handled) = received /\ \A i \in 1 .. Len(handled) : handled[i] = i
      /\ Len(unacked) = sent - ackedH /\ \A i \in 1 .. Len(unacked) : unacked[i] = ackedH + i
      /\ ~clientOn => sent = 0
      /\ Answers(toClient, ackedH, received)
      /\ \A i \in 1 .. Len(toServer) : toServer[i].tag = "stanza" => toServer[i].n # 0
  BY DEF Inbound, Counted, InFlight
<1>7. /\ Answers(t, ackedH, received)
      /\ Answer(e) => e.n \in ackedH .. received /\ Answers(t, e.n, received)
  BY <1>1, <1>2, <1>6, AnswersTail DEF t
<1>8. CASE e.tag = "enabled" \/ e.tag = "stanza"
  <2>1. UNCHANGED <<sent, unacked, ackedH, toServer>> /\ (clientSm' = clientSm \/ clientOn')
    BY <1>8 DEF ClientReceives, clientOn
  <2>2. Counted'
    BY <1>2, <1>6, <2>1 DEF Counted, clientOn
  <2>3. Waiting'
    BY <1>2, <1>4 DEF Waiting
  <2>4. Carries(toServer, received, sent)
    BY <1>2, <1>5, <1>8 DEF Inbound, InFlight
  <2>5. InFlight'
    BY <1>2, <1>6, <1>7, <2>1, <2>4 DEF InFlight
  <2> QED
    BY <2>2, <2>3, <2>5 DEF Inbound
<1>9. CASE e.tag = "r"
  <2> DEFINE a == El("a", clientH)
  <2>1. UNCHANGED client /\ toServer' = Append(toServer, a)
    BY <1>9 DEF ClientReceives
  <2>2. a \in Element /\ a.tag # "stanza"
    <3>1. clientH \in 0 .. HMax + 1
      BY SmAssumption DEF TypeOK, ClientTypeOK
    <3> QED
      BY <3>1, ElType DEF El
  <2> HIDE DEF a
  <2>3. UNCHANGED <<sent, unacked, ackedH, clientSm>>
    BY <2>1 DEF client
  <2>4. Counted'
    BY <1>2, <1>6, <2>3 DEF Counted, clientOn
  <2>5. Waiting'
    BY <1>2, <1>4 DEF Waiting
  <2>6. Carries(toServer', received, sent)
    <3>1. Carries(toServer, received, sent)
      BY <1>2, <1>5, <1>9 DEF Inbound, InFlight
    <3> QED
      BY <1>1, <1>6, <2>1, <2>2, <3>1, CarriesAppend DEF Numbered
  <2>7. \A i \in 1 .. Len(toServer') : toServer'[i].tag = "stanza" => toServer'[i].n # 0
    <3>1. Len(toServer') = Len(toServer) + 1 /\ toServer'[Len(toServer) + 1] = a
          /\ Len(toServer) \in Nat
          /\ \A i \in 1 .. Len(toServer) : toServer'[i] = toServer[i]
      BY <1>1, <2>1, <2>2
    <3>2. \A i \in 1 .. Len(toServer') : i \in 1 .. Len(toServer) \/ i = Len(toServer) + 1
      BY <3>1
    <3> QED
      BY <1>6, <2>2, <3>1, <3>2
  <2>8. InFlight'
    BY <1>2, <1>7, <2>3, <2>6, <2>7 DEF InFlight
  <2> QED
    BY <2>4, <2>5, <2>8 DEF Inbound
<1>10. CASE e.tag = "a" \/ e.tag = "resumed"
  <2> DEFINE u == ClientDrops(e.n)
  <2>1. /\ unacked' = u /\ ackedH' = e.n /\ UNCHANGED <<sent, clientSm>>
        /\ e.tag = "a" => toServer' = toServer
        /\ e.tag = "resumed" => toServer' = toServer \o Stanzas(u)
    BY <1>10 DEF ClientReceives
  <2>2. /\ e.n \in Nat /\ ackedH <= e.n /\ e.n <= received /\ Answers(t, e.n, received)
    BY <1>1, <1>7, <1>10 DEF Answer
  <2>3. /\ u \in Seq(Nat) /\ Len(u) = sent - e.n
        /\ \A i \in 1 .. Len(u) : u[i] = e.n + i
    BY <2>2, DropExact DEF Inbound
  <2> HIDE DEF u, e
  <2>4. Counted'
    BY <1>2, <1>6, <2>1, <2>2, <2>3 DEF Counted, clientOn
  <2>5. Waiting'
    BY <1>2, <1>4 DEF Waiting
  <2>6. CASE e.tag = "a"
    <3>1. Carries(toServer, received, sent)
      BY <1>2, <1>5, <2>6 DEF Inbound, InFlight
    <3>2. InFlight'
      BY <1>2, <1>6, <2>1, <2>2, <2>6, <3>1 DEF InFlight
    <3> QED
      BY <2>4, <2>5, <3>2 DEF Inbound
  <2>7. CASE e.tag = "resumed"
    <3>1. e.n = received /\ toServer = <<>>
      BY <1>3, <2>7 DEF Inbound, Waiting
    <3> DEFINE s == <<>>
    <3>2. s \in Seq(Element) /\ \A i \in 1 .. Len(s) : ~Numbered(s[i])
      OBVIOUS
    <3> HIDE DEF s
    <3>3. Carries(s \o Stanzas(u), received, sent)
      BY <1>1, <1>6, <2>3, <3>1, <3>2, CarriesRun
    <3>4. Stanzas(u) \in Seq(Element) /\ Len(Stanzas(u)) = Len(u)
      BY <2>3, StanzasType
    <3>5. s \o Stanzas(u) = Stanzas(u)
      BY <3>4, ConcatEmptySeq DEF s
    <3>6. toServer' = s \o Stanzas(u) /\ toServer' = Stanzas(u)
      BY <2>1, <2>7, <3>1, <3>5 DEF s
    <3>7. \A i \in 1 .. Len(toServer') : toServer'[i].n # 0
      <4> TAKE i \in 1 .. Len(toServer')
      <4>1. i \in 1 .. Len(u) /\ toServer'[i].n = u[i]
        BY <3>4, <3>6 DEF Stanzas, El
      <4> QED
        BY <2>2, <2>3, <4>1
    <3>8. InFlight'
      BY <1>2, <2>1, <2>2, <3>3, <3>6, <3>7 DEF InFlight
    <3> QED
      BY <2>4, <2>5, <3>8 DEF Inbound
  <2> QED
    BY <1>10, <2>6, <2>7
<1> QED
  BY <1>8, <1>9, <1>10 DEF ClientReceives

\* <resumed/> tells what the server has, in front of everything.
LEMMA InboundResume ==
  ASSUME TypeOK, Straight, Inbound, NEW h \in 0 .. HMax + 1, Resume(h), ResumeOk(h)
  PROVE  Inbound'
<1>1. sent \in Nat /\ received \in Nat /\ ackedH \in Nat /\ counterIn \in Nat
  BY InboundTypes
<1> DEFINE r == El("resumed", counterIn)
           w == Stanzas(buffer')
           t == <<r>> \o w
<1>2. /\ toClient' = t /\ toServer' = <<>> /\ clientOn
      /\ UNCHANGED <<client, counterIn, received, handled>>
  BY DEF Resume, ResumeOk
<1>3. r \in Element /\ r.n = received /\ r.tag = "resumed"
  BY <1>1, ElType DEF El, Inbound, Counted
<1>4. buffer' \in Seq(Nat)
  BY KeptType DEF ResumeOk
<1>5. w \in Seq(Element) /\ Len(w) = Len(buffer') /\ \A i \in 1 .. Len(w) : w[i].tag = "stanza"
  BY <1>4, StanzasType DEF Stanzas, El
<1> HIDE DEF r, w
<1>6. /\ t \in Seq(Element) /\ Len(t) = 1 + Len(w) /\ t[1] = r /\ Len(w) \in Nat
      /\ \A i \in 1 .. Len(t) : i = 1 \/ (i - 1 \in 1 .. Len(w) /\ t[i] = w[i - 1])
  BY <1>3, <1>5
<1> HIDE DEF t
<1>7. \A i \in 1 .. Len(t) : t[i].tag \in {"a", "resumed"} => i = 1 /\ t[i] = r
  BY <1>5, <1>6
<1>8. UNCHANGED <<sent, unacked, ackedH, clientSm>>
  BY <1>2 DEF client
<1>9. Counted'
  BY <1>2, <1>8 DEF Inbound, Counted, clientOn
<1>10. Waiting'
  BY <1>2, <1>3, <1>7, <1>8 DEF Waiting, clientOn
<1>11. Answers(t, ackedH, received)
  <2>1. received \in ackedH .. received
    BY <1>1 DEF Inbound, Counted
  <2> QED
    BY <1>3, <1>6, <1>7, <2>1 DEF Answers, Answer
<1>12. InFlight'
  <2>1. 1 \in 1 .. Len(t) /\ t[1].tag = "resumed"
    BY <1>3, <1>6
  <2> QED
    BY <1>2, <1>8, <1>11, <2>1 DEF InFlight
<1> QED
  BY <1>9, <1>10, <1>12 DEF Inbound

\* Every step keeps it.
LEMMA InboundStep ==
  ASSUME InboundInv, Straight', Next
  PROVE  Inbound'
<1>1. /\ DeliveryInv /\ TypeOK /\ WireDown /\ Enabling /\ Attached /\ OneEnable
      /\ toClient \in Seq(Element) /\ toServer \in Seq(Element)
  BY DEF InboundInv, DeliveryInv, CounterInv, TypeOK, WireTypeOK
<1>2. Straight /\ UNCHANGED <<stops, badAcks>> /\ Inbound
  BY <1>1, StraightBack DEF InboundInv, Inbound
<1>3. CASE Terminate /\ UNCHANGED <<client, counterIn, received, handled>>
  BY <1>2, <1>3, InboundCleared DEF Terminate
<1>4. CASE UNCHANGED <<client, counterIn, received, handled, wire>>
  BY <1>1, <1>2, <1>4, InboundUntouched DEF wire
<1>5. CASE HandleStanza
  BY <1>1, <1>2, <1>5, InboundStanza
<1>6. CASE HandleEnable
  <2> DEFINE e == El("enabled", Head(toServer).n)
             w == <<e>>
  <2>1. /\ toServer # <<>> /\ Head(toServer).tag = "enable" /\ toServer' = Tail(toServer)
        /\ UNCHANGED <<client, received, handled, link>> /\ counterIn' = 0 /\ ~sm
        /\ toClient' = IF link = "up" THEN toClient \o w ELSE toClient
    BY <1>6 DEF HandleEnable, Incoming, history, Send
  <2>2. counterIn = 0
    <3>1. ~clientOn
      BY <1>1, <2>1 DEF Enabling
    <3>2. sent = 0 /\ received <= sent /\ received \in Nat /\ counterIn = received
      BY <1>1, <1>2, <3>1, InboundTypes DEF Inbound, Counted
    <3> QED
      BY <3>2
  <2>3. e \in Element /\ e.tag = "enabled"
    <3>1. Head(toServer).n \in Nat
      BY <1>1, <1>6, IncomingType DEF HandleEnable
    <3> QED
      BY <3>1, ElType DEF El
  <2> HIDE DEF e
  <2>4. w \in Seq(Element) /\ \A i \in 1 .. Len(w) : w[i].tag = "enabled"
    BY <2>3
  <2> HIDE DEF w
  <2>5. UNCHANGED <<client, counterIn, received, handled>>
    BY <2>1, <2>2
  <2> QED
    BY <1>1, <1>2, <2>1, <2>4, <2>5, InboundWritten
<1>7. CASE HandleR
  <2> DEFINE e == El("a", counterIn)
             w == <<e>>
  <2>1. /\ toServer # <<>> /\ Head(toServer).tag = "r" /\ toServer' = Tail(toServer)
        /\ UNCHANGED <<client, counterIn, received, handled>> /\ link' = link
        /\ Send(IF sm /\ c2s = "session_established" THEN w ELSE <<>>)
    BY <1>7 DEF HandleR, Incoming, server, history
  <2>2. e \in Element /\ e.tag = "a" /\ e.n = received
    <3>1. counterIn \in 0 .. HMax + 1 /\ counterIn = received
      BY <1>1, <1>2, SmAssumption DEF TypeOK, ServerTypeOK, Inbound, Counted
    <3> QED
      BY <3>1, ElType DEF El
  <2> HIDE DEF e
  <2>3. w \in Seq(Element) /\ \A i \in 1 .. Len(w) : w[i].tag = "a" /\ w[i].n = received
    BY <2>2
  <2> HIDE DEF w
  <2>4. toClient' = toClient \o w \/ toClient' = toClient
    <3>1. toClient \o <<>> = toClient
      BY <1>1, ConcatEmptySeq
    <3> QED
      BY <2>1, <3>1 DEF Send
  <2> QED
    BY <1>1, <1>2, <2>1, <2>3, <2>4, InboundWritten
<1>8. CASE HandleA \/ IgnoreA \/ IgnoreEnable \/ HandleEnableAgain
  <2> DEFINE w == <<>>
  <2>1. /\ toServer # <<>> /\ Head(toServer).tag # "stanza" /\ toServer' = Tail(toServer)
        /\ UNCHANGED <<client, counterIn, received, handled>> /\ link' = link
        /\ toClient' = toClient
    BY <1>8 DEF HandleA, IgnoreA, IgnoreEnable, HandleEnableAgain, Incoming, server, history
  <2>2. w \in Seq(Element) /\ Len(w) = 0
    OBVIOUS
  <2> HIDE DEF w
  <2>3. \A i \in 1 .. Len(w) :
          w[i].tag # "resumed" /\ (w[i].tag = "a" => w[i].n = received)
    BY <2>2
  <2> QED
    BY <1>1, <1>2, <2>1, <2>2, <2>3, InboundWritten
<1>9. CASE HandleRoute
  <2>1. UNCHANGED <<client, counterIn, received, handled>> /\ UNCHANGED <<toServer, link>>
    BY <1>9 DEF HandleRoute
  <2>2. PICK w \in Seq(Element) :
          /\ toClient' = IF link = "up" THEN toClient \o w ELSE toClient
          /\ \A i \in 1 .. Len(w) :
               w[i].tag = "r" \/ (w[i].tag = "stanza" /\ (w[i].n # 0 <=> sm))
    BY <1>1, <1>9, RouteWrites
  <2>3. \A i \in 1 .. Len(w) :
          w[i].tag # "resumed" /\ (w[i].tag = "a" => w[i].n = received)
    BY <2>2
  <2> QED
    BY <1>1, <1>2, <2>1, <2>2, <2>3, InboundWritten
<1>10. CASE Tick \/ CheckBufferFull \/ ResumeTimeoutFires
            \/ \E kind \in {"message", "iq"} : RouteIn(kind)
  BY <1>3, <1>4, <1>10 DEF Tick, CheckBufferFull, ResumeTimeoutFires, RouteIn,
     UnchangedByTerminate
<1>11. CASE SocketClosed
  <2>1. CASE sm
    <3>1. /\ UNCHANGED <<client, counterIn, received, handled, toClient, toServer>>
          /\ link' # "up"
      BY <1>11, <2>1 DEF SocketClosed
    <3> QED
      BY <1>1, <1>2, <3>1, InboundUntouched
  <2>2. CASE ~sm
    BY <1>3, <1>11, <2>2 DEF SocketClosed, UnchangedByTerminate
  <2> QED
    BY <2>1, <2>2
<1>12. CASE StopRequest \/ Exit
  BY <1>1, <1>2, <1>12 DEF StopRequest, Exit, TypeOK, HistoryTypeOK
<1>13. CASE ResumeHonestly \/ \E h \in 0 .. HMax + 1 : ResumeWithWrongH(h)
  <2>1. clientH \in 0 .. HMax + 1
    BY <1>1, SmAssumption DEF TypeOK, ClientTypeOK
  <2>2. PICK h \in 0 .. HMax + 1 : Resume(h)
    BY <1>13, <2>1 DEF ResumeHonestly, ResumeWithWrongH
  <2>3. CASE ResumeOk(h)
    BY <1>1, <1>2, <2>2, <2>3, InboundResume
  <2>4. CASE ResumeFails(h)
    BY <1>3, <2>4 DEF ResumeFails, UnchangedByTerminate
  <2> QED
    BY <2>2, <2>3, <2>4 DEF Resume
<1>14. CASE ClientSends
  BY <1>1, <1>2, <1>14, InboundSends
<1>15. CASE ClientAsks \/ \E resume \in {0, 1} : ClientEnable(resume)
  <2>1. /\ UNCHANGED <<client, counterIn, received, handled, toClient, link>>
        /\ \A i \in 1 .. Len(toClient) : toClient[i].tag # "resumed"
    BY <1>2, <1>15 DEF ClientAsks, ClientEnable, ClientReady, Inbound, Waiting, server,
       history
  <2>2. \E e \in Element : e.tag # "stanza" /\ toServer' = toServer \o <<e>>
    <3>1. CASE ClientAsks
      <4>1. El("r", 0) \in Element /\ El("r", 0).tag = "r"
        BY ElType DEF El
      <4> QED
        BY <3>1, <4>1 DEF ClientAsks, ClientWrites
    <3>2. ASSUME NEW resume \in {0, 1}, ClientEnable(resume)
          PROVE  \E e \in Element : e.tag # "stanza" /\ toServer' = toServer \o <<e>>
      <4>1. El("enable", resume) \in Element /\ El("enable", resume).tag = "enable"
        BY ElType DEF El
      <4> QED
        BY <3>2, <4>1 DEF ClientEnable, ClientWrites
    <3> QED
      BY <1>15, <3>1, <3>2
  <2>3. PICK e \in Element : e.tag # "stanza" /\ toServer' = toServer \o <<e>>
    BY <2>2
  <2>4. toServer' = Append(toServer, e)
    BY <1>1, <2>3, AppendIsConcat
  <2> QED
    BY <1>1, <1>2, <2>1, <2>3, <2>4, InboundAsks
<1>16. CASE \E e \in {El("enable", 1)} \cup {El("a", h) : h \in 0 .. HMax + 1} :
              ClientMisbehaves(e)
  BY <1>1, <1>2, <1>16 DEF ClientMisbehaves, TypeOK, HistoryTypeOK
<1>17. CASE ClientReceives
  BY <1>1, <1>2, <1>17, InboundReceives
<1>18. CASE Cut
  BY <1>2, <1>18, InboundCleared DEF Cut, server
<1> QED
  BY <1>5, <1>6, <1>7, <1>8, <1>9, <1>10, <1>11, <1>12, <1>13, <1>14, <1>15, <1>16,
     <1>17, <1>18 DEF Next, FromClient, Timers

\* InboundInv is an invariant of the stream.
LEMMA InboundAlways == Spec => []InboundInv
<1>1. Init => InboundInv
  <2> SUFFICES ASSUME Init
               PROVE  InboundInv
    OBVIOUS
  <2>1. DeliveryInv
    BY DeliveryInit
  <2>2. Carries(<<>>, 0, 0)
    BY CarriesEmpty
  <2>3. Attached /\ OneEnable /\ Counted /\ Waiting /\ InFlight
    BY <2>2, AnswersEmpty, SmAssumption DEF Init, Attached, OneEnable, Counted, Waiting,
       InFlight, clientOn
  <2> QED
    BY <2>1, <2>3 DEF InboundInv
<1>2. InboundInv /\ [Next]_vars => InboundInv'
  <2> SUFFICES ASSUME InboundInv, [Next]_vars
               PROVE  InboundInv'
    OBVIOUS
  <2>1. DeliveryInv'
    BY DeliveryStep DEF InboundInv
  <2>2. CASE Next
    BY <2>1, <2>2, AttachedStep, OneEnableStep, InboundStep DEF InboundInv, Inbound
  <2>3. CASE UNCHANGED vars
    BY <2>1, <2>3 DEF InboundInv, Attached, OneEnable, Straight, Honest, Counted, Waiting,
       InFlight, sm, clientOn, vars, server, wire, client, history
  <2> QED
    BY <2>2, <2>3
<1> QED
  BY <1>1, <1>2, PTL DEF Spec

\* What a client that behaves sends is processed in order, each stanza once,
\* although it sends again after a resumption whatever <resumed/> does not
\* cover: in a session with a buffer, until incr_counter goes back to 0.
THEOREM ProcessedInOrderOnce ==
  BufferOn /\ MaxIn < HMax => (Spec => []InboundInOrderOnce)
<1> SUFFICES ASSUME BufferOn, MaxIn < HMax
             PROVE  Spec => []InboundInOrderOnce
  OBVIOUS
<1>1. InboundInv => InboundInOrderOnce
  BY DEF InboundInv, Straight, Counted, InboundInOrderOnce
<1> QED
  BY <1>1, InboundAlways, PTL

\* Under the same conditions a stanza of the client that was not processed is
\* still in the client's queue, to be sent again.
THEOREM NothingLostInbound ==
  BufferOn /\ MaxIn < HMax => (Spec => []NoInboundLoss)
<1> SUFFICES ASSUME BufferOn, MaxIn < HMax
             PROVE  Spec => []NoInboundLoss
  OBVIOUS
<1>1. ASSUME InboundInv
      PROVE  NoInboundLoss
  <2> SUFFICES ASSUME Honest, stops = 0, NEW id \in 1 .. sent
               PROVE  id \in Ids(handled) \cup Ids(unacked)
    BY DEF NoInboundLoss
  <2>1. Counted /\ TypeOK
    BY <1>1 DEF InboundInv, Straight, DeliveryInv, CounterInv
  <2>2. sent \in Nat /\ received \in Nat /\ ackedH \in Nat
    BY <2>1, InboundTypes
  <2>3. CASE id <= received
    <3>1. id \in 1 .. Len(handled) /\ handled[id] = id
      BY <2>1, <2>2, <2>3 DEF Counted
    <3> QED
      BY <3>1 DEF Ids
  <2>4. CASE id > received
    <3> DEFINE k == id - ackedH
    <3>1. k \in 1 .. Len(unacked) /\ ackedH + k = id
      BY <2>1, <2>2, <2>4 DEF Counted
    <3> HIDE DEF k
    <3>2. unacked[k] = id
      BY <2>1, <3>1 DEF Counted
    <3> QED
      BY <3>1, <3>2 DEF Ids
  <2> QED
    BY <2>2, <2>3, <2>4
<1>2. InboundInv => NoInboundLoss
  BY <1>1
<1> QED
  BY <1>2, InboundAlways, PTL

-----------------------------------------------------------------------------
\* How long a detached session is kept.

\* How often its timer may have been started with resume_timeout.
LinkLost == IF link = "closed" THEN 1 ELSE 0
Starts == stops + badAcks + LinkLost

\* What it was given, in ticks.
Budget == Starts * ResumeTimeout + Excess(bufferSize) * CheckTimeout

\* The time that a session has been detached and what is left of its timer.
BudgetInv == BufferOn /\ c2s = "resume_session" => age + left <= Budget

\* The terms of Budget, whatever stands in them.
LEMMA SumType ==
  \A a, b, c \in Nat : a + b + c \in Nat /\ (b # 0 => a + b + c >= 1)
OBVIOUS

\* An excess is a number.
LEMMA ExcessType == \A n \in Nat : Excess(n) \in Nat
BY SmAssumption DEF Excess

\* Budget is made of numbers.
LEMMA BudgetType ==
  ASSUME TypeOK
  PROVE  /\ Starts \in Nat /\ Excess(bufferSize) \in Nat
         /\ Starts * ResumeTimeout \in Nat
         /\ Excess(bufferSize) * CheckTimeout \in Nat
<1>1. /\ stops \in Nat /\ badAcks \in Nat /\ bufferSize \in Nat
      /\ ResumeTimeout \in Nat /\ CheckTimeout \in Nat /\ BufferMax \in Nat
  BY SmAssumption DEF TypeOK, ServerTypeOK, HistoryTypeOK
<1>2. Starts \in Nat /\ Excess(bufferSize) \in Nat
  BY <1>1 DEF Starts, LinkLost, Excess
<1>3. \A m, n \in Nat : m * n \in Nat
  OBVIOUS
<1> QED
  BY <1>1, <1>2, <1>3

\* A product grows by its second factor with every unit of the first.
LEMMA OneMore ==
  ASSUME NEW m \in Nat, NEW n \in Nat, NEW r \in Nat, n >= m + 1
  PROVE  m * r + r <= n * r
<1>1. PICK d \in Nat : n = m + 1 + d
  <2>1. n - (m + 1) \in Nat /\ n = m + 1 + (n - (m + 1))
    OBVIOUS
  <2> QED
    BY <2>1
<1>2. n * r = m * r + r + d * r /\ d * r \in Nat /\ m * r \in Nat
  BY <1>1
<1> QED
  BY <1>2

\* Every step keeps BudgetInv.
LEMMA BudgetStep ==
  ASSUME InboundInv, BudgetInv, Next, InboundInv'
  PROVE  BudgetInv'
<1> SUFFICES ASSUME BufferOn, c2s' = "resume_session"
             PROVE  age' + left' <= Budget'
  BY DEF BudgetInv
<1>1. TypeOK /\ DeliveryInv /\ OneEnable /\ WireDown /\ TypeOK'
  BY DEF InboundInv, DeliveryInv, CounterInv
<1>2. /\ age \in Nat /\ left \in Nat /\ stops \in Nat /\ badAcks \in Nat
      /\ ResumeTimeout \in Nat /\ CheckTimeout \in Nat /\ BufferMax \in Nat
      /\ bufferSize \in Nat /\ age' \in Nat /\ left' \in Nat
  BY <1>1, SmAssumption DEF TypeOK, ServerTypeOK, HistoryTypeOK
<1> DEFINE sR == Starts * ResumeTimeout
           tR == Starts' * ResumeTimeout
           eC == Excess(bufferSize) * CheckTimeout
           fC == Excess(bufferSize') * CheckTimeout
<1>3. /\ sR \in Nat /\ tR \in Nat /\ eC \in Nat /\ fC \in Nat
      /\ Starts \in Nat /\ Starts' \in Nat /\ Excess(bufferSize) \in Nat
      /\ Excess(bufferSize') \in Nat
  <2>1. /\ Starts \in Nat /\ sR \in Nat /\ eC \in Nat /\ Excess(bufferSize) \in Nat
    BY <1>1, BudgetType
  <2>2. /\ stops' \in Nat /\ badAcks' \in Nat /\ bufferSize' \in Nat
    BY <1>1 DEF TypeOK, ServerTypeOK, HistoryTypeOK
  <2>3. Starts' \in Nat /\ Excess(bufferSize') \in Nat
    <3>1. LinkLost' \in Nat
      BY ONLY TRUE DEF LinkLost
    <3>2. Excess(bufferSize') \in Nat
      BY ONLY <2>2, ExcessType
    <3> QED
      BY ONLY <2>2, <3>1, <3>2, SumType DEF Starts
  <2>4. \A m, n \in Nat : m * n \in Nat
    OBVIOUS
  <2> QED
    BY <1>2, <2>1, <2>3, <2>4
<1>4. Budget = sR + eC /\ Budget' = tR + fC
  BY DEF Budget, Excess
<1>5. c2s = "resume_session" => age + left <= sR + eC
  BY <1>4 DEF BudgetInv
<1>6. Starts' >= Starts + 1 => sR + ResumeTimeout <= tR
  BY <1>2, <1>3, OneMore
<1>7. Starts' >= 1 => ResumeTimeout <= tR
  <2>1. 0 \in Nat /\ 0 * ResumeTimeout = 0
    BY <1>2
  <2> DEFINE z == 0
  <2>2. z \in Nat /\ z * ResumeTimeout = 0 /\ z + 1 = 1
    BY <2>1
  <2> HIDE DEF z
  <2>3. Starts' >= z + 1 => z * ResumeTimeout + ResumeTimeout <= tR
    BY <1>2, <1>3, <2>2, OneMore
  <2> QED
    BY <1>2, <2>2, <2>3
<1> HIDE DEF sR, tR, eC, fC
\* The timer starts with resume_timeout, and something says that it may.
<1>8. ASSUME EnterResume, UNCHANGED bufferSize, Starts' >= 1,
             c2s = "resume_session" => Starts' >= Starts + 1
      PROVE  age' + left' <= Budget'
  <2>1. left' = ResumeTimeout /\ fC = eC
    BY <1>8 DEF EnterResume, eC, fC
  <2>2. CASE c2s = "resume_session"
    <3>1. age' = age
      BY <1>8, <2>2 DEF EnterResume, AgeWhenStopping
    <3>2. age <= sR + eC /\ sR + ResumeTimeout <= tR
      BY <1>2, <1>3, <1>5, <1>6, <1>8, <2>2
    <3> QED
      BY <1>2, <1>3, <1>4, <2>1, <3>1, <3>2
  <2>3. CASE c2s # "resume_session"
    <3>1. age' = 0
      BY <1>8, <2>3 DEF EnterResume, AgeWhenStopping
    <3> QED
      BY <1>2, <1>3, <1>4, <1>7, <1>8, <2>1, <3>1
  <2> QED
    BY <2>2, <2>3
\* Nothing that counts changes, or the timer is taken away.
<1>9. ASSUME UNCHANGED <<c2s, age, bufferSize>>, left' = left \/ left' = 0,
             Starts' = Starts
      PROVE  age' + left' <= Budget'
  <2>1. tR = sR /\ fC = eC /\ age' = age /\ c2s = "resume_session"
    BY <1>9 DEF sR, tR, eC, fC
  <2>2. age + left <= sR + eC
    BY <1>5, <2>1
  <2>3. CASE left' = left
    BY <1>4, <2>1, <2>2, <2>3
  <2>4. CASE left' = 0
    <3>1. age + 0 <= sR + eC
      BY <1>2, <1>3, <2>2
    <3> QED
      BY <1>4, <2>1, <2>4, <3>1
  <2> QED
    BY <1>9, <2>3, <2>4
<1>10. CASE HandleEnable
  BY <1>10 DEF HandleEnable
<1>11. CASE HandleEnableAgain
  <2>1. c2s = "session_established" /\ EnterResume /\ UNCHANGED <<bufferSize, badAcks>>
    BY <1>11 DEF HandleEnableAgain
  <2>2. badAcks # 0
    <3>1. toServer # <<>> /\ Head(toServer).tag = "enable" /\ sm /\ toServer \in Seq(Element)
      BY <1>1, <1>11 DEF HandleEnableAgain, Incoming, TypeOK, WireTypeOK
    <3>2. 1 \in 1 .. Len(toServer) /\ Head(toServer) = toServer[1]
      BY <3>1
    <3> QED
      BY <1>1, <3>1, <3>2 DEF OneEnable, Honest
  <2>3. Starts' >= 1
    <3>1. badAcks' # 0 /\ badAcks' \in Nat /\ stops' \in Nat
      BY <1>1, <2>1, <2>2 DEF TypeOK, HistoryTypeOK
    <3>2. LinkLost' \in Nat
      BY ONLY TRUE DEF LinkLost
    <3> QED
      BY ONLY <3>1, <3>2, SumType DEF Starts
  <2> QED
    BY <1>8, <2>1, <2>3
<1>12. CASE HandleA
  <2> DEFINE h == Head(toServer).n
  <2>1. c2s = "session_established"
    BY <1>12 DEF HandleA
  <2>2. EnterResume /\ UNCHANGED <<bufferSize, badAcks>> /\ ~AckAccepted(h)
    <3>1. CASE AckAccepted(h)
      BY <1>12, <2>1, <3>1 DEF HandleA
    <3>2. CASE ~AckAccepted(h)
      BY <1>12, <3>2 DEF HandleA
    <3> QED
      BY <3>1, <3>2
  <2>3. badAcks # 0
    BY <1>1, <1>12, <2>2, NextAckAccepted DEF Honest
  <2>4. Starts' >= 1
    <3>1. badAcks' # 0 /\ badAcks' \in Nat /\ stops' \in Nat
      BY <1>1, <2>2, <2>3 DEF TypeOK, HistoryTypeOK
    <3>2. LinkLost' \in Nat
      BY ONLY TRUE DEF LinkLost
    <3> QED
      BY ONLY <3>1, <3>2, SumType DEF Starts
  <2> QED
    BY <1>8, <2>1, <2>2, <2>4
<1>13. CASE IgnoreEnable \/ HandleStanza \/ HandleR \/ IgnoreA
  <2>1. /\ UNCHANGED <<c2s, age, bufferSize, left>>
        /\ UNCHANGED <<stops, badAcks, link>>
    BY <1>13 DEF IgnoreEnable, HandleStanza, HandleR, IgnoreA, server, history
  <2> QED
    BY <1>9, <2>1 DEF Starts, LinkLost
<1>14. CASE HandleRoute
  <2>1. UNCHANGED <<c2s, age>> /\ Starts' = Starts
    BY <1>14 DEF HandleRoute, Starts, LinkLost
  <2>2. tR = sR
    BY <2>1 DEF sR, tR
  <2>3. CASE UNCHANGED <<bufferSize, left>>
    BY <1>9, <2>1, <2>3
  <2>4. CASE bufferSize' = bufferSize + 1 /\ ~IsBufferFull(bufferSize + 1) /\ left' = left
    <3>1. Excess(bufferSize') = 0 /\ Excess(bufferSize) = 0
      BY <1>2, <2>4 DEF Excess, IsBufferFull
    <3>2. fC = eC
      BY <3>1 DEF fC, eC
    <3> QED
      BY <1>2, <1>3, <1>4, <1>5, <2>1, <2>2, <2>4, <3>2
  <2>5. CASE bufferSize' = bufferSize + 1 /\ IsBufferFull(bufferSize + 1)
             /\ left' = CheckTimeout
    <3>1. Excess(bufferSize') >= Excess(bufferSize) + 1
      BY <1>2, <2>5 DEF Excess, IsBufferFull
    <3>2. eC + CheckTimeout <= fC
      BY <1>2, <1>3, <3>1, OneMore DEF eC, fC
    <3> QED
      BY <1>2, <1>3, <1>4, <1>5, <2>1, <2>2, <2>5, <3>2
  <2>6. \/ UNCHANGED <<bufferSize, left>>
        \/ bufferSize' = bufferSize + 1 /\ ~IsBufferFull(bufferSize + 1) /\ left' = left
        \/ /\ bufferSize' = bufferSize + 1 /\ IsBufferFull(bufferSize + 1)
           /\ left' = CheckTimeout
    <3>1. CASE sm
      <4>1. CASE IsBufferFull(bufferSize + 1)
        BY <1>14, <3>1, <4>1 DEF HandleRoute
      <4>2. CASE ~IsBufferFull(bufferSize + 1)
        BY <1>14, <3>1, <4>2 DEF HandleRoute
      <4> QED
        BY <4>1, <4>2
    <3>2. CASE ~sm
      BY <1>14, <3>2 DEF HandleRoute
    <3> QED
      BY <3>1, <3>2
  <2> QED
    BY <2>3, <2>4, <2>5, <2>6
<1>15. CASE SocketClosed
  <2>1. EnterResume /\ link' = "closed" /\ link = "cut" /\ UNCHANGED <<bufferSize, stops, badAcks>>
    BY <1>15 DEF SocketClosed, Terminate
  <2>2. Starts' = Starts + 1
    BY <1>2, <2>1 DEF Starts, LinkLost
  <2>3. Starts' >= 1 /\ Starts' >= Starts + 1
    BY <1>3, <2>2
  <2> QED
    BY <1>8, <2>1, <2>3
<1>16. CASE StopRequest
  <2>1. EnterResume /\ UNCHANGED <<bufferSize, link, badAcks>> /\ stops' = stops + 1
    BY <1>16 DEF StopRequest, Terminate, wire
  <2>2. Starts' = Starts + 1
    BY <1>2, <2>1 DEF Starts, LinkLost
  <2>3. Starts' >= 1 /\ Starts' >= Starts + 1
    BY <1>3, <2>2
  <2> QED
    BY <1>8, <2>1, <2>3
<1>17. CASE Exit \/ ResumeTimeoutFires
  BY <1>17 DEF Exit, ResumeTimeoutFires, Terminate
<1>18. CASE Tick
  <2>1. /\ UNCHANGED <<c2s, bufferSize, stops, badAcks, link>>
        /\ left' = left - 1 /\ age' = age + 1
    BY <1>18 DEF Tick, wire
  <2>2. tR = sR /\ fC = eC
    BY <2>1 DEF tR, sR, fC, eC, Starts, LinkLost
  <2> QED
    BY <1>2, <1>3, <1>4, <1>5, <2>1, <2>2
<1>19. CASE CheckBufferFull
  <2>1. /\ UNCHANGED <<c2s, age, bufferSize>> /\ left' = 0
        /\ UNCHANGED <<stops, badAcks, link>>
    BY <1>19 DEF CheckBufferFull, Terminate, wire
  <2> QED
    BY <1>9, <2>1 DEF Starts, LinkLost
<1>20. CASE ResumeHonestly \/ \E h \in 0 .. HMax + 1 : ResumeWithWrongH(h)
  BY <1>20 DEF ResumeHonestly, ResumeWithWrongH, Resume, ResumeOk, ResumeFails, Terminate
<1>21. CASE \/ \E kind \in {"message", "iq"} : RouteIn(kind)
            \/ ClientSends \/ ClientAsks \/ ClientReceives
            \/ \E resume \in {0, 1} : ClientEnable(resume)
  <2>1. /\ UNCHANGED <<c2s, age, bufferSize, left>>
        /\ UNCHANGED <<stops, badAcks, link>>
    BY <1>21 DEF RouteIn, ClientSends, ClientAsks, ClientReceives, ClientEnable,
       ClientWrites, server, history, wire
  <2> QED
    BY <1>9, <2>1 DEF Starts, LinkLost
<1>22. CASE Cut
  <2>1. /\ UNCHANGED <<c2s, age, bufferSize, left>> /\ UNCHANGED <<stops, badAcks>>
        /\ link = "up" /\ link' = "cut"
    BY <1>22 DEF Cut, server
  <2> QED
    BY <1>9, <2>1 DEF Starts, LinkLost
<1>23. CASE \E e \in {El("enable", 1)} \cup {El("a", h) : h \in 0 .. HMax + 1} :
              ClientMisbehaves(e)
  <2>1. /\ UNCHANGED <<c2s, age, bufferSize, left>> /\ UNCHANGED <<stops, link>>
        /\ badAcks' = badAcks + 1
    BY <1>23 DEF ClientMisbehaves, ClientWrites, server
  <2>2. Starts' = Starts + 1
    BY <1>2, <2>1 DEF Starts, LinkLost
  <2>3. sR <= tR
    BY <1>2, <1>3, <1>6, <2>2
  <2>4. fC = eC
    BY <2>1 DEF fC, eC
  <2> QED
    BY <1>2, <1>3, <1>4, <1>5, <2>1, <2>3, <2>4
<1> QED
  BY <1>10, <1>11, <1>12, <1>13, <1>14, <1>15, <1>16, <1>17, <1>18, <1>19, <1>20,
     <1>21, <1>22, <1>23 DEF Next, FromClient, Timers

\* A detached session is kept for resume_timeout, and again for every stop
\* request and every misdeed of its client; and for one check of the buffer for
\* every stanza beyond buffer_max. The bound holds for any client, any
\* timeouts and any number of cuts and resumptions; with an honest client, no
\* stop request and room in the buffer it is resume_timeout.
THEOREM DetachedNotLonger == Spec => []DetachedTimeBound
<1> DEFINE Inv == InboundInv /\ BudgetInv
<1>1. Init => BudgetInv
  BY DEF Init, BudgetInv
<1>2. BudgetInv /\ InboundInv /\ InboundInv' /\ [Next]_vars => BudgetInv'
  <2>1. BudgetInv /\ UNCHANGED vars => BudgetInv'
    BY DEF BudgetInv, Budget, Starts, LinkLost, Excess, vars, server, wire, client, history
  <2> QED
    BY <2>1, BudgetStep
<1>3. InboundInv /\ BudgetInv => DetachedTimeBound
  <2> SUFFICES ASSUME InboundInv, BudgetInv, BufferOn, c2s = "resume_session"
               PROVE  age <= (stops + badAcks + 1) * ResumeTimeout
                               + Excess(bufferSize) * CheckTimeout
    BY DEF DetachedTimeBound
  <2>1. TypeOK
    BY DEF InboundInv, DeliveryInv, CounterInv
  <2>2. /\ age \in Nat /\ left \in Nat /\ stops \in Nat /\ badAcks \in Nat
        /\ ResumeTimeout \in Nat
    BY <2>1, SmAssumption DEF TypeOK, ServerTypeOK, HistoryTypeOK
  <2> DEFINE all == stops + badAcks + 1
             aR == all * ResumeTimeout
             sR == Starts * ResumeTimeout
             eC == Excess(bufferSize) * CheckTimeout
  <2>3. sR \in Nat /\ eC \in Nat /\ Starts \in Nat /\ all \in Nat
    BY <2>1, <2>2, BudgetType
  <2>4. age + left <= sR + eC
    BY DEF BudgetInv, Budget
  <2>5. Starts = all \/ all >= Starts + 1
    BY <2>2 DEF Starts, LinkLost
  <2> HIDE DEF all
  <2>6. aR \in Nat /\ sR <= aR
    <3>1. \A m, n \in Nat : m * n \in Nat
      OBVIOUS
    <3>2. aR \in Nat
      BY <2>2, <2>3, <3>1
    <3>3. CASE Starts = all
      BY <2>3, <3>3
    <3>4. CASE all >= Starts + 1
      <4>1. sR + ResumeTimeout <= aR
        BY <2>2, <2>3, <3>4, OneMore
      <4> HIDE DEF sR, aR
      <4> QED
        BY <2>2, <2>3, <3>2, <4>1
    <3> QED
      BY <2>5, <3>2, <3>3, <3>4
  <2>7. aR + eC = (stops + badAcks + 1) * ResumeTimeout + Excess(bufferSize) * CheckTimeout
    BY DEF all
  <2> HIDE DEF sR, aR, eC
  <2>8. age <= aR + eC
    BY <2>2, <2>3, <2>4, <2>6
  <2> QED
    BY <2>7, <2>8
<1>4. Spec => []InboundInv
  BY InboundAlways
<1> QED
  BY <1>1, <1>2, <1>3, <1>4, PTL DEF Spec

=============================================================================
