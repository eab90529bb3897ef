----------------------------- MODULE StreamMgmt -----------------------------
(***************************************************************************)
(* One XEP-0198 stream as kept by mod_stream_management: the sm_state of a *)
(* client connection, the gen_statem timer it shares between two uses, the *)
(* two directions of the socket and a client that counts what it receives. *)
(*                                                                         *)
(* A resumption is one step here (it trims, hands over and forwards the    *)
(* buffer); the steps of the two processes that take part in it are the    *)
(* subject of module SmHandover.                                           *)
(*                                                                         *)
(* A stanza that enters the stream is named by its position 1, 2, ...; the *)
(* buffer is kept oldest first (the source conses newest first).           *)
(***************************************************************************)
EXTENDS Integers, Sequences, FiniteSets

CONSTANTS
    HMax,           \* ?STREAM_MGMT_H_MAX, 2^32 - 1 in the source
    BufferOn,       \* FALSE stands for buffer_max = no_buffer
    BufferMax,      \* buffer_max; "infinity" is any value above MaxOut
    AckFreq,        \* ack_freq; 0 stands for "never"
    ResumeTimeout,  \* resume_timeout, in ticks
    CheckTimeout,   \* ?CONSTRAINT_CHECK_TIMEOUT, in ticks
    MaxOut,         \* bound: stanzas routed to the client
    MaxIn,          \* bound: stanzas the client sends
    MaxStops,       \* bound: stop requests (ping timeout, host removed)
    MaxCuts,        \* bound: connections lost
    MaxBadAcks,     \* bound: requests of a misbehaving client
    WireMax         \* bound: elements in flight when the client asks for h

ASSUME SmAssumption ==
    /\ HMax \in Nat \ {0}
    /\ BufferOn \in BOOLEAN
    /\ BufferMax \in Nat
    /\ AckFreq \in Nat
    /\ ResumeTimeout \in Nat
    /\ CheckTimeout \in Nat
    /\ MaxOut \in Nat /\ MaxIn \in Nat /\ MaxStops \in Nat
    /\ MaxCuts \in Nat /\ MaxBadAcks \in Nat /\ WireMax \in Nat

VARIABLES
    \* the c2s process
    c2s,            \* "session_established", "resume_session", "closed"
    smState,        \* "none", or "on": the process has an sm_state
    smid,           \* "none", or "registered": enabled with resume='true'
    buffer, bufferSize, counterIn, counterOut,    \* fields of sm_state
    timer, left,    \* the timer named {timeout, mod_stream_management}: the
                    \* event it will deliver, and in how many ticks
    mailbox,        \* {route, Acc} messages not handled yet
    \* the connection
    link,           \* "up", "cut" (the server does not know yet), "closed"
    toClient, toServer,
    \* the client
    clientSm,       \* "off", or "on": the client received <enabled/>
    clientH, got, sent, unacked, ackedH,
    \* history
    out,            \* stanzas that entered the stream
    routed,         \* stanzas put into the mailbox
    handled,        \* client stanzas the server went on to process
    received,       \* client stanzas that arrived after <enable/>
    rerouted,       \* stanzas given back to the router at termination
    age,            \* ticks since the session became detached
    phase,          \* "quiet": resumed and nothing came since; else "busy"
    stops, cuts, badAcks

server  == <<c2s, smState, smid, buffer, bufferSize, counterIn, counterOut,
             timer, left, mailbox>>
wire    == <<link, toClient, toServer>>
client  == <<clientSm, clientH, got, sent, unacked, ackedH>>
history == <<out, routed, handled, received, rerouted, age, phase,
             stops, cuts, badAcks>>
vars    == <<server, wire, client, history>>

sm        == smState = "on"
resumable == smid = "registered"
clientOn  == clientSm = "on"
quiet     == phase = "quiet"

(***************************************************************************)
(* The counters                                                            *)
(***************************************************************************)

\* Mutants (names in Bad...) are wrong versions of the next definition, each
\* breaking a property of a run.
BadIncrForgets(n) == n
BadIncrTwice(n) == IF n + 2 <= HMax THEN n + 2 ELSE 0

\* incr_counter: counter_in goes back to 0 after HMax - 1.
IncrCounter(n) == IF n < HMax - 1 THEN n + 1 ELSE 0

BadCalcNoPlusOne(acked, old) ==
    IF acked >= old THEN acked - old ELSE acked + HMax - old

\* calc_to_drop: how many stanzas an acknowledgement covers.
CalcToDrop(acked, old) ==
    IF acked >= old THEN acked - old ELSE acked + HMax - old + 1

BadBufferFullLate(n) == n > BufferMax + 1

IsBufferFull(n) == n > BufferMax

\* do_handle_ack rejects an acknowledgement of more than the buffer holds.
AckAccepted(h) == CalcToDrop(h, counterOut) <= bufferSize

BadAckDropsNewest(h) ==
    SubSeq(buffer, 1, Len(buffer) - CalcToDrop(h, counterOut))
BadAckDropsNothing(h) == buffer
BadAckDropsOneMore(h) ==
    SubSeq(buffer, CalcToDrop(h, counterOut) + 2, Len(buffer))

BufferAfterAck(h) ==
    SubSeq(buffer, CalcToDrop(h, counterOut) + 1, Len(buffer))

BadSizeOneLess(h) == bufferSize - CalcToDrop(h, counterOut) - 1

SizeAfterAck(h) == bufferSize - CalcToDrop(h, counterOut)

\* The sequence of stanzas numbered m .. n.
Run(m, n) == [i \in 1 .. n - m + 1 |-> m + i - 1]

(***************************************************************************)
(* Elements on the wire                                                    *)
(***************************************************************************)
El(tag, n) == [tag |-> tag, n |-> n]
Stanzas(s) == [i \in 1 .. Len(s) |-> El("stanza", s[i])]

\* A write to a dead socket goes nowhere.
Send(els) == toClient' = IF link = "up" THEN toClient \o els ELSE toClient

AckRequest(size, state) ==
    IF AckFreq > 0 /\ state # "resume_session"
         /\ (counterOut + size) % AckFreq = 0
      THEN <<El("r", 0)>> ELSE <<>>

(***************************************************************************)
(* Shared parts of handlers                                                *)
(***************************************************************************)

AgeWhenStopping == IF c2s = "resume_session" THEN age ELSE 0

BadEnterResumeLate ==
    /\ c2s' = "resume_session"
    /\ timer' = "resume_timeout" /\ left' = ResumeTimeout + 1
    /\ age' = AgeWhenStopping
BadEnterResumeUntimed ==
    /\ c2s' = "resume_session"
    /\ age' = AgeWhenStopping
    /\ UNCHANGED <<timer, left>>

\* handle_user_stopping: keep the session for resume_timeout. A session that is
\* detached already stays so, and its timer starts again.
EnterResume ==
    /\ c2s' = "resume_session"
    /\ timer' = "resume_timeout" /\ left' = ResumeTimeout
    /\ age' = AgeWhenStopping

BadTerminateNoReroute ==
    /\ c2s' = "closed" /\ link' = "closed"
    /\ rerouted' = {} /\ buffer' = <<>> /\ bufferSize' = 0 /\ mailbox' = <<>>
    /\ timer' = "none" /\ left' = 0 /\ smid' = "none"
    /\ toClient' = <<>> /\ toServer' = <<>>

\* terminate/3 of mongoose_c2s with the reroute_unacked_messages hook: the
\* buffer and what is left in the mailbox go back to the router.
Terminate ==
    /\ c2s' = "closed"
    /\ link' = "closed"
    /\ rerouted' = {buffer[i] : i \in 1 .. Len(buffer)}
    /\ buffer' = <<>>
    /\ bufferSize' = 0
    /\ mailbox' = <<>>
    /\ timer' = "none" /\ left' = 0
    /\ smid' = "none"
    /\ toClient' = <<>>
    /\ toServer' = <<>>

UnchangedByTerminate ==
    UNCHANGED <<smState, counterIn, counterOut, client, out, routed, handled,
                received, age, phase>>

(***************************************************************************)
(* The server: elements from the client                                    *)
(***************************************************************************)
Incoming(tag) ==
    /\ c2s # "closed"
    /\ link # "closed"
    /\ toServer # <<>>
    /\ Head(toServer).tag = tag
    /\ toServer' = Tail(toServer)

\* handle_enable / do_handle_enable with an allowed "resume" attribute.
HandleEnable ==
    /\ Incoming("enable")
    /\ c2s = "session_established" /\ ~sm
    /\ smState' = "on"
    /\ smid' = IF Head(toServer).n = 1 THEN "registered" ELSE "none"
    /\ buffer' = <<>> /\ bufferSize' = 0 /\ counterIn' = 0 /\ counterOut' = 0
    /\ Send(<<El("enabled", Head(toServer).n)>>)
    /\ UNCHANGED <<c2s, timer, left, mailbox, link, client, history>>

\* A second <enable/>: stream_error, whose "stop" is a stop request, which
\* an sm_state turns into resume_session.
HandleEnableAgain ==
    /\ Incoming("enable")
    /\ c2s = "session_established" /\ sm
    /\ EnterResume
    /\ UNCHANGED <<smState, smid, buffer, bufferSize, counterIn, counterOut,
                   mailbox, link, toClient, client, out, routed, handled,
                   received, rerouted, phase, stops, cuts, badAcks>>

\* user_send_packet counts the stanza, handle_stanza_from_client routes it.
\* In resume_session the stanza takes handle_foreign_packet and the
\* user_send_xmlel hook instead: it is counted and goes no further.
HandleStanza ==
    /\ Incoming("stanza")
    /\ counterIn' = IF sm THEN IncrCounter(counterIn) ELSE counterIn
    /\ received' = IF sm THEN received + 1 ELSE received
    /\ handled' = IF c2s = "session_established"
                    THEN Append(handled, Head(toServer).n) ELSE handled
    /\ UNCHANGED <<c2s, smState, smid, buffer, bufferSize, counterOut, timer, left,
                   mailbox, link, toClient, client, out, routed, rerouted,
                   age, phase, stops, cuts, badAcks>>

\* handle_r answers with counter_in; without sm_state, or in resume_session
\* (unexpected_sm_request), nothing changes.
HandleR ==
    /\ Incoming("r")
    /\ Send(IF sm /\ c2s = "session_established"
              THEN <<El("a", counterIn)>> ELSE <<>>)
    /\ UNCHANGED <<server, link, client, history>>

\* handle_a / do_handle_ack / finish_handle_a.
HandleA ==
    /\ Incoming("a")
    /\ sm /\ c2s = "session_established"
    /\ LET h == Head(toServer).n IN
         \/ /\ AckAccepted(h)
            /\ counterOut' = h
            /\ bufferSize' = SizeAfterAck(h)
            /\ buffer' = BufferAfterAck(h)
            /\ UNCHANGED <<c2s, timer, left, age>>
         \/ /\ ~AckAccepted(h)
            /\ EnterResume
            /\ UNCHANGED <<counterOut, bufferSize, buffer>>
    /\ UNCHANGED <<smState, smid, counterIn, mailbox, link, toClient, client,
                   out, routed, handled, received, rerouted, phase,
                   stops, cuts, badAcks>>

\* <a/> without an sm_state is ignored; in resume_session it is unexpected.
IgnoreA ==
    /\ Incoming("a")
    /\ ~(sm /\ c2s = "session_established")
    /\ UNCHANGED <<server, link, toClient, client, history>>

\* <enable/> in resume_session: unexpected_sm_request, the state is kept.
IgnoreEnable ==
    /\ Incoming("enable")
    /\ c2s = "resume_session"
    /\ UNCHANGED <<server, link, toClient, client, history>>

(***************************************************************************)
(* The server: stanzas to the client                                       *)
(***************************************************************************)

\* ejabberd_sm sends {route, Acc} to the process. Bound: at most HMax (2^32
\* - 1 in the source) stanzas are outstanding, else h is ambiguous.
RouteIn(kind) ==
    /\ c2s # "closed"
    /\ routed < MaxOut
    /\ bufferSize + Len(mailbox) < HMax
    /\ routed' = routed + 1
    /\ mailbox' = Append(mailbox, kind)
    /\ UNCHANGED <<c2s, smState, smid, buffer, bufferSize, counterIn,
                   counterOut, timer, left, wire, client, out, handled, received,
                   rerouted, age, phase, stops, cuts, badAcks>>

\* handle_route .. handle_flush with the xmpp_presend_element hook: buffer
\* the stanza, watch a full buffer, send it and ask for an ack when due. In
\* resume_session nothing is written.  A stanza is one that user_receive_packet
\* lets pass: its check for conflicts between sessions is in SmHandover.
HandleRoute ==
    /\ c2s # "closed"
    /\ mailbox # <<>>
    /\ mailbox' = Tail(mailbox)
    /\ LET buffered == sm /\ BufferOn
           newSize == IF buffered THEN bufferSize + 1 ELSE bufferSize
           els == IF c2s = "resume_session" THEN <<>>
                  ELSE <<El("stanza", IF sm THEN out + 1 ELSE 0)>> \o
                       (IF sm THEN AckRequest(newSize, c2s) ELSE <<>>)
       IN /\ buffer' = IF buffered THEN Append(buffer, out + 1) ELSE buffer
          /\ bufferSize' = newSize
          /\ IF buffered /\ IsBufferFull(newSize)
               THEN timer' = "check_buffer_full" /\ left' = CheckTimeout
               ELSE UNCHANGED <<timer, left>>
          /\ Send(els)
    /\ out' = IF sm THEN out + 1 ELSE out
    /\ phase' = "busy"
    /\ UNCHANGED <<c2s, smState, smid, counterIn, counterOut, link, toServer,
                   client, routed, handled, received, rerouted, age, stops,
                   cuts, badAcks>>

(***************************************************************************)
(* The server: the connection ends, timers, termination                    *)
(***************************************************************************)

\* handle_socket_closed / handle_socket_error.
SocketClosed ==
    /\ c2s # "closed" /\ link = "cut"
    /\ \/ /\ sm
          /\ EnterResume
          /\ link' = "closed"
          /\ UNCHANGED <<smState, smid, buffer, bufferSize, counterIn,
                         counterOut, mailbox, toClient, toServer, client, out,
                         routed, handled, received, rerouted, phase>>
       \/ /\ ~sm
          /\ Terminate
          /\ UnchangedByTerminate
    /\ UNCHANGED <<stops, cuts, badAcks>>

\* handle_stop_request: a ping timeout (mod_ping with timeout_action = kill)
\* or an unregistered host. The socket stays open.
StopRequest ==
    /\ c2s # "closed"
    /\ stops < MaxStops
    /\ stops' = stops + 1
    /\ \/ /\ sm
          /\ EnterResume
          /\ UNCHANGED <<smState, smid, buffer, bufferSize, counterIn,
                         counterOut, mailbox, wire, client, out, routed,
                         handled, received, rerouted, phase>>
       \/ /\ ~sm
          /\ Terminate
          /\ UnchangedByTerminate
    /\ UNCHANGED <<cuts, badAcks>>

\* {exit, Reason} from the session manager, </stream:stream>, an invalid h:
\* the process stops whatever its state.
Exit ==
    /\ c2s # "closed"
    /\ stops < MaxStops
    /\ stops' = stops + 1
    /\ Terminate
    /\ UnchangedByTerminate
    /\ UNCHANGED <<cuts, badAcks>>

\* Time passes while the timer runs; a timer that has reached 0 has put its
\* event into the queue.
Tick ==
    /\ timer # "none" /\ left > 0
    /\ left' = left - 1
    /\ age' = IF c2s = "resume_session" THEN age + 1 ELSE age
    /\ UNCHANGED <<c2s, smState, smid, buffer, bufferSize, counterIn,
                   counterOut, timer, mailbox, wire, client, out, routed, handled,
                   received, rerouted, phase, stops, cuts, badAcks>>

\* foreign_event on check_buffer_full.
CheckBufferFull ==
    /\ c2s # "closed"
    /\ timer = "check_buffer_full" /\ left = 0
    /\ \/ /\ IsBufferFull(bufferSize)
          /\ Terminate
          /\ UnchangedByTerminate
       \/ /\ ~IsBufferFull(bufferSize)
          /\ timer' = "none" /\ left' = 0
          /\ UNCHANGED <<c2s, smState, smid, buffer, bufferSize, counterIn,
                         counterOut, mailbox, wire, client, out, routed,
                         handled, received, rerouted, age, phase>>
    /\ UNCHANGED <<stops, cuts, badAcks>>

\* handle_event on resume_timeout: the session is given up.
ResumeTimeoutFires ==
    /\ c2s = "resume_session"
    /\ timer = "resume_timeout" /\ left = 0
    /\ Terminate
    /\ UnchangedByTerminate
    /\ UNCHANGED <<stops, cuts, badAcks>>

(***************************************************************************)
(* The server: resumption                                                  *)
(***************************************************************************)

\* recover_messages: of what waits in the mailbox only messages are kept.
Recovered == Cardinality({i \in 1 .. Len(mailbox) : mailbox[i] = "message"})

\* handle_resume_call on the old process and do_resume on the new one. The
\* new process has no timer; the buffer, with the recovered messages, is
\* forwarded without an ack request.
ResumeOk(h) ==
    /\ AckAccepted(h)
    /\ LET kept == BufferAfterAck(h) \o Run(out + 1, out + Recovered) IN
         /\ buffer' = kept
         /\ toClient' = <<El("resumed", counterIn)>> \o Stanzas(kept)
    /\ bufferSize' = SizeAfterAck(h) + Recovered
    /\ out' = out + Recovered
    /\ counterOut' = h
    /\ c2s' = "session_established"
    /\ timer' = "none" /\ left' = 0
    /\ mailbox' = <<>>
    /\ link' = "up"
    /\ toServer' = <<>>
    /\ phase' = "quiet"
    /\ UNCHANGED <<smState, smid, counterIn, client, routed, handled,
                   received, rerouted, age>>

\* A wrong h: the old process stops and reroutes its buffer.
ResumeFails(h) ==
    /\ ~AckAccepted(h)
    /\ Terminate
    /\ UnchangedByTerminate

Resume(h) ==
    /\ c2s # "closed" /\ resumable /\ clientOn
    /\ link # "up"
    /\ ResumeOk(h) \/ ResumeFails(h)

ResumeHonestly ==
    /\ Resume(clientH)
    /\ UNCHANGED <<stops, cuts, badAcks>>

ResumeWithWrongH(h) ==
    /\ badAcks < MaxBadAcks
    /\ badAcks' = badAcks + 1
    /\ Resume(h)
    /\ UNCHANGED <<stops, cuts>>

(***************************************************************************)
(* The client and the network (external)                                   *)
(***************************************************************************)
Modulus == HMax + 1

ClientWrites(els) ==
    /\ link = "up"
    /\ toServer' = toServer \o els

\* Enabled, and not waiting for the answer to a resumption.
ClientReady ==
    clientOn /\ \A i \in 1 .. Len(toClient) : toClient[i].tag # "resumed"

ClientEnable(resume) ==
    /\ c2s = "session_established" /\ ~clientOn
    /\ sent = 0
    /\ \A i \in 1 .. Len(toServer) : toServer[i].tag # "enable"
    /\ \A i \in 1 .. Len(toClient) : toClient[i].tag # "enabled"
    /\ ClientWrites(<<El("enable", resume)>>)
    /\ UNCHANGED <<server, link, toClient, client, history>>

ClientSends ==
    /\ ClientReady /\ sent < MaxIn
    /\ ClientWrites(<<El("stanza", sent + 1)>>)
    /\ sent' = sent + 1
    /\ unacked' = Append(unacked, sent + 1)
    /\ UNCHANGED <<server, link, toClient, clientSm, clientH, got, ackedH,
                   history>>

ClientAsks ==
    /\ ClientReady /\ MaxIn > 0
    /\ Len(toServer) < WireMax /\ Len(toClient) < WireMax
    /\ ClientWrites(<<El("r", 0)>>)
    /\ UNCHANGED <<server, link, toClient, client, history>>

\* A client that acknowledges what is not its count, or enables twice.
ClientMisbehaves(e) ==
    /\ ClientReady /\ badAcks < MaxBadAcks
    /\ badAcks' = badAcks + 1
    /\ ClientWrites(<<e>>)
    /\ UNCHANGED <<server, link, toClient, client, out, routed, handled,
                   received, rerouted, age, phase, stops, cuts>>

\* The client drops what the server's h covers from its own queue.
ClientDrops(h) ==
    LET n == (h - ackedH) % Modulus
        k == IF n <= Len(unacked) THEN n ELSE 0
    IN SubSeq(unacked, k + 1, Len(unacked))

ClientReceives ==
    /\ link = "up" /\ toClient # <<>>
    /\ toClient' = Tail(toClient)
    /\ LET e == Head(toClient) IN
         \/ /\ e.tag = "enabled"
            /\ clientSm' = "on"
            /\ UNCHANGED <<clientH, got, sent, unacked, ackedH, toServer>>
         \/ /\ e.tag = "stanza"
            /\ clientH' = IF clientOn THEN (clientH + 1) % Modulus ELSE clientH
            /\ got' = IF clientOn THEN Append(got, e.n) ELSE got
            /\ UNCHANGED <<clientSm, sent, unacked, ackedH, toServer>>
         \/ /\ e.tag = "r"
            /\ toServer' = Append(toServer, El("a", clientH))
            /\ UNCHANGED client
         \/ /\ e.tag = "a"
            /\ unacked' = ClientDrops(e.n)
            /\ ackedH' = e.n
            /\ UNCHANGED <<clientSm, clientH, got, sent, toServer>>
         \/ /\ e.tag = "resumed"
            /\ unacked' = ClientDrops(e.n)
            /\ ackedH' = e.n
            /\ toServer' = toServer \o Stanzas(unacked')
            /\ UNCHANGED <<clientSm, clientH, got, sent>>
    /\ UNCHANGED <<server, link, history>>

\* The connection is lost with everything in flight.
Cut ==
    /\ link = "up" /\ cuts < MaxCuts /\ c2s # "closed"
    /\ cuts' = cuts + 1
    /\ link' = "cut"
    /\ toClient' = <<>> /\ toServer' = <<>>
    /\ UNCHANGED <<server, client, out, routed, handled, received, rerouted,
                   age, phase, stops, badAcks>>

-----------------------------------------------------------------------------
\* A session that has just been established; nothing is enabled yet.
Init ==
    /\ c2s = "session_established" /\ smState = "none" /\ smid = "none"
    /\ buffer = <<>> /\ bufferSize = 0 /\ counterIn = 0 /\ counterOut = 0
    /\ timer = "none" /\ left = 0 /\ mailbox = <<>>
    /\ link = "up" /\ toClient = <<>> /\ toServer = <<>>
    /\ clientSm = "off" /\ clientH = 0 /\ got = <<>> /\ sent = 0
    /\ unacked = <<>> /\ ackedH = 0
    /\ out = 0 /\ routed = 0 /\ handled = <<>> /\ received = 0
    /\ rerouted = {} /\ age = 0 /\ phase = "busy"
    /\ stops = 0 /\ cuts = 0 /\ badAcks = 0

FromClient == \/ HandleEnable \/ HandleEnableAgain \/ IgnoreEnable
              \/ HandleStanza \/ HandleR \/ HandleA \/ IgnoreA

Timers == Tick \/ CheckBufferFull \/ ResumeTimeoutFires

Next ==
    \/ FromClient
    \/ \E kind \in {"message", "iq"} : RouteIn(kind)
    \/ HandleRoute
    \/ SocketClosed \/ StopRequest \/ Exit
    \/ Timers
    \/ ResumeHonestly
    \/ \E h \in 0 .. HMax + 1 : ResumeWithWrongH(h)
    \/ \E resume \in {0, 1} : ClientEnable(resume)
    \/ ClientSends \/ ClientAsks
    \/ \E e \in {El("enable", 1)} \cup {El("a", h) : h \in 0 .. HMax + 1} :
          ClientMisbehaves(e)
    \/ ClientReceives
    \/ Cut

Spec == Init /\ [][Next]_vars

\* What the runtime guarantees: time goes on and a timer event that is in
\* the queue is handled.
TimerFairness ==
    WF_vars(Tick) /\ WF_vars(CheckBufferFull) /\ WF_vars(ResumeTimeoutFires)

LiveSpec == Spec /\ TimerFairness

-----------------------------------------------------------------------------
Honest == badAcks = 0
Ids(s) == {s[i] : i \in 1 .. Len(s)}

Element == [tag : {"enable", "enabled", "stanza", "r", "resumed"}, n : Nat]
             \cup [tag : {"a"}, n : 0 .. HMax + 1]

ServerTypeOK ==
    /\ c2s \in {"session_established", "resume_session", "closed"}
    /\ smState \in {"none", "on"} /\ smid \in {"none", "registered"}
    /\ buffer \in Seq(Nat) /\ bufferSize \in Nat
    /\ counterIn \in 0 .. HMax /\ counterOut \in 0 .. HMax + 1
    /\ timer \in {"none", "check_buffer_full", "resume_timeout"}
    /\ left \in Nat
    /\ mailbox \in Seq({"message", "iq"})

WireTypeOK ==
    /\ link \in {"up", "cut", "closed"}
    /\ toClient \in Seq(Element) /\ toServer \in Seq(Element)

ClientTypeOK ==
    /\ clientSm \in {"off", "on"}
    /\ clientH \in 0 .. HMax /\ ackedH \in Nat
    /\ got \in Seq(Nat) /\ sent \in Nat /\ unacked \in Seq(Nat)

HistoryTypeOK ==
    /\ out \in Nat /\ routed \in Nat /\ received \in Nat /\ age \in Nat
    /\ handled \in Seq(Nat) /\ rerouted \subseteq Nat
    /\ phase \in {"busy", "quiet"}
    /\ stops \in Nat /\ cuts \in Nat /\ badAcks \in Nat

\* Every variable has the type its record field or message has in the code.
TypeOK == ServerTypeOK /\ WireTypeOK /\ ClientTypeOK /\ HistoryTypeOK

\* While the session lives, buffer_size is the length of buffer (the source
\* keeps the two apart and lists:split crashes when they differ), and the
\* buffer is exactly the last bufferSize stanzas of the stream, in order:
\* acknowledgements, also wrong ones that are accepted, only take away the
\* oldest ones.
BufferIsTail ==
    c2s # "closed" /\ sm /\ BufferOn =>
      /\ bufferSize = Len(buffer)
      /\ bufferSize <= out
      /\ \A i \in 1 .. Len(buffer) : buffer[i] = out - bufferSize + i

\* counter_out is the number of acknowledged stanzas modulo 2^32, across any
\* number of wrap-arounds of h (calc_to_drop).
CounterOutIsAcked ==
    c2s # "closed" /\ sm /\ BufferOn /\ Honest =>
      counterOut = (out - bufferSize) % Modulus

\* A stanza that entered the stream is with the client, in the buffer, or was
\* given back to the router when the process ended: no cut, resumption, ack
\* or termination loses it.
NoSilentLoss ==
    BufferOn /\ Honest =>
      \A id \in 1 .. out : id \in Ids(got) \cup Ids(buffer) \cup rerouted

\* A well-behaved client receives the stanzas of the stream in order, each
\* once, over any number of cuts and resumptions.
InOrderOnce == BufferOn /\ Honest => \A i \in 1 .. Len(got) : got[i] = i

\* Stanzas of the client are processed in order, each once, although it sends
\* again after a resumption whatever the server's h does not cover. A stop
\* request is excepted: it detaches the session with its socket open, and
\* what still arrives is counted and dropped.
InboundInOrderOnce ==
    Honest /\ stops = 0 => \A i \in 1 .. Len(handled) : handled[i] = i

\* A stanza of the client that the server did not process is still in the
\* client's queue, to be sent again (with the same exception).
NoInboundLoss ==
    Honest /\ stops = 0 => \A id \in 1 .. sent : id \in Ids(handled) \cup Ids(unacked)

\* A session with more than buffer_max unacknowledged stanzas has a timer
\* that will end it, unless it was just resumed (the timer stays with the old
\* process, and only the next stanza starts another).
OverfullIsTimed ==
    c2s # "closed" /\ BufferOn /\ bufferSize > BufferMax =>
      timer # "none" \/ quiet

\* What the documentation of resume_timeout says: a detached session is kept
\* that long and not longer. This is not so: the timer is shared (run
\* SmSharedTimer) and is started again (DetachedTimeBound).
DetachedTimeLimit == c2s = "resume_session" => age <= ResumeTimeout

\* How many stanzas a buffer holds beyond buffer_max.
Excess(n) == IF n > BufferMax THEN n - BufferMax ELSE 0

\* How long a detached session really is kept: for resume_timeout since it was
\* detached or lost its connection, and again for every stop request, and every
\* misdeed of the client, that detached it or came while it was detached
\* (handle_user_stopping); and for one check of the buffer for every stanza
\* beyond buffer_max (handle_buffer_and_ack).  Without a buffer a correct ack
\* detaches it as well.
DetachedTimeBound ==
    BufferOn /\ c2s = "resume_session" =>
      age <= (stops + badAcks + 1) * ResumeTimeout
               + Excess(bufferSize) * CheckTimeout

\* A detached session is eventually resumed or given up.
DetachedEnds == (c2s = "resume_session") ~> (c2s # "resume_session")

\* counter_in is the number of stanzas received since <enable/>, modulo 2^32.
CounterInIsReceived == sm => counterIn = received % Modulus

\* A client that acknowledges what it received is never told that it
\* acknowledged more than was sent: not by the ack that is next on the wire,
\* nor when it resumes, after any number of cuts, resumptions and wrap-arounds
\* (do_handle_ack; with buffer = false the source breaks this).
HonestAckAccepted ==
    BufferOn /\ Honest /\ sm /\ c2s # "closed" =>
      /\ clientOn => AckAccepted(clientH)
      /\ toServer # <<>> /\ Head(toServer).tag = "a"
           => AckAccepted(Head(toServer).n)

\* The stream as its users see it: module ReliableStream.
Abstract == INSTANCE ReliableStream WITH
              accepted <- out, delivered <- Len(got), returned <- rerouted,
              open <- (c2s # "closed")

\* The stream implements the reliable stream.
ImplementsReliableStream == Abstract!Spec

=============================================================================
