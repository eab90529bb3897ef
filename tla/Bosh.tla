--------------------------------- MODULE Bosh ---------------------------------
(***************************************************************************)
(* A BOSH session (src/src/bosh): the process mongoose_bosh_socket between *)
(* the HTTP requests of one client and its c2s process.                    *)
(*                                                                         *)
(* The client numbers its requests (rid) and has at most two of them open. *)
(* They arrive in any order on connections that may break.  The process    *)
(* takes the bodies in the order of their rids, holds one request to have  *)
(* something to answer with when c2s sends a stanza, and keeps the last    *)
(* responses for a client that repeats a request.                          *)
(*                                                                         *)
(* The client, the connections and c2s are external.  Stanzas of c2s are   *)
(* numbered.  Acknowledgements and reports (the ack attribute) are left    *)
(* out: the client has not turned them on.                                 *)
(***************************************************************************)
EXTENDS Integers, Sequences, FiniteSets, SequencesExt

CONSTANTS MaxRid,       \* bound: requests the client makes
          MaxControl,   \* bound: restarts and pauses among them
          MaxBreaks,    \* bound: connections that break
          MaxOut,       \* bound: stanzas c2s sends
          MaxFires      \* bound: wait timers that fire

ASSUME BoshAssumption ==
    /\ MaxRid \in Nat \ {0} /\ MaxControl \in Nat /\ MaxBreaks \in Nat
    /\ MaxOut \in Nat /\ MaxFires \in Nat

VARIABLES s,            \* #state{} of the process, and its state name
          waitMsgs,     \* wait_timeout messages in its mailbox, by connection
          idleMsg,      \* inactivity_timeout is in its mailbox
          accOff,       \* acc_off timers that run
          c2s,          \* the c2s process
          out,          \* stanzas c2s has sent
          req,          \* the client's requests, by rid
          got,          \* the response the client has to each of them
          conns,        \* the transmissions of requests, each a connection
          fires,        \* wait timers fired
          doubled       \* a repeated request met one that was open (Doubles)

vars == <<s, waitMsgs, idleMsg, accOff, c2s, out, req, got, conns, fires, doubled>>

ConcurrentRequests == 2

\* to_event_type.  A streamend is to the process a normal request, whose body
\* c2s may answer by ending the stream; a pause may be longer than max_pause.
Types == {"streamstart", "restart", "normal", "pause", "long pause"}

\* Elements of a response: stanzas are numbered from 1.
Start == 0
End == -1
Elements == End..MaxOut
Gone == <<-2>>          \* a terminal condition, or the empty reply of a close
NoAnswer == <<-3>>

(***************************************************************************)
(* The state of the process.  handlers lists the requests that wait for a  *)
(* response, as the code has them.  deferred holds the tags of requests    *)
(* one ahead of the expected one.  The rest is for the model: fwd is what  *)
(* c2s was forwarded, reply what the current step sends to the handlers,   *)
(* stop how the process ended.                                             *)
(***************************************************************************)

Names == {"accumulate", "normal", "closing", "stopped"}
Stops == {"no", "normal", "inactivity_timeout", "policy_violation", "invalid_rid",
          "no body", "crash"}
Handler == [rid : Nat, ref : Int, conn : Nat]
Bodies == Seq(Elements) \cup {Gone}
State == [name : Names, handlers : Seq(Handler), pending : Seq(Elements), rid : Nat,
          deferred : Seq(Types), sent : Seq([rid : Nat, els : Seq(Elements)]),
          idle : BOOLEAN, fwd : Seq([rid : Nat, type : Types]),
          reply : SUBSET [conn : Nat, els : Bodies], stop : Stops]

Fresh == [name |-> "accumulate", handlers |-> <<>>, pending |-> <<>>, rid |-> 0,
          deferred |-> <<>>, sent |-> <<>>, idle |-> FALSE,
          fwd |-> <<>>, reply |-> {}, stop |-> "no"]

Alive == s.name # "stopped"
Has(els, e) == \E i \in DOMAIN els : els[i] = e
Crash(t) == [t EXCEPT !.stop = "crash"]

\* Handlers and responses are found by their rids: the first one in the list
\* (keyfind, keytake).
HasRid(list, r) == \E i \in DOMAIN list : list[i].rid = r
First(list, r) ==
    CHOOSE i \in DOMAIN list : list[i].rid = r /\ \A j \in 1..(i - 1) : list[j].rid # r

\* Handlers are ordered by rid, then by the reference of their timer; each has
\* the place that the number of those before it gives.
Before(h, k) == h.rid < k.rid \/ (h.rid = k.rid /\ h.ref < k.ref)
Place(hs, i) == Cardinality({j \in DOMAIN hs : Before(hs[j], hs[i])}) + 1
Sorted(hs) == [n \in DOMAIN hs |-> hs[CHOOSE i \in DOMAIN hs : Place(hs, i) = n]]

\* pick_handler finds one: the lowest rid was processed.
Valid(t) == \E i \in DOMAIN t.handlers : t.handlers[i].rid <= t.rid

(***************************************************************************)
(* Responses                                                               *)
(***************************************************************************)

\* keymerge of one response into the cache: it goes before the first one that
\* has not a lower rid.
Lower(sent, r) ==
    CHOOSE k \in 0..Len(sent) : /\ \A i \in 1..k : sent[i].rid < r
                                /\ k < Len(sent) => sent[k + 1].rid >= r
Merged(sent, r, els) ==
    InsertAt(sent, Lower(sent, r) + 1, [rid |-> r, els |-> els])

\* Mutant: one response more is kept.
BadCacheUpTo(all) ==
    IF Len(all) > ConcurrentRequests + 1 THEN Tail(all) ELSE all

\* cache_up_to: the last two.
CacheUpTo(all) ==
    IF Len(all) > ConcurrentRequests THEN Tail(all) ELSE all

\* Mutant: the merged response replaces the others.
BadCacheResponse(sent, r, els) == <<Last(Merged(sent, r, els))>>

CacheResponse(sent, r, els) == CacheUpTo(Merged(sent, r, els))

CachedResponse(sent, r) == sent[First(sent, r)].els

\* Mutant: the inactivity timer is set after empty responses only.
BadReply(t, h, els) ==
    [t EXCEPT !.reply = @ \cup {[conn |-> h.conn, els |-> els]},
              !.idle = @ \/ (t.handlers = <<>> /\ els = <<>>)]

\* send_wrapped_to_handler: without a handler left the client is given the
\* inactivity period to make another request.  (The period is taken to be
\* finite: setup_inactivity_timer sets no timer for infinity.)
Reply(t, h, els) ==
    [t EXCEPT !.reply = @ \cup {[conn |-> h.conn, els |-> els]},
              !.idle = @ \/ t.handlers = <<>>]

\* bosh_wrap: a stream end, which is the last thing c2s sends, cannot go with
\* stanzas and waits; there is no clause for two stream events.
NoBody(data) ==
    \E i, j \in DOMAIN data : i # j /\ {data[i], data[j]} \subseteq {Start, End}
Splits(data) == Has(data, End) /\ Len(data) > 1

\* send_to_handler({Rid, Pid}, Data, State).
SendTo(t, h, data) ==
    LET els == IF Splits(data) THEN Front(data) ELSE data
    IN  IF NoBody(data) THEN [t EXCEPT !.stop = "no body"]
        ELSE Reply([t EXCEPT !.sent = CacheResponse(@, h.rid, els),
                             !.pending = IF Splits(data) THEN Append(@, End) ELSE @],
                   h, els)

Picked(t) == [t EXCEPT !.handlers = Tail(Sorted(@))]
SendToFirst(t, data) == SendTo(Picked(t), Sorted(t.handlers)[1], data)

\* send_or_store.
SendOrStore(t, data) ==
    IF Valid(t) THEN SendToFirst(t, data) ELSE [t EXCEPT !.pending = @ \o data]

\* Mutant: what is sent stays pending.
BadSendPending(t) == SendOrStore(t, t.pending)

SendPending(t) == SendOrStore([t EXCEPT !.pending = <<>>], t.pending)

\* Requests are answered with an empty body, in the order of their rids, as
\* long as the lowest one was processed, and at most n of them.
Returned(t, n) ==
    LET after[i \in Nat] ==
          IF i = 0 THEN t
          ELSE IF Valid(after[i - 1]) THEN SendToFirst(after[i - 1], <<>>)
          ELSE after[i - 1]
    IN  after[n]

\* Mutant: a single request is held although there is something to send.
BadReturnSurplusHandlers(t) ==
    IF t.stop # "no" \/ Len(t.handlers) <= 1 THEN t
    ELSE IF t.name = "accumulate" THEN Returned(t, Len(t.handlers) - 1)
    ELSE SendPending(t)

\* return_surplus_handlers: one request may be held, and none while there is
\* something to send.
ReturnSurplusHandlers(t) ==
    IF t.stop # "no" \/ t.handlers = <<>> THEN t
    ELSE IF t.name = "accumulate" THEN Returned(t, Len(t.handlers) - 1)
    ELSE IF Len(t.handlers) = 1 /\ t.pending = <<>> THEN t
    ELSE SendPending(t)

(***************************************************************************)
(* Requests                                                                *)
(***************************************************************************)

\* Every handler gets a terminal condition and the process stops.
StopAll(t, why) ==
    [t EXCEPT !.reply = @ \cup {[conn |-> t.handlers[i].conn, els |-> Gone] :
                                    i \in DOMAIN t.handlers},
              !.handlers = <<>>, !.stop = why]

\* process_pause_event answers every handler; send_to_handler has no state to
\* return for one with a higher rid.
Pause(t) ==
    LET u == Returned(t, Len(t.handlers))
    IN  IF u.handlers = <<>> THEN u ELSE Crash(u)

\* process_acked_stream_event and process_stream_event, up to the deferred
\* requests.
ProcessOne(t, type, r) ==
    LET u == [t EXCEPT !.rid = r, !.fwd = Append(@, [rid |-> r, type |-> type])]
    IN  CASE type = "pause" -> Pause(u)
          [] type = "long pause" -> StopAll(u, "policy_violation")
          [] OTHER -> u

\* process_deferred_events: the next request, taken up without a handler.  A
\* second copy of it then has an old rid, which is invalid.
ProcessDeferred(t) ==
    IF t.stop # "no" \/ t.deferred = <<>> THEN t
    ELSE LET u == [t EXCEPT !.deferred = <<>>]
             v == ReturnSurplusHandlers(ProcessOne(u, t.deferred[1], t.rid + 1))
         IN  IF Len(t.deferred) > 1 /\ v.stop = "no" THEN StopAll(v, "invalid_rid") ELSE v

\* maybe_is_retransmission.
IsRetransmission(t, r) == HasRid(t.sent, r) \/ r = t.rid

\* Mutant: a request that is ahead of its turn is processed.
BadIsExpectedRid(t, r) == r \in {t.rid + 1, t.rid + 2}

IsExpectedRid(t, r) == r = t.rid + 1

\* Mutant: the window is one request too small.
BadIsAcceptableRid(t, r) == r > t.rid + 1 /\ r < t.rid + ConcurrentRequests

IsAcceptableRid(t, r) == r > t.rid + 1 /\ r < t.rid + 1 + ConcurrentRequests

\* resend_cached: to the first handler in order, whose request it may not be.
ResendCached(t, r) ==
    IF Valid(t) THEN Reply(Picked(t), Sorted(t.handlers)[1], CachedResponse(t.sent, r))
    ELSE Crash(t)

\* handle_stream_event for a request that arrives on a connection: its handler
\* is added with a wait timer, then the request is repeated, expected, ahead of
\* its turn, or invalid.
HandleStreamEvent(t, type, h) ==
    LET u == [t EXCEPT !.handlers = <<h>> \o @, !.idle = FALSE]
        r == h.rid
    IN  ReturnSurplusHandlers(
          IF IsRetransmission(t, r) THEN IF HasRid(t.sent, r) THEN ResendCached(u, r) ELSE u
          ELSE IF IsExpectedRid(t, r) THEN ProcessDeferred(ProcessOne(u, type, r))
          ELSE IF IsAcceptableRid(t, r) THEN [u EXCEPT !.deferred = <<type>> \o @]
          ELSE StopAll(u, "invalid_rid"))

\* determine_next_state.
DetermineNextState(t, type) ==
    IF t.stop # "no" THEN t
    ELSE IF t.name = "closing" THEN [t EXCEPT !.stop = "normal"]
    ELSE IF type \in {"streamstart", "restart"} THEN [t EXCEPT !.name = "accumulate"]
    ELSE t

(***************************************************************************)
(* The end of a step of the process.  terminate closes the handlers of the *)
(* state it is given, which after a crash is the state before the step,    *)
(* and stops c2s.                                                          *)
(***************************************************************************)

Crashed(t) == t.stop \in {"crash", "no body"}

Conns(hs) == {hs[i].conn : i \in DOMAIN hs}
Closed(t) == Conns(IF Crashed(t) THEN s.handlers ELSE t.handlers)

\* Each handler takes the first message it is sent, a reply or a close.
Answered(cs, replies, closes) ==
    [c \in DOMAIN cs |->
        IF cs[c].st = "held" /\ \E m \in replies : m.conn = c
        THEN [cs[c] EXCEPT !.st = "answered",
                           !.els = (CHOOSE m \in replies : m.conn = c).els]
        ELSE IF cs[c].st = "held" /\ c \in closes
        THEN [cs[c] EXCEPT !.st = "answered", !.els = Gone]
        ELSE cs[c]]

Restarts(t) ==
    \E i \in (Len(s.fwd) + 1)..Len(t.fwd) : t.fwd[i].type \in {"streamstart", "restart"}

\* The mailbox and the timers end with the process.
Finish(t, cs, waits, idle, accs, next) ==
    IF t.stop = "no"
    THEN /\ s' = [t EXCEPT !.reply = {}]
         /\ conns' = Answered(cs, t.reply, {})
         /\ waitMsgs' = waits /\ idleMsg' = idle /\ accOff' = accs
         /\ c2s' = next
    ELSE /\ s' = [Fresh EXCEPT !.name = "stopped", !.stop = t.stop,
                               !.rid = t.rid, !.fwd = t.fwd]
         /\ conns' = Answered(cs, t.reply, Closed(t))
         /\ waitMsgs' = {} /\ idleMsg' = FALSE /\ accOff' = 0
         /\ c2s' = "closed"

(***************************************************************************)
(* Actions of the process                                                  *)
(***************************************************************************)

\* A request that arrives again although the server has it open, answered it
\* before its turn or holds an earlier request, which resend_cached would give
\* its response to.
Doubles(r) ==
    \/ HasRid(s.handlers, r)
    \/ r > s.rid + 1 /\ (HasRid(s.sent, r) \/ s.deferred # <<>>)
    \/ HasRid(s.sent, r) /\ \E i \in DOMAIN s.handlers : s.handlers[i].rid < r

\* handle_event: the request on connection c arrives.  The order of the timer
\* references of two copies of a request is not known.
Arrive(c) ==
    LET r == conns[c].rid
        held == [conns EXCEPT ![c].st = "held"]
    IN  /\ conns[c].st = "sent" /\ Alive
        /\ \E ref \in {c, -c} :
             LET h == [rid |-> r, ref |-> ref, conn |-> c]
                 t == DetermineNextState(HandleStreamEvent(s, req[r], h), req[r])
             IN  /\ ref = c \/ HasRid(s.handlers, r)
                 /\ Finish(t, held, waitMsgs, idleMsg,
                           IF req[r] \in {"streamstart", "restart"} THEN accOff + 1 ELSE accOff,
                           IF Restarts(t) /\ c2s \in {"new", "open"} THEN "start" ELSE c2s)
        /\ doubled' = (doubled \/ Doubles(r))
        /\ UNCHANGED <<out, req, got, fires>>

\* forward_body finds no session: item-not-found.
NoSession(c) ==
    /\ conns[c].st = "sent" /\ ~ Alive
    /\ conns' = [conns EXCEPT ![c].st = "answered", ![c].els = Gone]
    /\ UNCHANGED <<s, waitMsgs, idleMsg, accOff, c2s, out, req, got, fires, doubled>>

WaitFires(c) ==
    /\ c \notin waitMsgs /\ ~ idleMsg
    /\ c \in Conns(s.handlers)
    /\ fires < MaxFires /\ fires' = fires + 1
    /\ waitMsgs' = waitMsgs \cup {c}
    /\ UNCHANGED <<s, idleMsg, accOff, c2s, out, req, got, conns, doubled>>

\* Mutant: the timed out request is forgotten without an answer.
BadTakeHandler(t, i) == [t EXCEPT !.handlers = RemoveAt(@, i), !.idle = TRUE]

\* handle_info(wait_timeout) for a handler that is still there: an empty
\* response, whether or not its rid was processed.
TakeHandler(t, i) == SendTo([t EXCEPT !.handlers = RemoveAt(@, i)], t.handlers[i], <<>>)

\* handle_info(wait_timeout): keytake finds no handler, this one, or another
\* one with the same rid, for which there is no clause.
WaitTimeout(c) ==
    LET i == First(s.handlers, conns[c].rid)
        t == IF ~ HasRid(s.handlers, conns[c].rid) THEN s
             ELSE IF s.handlers[i].conn = c THEN TakeHandler(s, i)
             ELSE Crash(s)
    IN  /\ c \in waitMsgs
        /\ Finish(t, conns, waitMsgs \ {c}, idleMsg, accOff, c2s)
        /\ UNCHANGED <<out, req, got, fires, doubled>>

InactivityFires ==
    /\ s.idle
    /\ s' = [s EXCEPT !.idle = FALSE]
    /\ idleMsg' = TRUE
    /\ UNCHANGED <<waitMsgs, accOff, c2s, out, req, got, conns, fires, doubled>>

\* handle_info(inactivity_timeout): a request that came after the timer fired
\* does not take the message back.
InactivityTimeout ==
    /\ idleMsg
    /\ Finish([s EXCEPT !.stop = "inactivity_timeout"], conns, waitMsgs, FALSE, accOff, c2s)
    /\ UNCHANGED <<out, req, got, fires, doubled>>

\* accumulate(acc_off), normal(acc_off) and closing(acc_off).
AccOff ==
    LET t == IF s.name = "accumulate" THEN [SendPending(s) EXCEPT !.name = "normal"] ELSE s
    IN  /\ accOff > 0
        /\ Finish(t, conns, waitMsgs, idleMsg, accOff - 1, c2s)
        /\ UNCHANGED <<out, req, got, fires, doubled>>

\* handle_info({send, Data}); closing has no clause and drops it.
HandleSend(t, e) ==
    CASE t.name = "accumulate" -> [t EXCEPT !.pending = Append(@, e)]
      [] t.name = "normal" /\ e = End ->
             SendOrStore([t EXCEPT !.pending = <<>>], Append(t.pending, e))
      [] t.name = "normal" /\ e # End -> SendOrStore(t, <<e>>)
      [] OTHER -> t

\* The process takes an element that c2s has sent.
Send(e, next) ==
    /\ Finish(HandleSend(s, e), conns, waitMsgs, idleMsg, accOff, next)
    /\ UNCHANGED <<req, got, fires, doubled>>

C2SStart  == c2s = "start" /\ Send(Start, "open") /\ UNCHANGED out
C2SStanza == c2s = "open" /\ out < MaxOut /\ Send(out + 1, "open") /\ out' = out + 1
C2SEnd    == c2s = "open" /\ Send(End, "ended") /\ UNCHANGED out

\* handle_info(close): what is pending waits for one more request.
C2SClose ==
    LET t == IF s.pending = <<>> THEN [s EXCEPT !.stop = "normal"]
             ELSE [s EXCEPT !.name = "closing"]
    IN  /\ c2s \in {"start", "open", "ended"}
        /\ Finish(t, conns, waitMsgs, idleMsg, accOff, "closed")
        /\ UNCHANGED <<out, req, got, fires, doubled>>

(***************************************************************************)
(* The client and its connections.  It makes no request outside of its     *)
(* window of two, none before the session is there, none after a pause     *)
(* until the answer, and restarts an open stream when nothing else is on   *)
(* its way.  What it does after the process has stopped is left out, but   *)
(* for requests that are on their way.                                     *)
(***************************************************************************)

Unanswered == {r \in DOMAIN req : got[r] = NoAnswer}
Ended == \E r \in DOMAIN req : Has(got[r], End)
Opened == Cardinality({r \in DOMAIN req : Has(got[r], Start)})
Controls == Cardinality({r \in DOMAIN req : req[r] \notin {"streamstart", "normal"}})
Broken == Cardinality({c \in DOMAIN conns : conns[c].st = "done"})
              - (Len(req) - Cardinality(Unanswered))
Live(r) == \E c \in DOMAIN conns : conns[c].rid = r /\ conns[c].st \in {"sent", "held", "answered"}

\* (What is sent after an inactivity_timeout is handled after it.)
Transmit(r) ==
    /\ Alive /\ ~ idleMsg
    /\ conns' = Append(conns, [rid |-> r, st |-> "sent", els |-> <<>>])
    /\ UNCHANGED <<s, waitMsgs, idleMsg, accOff, c2s, out, fires, doubled>>

MayRequest(type) ==
    /\ ~ Ended
    /\ \A r \in Unanswered : /\ Len(req) + 1 < r + ConcurrentRequests
                             /\ req[r] = "normal"
    /\ type = "restart" =>
         /\ Unanswered = {}
         /\ Opened = Cardinality({r \in DOMAIN req : req[r] \in {"streamstart", "restart"}})

Request(type) ==
    /\ Len(req) < MaxRid
    /\ type \in {"streamstart", "normal"} \/ Controls < MaxControl
    /\ (type = "streamstart") <=> (req = <<>>)
    /\ MayRequest(type)
    /\ req' = Append(req, type)
    /\ got' = Append(got, NoAnswer)
    /\ Transmit(Len(req) + 1)

\* A request whose connection broke is repeated.
Repeat(r) ==
    /\ r \in Unanswered /\ ~ Live(r) /\ ~ Ended
    /\ Transmit(r)
    /\ UNCHANGED <<req, got>>

\* A connection breaks: the request was lost, the server has it, or the
\* response is lost.  (One to the first request has no session to repeat it in.)
Break(c) ==
    /\ conns[c].st \in {"sent", "held", "answered"} /\ conns[c].rid > 1
    /\ Alive /\ Broken < MaxBreaks
    /\ conns' = [conns EXCEPT ![c].st = "done", ![c].els = <<>>]
    /\ UNCHANGED <<s, waitMsgs, idleMsg, accOff, c2s, out, req, got, fires, doubled>>

Receive(c) ==
    /\ conns[c].st = "answered" /\ Alive
    /\ got' = [got EXCEPT ![conns[c].rid] = conns[c].els]
    /\ conns' = [conns EXCEPT ![c].st = "done", ![c].els = <<>>]
    /\ UNCHANGED <<s, waitMsgs, idleMsg, accOff, c2s, out, req, fires, doubled>>

Init ==
    /\ s = Fresh /\ waitMsgs = {} /\ idleMsg = FALSE /\ accOff = 0
    /\ c2s = "new" /\ out = 0
    /\ req = <<>> /\ got = <<>> /\ conns = <<>>
    /\ fires = 0 /\ doubled = FALSE

OnConnection(c) == Arrive(c) \/ NoSession(c) \/ WaitFires(c) \/ WaitTimeout(c) \/ Receive(c)

Next ==
    \/ \E c \in DOMAIN conns : OnConnection(c) \/ Break(c)
    \/ InactivityFires \/ InactivityTimeout \/ AccOff
    \/ C2SStart \/ C2SStanza \/ C2SEnd \/ C2SClose
    \/ \E type \in Types : Request(type)
    \/ \E r \in DOMAIN req : Repeat(r)

Spec == Init /\ [][Next]_vars

(***************************************************************************)
(* Properties                                                              *)
(***************************************************************************)

\* The variables have their types, nothing is held twice on one connection, at
\* most two responses are cached, and nothing is pending after a stream end.
TypeOK ==
    /\ s \in State /\ s.rid <= Len(req) /\ Len(s.sent) <= ConcurrentRequests
    /\ \A i \in DOMAIN s.handlers :
         /\ s.handlers[i].conn \in DOMAIN conns
         /\ \A j \in 1..(i - 1) : s.handlers[j].conn # s.handlers[i].conn
    /\ \A i \in DOMAIN s.pending : s.pending[i] = End => i = Len(s.pending)
    /\ waitMsgs \subseteq DOMAIN conns
    /\ idleMsg \in BOOLEAN /\ accOff \in Nat /\ out \in 0..MaxOut
    /\ c2s \in {"new", "start", "open", "ended", "closed"}
    /\ req \in Seq(Types) /\ got \in Seq(Bodies \cup {NoAnswer}) /\ Len(got) = Len(req)
    /\ conns \in Seq([rid : DOMAIN req, st : {"sent", "held", "answered", "done"},
                      els : Bodies])
    /\ fires \in Nat /\ doubled \in BOOLEAN

\* Requests that arrive out of order, are repeated or cross with answers, are
\* forwarded to c2s in the order of their rids, each once (process_stream_event,
\* process_deferred_events).
InboundOnce ==
    s.fwd = [r \in 1..s.rid |-> [rid |-> r, type |-> req[r]]]

\* What the client has of request r, or gets when it goes on or repeats it.
Response(r) ==
    LET A == {c \in DOMAIN conns : conns[c].rid = r /\ conns[c].st = "answered"}
    IN  IF got[r] # NoAnswer THEN got[r]
        ELSE IF A # {} THEN conns[CHOOSE c \in A : TRUE].els
        ELSE IF HasRid(s.sent, r) THEN CachedResponse(s.sent, r)
        ELSE <<>>

\* The responses in the order of their rids, and then what is pending.
Parts == 1..(Len(req) + 1)
Part(r) == IF r \in DOMAIN req THEN Response(r) ELSE s.pending

\* No stanza of c2s is lost, doubled or overtaken: the responses in the order
\* of their rids and then what is pending are the stanzas sent (send_or_store,
\* cache_response, resend_cached), whichever responses broke connections took,
\* as long as no repeated request meets one that is open (Doubles).
NoStanzaLost ==
    Alive /\ ~ doubled =>
        /\ \A n \in 1..out : \E r \in Parts : Has(Part(r), n)
        /\ \A r \in Parts : \A k \in DOMAIN Part(r) : Part(r)[k] <= out
        /\ \A q, r \in Parts : \A j \in DOMAIN Part(q), k \in DOMAIN Part(r) :
             (q < r \/ (q = r /\ j < k)) /\ Part(q)[j] > 0 /\ Part(r)[k] > 0
                => Part(q)[j] < Part(r)[k]

\* A client that keeps its window is never told that its rid is invalid, and the
\* process does not fail to find a handler (resend_cached, process_pause_event,
\* wait_timeout), as long as no repeated request meets one that is open in one
\* of the ways of Doubles.  The failure of bosh_wrap is left to WrapFails.
RepeatIsSafe == ~ doubled => s.stop \notin {"invalid_rid", "crash"}

\* bosh_wrap has no clause for two stream events.  The process fails there only
\* when the start of a stream and another stream event, the end of it, waited
\* together for a request or for acc_off: not over what c2s sends in the step,
\* nor over a start or an end that was sent before (send_or_store, acc_off).
WrapFails ==
    [][Alive /\ s'.stop = "no body" => Has(s.pending, Start) /\ NoBody(s.pending)]_vars

\* A session without a request to answer runs out: the inactivity timer runs,
\* or its message waits (send_wrapped_to_handler, cancel_inactivity_timer).
IdleIsTimed ==
    Alive /\ s.rid > 0 /\ s.handlers = <<>> => s.idle \/ idleMsg

\* hold = 1: a request that could take a stanza is the only one held, and in
\* normal nothing waits beside it (return_surplus_handlers, acc_off, send).  Two
\* are held only when two copies of a request ahead of its turn are.  In closing
\* the pending elements may wait beside one for the next request: acc_off is
\* ignored, and the wait timeout answers with an empty body.
PromptDelivery ==
    /\ Valid(s) => Len(s.handlers) = 1
    /\ Len(s.handlers) > 1 => Len(s.deferred) > 1
    /\ s.name = "normal" /\ Valid(s) => s.pending = <<>>

\* Every request that waits for an answer has a handler, whose wait timer runs
\* or has fired, unless the process crashed (add_handler, pick_handler,
\* wait_timeout, terminate).
HeldIsTimed ==
    \A c \in DOMAIN conns : conns[c].st = "held" =>
        \/ \E i \in DOMAIN s.handlers : s.handlers[i].conn = c
        \/ Crashed(s)
===============================================================================
