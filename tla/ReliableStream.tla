--------------------------- MODULE ReliableStream ---------------------------
(***************************************************************************)
(* What stream management promises a pair of users, without counters,      *)
(* buffers, acknowledgements, timers or connections: stanzas are accepted, *)
(* the client receives them one after the other, and when the stream ends  *)
(* everything it has not received is returned for another way of delivery. *)
(***************************************************************************)
EXTENDS Naturals

VARIABLES
    accepted,    \* stanzas 1 .. accepted entered the stream
    delivered,   \* the client has received 1 .. delivered
    returned,    \* stanzas given back at the end
    open

vars == <<accepted, delivered, returned, open>>

Init == accepted = 0 /\ delivered = 0 /\ returned = {} /\ open = TRUE

\* A resumption may bring in several stanzas that were waiting.
Accept ==
    /\ open
    /\ accepted' \in Nat /\ accepted' > accepted
    /\ UNCHANGED <<delivered, returned, open>>

Deliver ==
    /\ open /\ delivered < accepted
    /\ delivered' = delivered + 1
    /\ UNCHANGED <<accepted, returned, open>>

End ==
    /\ open
    /\ open' = FALSE
    /\ delivered + 1 .. accepted \subseteq returned'
    /\ returned' \subseteq 1 .. accepted
    /\ UNCHANGED <<accepted, delivered>>

Next == Accept \/ Deliver \/ End

Spec == Init /\ [][Next]_vars

=============================================================================
