------------------------ MODULE SmHandoverCopyProofs ------------------------
(***************************************************************************)
(* For any number of processes and messages and both backends: the types   *)
(* of the handover, that a message to the full JID is at one place, and    *)
(* which of its own messages a stream may drop.                            *)
(***************************************************************************)
EXTENDS SmHandoverProofs, FiniteSetTheorems, SequenceTheorems, WellFoundedInduction

\* A message is kept in a router, a buffer, a mailbox, or it has come to rest,
\* where a process may have dropped it.
Boxes == ({"flight", "delivered", "offline", "lost"} \X {None})
         \cup ({"buffer", "mailbox", "dropped"} \X Procs)

\* The messages of a mailbox.
Msgs(s) == {m \in Messages : Route(m) \in Set(s)}

In(b) ==
    CASE b[1] = "flight" -> {f.m : f \in flight}
      [] b[1] = "delivered" -> delivered
      [] b[1] = "offline" -> offline
      [] b[1] = "lost" -> lost
      [] b[1] = "buffer" -> Set(buffer[b[2]])
      [] b[1] = "mailbox" -> Msgs(mailbox[b[2]])
      [] b[1] = "dropped" -> dropped[b[2]]

\* What was sent is in one box, and nothing else is in any.
Sorted ==
    /\ \A b, c \in Boxes : b # c => In(b) \cap In(c) = {}
    /\ \A b \in Boxes : In(b) \subseteq sent
    /\ \A m \in sent : \E b \in Boxes : m \in In(b)

\* No box has a message twice.
Once(s) == \A i, j \in 1 .. Len(s) : s[i] = s[j] => i = j
OnceRouted(s) ==
    \A i, j \in 1 .. Len(s) : s[i] = s[j] /\ s[i].tag = "route" => i = j
Single ==
    /\ \A f, g \in flight : f.m = g.m => f = g
    /\ \A p \in Procs : Once(buffer[p]) /\ OnceRouted(mailbox[p])

\* A process that has not opened its session is known to nobody who sends
\* messages.
Early(p) == pc[p] \in {"down", "auth", "calling"}
EarlyIsUnknown == \A p \in Procs : Early(p) =>
    /\ p \notin table
    /\ \A f \in flight : f.to # p
    /\ \A q \in Procs : replacer[q] # p /\ Exit(p) \notin Set(mailbox[q])

\* When a process has no buffer to take care of, and no messages.
Emptied == \A p \in Procs :
    /\ p \notin sm \/ pc[p] \in {"bounce", "dead"} \/ peer[p] # None => buffer[p] = <<>>
    /\ peer[p] # None
         => pc[p] \in {"closing", "read", "delete", "reroute", "bounce", "dead"}
    /\ Early(p) \/ pc[p] = "dead" => Msgs(mailbox[p]) = {}

CopyInv == TypeOK /\ HandoverInv /\ Sorted /\ Single /\ EarlyIsUnknown /\ Emptied

-----------------------------------------------------------------------------
(***************************************************************************)
(* Sequences: what is taken out of a mailbox                               *)
(***************************************************************************)

\* The members of a finite set of positions have the ranks 1, 2, ... in turn.
LEMMA Ranks ==
  ASSUME NEW n \in Nat, NEW P \in SUBSET (1 .. n)
  PROVE  /\ IsFiniteSet(P) /\ Cardinality(P) \in Nat
         /\ \A i \in P : Rank(P, i) \in 1 .. Cardinality(P)
         /\ \A k \in 1 .. Cardinality(P) : \E i \in P : Rank(P, i) = k
         /\ \A i, j \in P : Rank(P, i) = Rank(P, j) => i = j
<1> DEFINE Upto(i) == {j \in P : j <= i}
<1>1. IsFiniteSet(P) /\ Cardinality(P) \in Nat
  <2>1. IsFiniteSet(1 .. n)
    BY FS_Interval
  <2>2. IsFiniteSet(P)
    BY <2>1, FS_Subset
  <2> QED
    BY <2>2, FS_CardinalityType
<1>2. \A i \in P : /\ Upto(i) \in SUBSET P /\ IsFiniteSet(Upto(i)) /\ i \in Upto(i)
                   /\ Cardinality(Upto(i)) <= Cardinality(P)
  BY <1>1, FS_Subset
<1>3. \A i \in P : Cardinality(Upto(i)) \in 1 .. Cardinality(P)
  <2> SUFFICES ASSUME NEW i \in P
               PROVE  Cardinality(Upto(i)) \in 1 .. Cardinality(P)
    OBVIOUS
  <2>1. Cardinality(Upto(i)) \in Nat
    BY <1>2, FS_CardinalityType
  <2>2. Cardinality(Upto(i)) # 0
    BY <1>2, FS_EmptySet
  <2> HIDE DEF Upto
  <2> QED
    BY <1>1, <1>2, <2>1, <2>2
<1>4. ASSUME NEW i \in P, NEW j \in P, i < j
      PROVE  Cardinality(Upto(i)) # Cardinality(Upto(j))
  <2>1. Upto(i) \in SUBSET Upto(j) /\ j \notin Upto(i)
    <3>1. P \subseteq Int /\ i < j
      BY <1>4
    <3>2. \A x \in P : x <= i => x <= j
      BY <3>1
    <3>3. ~ (j <= i)
      BY <3>1
    <3> QED
      BY <3>2, <3>3
  <2>2. j \in Upto(j) /\ IsFiniteSet(Upto(j))
    BY <1>2
  <2> HIDE DEF Upto
  <2> QED
    BY <2>1, <2>2, FS_Subset
<1>5. \A i, j \in P : Cardinality(Upto(i)) = Cardinality(Upto(j)) => i = j
  <2> SUFFICES ASSUME NEW i \in P, NEW j \in P, i # j
               PROVE  Cardinality(Upto(i)) # Cardinality(Upto(j))
    OBVIOUS
  <2>1. i < j \/ j < i
    OBVIOUS
  <2> HIDE DEF Upto
  <2> QED
    BY <1>4, <2>1
<1> DEFINE f == [i \in P |-> Cardinality(Upto(i))]
           T == 1 .. Cardinality(P)
<1> HIDE DEF Upto
<1>6. f \in Injection(P, T)
  <2>1. f \in [P -> T]
    BY <1>3
  <2>2. \A i, j \in P : f[i] = f[j] => i = j
    BY <1>5
  <2> QED
    BY <2>1, <2>2 DEF Injection, IsInjective
<1>7. IsFiniteSet(T) /\ Cardinality(T) = Cardinality(P)
  BY <1>1, FS_Interval
<1> HIDE DEF f, T
<1>8. f \in Surjection(P, T)
  BY <1>6, <1>7, FS_Injection
<1>9. \A k \in T : \E i \in P : f[i] = k
  BY <1>8 DEF Surjection
<1>10. \A k \in 1 .. Cardinality(P) : \E i \in P : Cardinality(Upto(i)) = k
  BY <1>9 DEF f, T
<1> QED
  BY <1>1, <1>3, <1>5, <1>10 DEF Upto, Rank

\* Picked takes each of the positions once.
LEMMA PickedSeq ==
  ASSUME NEW S, NEW s \in Seq(S), NEW P \in SUBSET (1 .. Len(s))
  PROVE  /\ Picked(s, P) \in Seq(S)
         /\ Set(Picked(s, P)) = {s[i] : i \in P}
         /\ \A k, l \in 1 .. Len(Picked(s, P)) : \E i, j \in P :
              /\ Picked(s, P)[k] = s[i] /\ Picked(s, P)[l] = s[j]
              /\ i = j => k = l
<1> DEFINE c == Cardinality(P)
           at(k) == CHOOSE i \in P : Rank(P, i) = k
<1>1. Len(s) \in Nat
  OBVIOUS
<1>2. /\ c \in Nat
      /\ \A i \in P : Rank(P, i) \in 1 .. c
      /\ \A k \in 1 .. c : \E i \in P : Rank(P, i) = k
      /\ \A i, j \in P : Rank(P, i) = Rank(P, j) => i = j
  BY <1>1, Ranks
<1> HIDE DEF c
<1>3. \A k \in 1 .. c : at(k) \in P /\ Rank(P, at(k)) = k
  BY <1>2
<1>4. \A i \in P : \E k \in 1 .. c : at(k) = i
  BY <1>2, <1>3
<1>5. Picked(s, P) = [k \in 1 .. c |-> s[at(k)]]
  BY DEF Picked, c
<1> HIDE DEF at
<1>6. \A k \in 1 .. c : s[at(k)] \in S
  <2>1. \A i \in P : s[i] \in S
    BY ElementOfSeq
  <2> QED
    BY <1>3, <2>1
<1>7. Picked(s, P) \in Seq(S) /\ Len(Picked(s, P)) = c
  BY <1>2, <1>5, <1>6
<1>8. \A k \in 1 .. c : Picked(s, P)[k] = s[at(k)]
  BY <1>5
<1>9. Set(Picked(s, P)) = {s[i] : i \in P}
  <2>1. Set(Picked(s, P)) = {s[at(k)] : k \in 1 .. c}
    BY <1>7, <1>8 DEF Set
  <2> QED
    BY <1>3, <1>4, <2>1
<1>10. \A k, l \in 1 .. c : at(k) = at(l) => k = l
  BY <1>3
<1> QED
  BY <1>3, <1>7, <1>8, <1>9, <1>10, ZenonT(30)

\* An entry tagged "route" is the route of a message, and of only one.
LEMMA RouteEntries ==
  /\ \A e \in Entry : e.tag = "route" => e.m \in Messages /\ e = Route(e.m)
  /\ \A m : Route(m).tag = "route" /\ Route(m).m = m
  /\ \A m \in Messages : Route(m) \in Entry
  /\ \A p \in Procs : Exit(p) \in Entry /\ Exit(p).tag = "exit" /\ Exit(p).p = p
<1>1. \A m : Route(m).tag = "route" /\ Route(m).m = m
  BY DEF Route
<1>2. \A p \in Procs : Exit(p).tag = "exit" /\ Exit(p).p = p
  BY DEF Exit
<1>3. \A e \in [tag : {"call"}, p : Procs, r : Nat] : e.tag = "call"
  OBVIOUS
<1> QED
  BY <1>1, <1>2, <1>3 DEF Entry

\* recover_messages unwraps each message of the mailbox once.
LEMMA PayloadsSeq ==
  ASSUME NEW s \in Seq(Entry)
  PROVE  /\ Payloads(s) \in Seq(Messages)
         /\ Set(Payloads(s)) = Msgs(s)
         /\ OnceRouted(s) => Once(Payloads(s))
<1> DEFINE P == RoutesAt(s)
           r == Picked(s, P)
<1>1. P \in SUBSET (1 .. Len(s)) /\ \A i \in P : s[i].tag = "route"
  BY DEF RoutesAt
<1>2. /\ r \in Seq(Entry) /\ Set(r) = {s[i] : i \in P}
      /\ \A k, l \in 1 .. Len(r) : \E i, j \in P :
           r[k] = s[i] /\ r[l] = s[j] /\ (i = j => k = l)
  BY <1>1, PickedSeq
<1>3. Payloads(s) = [k \in 1 .. Len(r) |-> r[k].m]
  BY DEF Payloads
<1> HIDE DEF P, r
<1>4. \A k \in 1 .. Len(r) : r[k].m \in Messages /\ r[k] = Route(r[k].m)
  <2>1. \A i \in P : s[i] \in Entry
    BY <1>1, ElementOfSeq
  <2> QED
    BY <1>1, <1>2, <2>1, RouteEntries
<1>5. /\ Payloads(s) \in Seq(Messages) /\ Len(Payloads(s)) = Len(r)
      /\ \A k \in 1 .. Len(r) : Payloads(s)[k] = r[k].m
  BY <1>2, <1>3, <1>4
<1>6. \A m \in Messages : m \in Set(Payloads(s)) <=> Route(m) \in Set(r)
  BY <1>4, <1>5, RouteEntries DEF Set
<1>7. \A m \in Messages : Route(m) \in Set(r) <=> Route(m) \in Set(s)
  <2>1. \A m \in Messages : Route(m) \in Set(s) => \E i \in P : s[i] = Route(m)
    BY RouteEntries DEF Set, RoutesAt, P
  <2> QED
    BY <1>1, <1>2, <2>1 DEF Set
<1>8. Set(Payloads(s)) \subseteq Messages
  BY <1>5, ElementOfSeq DEF Set
<1>9. ASSUME OnceRouted(s)
      PROVE  Once(Payloads(s))
  <2> SUFFICES ASSUME NEW k \in 1 .. Len(r), NEW l \in 1 .. Len(r), r[k].m = r[l].m
               PROVE  k = l
    BY <1>5 DEF Once
  <2>1. PICK i \in P, j \in P : r[k] = s[i] /\ r[l] = s[j] /\ (i = j => k = l)
    BY <1>2
  <2>2. s[i] = s[j] /\ s[i].tag = "route"
    BY <1>1, <1>4, <2>1
  <2> QED
    BY <1>1, <1>9, <2>1, <2>2 DEF OnceRouted
<1> QED
  BY <1>6, <1>7, <1>8, <1>5, <1>9 DEF Msgs

\* What recover_messages leaves in the mailbox is no message.
LEMMA OthersSeq ==
  ASSUME NEW s \in Seq(Entry)
  PROVE  /\ Others(s) \in Seq(Entry) /\ Set(Others(s)) \subseteq Set(s)
         /\ Msgs(Others(s)) = {} /\ OnceRouted(Others(s))
<1> DEFINE P == (1 .. Len(s)) \ RoutesAt(s)
           r == Picked(s, P)
<1>1. P \in SUBSET (1 .. Len(s)) /\ \A i \in P : s[i].tag # "route"
  BY DEF RoutesAt
<1>5. Others(s) = r
  BY DEF Others
<1> HIDE DEF P
<1>2. r \in Seq(Entry) /\ Set(r) = {s[i] : i \in P} /\ Others(s) = r
  <2>1. P \subseteq 1 .. Len(s)
    BY <1>1
  <2>2. r \in Seq(Entry) /\ Set(r) = {s[i] : i \in P}
    BY <2>1, PickedSeq
  <2> QED
    BY <1>5, <2>2
<1> HIDE DEF r
<1>3. Set(r) \subseteq Set(s) /\ \A e \in Set(r) : e.tag # "route"
  BY <1>1, <1>2 DEF Set
<1>4. Msgs(r) = {} /\ OnceRouted(r)
  BY <1>3, RouteEntries DEF Msgs, OnceRouted, Set
<1> QED
  BY <1>2, <1>3, <1>4

\* A queue of messages after an append,
LEMMA OnceAppend ==
  ASSUME NEW s \in Seq(Messages), NEW m \in Messages
  PROVE  /\ Append(s, m) \in Seq(Messages) /\ Set(Append(s, m)) = Set(s) \cup {m}
         /\ Once(s) /\ m \notin Set(s) => Once(Append(s, m))
<1>1. /\ Len(Append(s, m)) = Len(s) + 1 /\ Append(s, m)[Len(s) + 1] = m
      /\ \A i \in 1 .. Len(s) : Append(s, m)[i] = s[i]
      /\ Append(s, m) \in Seq(Messages) /\ Len(s) \in Nat
  BY AppendProperties, LenProperties
<1>2. 1 .. Len(s) + 1 = (1 .. Len(s)) \cup {Len(s) + 1}
  BY <1>1
<1> DEFINE t == Append(s, m)
<1> HIDE DEF t
<1>3. Set(t) = Set(s) \cup {m}
  BY <1>1, <1>2 DEF Set, t
<1>4. Once(s) /\ m \notin Set(s) => Once(t)
  BY <1>1, <1>2 DEF Set, Once, t
<1> QED
  BY <1>1, <1>3, <1>4 DEF t

\* after its head is taken,
LEMMA OnceTail ==
  ASSUME NEW s \in Seq(Messages), s # <<>>, Once(s)
  PROVE  /\ Tail(s) \in Seq(Messages) /\ Head(s) \in Messages /\ Once(Tail(s))
         /\ Head(s) \in Set(s) /\ Set(Tail(s)) = Set(s) \ {Head(s)}
<1>1. /\ Len(Tail(s)) = Len(s) - 1 /\ Tail(s) \in Seq(Messages) /\ Head(s) = s[1]
      /\ \A i \in 1 .. Len(s) - 1 : Tail(s)[i] = s[i + 1]
      /\ Len(s) \in Nat \ {0} /\ s[1] \in Messages
  BY HeadTailProperties, EmptySeq
<1> DEFINE t == Tail(s)
<1> HIDE DEF t
<1>2. Once(t)
  BY <1>1 DEF Once, t
<1>3. ASSUME NEW i \in 1 .. Len(s)
      PROVE  s[i] = s[1] \/ s[i] \in Set(t)
  <2>1. CASE i = 1
    BY <2>1
  <2>2. CASE i # 1
    <3>1. i - 1 \in 1 .. Len(s) - 1 /\ t[i - 1] = s[i]
      BY <1>1, <2>2 DEF t
    <3> QED
      BY <1>1, <3>1 DEF Set, t
  <2> QED
    BY <2>1, <2>2
<1>4. Set(t) \subseteq Set(s) /\ s[1] \in Set(s) /\ s[1] \notin Set(t)
  BY <1>1 DEF Set, t, Once
<1>5. Set(t) = Set(s) \ {s[1]}
  BY <1>3, <1>4 DEF Set
<1> QED
  BY <1>1, <1>2, <1>4, <1>5 DEF t

\* cut in two,
LEMMA OnceCut ==
  ASSUME NEW s \in Seq(Messages), NEW n \in 0 .. Len(s), Once(s)
  PROVE  LET a == SubSeq(s, 1, n)
             b == SubSeq(s, n + 1, Len(s)) IN
         /\ a \in Seq(Messages) /\ b \in Seq(Messages) /\ Once(b)
         /\ Set(a) \cup Set(b) = Set(s) /\ Set(a) \cap Set(b) = {}
<1> DEFINE a == SubSeq(s, 1, n)
           b == SubSeq(s, n + 1, Len(s))
<1>1. Len(s) \in Nat /\ n \in Nat /\ n <= Len(s) /\ \A i \in 1 .. Len(s) : s[i] \in Messages
  OBVIOUS
<1>2. /\ a \in Seq(Messages) /\ Len(a) = n
      /\ \A i \in 1 .. n : a[i] = s[i]
  BY <1>1
<1>3. /\ b \in Seq(Messages) /\ Len(b) = Len(s) - n
      /\ \A i \in 1 .. Len(s) - n : b[i] = s[n + i]
  BY <1>1
<1> HIDE DEF a, b
<1>4. Once(b)
  BY <1>1, <1>3 DEF Once
<1>5. Set(a) \cap Set(b) = {}
  <2> SUFFICES ASSUME NEW i \in 1 .. n, NEW j \in 1 .. Len(s) - n, a[i] = b[j]
               PROVE  FALSE
    BY <1>2, <1>3 DEF Set
  <2>1. i \in 1 .. Len(s) /\ n + j \in 1 .. Len(s) /\ i # n + j /\ s[i] = s[n + j]
    BY <1>1, <1>2, <1>3
  <2> QED
    BY <2>1 DEF Once
<1>6. Set(a) \subseteq Set(s) /\ Set(b) \subseteq Set(s)
  <2>1. \A i \in 1 .. n : i \in 1 .. Len(s)
    BY <1>1
  <2>2. \A i \in 1 .. Len(s) - n : n + i \in 1 .. Len(s)
    BY <1>1
  <2>3. Set(a) \subseteq Set(s)
    BY <1>2, <2>1 DEF Set
  <2>4. Set(b) \subseteq Set(s)
    BY <1>3, <2>2 DEF Set
  <2> QED
    BY <2>3, <2>4
<1>7. Set(s) \subseteq Set(a) \cup Set(b)
  <2> SUFFICES ASSUME NEW i \in 1 .. Len(s)
               PROVE  s[i] \in Set(a) \cup Set(b)
    BY DEF Set
  <2>1. CASE i <= n
    BY <1>1, <1>2, <2>1 DEF Set
  <2>2. CASE ~ (i <= n)
    <3>1. i - n \in 1 .. Len(s) - n /\ b[i - n] = s[i]
      BY <1>1, <1>3, <2>2
    <3> QED
      BY <1>3, <3>1 DEF Set
  <2> QED
    BY <2>1, <2>2
<1> QED
  BY <1>2, <1>3, <1>4, <1>5, <1>6, <1>7 DEF a, b

\* and joined with another.
LEMMA OnceConcat ==
  ASSUME NEW S, NEW s \in Seq(S), NEW t \in Seq(S)
  PROVE  /\ s \o t \in Seq(S)
         /\ Set(s \o t) = Set(s) \cup Set(t)
         /\ Once(s) /\ Once(t) /\ Set(s) \cap Set(t) = {} => Once(s \o t)
<1> DEFINE u == s \o t
<1>1. /\ u \in Seq(S) /\ Len(u) = Len(s) + Len(t) /\ Len(s) \in Nat /\ Len(t) \in Nat
      /\ \A i \in 1 .. Len(s) : u[i] = s[i]
      /\ \A i \in 1 .. Len(t) : u[Len(s) + i] = t[i]
  BY ConcatProperties, LenProperties
<1> HIDE DEF u
<1>2. \A k \in 1 .. Len(u) : \/ k \in 1 .. Len(s)
                             \/ \E i \in 1 .. Len(t) : k = Len(s) + i
  <2> SUFFICES ASSUME NEW k \in 1 .. Len(u), ~ (k \in 1 .. Len(s))
               PROVE  \E i \in 1 .. Len(t) : k = Len(s) + i
    OBVIOUS
  <2>1. k - Len(s) \in 1 .. Len(t) /\ k = Len(s) + (k - Len(s))
    BY <1>1
  <2> QED
    BY <2>1
<1>3. /\ \A i \in 1 .. Len(s) : i \in 1 .. Len(u)
      /\ \A i \in 1 .. Len(t) : Len(s) + i \in 1 .. Len(u)
  BY <1>1
<1>4. Set(u) = Set(s) \cup Set(t)
  <2>1. \A k \in 1 .. Len(u) : u[k] \in Set(s) \cup Set(t)
    BY <1>1, <1>2 DEF Set
  <2>2. Set(s) \subseteq Set(u)
    BY <1>1, <1>3 DEF Set
  <2>3. Set(t) \subseteq Set(u)
    BY <1>1, <1>3 DEF Set
  <2>4. Set(u) \subseteq Set(s) \cup Set(t)
    BY <2>1 DEF Set
  <2> QED
    BY <2>2, <2>3, <2>4
<1>5. ASSUME Once(s), Once(t), Set(s) \cap Set(t) = {}
      PROVE  Once(u)
  <2> SUFFICES ASSUME NEW k \in 1 .. Len(u), NEW l \in 1 .. Len(u), u[k] = u[l]
               PROVE  k = l
    BY DEF Once
  <2>1. CASE k \in 1 .. Len(s) /\ l \in 1 .. Len(s)
    BY <1>1, <1>5, <2>1 DEF Once
  <2>2. CASE \E i, j \in 1 .. Len(t) : k = Len(s) + i /\ l = Len(s) + j
    BY <1>1, <1>5, <2>2 DEF Once
  <2>3. CASE \E j \in 1 .. Len(t) : k \in 1 .. Len(s) /\ l = Len(s) + j
    <3>1. u[k] \in Set(s) /\ u[l] \in Set(t)
      BY <1>1, <2>3 DEF Set
    <3> QED
      BY <1>5, <3>1
  <2>4. CASE \E i \in 1 .. Len(t) : k = Len(s) + i /\ l \in 1 .. Len(s)
    <3>1. u[l] \in Set(s) /\ u[k] \in Set(t)
      BY <1>1, <2>4 DEF Set
    <3> QED
      BY <1>5, <3>1
  <2> QED
    BY <1>2, <2>1, <2>2, <2>3, <2>4
<1> QED
  BY <1>1, <1>4, <1>5 DEF u

\* A mailbox after an entry has come in,
LEMMA MailAppend ==
  ASSUME NEW s \in Seq(Entry), NEW e \in Entry
  PROVE  /\ Append(s, e) \in Seq(Entry) /\ Set(Append(s, e)) = Set(s) \cup {e}
         /\ e.tag # "route" =>
              Msgs(Append(s, e)) = Msgs(s) /\ (OnceRouted(s) => OnceRouted(Append(s, e)))
         /\ \A m \in Messages : e = Route(m) =>
              /\ Msgs(Append(s, e)) = Msgs(s) \cup {m}
              /\ OnceRouted(s) /\ m \notin Msgs(s) => OnceRouted(Append(s, e))
<1> DEFINE t == Append(s, e)
<1>1. /\ Len(t) = Len(s) + 1 /\ t[Len(s) + 1] = e
      /\ \A i \in 1 .. Len(s) : t[i] = s[i]
      /\ t \in Seq(Entry) /\ Len(s) \in Nat
  BY AppendProperties, LenProperties
<1> HIDE DEF t
<1>2. 1 .. Len(t) = (1 .. Len(s)) \cup {Len(s) + 1}
  BY <1>1
<1>3. Set(t) = Set(s) \cup {e}
  BY <1>1, <1>2 DEF Set
<1>4. ASSUME e.tag # "route"
      PROVE  Msgs(t) = Msgs(s) /\ (OnceRouted(s) => OnceRouted(t))
  <2>1. Msgs(t) = Msgs(s)
    BY <1>3, <1>4, RouteEntries DEF Msgs
  <2>2. OnceRouted(s) => OnceRouted(t)
    BY <1>1, <1>2, <1>4 DEF OnceRouted
  <2> QED
    BY <2>1, <2>2
<1>5. ASSUME NEW m \in Messages, e = Route(m)
      PROVE  /\ Msgs(t) = Msgs(s) \cup {m}
             /\ OnceRouted(s) /\ m \notin Msgs(s) => OnceRouted(t)
  <2>1. \A k \in Messages : Route(k) = e <=> k = m
    BY <1>5, RouteEntries
  <2>2. Msgs(t) = Msgs(s) \cup {m}
    BY <1>3, <2>1 DEF Msgs
  <2>3. ASSUME OnceRouted(s), m \notin Msgs(s)
        PROVE  OnceRouted(t)
    <3>1. \A i \in 1 .. Len(s) : s[i] # e
      BY <1>5, <2>3 DEF Msgs, Set
    <3> QED
      BY <1>1, <1>2, <2>3, <3>1 DEF OnceRouted
  <2> QED
    BY <2>2, <2>3
<1> QED
  BY <1>1, <1>3, <1>4, <1>5 DEF t

\* after its first entry was received,
LEMMA MailTail ==
  ASSUME NEW s \in Seq(Entry), s # <<>>, OnceRouted(s)
  PROVE  /\ Tail(s) \in Seq(Entry) /\ Head(s) \in Entry /\ OnceRouted(Tail(s))
         /\ Head(s) \in Set(s) /\ Set(Tail(s)) \subseteq Set(s)
         /\ Head(s).tag # "route" => Msgs(Tail(s)) = Msgs(s)
         /\ Head(s).tag = "route" =>
              /\ Head(s).m \in Msgs(s)
              /\ Msgs(Tail(s)) = Msgs(s) \ {Head(s).m}
<1> DEFINE t == Tail(s)
           h == Head(s)
<1>1. /\ Len(t) = Len(s) - 1 /\ t \in Seq(Entry) /\ h = s[1]
      /\ \A i \in 1 .. Len(s) - 1 : t[i] = s[i + 1]
      /\ Len(s) \in Nat \ {0} /\ h \in Entry
  BY HeadTailProperties, EmptySeq
<1> HIDE DEF t, h
<1>2. OnceRouted(t)
  BY <1>1 DEF OnceRouted
<1>3. ASSUME NEW i \in 1 .. Len(s)
      PROVE  s[i] = h \/ s[i] \in Set(t)
  <2>1. CASE i = 1
    BY <1>1, <2>1
  <2>2. CASE i # 1
    <3>1. i - 1 \in 1 .. Len(s) - 1 /\ t[i - 1] = s[i]
      BY <1>1, <2>2
    <3> QED
      BY <1>1, <3>1 DEF Set
  <2> QED
    BY <2>1, <2>2
<1>4. h \in Set(s) /\ Set(t) \subseteq Set(s)
  BY <1>1 DEF Set
<1>5. Set(s) = Set(t) \cup {h}
  BY <1>3, <1>4 DEF Set
<1>6. h.tag = "route" => h \notin Set(t)
  BY <1>1 DEF OnceRouted, Set
<1>7. h.tag # "route" => Msgs(t) = Msgs(s)
  BY <1>5, RouteEntries DEF Msgs
<1>8. ASSUME h.tag = "route"
      PROVE  h.m \in Msgs(s) /\ Msgs(t) = Msgs(s) \ {h.m}
  <2>1. h.m \in Messages /\ h = Route(h.m)
    BY <1>1, <1>8, RouteEntries
  <2>2. \A k \in Messages : Route(k) = h <=> k = h.m
    BY <2>1, RouteEntries
  <2> QED
    BY <1>5, <1>6, <1>8, <2>1, <2>2 DEF Msgs
<1> QED
  BY <1>1, <1>2, <1>4, <1>7, <1>8 DEF t, h

\* and after a whole buffer was sent to it.
LEMMA MailConcat ==
  ASSUME NEW s \in Seq(Entry), NEW b \in Seq(Messages)
  PROVE  LET t == s \o Routes(b) IN
         /\ t \in Seq(Entry) /\ Msgs(t) = Msgs(s) \cup Set(b)
         /\ \A p \in Procs : Exit(p) \in Set(t) => Exit(p) \in Set(s)
         /\ OnceRouted(s) /\ Once(b) /\ Msgs(s) \cap Set(b) = {} => OnceRouted(t)
<1> DEFINE r == Routes(b)
           t == s \o r
<1>1. /\ r \in Seq(Entry) /\ Len(r) = Len(b)
      /\ \A i \in 1 .. Len(b) : r[i] = Route(b[i]) /\ b[i] \in Messages
  <2>1. \A i \in 1 .. Len(b) : b[i] \in Messages
    BY ElementOfSeq
  <2>2. \A i \in 1 .. Len(b) : Route(b[i]) \in Entry
    BY <2>1, RouteEntries
  <2> QED
    BY <2>1, <2>2 DEF Routes
<1> HIDE DEF r
<1>2. t \in Seq(Entry) /\ Set(t) = Set(s) \cup Set(r)
  BY <1>1, OnceConcat
<1>3. \A m \in Messages : Route(m) \in Set(r) <=> m \in Set(b)
  BY <1>1, RouteEntries DEF Set
<1>4. Set(b) \subseteq Messages
  BY <1>1 DEF Set
<1>5. \A e \in Set(r) : e.tag = "route"
  BY <1>1, RouteEntries DEF Set
<1>6. Msgs(t) = Msgs(s) \cup Set(b)
  <2> HIDE DEF t
  <2> QED
    BY <1>2, <1>3, <1>4 DEF Msgs
<1>7. \A p \in Procs : Exit(p) \in Set(t) => Exit(p) \in Set(s)
  <2> HIDE DEF t
  <2> QED
    BY <1>2, <1>5, RouteEntries
<1>8. ASSUME OnceRouted(s), Once(b), Msgs(s) \cap Set(b) = {}
      PROVE  OnceRouted(t)
  <2>1. /\ Len(t) = Len(s) + Len(b) /\ Len(s) \in Nat /\ Len(b) \in Nat
        /\ \A i \in 1 .. Len(s) : t[i] = s[i]
        /\ \A i \in 1 .. Len(b) : t[Len(s) + i] = r[i]
    <3>1. r \in Seq(Entry) /\ Len(r) = Len(b)
      BY <1>1
    <3>2. Len(s) \in Nat /\ Len(r) \in Nat /\ Len(t) = Len(s) + Len(r)
      BY <3>1, ConcatProperties, LenProperties
    <3>3. /\ \A i \in 1 .. Len(s) : t[i] = s[i]
          /\ \A i \in 1 .. Len(r) : t[Len(s) + i] = r[i]
      BY <3>1, <3>2, ConcatProperties
    <3> HIDE DEF t
    <3> QED
      BY <3>1, <3>2, <3>3
  <2> HIDE DEF t
  <2>2. \A k \in 1 .. Len(t) : \/ k \in 1 .. Len(s)
                               \/ \E i \in 1 .. Len(b) : k = Len(s) + i
    <3> SUFFICES ASSUME NEW k \in 1 .. Len(t), ~ (k \in 1 .. Len(s))
                 PROVE  \E i \in 1 .. Len(b) : k = Len(s) + i
      OBVIOUS
    <3>1. k - Len(s) \in 1 .. Len(b) /\ k = Len(s) + (k - Len(s))
      BY <2>1
    <3> QED
      BY <3>1
  <2>3. \A i \in 1 .. Len(s), j \in 1 .. Len(b) : s[i] # r[j]
    <3> SUFFICES ASSUME NEW i \in 1 .. Len(s), NEW j \in 1 .. Len(b), s[i] = r[j]
                 PROVE  FALSE
      OBVIOUS
    <3>1. b[j] \in Set(b) /\ b[j] \in Messages /\ Route(b[j]) \in Set(s)
      BY <1>1 DEF Set
    <3>2. b[j] \in Msgs(s)
      BY <3>1 DEF Msgs
    <3> QED
      BY <1>8, <3>1, <3>2
  <2>4. \A i, j \in 1 .. Len(b) : r[i] = r[j] => i = j
    <3>1. \A i, j \in 1 .. Len(b) : r[i] = r[j] => b[i] = b[j]
      BY <1>1, RouteEntries
    <3> QED
      BY <1>8, <3>1 DEF Once
  <2>5. ASSUME NEW k \in 1 .. Len(t), NEW l \in 1 .. Len(t), t[k] = t[l], t[k].tag = "route"
        PROVE  k = l
    <3>1. CASE k \in 1 .. Len(s) /\ l \in 1 .. Len(s)
      BY <1>8, <2>1, <2>5, <3>1 DEF OnceRouted
    <3>2. CASE \E i, j \in 1 .. Len(b) : k = Len(s) + i /\ l = Len(s) + j
      BY <2>1, <2>4, <2>5, <3>2
    <3>3. CASE \E j \in 1 .. Len(b) : k \in 1 .. Len(s) /\ l = Len(s) + j
      BY <2>1, <2>3, <2>5, <3>3
    <3>4. CASE \E i \in 1 .. Len(b) : k = Len(s) + i /\ l \in 1 .. Len(s)
      BY <2>1, <2>3, <2>5, <3>4
    <3> QED
      BY <2>2, <3>1, <3>2, <3>3, <3>4
  <2> QED
    BY <2>5 DEF OnceRouted
<1> QED
  BY <1>2, <1>6, <1>7, <1>8 DEF r

-----------------------------------------------------------------------------
(***************************************************************************)
(* Types                                                                   *)
(***************************************************************************)

\* A set of numbers that is not empty has a smallest member.
LEMMA SmallestOf ==
  ASSUME NEW S, S \subseteq Nat, S # {}
  PROVE  \E x \in S : \A y \in S : x <= y
<1>1. PICK x \in S : \A y \in S : ~ (<<y, x>> \in OpToRel(<, Nat))
  BY NatLessThanWellFounded, WFMin
<1>2. \A y \in S : ~ (y < x)
  BY <1>1 DEF OpToRel
<1> QED
  BY <1>2

\* The table has a newest session unless it is empty: the one with the fewest
\* sessions after it.
LEMMA NewestInTable ==
  ASSUME TypeOK, table # {}
  PROVE  Newest \in table
<1> DEFINE After(x) == {y \in table : y > x}
           T == {Cardinality(After(x)) : x \in table}
<1>1. IsFiniteSet(table) /\ table \subseteq Nat
  <2>1. table \in SUBSET Procs
    BY DEF TypeOK
  <2>2. Procs \subseteq Nat
    BY HandoverAssumption
  <2> QED
    BY <2>1, <2>2, ProcsFinite, FS_Subset
<1>2. \A x \in table : IsFiniteSet(After(x)) /\ Cardinality(After(x)) \in Nat
  <2>1. \A x \in table : After(x) \in SUBSET table
    OBVIOUS
  <2> HIDE DEF After
  <2> QED
    BY <1>1, <2>1, FS_Subset, FS_CardinalityType
<1>3. T \subseteq Nat /\ T # {}
  BY <1>2
<1>4. PICK t \in T : \A u \in T : t <= u
  BY <1>3, SmallestOf
<1>5. PICK x \in table : t = Cardinality(After(x))
  BY <1>4
<1>6. \A z \in table : Cardinality(After(x)) <= Cardinality(After(z))
  BY <1>4, <1>5
<1>7. \A z \in table : z <= x
  <2> SUFFICES ASSUME NEW z \in table, z > x
               PROVE  FALSE
    BY <1>1
  <2>1. After(z) \in SUBSET After(x)
    <3>1. \A y \in table : y > z => y > x
      BY <1>1
    <3> QED
      BY <3>1
  <2>2. z \in After(x) /\ z \notin After(z)
    BY <1>1
  <2> HIDE DEF After
  <2>3. Cardinality(After(z)) <= Cardinality(After(x)) /\ Cardinality(After(z)) # Cardinality(After(x))
    BY <1>2, <2>1, <2>2, FS_Subset
  <2> QED
    BY <1>2, <1>6, <2>3
<1> QED
  BY <1>7 DEF Newest

\* What a mailbox holds is used as what it is.
LEMMA EntryTypes ==
  \A e \in Entry : /\ e.tag = "route" => e.m \in Messages
                   /\ e.tag \in {"exit", "call"} => e.p \in Procs
<1>1. \A m : Route(m).tag = "route" /\ Route(m).m = m
  BY DEF Route
<1>2. \A p : Exit(p).tag = "exit" /\ Exit(p).p = p
  BY DEF Exit
<1>3. \A e \in [tag : {"call"}, p : Procs, r : Nat] : e.tag = "call" /\ e.p \in Procs
  OBVIOUS
<1> QED
  BY <1>1, <1>2, <1>3 DEF Entry

\* What the conflict check needs, and what it drops.
LEMMA CheckTypesStep ==
  ASSUME TypeOK, [Next]_vars
  PROVE  CheckTypes'
<1>1. CheckTypes
  BY DEF TypeOK
<1>2. CASE UNCHANGED checkVars
  BY <1>1, <1>2 DEF CheckTypes, checkVars
<1>3. ASSUME NEW p \in Procs, NEW q \in Procs, HandleResumeCall(p, q)
      PROVE  CheckTypes'
  <2>1. /\ resumedFrom' = [resumedFrom EXCEPT ![q] = p] \/ resumedFrom' = resumedFrom
        /\ UNCHANGED <<origin, dropped>>
    BY <1>3 DEF HandleResumeCall
  <2> QED
    BY <1>1, <2>1 DEF CheckTypes, OrNone
<1>4. ASSUME NEW p \in Procs, HandleRoute(p)
      PROVE  CheckTypes'
  <2>1. mailbox[p] \in Seq(Entry) /\ mailbox[p] # <<>> /\ Head(mailbox[p]).tag = "route"
    BY <1>4 DEF HandleRoute, First, TypeOK
  <2>2. Head(mailbox[p]) \in Entry
    BY <2>1
  <2>3. Head(mailbox[p]).m \in Messages
    BY <2>1, <2>2, EntryTypes
  <2>4. /\ \/ dropped' = [dropped EXCEPT ![p] = dropped[p] \cup {Head(mailbox[p]).m}]
           \/ dropped' = dropped
        /\ UNCHANGED <<origin, resumedFrom>>
    BY <1>4 DEF HandleRoute
  <2> QED
    BY <1>1, <2>3, <2>4 DEF CheckTypes
<1>5. ASSUME NEW m \in Messages, SendMessage(m)
      PROVE  CheckTypes'
  BY <1>1, <1>5, SendersAssumption DEF SendMessage, CheckTypes, OrNone
<1>6. ASSUME NEW p \in Procs, Opening(p) \/ Calling(p) \/ Client(p) \/ Terminating(p)
      PROVE  UNCHANGED checkVars
  BY <1>6 DEF Opening, Connect, SetSession, ReplaceSessions, ResumeDone, Enable,
              Calling, ResumeRequest, CallFails, CallTimeout,
              Client, ClientAcks, SocketClosed, Stop,
              Terminating, CloseSession, UnregisterRead, UnregisterDelete,
              RerouteBuffer, BounceMessages, Die
<1>7. ASSUME NEW p \in Procs, (\E q \in Procs : RefuseResumeCall(p, q)) \/ HandleExit(p)
      PROVE  UNCHANGED checkVars
  BY <1>7 DEF RefuseResumeCall, HandleExit
<1>8. ASSUME NEW f \in flight, LookUp(f) \/ Arrive(f)
      PROVE  UNCHANGED checkVars
  BY <1>8 DEF LookUp, Arrive
<1>9. CASE UNCHANGED vars
  BY <1>2, <1>9 DEF vars
<1>10. ASSUME NEW p \in Procs, Handling(p)
       PROVE  CheckTypes'
  BY <1>2, <1>3, <1>4, <1>7, <1>10 DEF Handling
<1>11. CASE Router
  BY <1>2, <1>5, <1>8, <1>11 DEF Router
<1> QED
  BY <1>2, <1>6, <1>9, <1>10, <1>11 DEF Next

\* The types of a step of one process that leaves mailboxes, buffers and
\* messages alone.
LEMMA TypesLife ==
  ASSUME TypeOK, CheckTypes', NEW p \in Procs,
         \/ Connect(p) \/ SetSession(p) \/ ResumeDone(p) \/ Enable(p)
         \/ CallFails(p) \/ CallTimeout(p) \/ SocketClosed(p) \/ Stop(p)
         \/ CloseSession(p) \/ UnregisterRead(p) \/ UnregisterDelete(p) \/ Die(p)
  PROVE  TypeOK'
<1>1. pc' \in [Procs -> Stage]
  BY DEF TypeOK, Stage, Goto, Connect, SetSession, ResumeDone, Enable, CallFails,
         CallTimeout, SocketClosed, Stop, CloseSession, UnregisterRead,
         UnregisterDelete, Die
<1>2. /\ sm' \subseteq Procs /\ table' \subseteq Procs
      /\ previd' \in [Procs -> OrNone] /\ callee' \in [Procs -> OrNone]
      /\ ref' \in [Procs -> Nat]
      /\ timeouts' \in Nat /\ badHs' \in Nat /\ stops' \in Nat
  <2>1. sm' \subseteq Procs /\ table' \subseteq Procs
    BY DEF TypeOK, Connect, SetSession, ResumeDone, Enable, CallFails,
           CallTimeout, SocketClosed, Stop, CloseSession, UnregisterRead,
           UnregisterDelete, Die
  <2>2. previd' \in [Procs -> OrNone] /\ callee' \in [Procs -> OrNone]
    BY DEF TypeOK, OrNone, Connect, SetSession, ResumeDone, Enable, CallFails,
           CallTimeout, SocketClosed, Stop, CloseSession, UnregisterRead,
           UnregisterDelete, Die
  <2>3. ref' \in [Procs -> Nat]
    <3>1. ref' = ref \/ ref' = [ref EXCEPT ![p] = ref[p] + 1]
      BY DEF Connect, SetSession, ResumeDone, Enable, CallFails, CallTimeout,
             SocketClosed, Stop, CloseSession, UnregisterRead, UnregisterDelete, Die
    <3>2. ref \in [Procs -> Nat]
      BY DEF TypeOK
    <3> QED
      BY <3>1, <3>2
  <2>4. timeouts' \in Nat /\ badHs' \in Nat /\ stops' \in Nat
    BY DEF TypeOK, Connect, SetSession, ResumeDone, Enable, CallFails,
           CallTimeout, SocketClosed, Stop, CloseSession, UnregisterRead,
           UnregisterDelete, Die, bounds
  <2> QED
    BY <2>1, <2>2, <2>3, <2>4
<1>3. UNCHANGED <<buffer, peer, replacer, mailbox, msgVars>>
  BY DEF Connect, SetSession, ResumeDone, Enable, CallFails, CallTimeout,
         SocketClosed, Stop, CloseSession, UnregisterRead, UnregisterDelete, Die
<1>4. FoundSmid(p) \in OrNone
  BY DEF FoundSmid, TypeOK, OrNone
<1>5. found' \in [Procs -> OrNone]
  BY <1>4 DEF TypeOK, OrNone, Connect, SetSession, ResumeDone, Enable, CallFails,
         CallTimeout, SocketClosed, Stop, CloseSession, UnregisterRead,
         UnregisterDelete, Die
<1>6. bySmid' \in [Procs -> OrNone] /\ bySid' \in [Procs -> OrNone]
  <2>1. CASE ResumeDone(p)
    BY <2>1 DEF ResumeDone, RegisterSmid, TypeOK, OrNone
  <2>2. CASE Enable(p)
    BY <2>2 DEF Enable, RegisterSmid, TypeOK, OrNone
  <2>3. CASE UnregisterDelete(p)
    BY <2>3 DEF UnregisterDelete, DeleteSmid, TypeOK, OrNone, smidVars
  <2>4. CASE UNCHANGED smidVars
    BY <2>4 DEF TypeOK, smidVars
  <2> QED
    BY <2>1, <2>2, <2>3, <2>4 DEF Connect, SetSession, CallFails, CallTimeout,
         SocketClosed, Stop, CloseSession, UnregisterRead, Die
<1> QED
  BY <1>1, <1>2, <1>3, <1>5, <1>6 DEF TypeOK, msgVars

\* The types of the steps that read a mailbox or write to one.
LEMMA TypesMail ==
  ASSUME TypeOK, CheckTypes', NEW p \in Procs,
         \/ ReplaceSessions(p) \/ (\E s \in Procs : ResumeRequest(p, s))
         \/ (\E q \in Procs : HandleResumeCall(p, q) \/ RefuseResumeCall(p, q))
         \/ HandleRoute(p) \/ HandleExit(p) \/ ClientAcks(p)
  PROVE  TypeOK'
<1> USE DEF OrNone
<1>1. CASE ReplaceSessions(p)
  <2>1. mailbox' \in [Procs -> Seq(Entry)]
    <3>1. \A q \in Procs : Append(mailbox[q], Exit(p)) \in Seq(Entry)
      BY RouteEntries DEF TypeOK
    <3> QED
      BY <1>1, <3>1 DEF ReplaceSessions, TypeOK
  <2>2. pc' \in [Procs -> Stage]
    BY <1>1 DEF ReplaceSessions, Goto, TypeOK, Stage
  <2> QED
    BY <1>1, <2>1, <2>2 DEF ReplaceSessions, TypeOK, smidVars, msgVars, bounds
<1>2. CASE \E s \in Procs : ResumeRequest(p, s)
  <2> PICK s \in Procs : ResumeRequest(p, s)
    BY <1>2
  <2>1. bySmid[s] \in Procs
    BY DEF ResumeRequest, TypeOK
  <2>2. mailbox' \in [Procs -> Seq(Entry)]
    <3>1. Call(p, ref[p]) \in Entry
      BY DEF Call, Entry, TypeOK
    <3>2. Append(mailbox[bySmid[s]], Call(p, ref[p])) \in Seq(Entry)
      BY <2>1, <3>1 DEF TypeOK
    <3> QED
      BY <2>1, <3>2 DEF ResumeRequest, TypeOK
  <2>3. /\ pc' \in [Procs -> Stage] /\ previd' \in [Procs -> OrNone]
        /\ callee' \in [Procs -> OrNone]
    BY <2>1 DEF ResumeRequest, Goto, TypeOK, Stage
  <2> QED
    BY <2>2, <2>3 DEF ResumeRequest, TypeOK, smidVars, msgVars, bounds
<1>3. ASSUME NEW q \in Procs, HandleResumeCall(p, q)
      PROVE  TypeOK'
  <2>1. mailbox[p] \in Seq(Entry) /\ mailbox[p] # <<>> /\ buffer[p] \in Seq(Messages)
    BY <1>3 DEF HandleResumeCall, CallFrom, First, TypeOK
  <2>2. Tail(mailbox[p]) \in Seq(Entry)
    BY <2>1
  <2>3. Others(Tail(mailbox[p])) \in Seq(Entry) /\ Payloads(Tail(mailbox[p])) \in Seq(Messages)
    BY <2>2, OthersSeq, PayloadsSeq
  <2>4. PICK n \in 0 .. Len(buffer[p]) :
         /\ delivered' = delivered \cup Set(SubSeq(buffer[p], 1, n))
         /\ IF Awaited(p, q)
              THEN /\ pc' = [pc EXCEPT ![p] = "closing", ![q] = "got"]
                   /\ buffer' = [buffer EXCEPT ![p] = <<>>, ![q] = Passed(p, n)]
                   /\ sm' = sm \cup {q}
                   /\ callee' = [callee EXCEPT ![q] = None]
                   /\ UNCHANGED lost
              ELSE /\ Goto(p, "closing")
                   /\ buffer' = [buffer EXCEPT ![p] = <<>>]
                   /\ lost' = lost \cup Set(Passed(p, n))
                   /\ UNCHANGED <<sm, callee>>
    BY <1>3 DEF HandleResumeCall
  <2>5. /\ SubSeq(buffer[p], 1, n) \in Seq(Messages)
        /\ SubSeq(buffer[p], n + 1, Len(buffer[p])) \in Seq(Messages)
    BY <2>1
  <2>6. Passed(p, n) \in Seq(Messages)
    BY <2>3, <2>5, OnceConcat DEF Passed
  <2>7. Set(SubSeq(buffer[p], 1, n)) \subseteq Messages /\ Set(Passed(p, n)) \subseteq Messages
    BY <2>5, <2>6, ElementOfSeq DEF Set
  <2>8. delivered' \subseteq Messages /\ lost' \subseteq Messages
    BY <2>4, <2>7 DEF TypeOK
  <2>9. buffer' \in [Procs -> Seq(Messages)]
    <3>1. buffer \in [Procs -> Seq(Messages)] /\ <<>> \in Seq(Messages)
      BY DEF TypeOK
    <3>2. CASE Awaited(p, q)
      BY <2>4, <2>6, <3>1, <3>2
    <3>3. CASE ~ Awaited(p, q)
      BY <2>4, <3>1, <3>3
    <3> QED
      BY <3>2, <3>3
  <2>10. mailbox' \in [Procs -> Seq(Entry)]
    BY <1>3, <2>3 DEF HandleResumeCall, TypeOK
  <2>11. pc' \in [Procs -> Stage] /\ sm' \subseteq Procs /\ callee' \in [Procs -> OrNone]
    BY <2>4, ZenonT(30) DEF TypeOK, Stage, Goto
  <2>12. peer' \in [Procs -> OrNone]
    BY <1>3 DEF HandleResumeCall, TypeOK
  <2> QED
    BY <1>3, <2>8, <2>9, <2>10, <2>11, <2>12 DEF HandleResumeCall, TypeOK, smidVars, bounds
<1>4. ASSUME NEW q \in Procs, RefuseResumeCall(p, q)
      PROVE  TypeOK'
  <2>1. mailbox[p] \in Seq(Entry) /\ mailbox[p] # <<>>
    BY <1>4 DEF RefuseResumeCall, CallFrom, First, TypeOK
  <2>2. mailbox' \in [Procs -> Seq(Entry)]
    BY <1>4, <2>1 DEF RefuseResumeCall, Receive, TypeOK
  <2>3. pc' \in [Procs -> Stage] /\ badHs' \in Nat
    <3>1. /\ \/ pc' = [pc EXCEPT ![p] = "closing", ![q] = "dead"]
             \/ pc' = [pc EXCEPT ![p] = "closing"]
          /\ badHs' = badHs + 1
      BY <1>4 DEF RefuseResumeCall, Goto
    <3>2. pc \in [Procs -> Stage] /\ badHs \in Nat
      BY DEF TypeOK
    <3> QED
      BY <3>1, <3>2 DEF Stage
  <2> QED
    BY <1>4, <2>2, <2>3 DEF RefuseResumeCall, TypeOK, smidVars, msgVars
<1>5. CASE HandleRoute(p)
  <2>1. mailbox[p] \in Seq(Entry) /\ mailbox[p] # <<>> /\ Head(mailbox[p]).tag = "route"
    BY <1>5 DEF HandleRoute, First, TypeOK
  <2>2. Head(mailbox[p]).m \in Messages
    BY <2>1, EntryTypes
  <2>3. mailbox' \in [Procs -> Seq(Entry)]
    BY <1>5, <2>1 DEF HandleRoute, Receive, TypeOK
  <2>4. buffer' \in [Procs -> Seq(Messages)] /\ delivered' \subseteq Messages
    <3>1. /\ \/ buffer' = [buffer EXCEPT ![p] = Append(buffer[p], Head(mailbox[p]).m)]
             \/ buffer' = buffer
          /\ delivered' \subseteq delivered \cup {Head(mailbox[p]).m}
      BY <1>5 DEF HandleRoute
    <3>2. /\ buffer \in [Procs -> Seq(Messages)] /\ delivered \subseteq Messages
          /\ buffer[p] \in Seq(Messages)
      BY DEF TypeOK
    <3>3. Append(buffer[p], Head(mailbox[p]).m) \in Seq(Messages)
      BY <2>2, <3>2, AppendProperties
    <3> QED
      BY <2>2, <3>1, <3>2, <3>3
  <2> QED
    BY <1>5, <2>3, <2>4 DEF HandleRoute, TypeOK, smidVars, bounds
<1>6. CASE HandleExit(p)
  <2>1. mailbox[p] \in Seq(Entry) /\ mailbox[p] # <<>> /\ Head(mailbox[p]).tag = "exit"
    BY <1>6 DEF HandleExit, First, TypeOK
  <2>2. Head(mailbox[p]).p \in Procs
    BY <2>1, EntryTypes
  <2>3. mailbox' \in [Procs -> Seq(Entry)]
    BY <1>6, <2>1 DEF HandleExit, Receive, TypeOK
  <2>4. replacer' \in [Procs -> OrNone] /\ pc' \in [Procs -> Stage]
    BY <1>6, <2>2 DEF HandleExit, Goto, TypeOK, Stage
  <2> QED
    BY <1>6, <2>3, <2>4 DEF HandleExit, TypeOK, smidVars, msgVars, bounds
<1>7. CASE ClientAcks(p)
  <2>1. buffer[p] \in Seq(Messages) /\ buffer[p] # <<>>
    BY <1>7 DEF ClientAcks, TypeOK
  <2>2. Head(buffer[p]) \in Messages /\ Tail(buffer[p]) \in Seq(Messages)
    BY <2>1
  <2>3. buffer' \in [Procs -> Seq(Messages)] /\ delivered' \subseteq Messages
    BY <1>7, <2>2 DEF ClientAcks, TypeOK
  <2> QED
    BY <1>7, <2>3 DEF ClientAcks, TypeOK, smidVars, bounds
<1> QED
  BY <1>1, <1>2, <1>3, <1>4, <1>5, <1>6, <1>7

\* The types of terminate's last steps and of the router.
LEMMA TypesRoute ==
  ASSUME TypeOK, CheckTypes',
         \/ \E p \in Procs : RerouteBuffer(p) \/ BounceMessages(p)
         \/ Router
  PROVE  TypeOK'
<1> USE DEF OrNone
<1> DEFINE F == [m : Messages, to : OrNone, via : OrNone]
<1>1. ASSUME NEW p \in Procs, RerouteBuffer(p)
      PROVE  TypeOK'
  <2>1. /\ buffer[p] \in Seq(Messages) /\ Set(buffer[p]) \subseteq Messages
        /\ Heir(p) \in Procs \cup {None}
    BY ElementOfSeq DEF TypeOK, Set, Heir
  <2>2. flight' \subseteq F /\ lost' \subseteq Messages
    <3>1. {[m |-> m, to |-> None, via |-> p] : m \in Set(buffer[p])} \subseteq F
      BY <2>1
    <3> HIDE DEF F
    <3>2. /\ \/ flight' = flight \cup {[m |-> m, to |-> None, via |-> p] : m \in Set(buffer[p])}
             \/ flight' = flight
          /\ lost' = lost \cup Set(buffer[p]) \/ lost' = lost
      BY <1>1 DEF RerouteBuffer
    <3>3. flight \subseteq F /\ lost \subseteq Messages
      BY DEF TypeOK, F
    <3> QED
      BY <2>1, <3>1, <3>2, <3>3
  <2>3. mailbox' \in [Procs -> Seq(Entry)]
    <3>1. \A h \in Procs : mailbox[h] \o Routes(buffer[p]) \in Seq(Entry)
      BY <2>1, MailConcat DEF TypeOK
    <3>2. \/ mailbox' = mailbox
          \/ /\ Heir(p) # None
             /\ mailbox' = [mailbox EXCEPT ![Heir(p)] = mailbox[Heir(p)] \o Routes(buffer[p])]
      BY <1>1 DEF RerouteBuffer
    <3>3. mailbox \in [Procs -> Seq(Entry)]
      BY DEF TypeOK
    <3> QED
      BY <2>1, <3>1, <3>2, <3>3
  <2>4. pc' \in [Procs -> Stage] /\ buffer' \in [Procs -> Seq(Messages)]
    BY <1>1 DEF RerouteBuffer, Goto, TypeOK, Stage
  <2> QED
    BY <1>1, <2>2, <2>3, <2>4 DEF RerouteBuffer, TypeOK, smidVars, bounds
<1>2. ASSUME NEW p \in Procs, BounceMessages(p)
      PROVE  TypeOK'
  <2>1. Payloads(mailbox[p]) \in Seq(Messages)
    BY PayloadsSeq DEF TypeOK
  <2>2. Set(Payloads(mailbox[p])) \subseteq Messages
    BY <2>1, ElementOfSeq DEF Set
  <2>3. {[m |-> m, to |-> None, via |-> p] : m \in Set(Payloads(mailbox[p]))} \subseteq F
    BY <2>2
  <2>4. flight' \subseteq F
    <3> HIDE DEF F
    <3>1. flight \subseteq F
      BY DEF TypeOK, F
    <3> QED
      BY <1>2, <2>3, <3>1 DEF BounceMessages
  <2>5. mailbox' \in [Procs -> Seq(Entry)]
    BY <1>2 DEF BounceMessages, TypeOK
  <2> QED
    BY <1>2, <2>4, <2>5 DEF BounceMessages, TypeOK, stateVars, smidVars, bounds
<1>3. ASSUME NEW m \in Messages, SendMessage(m)
      PROVE  TypeOK'
  <2>1. flight' \subseteq F /\ sent' \subseteq Messages
    BY <1>3 DEF SendMessage, TypeOK
  <2> QED
    BY <1>3, <2>1 DEF SendMessage, TypeOK, stateVars, smidVars, bounds
<1>4. ASSUME NEW f \in flight, LookUp(f)
      PROVE  TypeOK'
  <2>1. f \in F
    BY DEF TypeOK
  <2>2. offline' \subseteq Messages
    BY <1>4, <2>1 DEF LookUp, TypeOK
  <2>3. flight' \subseteq F
    <3>1. CASE table = {}
      BY <1>4, <3>1 DEF LookUp, TypeOK
    <3>2. CASE table # {}
      <4>1. Newest \in Procs
        BY <3>2, NewestInTable DEF TypeOK
      <4>2. [f EXCEPT !.to = Newest] \in F
        BY <2>1, <4>1
      <4> QED
        BY <1>4, <3>2, <4>2 DEF LookUp, TypeOK
    <3> QED
      BY <3>1, <3>2
  <2> QED
    BY <1>4, <2>2, <2>3 DEF LookUp, TypeOK, stateVars, smidVars, bounds
<1>5. ASSUME NEW f \in flight, Arrive(f)
      PROVE  TypeOK'
  <2>1. f.m \in Messages /\ f.to \in Procs
    BY <1>5 DEF TypeOK, Arrive
  <2>2. flight' \subseteq F /\ lost' \subseteq Messages
    BY <1>5, <2>1 DEF Arrive, TypeOK
  <2>3. Append(mailbox[f.to], Route(f.m)) \in Seq(Entry)
    BY <2>1, RouteEntries DEF TypeOK
  <2>4. mailbox' \in [Procs -> Seq(Entry)]
    BY <1>5, <2>1, <2>3 DEF Arrive, TypeOK
  <2> QED
    BY <1>5, <2>2, <2>4 DEF Arrive, TypeOK, stateVars, smidVars, bounds
<1> QED
  BY <1>1, <1>2, <1>3, <1>4, <1>5 DEF Router

\* Every step keeps the types.
LEMMA TypesStep ==
  ASSUME TypeOK, [Next]_vars
  PROVE  TypeOK'
<1> CheckTypes'
  BY CheckTypesStep
<1>1. CASE UNCHANGED vars
  BY <1>1 DEF vars, stateVars, smidVars, msgVars, bounds, TypeOK
<1>2. ASSUME NEW p \in Procs, Opening(p) \/ Calling(p) \/ Handling(p) \/ Client(p) \/ Terminating(p)
      PROVE  TypeOK'
  BY <1>2, TypesLife, TypesMail, TypesRoute
     DEF Opening, Calling, Handling, Client, Terminating
<1>3. CASE Router
  BY <1>3, TypesRoute
<1> QED
  BY <1>1, <1>2, <1>3 DEF Next

\* The variables keep the types of the fields and tables they stand for, for any
\* number of processes and messages.
THEOREM HandoverTypes == Spec => []TypeOK
<1>1. Init => TypeOK
  BY DEF Init, TypeOK, CheckTypes, Stage, OrNone
<1>2. TypeOK /\ [Next]_vars => TypeOK'
  BY TypesStep
<1> QED
  BY <1>1, <1>2, PTL DEF Spec

-----------------------------------------------------------------------------
(***************************************************************************)
(* Messages move from box to box                                           *)
(***************************************************************************)
RouterBox == <<"flight", None>>
DeliveredBox == <<"delivered", None>>
OfflineBox == <<"offline", None>>
LostBox == <<"lost", None>>
BufferBox(p) == <<"buffer", p>>
MailBox(p) == <<"mailbox", p>>
DropBox(p) == <<"dropped", p>>

\* The boxes, and what is in them before and after a step.
LEMMA BoxContents ==
  /\ \A b : b \in Boxes <=>
       \/ b \in {RouterBox, DeliveredBox, OfflineBox, LostBox}
       \/ \E p \in Procs : b = BufferBox(p) \/ b = MailBox(p) \/ b = DropBox(p)
  /\ In(RouterBox) = {f.m : f \in flight} /\ In(DeliveredBox) = delivered
  /\ In(OfflineBox) = offline /\ In(LostBox) = lost
  /\ \A p \in Procs :
       /\ In(BufferBox(p)) = Set(buffer[p]) /\ In(MailBox(p)) = Msgs(mailbox[p])
       /\ In(DropBox(p)) = dropped[p]
  /\ In(RouterBox)' = {f.m : f \in flight'} /\ In(DeliveredBox)' = delivered'
  /\ In(OfflineBox)' = offline' /\ In(LostBox)' = lost'
  /\ \A p \in Procs :
       /\ In(BufferBox(p))' = Set(buffer'[p]) /\ In(MailBox(p))' = Msgs(mailbox'[p])
       /\ In(DropBox(p))' = dropped'[p]
<1> USE DEF RouterBox, DeliveredBox, OfflineBox, LostBox, BufferBox, MailBox, DropBox
<1>1. \A b : b \in Boxes <=>
       \/ b \in {RouterBox, DeliveredBox, OfflineBox, LostBox}
       \/ \E p \in Procs : b = BufferBox(p) \/ b = MailBox(p) \/ b = DropBox(p)
  BY DEF Boxes
<1>2. /\ In(RouterBox) = {f.m : f \in flight} /\ In(DeliveredBox) = delivered
      /\ In(OfflineBox) = offline /\ In(LostBox) = lost
  BY DEF In
<1>3. \A p \in Procs :
       /\ In(BufferBox(p)) = Set(buffer[p]) /\ In(MailBox(p)) = Msgs(mailbox[p])
       /\ In(DropBox(p)) = dropped[p]
  BY DEF In
<1>4. /\ In(RouterBox)' = {f.m : f \in flight'} /\ In(DeliveredBox)' = delivered'
      /\ In(OfflineBox)' = offline' /\ In(LostBox)' = lost'
  BY DEF In
<1>5. \A p \in Procs :
       /\ In(BufferBox(p))' = Set(buffer'[p]) /\ In(MailBox(p))' = Msgs(mailbox'[p])
       /\ In(DropBox(p))' = dropped'[p]
  BY DEF In, Set, Msgs
<1> QED
  BY <1>1, <1>2, <1>3, <1>4, <1>5

\* Different names are different boxes.
LEMMA BoxesDiffer ==
  /\ RouterBox # DeliveredBox /\ RouterBox # OfflineBox /\ RouterBox # LostBox
  /\ DeliveredBox # OfflineBox /\ DeliveredBox # LostBox /\ OfflineBox # LostBox
  /\ \A p : /\ BufferBox(p) \notin {RouterBox, DeliveredBox, OfflineBox, LostBox}
            /\ MailBox(p) \notin {RouterBox, DeliveredBox, OfflineBox, LostBox}
            /\ DropBox(p) \notin {RouterBox, DeliveredBox, OfflineBox, LostBox}
  /\ \A p, q : /\ BufferBox(p) # MailBox(q) /\ DropBox(p) # BufferBox(q)
               /\ DropBox(p) # MailBox(q)
               /\ BufferBox(p) = BufferBox(q) => p = q
               /\ MailBox(p) = MailBox(q) => p = q
               /\ DropBox(p) = DropBox(q) => p = q
BY DEF RouterBox, DeliveredBox, OfflineBox, LostBox, BufferBox, MailBox, DropBox

\* Nothing moves.
LEMMA SortedStays ==
  ASSUME Sorted, UNCHANGED <<buffer, flight, delivered, offline, lost, dropped, sent>>,
         \A q \in Procs : Msgs(mailbox'[q]) = Msgs(mailbox[q])
  PROVE  Sorted'
<1>1. \A b \in Boxes : In(b)' = In(b)
  <2> SUFFICES ASSUME NEW b \in Boxes
               PROVE  In(b)' = In(b)
    OBVIOUS
  <2>1. CASE b \in {RouterBox, DeliveredBox, OfflineBox, LostBox}
    BY <2>1, BoxContents
  <2>2. CASE \E p \in Procs : b = BufferBox(p) \/ b = MailBox(p) \/ b = DropBox(p)
    BY <2>2, BoxContents
  <2> QED
    BY <2>1, <2>2, BoxContents
<1> QED
  BY <1>1 DEF Sorted

\* Some messages go from one box to another.
LEMMA SortedMove ==
  ASSUME Sorted, sent' = sent,
         NEW a \in Boxes, NEW b \in Boxes, a # b, NEW M, M \subseteq In(a),
         In(a)' = In(a) \ M, In(b)' = In(b) \cup M,
         \A c \in Boxes : c # a /\ c # b => In(c)' = In(c)
  PROVE  Sorted'
<1>1. \A c, d \in Boxes : c # d => In(c)' \cap In(d)' = {}
  <2> SUFFICES ASSUME NEW c \in Boxes, NEW d \in Boxes, NEW m, m \in In(c)', m \in In(d)'
               PROVE  c = d
    OBVIOUS
  <2>1. CASE m \in M
    <3>1. \A e \in Boxes : e # a => m \notin In(e)
      BY <2>1 DEF Sorted
    <3>2. \A e \in Boxes : m \in In(e)' => e = b
      BY <2>1, <3>1
    <3> QED
      BY <3>2
  <2>2. CASE m \notin M
    <3>1. \A e \in Boxes : m \in In(e)' => m \in In(e)
      BY <2>2
    <3> QED
      BY <3>1 DEF Sorted
  <2> QED
    BY <2>1, <2>2
<1>2. \A c \in Boxes : In(c)' \subseteq sent
  BY DEF Sorted
<1>3. \A m \in sent : \E c \in Boxes : m \in In(c)'
  <2> SUFFICES ASSUME NEW m \in sent
               PROVE  \E c \in Boxes : m \in In(c)'
    OBVIOUS
  <2>1. PICK c \in Boxes : m \in In(c)
    BY DEF Sorted
  <2>2. CASE m \in M
    BY <2>2
  <2>3. CASE m \notin M
    BY <2>1, <2>3
  <2> QED
    BY <2>2, <2>3
<1> QED
  BY <1>1, <1>2, <1>3 DEF Sorted

\* A resume call takes what is in the buffer and the mailbox of a process: the
\* acknowledged part D is delivered, the rest goes to one other box.
LEMMA SortedHandover ==
  ASSUME Sorted, sent' = sent,
         NEW a \in Boxes, NEW b \in Boxes, NEW c \in Boxes, NEW d \in Boxes,
         a # b, a # c, a # d, b # c, b # d, c # d,
         NEW D, D \subseteq In(a),
         In(a)' = {}, In(b)' = {}, In(c)' = In(c) \cup D,
         In(d)' = In(d) \cup (In(a) \ D) \cup In(b),
         \A e \in Boxes : e \notin {a, b, c, d} => In(e)' = In(e)
  PROVE  Sorted'
<1>1. \A m : \A e \in Boxes : m \in In(e) =>
        LET n == IF m \in D THEN c ELSE IF m \in In(a) \cup In(b) THEN d ELSE e
        IN  \A x \in Boxes : m \in In(x)' <=> x = n
  <2> SUFFICES ASSUME NEW m, NEW e \in Boxes, m \in In(e)
               PROVE  LET n == IF m \in D THEN c ELSE IF m \in In(a) \cup In(b) THEN d ELSE e
                      IN  \A x \in Boxes : m \in In(x)' <=> x = n
    OBVIOUS
  <2>1. \A x \in Boxes : m \in In(x) <=> x = e
    BY DEF Sorted
  <2>2. CASE m \in D
    BY <2>1, <2>2
  <2>3. CASE m \notin D /\ m \in In(a) \cup In(b)
    BY <2>1, <2>3
  <2>4. CASE m \notin D /\ m \notin In(a) \cup In(b)
    BY <2>1, <2>4
  <2> QED
    BY <2>2, <2>3, <2>4
<1>2. \A x \in Boxes : \A m \in In(x)' : \E e \in Boxes : m \in In(e)
  <2> SUFFICES ASSUME NEW x \in Boxes, NEW m, m \in In(x)'
               PROVE  \E e \in Boxes : m \in In(e)
    OBVIOUS
  <2>1. m \in In(x) \/ m \in In(a) \/ m \in In(b)
    OBVIOUS
  <2> QED
    BY <2>1
<1>3. \A x, y \in Boxes : x # y => In(x)' \cap In(y)' = {}
  <2> SUFFICES ASSUME NEW x \in Boxes, NEW y \in Boxes, NEW m, m \in In(x)', m \in In(y)'
               PROVE  x = y
    OBVIOUS
  <2>1. PICK e \in Boxes : m \in In(e)
    BY <1>2
  <2> QED
    BY <1>1, <2>1
<1>4. \A x \in Boxes : In(x)' \subseteq sent
  BY <1>2 DEF Sorted
<1>5. \A m \in sent : \E x \in Boxes : m \in In(x)'
  BY <1>1 DEF Sorted
<1> QED
  BY <1>3, <1>4, <1>5 DEF Sorted

-----------------------------------------------------------------------------
(***************************************************************************)
(* The steps that move no message                                          *)
(***************************************************************************)
Ending == {"closing", "read", "delete", "reroute", "bounce", "dead"}

\* Nothing happens to the messages, and one process goes on.
LEMMA CopyLife ==
  ASSUME CopyInv, HandoverInv', TypeOK', NEW p \in Procs,
         \/ Connect(p) \/ SetSession(p) \/ ResumeDone(p) \/ Enable(p)
         \/ CallFails(p) \/ CallTimeout(p) \/ SocketClosed(p) \/ Stop(p)
         \/ CloseSession(p) \/ UnregisterRead(p) \/ UnregisterDelete(p) \/ Die(p)
  PROVE  CopyInv'
<1> DEFINE Goes(l) ==
      /\ pc' = [pc EXCEPT ![p] = l]
      /\ l \in {"down", "auth", "calling"} => Early(p) /\ table' = table
      /\ l = "bounce" => p \notin sm
      /\ l = "dead" => pc[p] = "bounce" /\ mailbox[p] = <<>>
      /\ pc[p] \in Ending => l \in Ending
      /\ table' \subseteq table \cup {p} /\ sm \subseteq sm'
<1>1. UNCHANGED <<buffer, peer, replacer, mailbox, sent, flight, delivered, offline, lost, dropped>>
  BY DEF Connect, SetSession, ResumeDone, Enable, CallFails, CallTimeout, SocketClosed,
         Stop, CloseSession, UnregisterRead, UnregisterDelete, Die, msgVars, checkVars
<1>2. PICK l : Goes(l)
  <2>1. CASE Connect(p)
    BY <2>1 DEF Connect, Goto, Early, Ending
  <2>2. CASE SetSession(p)
    BY <2>2 DEF SetSession, Goto, Early, Ending
  <2>3. CASE ResumeDone(p)
    BY <2>3 DEF ResumeDone, Goto, Early, Ending
  <2>4. CASE Enable(p)
    <3>1. pc' = [pc EXCEPT ![p] = "established"]
      BY <2>4 DEF Enable, CopyInv, TypeOK
    <3> QED
      BY <2>4, <3>1 DEF Enable, Early, Ending
  <2>5. CASE CallFails(p)
    BY <2>5 DEF CallFails, Goto, Early, Ending
  <2>6. CASE CallTimeout(p)
    BY <2>6 DEF CallTimeout, Goto, Early, Ending
  <2>7. CASE SocketClosed(p)
    BY <2>7 DEF SocketClosed, Goto, Early, Ending
  <2>8. CASE Stop(p)
    BY <2>8 DEF Stop, Goto, Early, Ending
  <2>9. CASE CloseSession(p)
    BY <2>9 DEF CloseSession, Goto, Early, Ending
  <2>10. CASE UnregisterRead(p)
    BY <2>10 DEF UnregisterRead, Goto, Early, Ending
  <2>11. CASE UnregisterDelete(p)
    BY <2>11 DEF UnregisterDelete, Goto, Early, Ending
  <2>12. CASE Die(p)
    BY <2>12 DEF Die, Goto, Early, Ending
  <2> QED
    BY <2>1, <2>2, <2>3, <2>4, <2>5, <2>6, <2>7, <2>8, <2>9, <2>10, <2>11, <2>12
<1>3. pc'[p] = l /\ \A q \in Procs : q # p => pc'[q] = pc[q]
  BY <1>2 DEF CopyInv, TypeOK
<1>4. \A q \in Procs : Early(q)' => Early(q) /\ (q \in table' => q \in table)
  BY <1>2, <1>3 DEF Early
<1>5. Sorted'
  BY <1>1, SortedStays DEF CopyInv
<1>6. Single'
  BY <1>1 DEF CopyInv, Single, Once, OnceRouted
<1>7. EarlyIsUnknown'
  BY <1>1, <1>4 DEF CopyInv, EarlyIsUnknown, Set
<1>8. Emptied'
  <2> SUFFICES ASSUME NEW q \in Procs
               PROVE  /\ q \notin sm' \/ pc'[q] \in {"bounce", "dead"} \/ peer'[q] # None
                           => buffer'[q] = <<>>
                      /\ peer'[q] # None => pc'[q] \in Ending
                      /\ Early(q)' \/ pc'[q] = "dead" => Msgs(mailbox'[q]) = {}
    BY DEF Emptied, Ending, Msgs, Set, Route
  <2>1. /\ q \notin sm \/ pc[q] \in {"bounce", "dead"} \/ peer[q] # None => buffer[q] = <<>>
        /\ peer[q] # None => pc[q] \in Ending
        /\ Early(q) \/ pc[q] = "dead" => Msgs(mailbox[q]) = {}
    BY DEF CopyInv, Emptied, Ending
  <2>2. pc'[q] \in {"bounce", "dead"} => pc[q] \in {"bounce", "dead"} \/ q \notin sm
    BY <1>2, <1>3
  <2>3. peer[q] # None => pc'[q] \in Ending
    BY <1>2, <1>3, <2>1
  <2>4. pc'[q] = "dead" => pc[q] = "dead" \/ mailbox[q] = <<>>
    BY <1>2, <1>3
  <2>5. mailbox[q] = <<>> => Msgs(mailbox[q]) = {}
    BY DEF Msgs, Set
  <2> QED
    BY <1>1, <1>2, <1>4, <2>1, <2>2, <2>3, <2>4, <2>5
<1> QED
  BY <1>5, <1>6, <1>7, <1>8 DEF CopyInv

\* Entries other than messages are sent and received, and processes go on.
LEMMA CopyMail ==
  ASSUME CopyInv, HandoverInv', TypeOK',
         UNCHANGED <<buffer, peer, sm, table, sent, flight, delivered, offline, lost, dropped>>,
         \A q \in Procs : Msgs(mailbox'[q]) = Msgs(mailbox[q]) /\ OnceRouted(mailbox'[q]),
         \A x \in Procs : Early(x)' =>
           /\ Early(x)
           /\ \A q \in Procs : replacer'[q] # x /\ Exit(x) \notin Set(mailbox'[q]),
         \A x \in Procs : /\ pc'[x] = "dead" => pc[x] = "dead" \/ Early(x)
                          /\ pc'[x] = "bounce" => pc[x] = "bounce"
                          /\ pc[x] \in Ending => pc'[x] \in Ending
  PROVE  CopyInv'
<1>1. Sorted'
  BY SortedStays DEF CopyInv
<1>2. Single'
  BY DEF CopyInv, Single, Once, OnceRouted
<1>3. EarlyIsUnknown'
  BY DEF CopyInv, EarlyIsUnknown, Set
<1>4. Emptied'
  <2> SUFFICES ASSUME NEW q \in Procs
               PROVE  /\ q \notin sm' \/ pc'[q] \in {"bounce", "dead"} \/ peer'[q] # None
                           => buffer'[q] = <<>>
                      /\ peer'[q] # None => pc'[q] \in Ending
                      /\ Early(q)' \/ pc'[q] = "dead" => Msgs(mailbox'[q]) = {}
    BY DEF Emptied, Ending, Msgs, Set, Route
  <2>1. /\ q \notin sm \/ pc[q] \in {"bounce", "dead"} \/ peer[q] # None => buffer[q] = <<>>
        /\ peer[q] # None => pc[q] \in Ending
        /\ Early(q) \/ pc[q] = "dead" => Msgs(mailbox[q]) = {}
    BY DEF CopyInv, Emptied, Ending
  <2>2. Early(q) => q \notin sm
    BY DEF CopyInv, HandoverInv, Stages, Early
  <2> QED
    BY <2>1, <2>2
<1> QED
  BY <1>1, <1>2, <1>3, <1>4 DEF CopyInv

\* Replacing others, asking for a stream, being refused, being replaced.
LEMMA CopyTold ==
  ASSUME CopyInv, HandoverInv', TypeOK', NEW p \in Procs,
         \/ ReplaceSessions(p) \/ (\E s \in Procs : ResumeRequest(p, s))
         \/ (\E q \in Procs : RefuseResumeCall(p, q))
         \/ HandleExit(p)
  PROVE  CopyInv'
<1>1. /\ mailbox \in [Procs -> Seq(Entry)] /\ pc \in [Procs -> Stage]
      /\ \A q \in Procs : OnceRouted(mailbox[q])
  BY DEF CopyInv, TypeOK, Single
<1>2. /\ \A x \in Procs : Early(x) => \A q \in Procs :
           replacer[q] # x /\ Exit(x) \notin Set(mailbox[q])
      /\ replacer \in [Procs -> OrNone]
  BY DEF CopyInv, EarlyIsUnknown, TypeOK
<1>3. CASE ReplaceSessions(p)
  <2>1. \A q \in Procs : mailbox'[q] = mailbox[q] \/ mailbox'[q] = Append(mailbox[q], Exit(p))
    BY <1>3 DEF ReplaceSessions
  <2>2. Exit(p) \in Entry /\ Exit(p).tag # "route"
    BY RouteEntries
  <2>3. \A q \in Procs : /\ Msgs(mailbox'[q]) = Msgs(mailbox[q]) /\ OnceRouted(mailbox'[q])
                         /\ Set(mailbox'[q]) \subseteq Set(mailbox[q]) \cup {Exit(p)}
    <3> SUFFICES ASSUME NEW q \in Procs
                 PROVE  /\ Msgs(mailbox'[q]) = Msgs(mailbox[q]) /\ OnceRouted(mailbox'[q])
                        /\ Set(mailbox'[q]) \subseteq Set(mailbox[q]) \cup {Exit(p)}
      OBVIOUS
    <3>1. mailbox[q] \in Seq(Entry) /\ OnceRouted(mailbox[q])
      BY <1>1
    <3>2. LET t == Append(mailbox[q], Exit(p)) IN
          /\ Msgs(t) = Msgs(mailbox[q]) /\ OnceRouted(t)
          /\ Set(t) = Set(mailbox[q]) \cup {Exit(p)}
      BY <2>2, <3>1, MailAppend
    <3> QED
      BY <2>1, <3>1, <3>2
  <2>4. /\ pc[p] = "set" /\ pc'[p] \in {"register", "established"}
        /\ \A q \in Procs : q # p => pc'[q] = pc[q]
    BY <1>1, <1>3 DEF ReplaceSessions, Goto
  <2>5. \A x \in Procs : Early(x)' => Early(x) /\ Exit(x) # Exit(p)
    BY <2>4, RouteEntries DEF Early
  <2>6. UNCHANGED <<buffer, peer, replacer, sm, table, sent, flight, delivered, offline, lost, dropped>>
    BY <1>3 DEF ReplaceSessions, msgVars, checkVars
  <2>7. \A x \in Procs : /\ pc'[x] = "dead" => pc[x] = "dead" \/ Early(x)
                         /\ pc'[x] = "bounce" => pc[x] = "bounce"
                         /\ pc[x] \in Ending => pc'[x] \in Ending
    BY <2>4 DEF Ending
  <2>8. \A x \in Procs : Early(x)' => Early(x) /\ \A q \in Procs :
          replacer'[q] # x /\ Exit(x) \notin Set(mailbox'[q])
    BY <1>2, <2>3, <2>5, <2>6
  <2> QED
    BY <2>3, <2>6, <2>7, <2>8, CopyMail
<1>4. CASE \E s \in Procs : ResumeRequest(p, s)
  <2> PICK s \in Procs : ResumeRequest(p, s)
    BY <1>4
  <2> DEFINE e == Call(p, ref[p])
  <2>1. \A q \in Procs : mailbox'[q] = mailbox[q] \/ mailbox'[q] = Append(mailbox[q], e)
    BY <1>1 DEF ResumeRequest
  <2>2. e \in Entry /\ e.tag = "call"
    BY DEF Call, Entry, CopyInv, TypeOK
  <2> HIDE DEF e
  <2>3. \A q \in Procs : /\ Msgs(mailbox'[q]) = Msgs(mailbox[q]) /\ OnceRouted(mailbox'[q])
                         /\ Set(mailbox'[q]) \subseteq Set(mailbox[q]) \cup {e}
    <3> SUFFICES ASSUME NEW q \in Procs
                 PROVE  /\ Msgs(mailbox'[q]) = Msgs(mailbox[q]) /\ OnceRouted(mailbox'[q])
                        /\ Set(mailbox'[q]) \subseteq Set(mailbox[q]) \cup {e}
      OBVIOUS
    <3>1. mailbox[q] \in Seq(Entry) /\ OnceRouted(mailbox[q])
      BY <1>1
    <3>2. LET t == Append(mailbox[q], e) IN
          /\ Msgs(t) = Msgs(mailbox[q]) /\ OnceRouted(t)
          /\ Set(t) = Set(mailbox[q]) \cup {e}
      BY <2>2, <3>1, MailAppend
    <3> QED
      BY <2>1, <3>1, <3>2
  <2>4. /\ pc[p] = "auth" /\ pc'[p] = "calling"
        /\ \A q \in Procs : q # p => pc'[q] = pc[q]
    BY <1>1 DEF ResumeRequest, Goto
  <2>5. \A x \in Procs : /\ Early(x)' => Early(x)
                         /\ Exit(x) # e
    BY <2>2, <2>4, RouteEntries DEF Early
  <2>6. UNCHANGED <<buffer, peer, replacer, sm, table, sent, flight, delivered, offline, lost, dropped>>
    BY DEF ResumeRequest, msgVars, checkVars
  <2>7. \A x \in Procs : /\ pc'[x] = "dead" => pc[x] = "dead" \/ Early(x)
                         /\ pc'[x] = "bounce" => pc[x] = "bounce"
                         /\ pc[x] \in Ending => pc'[x] \in Ending
    BY <2>4 DEF Ending
  <2>8. \A x \in Procs : Early(x)' => Early(x) /\ \A q \in Procs :
          replacer'[q] # x /\ Exit(x) \notin Set(mailbox'[q])
    BY <1>2, <2>3, <2>5, <2>6
  <2> QED
    BY <2>3, <2>6, <2>7, <2>8, CopyMail
<1>5. ASSUME NEW q \in Procs, RefuseResumeCall(p, q)
      PROVE  CopyInv'
  <2>1. mailbox[p] # <<>> /\ Head(mailbox[p]).tag # "route"
    BY <1>5 DEF RefuseResumeCall, CallFrom, First
  <2>2. mailbox'[p] = Tail(mailbox[p]) /\ \A x \in Procs : x # p => mailbox'[x] = mailbox[x]
    BY <1>1, <1>5 DEF RefuseResumeCall, Receive
  <2>3. \A x \in Procs : /\ Msgs(mailbox'[x]) = Msgs(mailbox[x]) /\ OnceRouted(mailbox'[x])
                         /\ Set(mailbox'[x]) \subseteq Set(mailbox[x])
    BY <1>1, <2>1, <2>2, MailTail
  <2>4. /\ pc[p] \in {"established", "detached"} /\ pc'[p] \in {"closing", "dead"}
        /\ pc'[p] = "dead" => Early(p)
        /\ \A x \in Procs : x # p => \/ pc'[x] = pc[x]
                                     \/ pc[x] = "calling" /\ pc'[x] = "dead"
    <3>1. pc[p] \in {"established", "detached"}
      BY <1>5 DEF RefuseResumeCall, CallFrom, Serving
    <3>2. CASE Awaited(p, q)
      <4>1. pc[q] = "calling" /\ pc' = [pc EXCEPT ![p] = "closing", ![q] = "dead"]
        BY <1>5, <3>2 DEF RefuseResumeCall, Awaited
      <4> QED
        BY <1>1, <3>1, <4>1
    <3>3. CASE ~ Awaited(p, q)
      BY <1>1, <1>5, <3>1, <3>3 DEF RefuseResumeCall, Goto
    <3> QED
      BY <3>2, <3>3
  <2>5. UNCHANGED <<buffer, peer, replacer, sm, table, sent, flight, delivered, offline, lost, dropped>>
    BY <1>5 DEF RefuseResumeCall, msgVars, checkVars
  <2>6. \A x \in Procs : /\ pc'[x] = "dead" => pc[x] = "dead" \/ Early(x)
                         /\ pc'[x] = "bounce" => pc[x] = "bounce"
                         /\ pc[x] \in Ending => pc'[x] \in Ending
    BY <2>4 DEF Ending, Early
  <2>7. \A x \in Procs : Early(x)' => Early(x)
    BY <2>4 DEF Early
  <2>8. \A x \in Procs : Early(x)' => Early(x) /\ \A y \in Procs :
          replacer'[y] # x /\ Exit(x) \notin Set(mailbox'[y])
    BY <1>2, <2>3, <2>5, <2>7
  <2> QED
    BY <2>3, <2>5, <2>6, <2>8, CopyMail
<1>6. CASE HandleExit(p)
  <2> DEFINE h == Head(mailbox[p])
  <2>1. mailbox[p] # <<>> /\ h.tag = "exit"
    BY <1>6 DEF HandleExit, First
  <2>2. mailbox'[p] = Tail(mailbox[p]) /\ \A x \in Procs : x # p => mailbox'[x] = mailbox[x]
    BY <1>1, <1>6 DEF HandleExit, Receive
  <2>3. \A x \in Procs : /\ Msgs(mailbox'[x]) = Msgs(mailbox[x]) /\ OnceRouted(mailbox'[x])
                         /\ Set(mailbox'[x]) \subseteq Set(mailbox[x])
    BY <1>1, <2>1, <2>2, MailTail
  <2>4. h \in Entry /\ h \in Set(mailbox[p])
    BY <1>1, <2>1, MailTail
  <2>5. replacer' = [replacer EXCEPT ![p] = h.p]
    BY <1>6 DEF HandleExit
  <2> HIDE DEF h
  <2>6. h.p \in Procs /\ h = Exit(h.p)
    <3>1. \A e \in [tag : {"call"}, p : Procs, r : Nat] : e.tag = "call"
      OBVIOUS
    <3> QED
      BY <2>1, <2>4, <3>1, RouteEntries DEF Entry
  <2>7. /\ pc[p] \in {"established", "detached"} /\ pc'[p] = "closing"
        /\ \A x \in Procs : x # p => pc'[x] = pc[x]
    BY <1>1, <1>6 DEF HandleExit, Goto, Serving
  <2>8. UNCHANGED <<buffer, peer, sm, table, sent, flight, delivered, offline, lost, dropped>>
    BY <1>6 DEF HandleExit, msgVars, checkVars
  <2>9. \A x \in Procs : /\ pc'[x] = "dead" => pc[x] = "dead" \/ Early(x)
                         /\ pc'[x] = "bounce" => pc[x] = "bounce"
                         /\ pc[x] \in Ending => pc'[x] \in Ending
    BY <2>7 DEF Ending, Early
  <2>10. \A x \in Procs : Early(x)' => Early(x)
    BY <2>7 DEF Early
  <2>11. \A x \in Procs : Early(x) => h.p # x
    BY <1>2, <2>4, <2>6
  <2>12. \A x \in Procs : Early(x)' => Early(x) /\ \A y \in Procs :
          replacer'[y] # x /\ Exit(x) \notin Set(mailbox'[y])
    BY <1>2, <2>3, <2>5, <2>10, <2>11
  <2> QED
    BY <2>3, <2>8, <2>9, <2>12, CopyMail
<1> QED
  BY <1>3, <1>4, <1>5, <1>6

-----------------------------------------------------------------------------
(***************************************************************************)
(* The steps that move messages                                            *)
(***************************************************************************)

\* A box that a step leaves alone has the same messages.
LEMMA BoxSame ==
  ASSUME NEW c \in Boxes,
         c = RouterBox => flight' = flight, c = DeliveredBox => delivered' = delivered,
         c = OfflineBox => offline' = offline, c = LostBox => lost' = lost,
         \A q \in Procs : c = BufferBox(q) => buffer'[q] = buffer[q],
         \A q \in Procs : c = MailBox(q) => mailbox'[q] = mailbox[q],
         \A q \in Procs : c = DropBox(q) => dropped'[q] = dropped[q]
  PROVE  In(c)' = In(c)
<1>1. CASE c \in {RouterBox, DeliveredBox, OfflineBox, LostBox}
  BY <1>1, BoxContents
<1>2. CASE \E q \in Procs : c = BufferBox(q) \/ c = MailBox(q) \/ c = DropBox(q)
  BY <1>2, BoxContents
<1> QED
  BY <1>1, <1>2, BoxContents

\* A message is in one box only.
LEMMA InOneBox ==
  ASSUME Sorted, NEW a \in Boxes, NEW b \in Boxes, a # b
  PROVE  In(a) \cap In(b) = {}
BY DEF Sorted

\* What a step that moves messages and no process has to keep.
LEMMA CopyMoved ==
  ASSUME CopyInv, HandoverInv', TypeOK', Sorted', Single',
         UNCHANGED <<pc, sm, peer, replacer, table>>,
         \A x \in Procs : Early(x) => \A f \in flight' : f.to # x,
         \A x \in Procs : Early(x) \/ pc[x] = "dead"
           => Msgs(mailbox'[x]) \subseteq Msgs(mailbox[x]),
         \A x, q \in Procs : Exit(x) \in Set(mailbox'[q]) => Exit(x) \in Set(mailbox[q]),
         \A x \in Procs : x \notin sm \/ pc[x] \in {"bounce", "dead"} \/ peer[x] # None
           => buffer'[x] = <<>>
  PROVE  CopyInv'
<1>1. EarlyIsUnknown'
  <2> SUFFICES ASSUME NEW x \in Procs, Early(x)
               PROVE  /\ x \notin table' /\ \A f \in flight' : f.to # x
                      /\ \A q \in Procs : replacer'[q] # x /\ Exit(x) \notin Set(mailbox'[q])
    BY DEF EarlyIsUnknown, Early, Set, Exit
  <2> QED
    BY DEF CopyInv, EarlyIsUnknown
<1>2. Emptied'
  <2> SUFFICES ASSUME NEW q \in Procs
               PROVE  /\ q \notin sm \/ pc[q] \in {"bounce", "dead"} \/ peer[q] # None
                           => buffer'[q] = <<>>
                      /\ peer[q] # None => pc[q] \in Ending
                      /\ Early(q) \/ pc[q] = "dead" => Msgs(mailbox'[q]) = {}
    BY DEF Emptied, Ending, Msgs, Set, Route, Early
  <2> QED
    BY DEF CopyInv, Emptied, Ending
<1> QED
  BY <1>1, <1>2 DEF CopyInv

\* A message is handled: it goes to the buffer or to the client, or is dropped.
LEMMA CopyHandleRoute ==
  ASSUME CopyInv, HandoverInv', TypeOK', NEW p \in Procs, HandleRoute(p)
  PROVE  CopyInv'
<1> DEFINE s == mailbox[p]
           m == Head(mailbox[p]).m
<1>1. /\ s \in Seq(Entry) /\ s # <<>> /\ Head(s).tag = "route" /\ OnceRouted(s)
      /\ buffer[p] \in Seq(Messages) /\ Once(buffer[p])
      /\ mailbox \in [Procs -> Seq(Entry)] /\ buffer \in [Procs -> Seq(Messages)]
  BY DEF HandleRoute, First, CopyInv, TypeOK, Single
<1>2. /\ Tail(s) \in Seq(Entry) /\ OnceRouted(Tail(s)) /\ Set(Tail(s)) \subseteq Set(s)
      /\ m \in Msgs(s) /\ Msgs(Tail(s)) = Msgs(s) \ {m}
  BY <1>1, MailTail
<1>3. m \in Messages
  BY <1>2 DEF Msgs
<1>4. mailbox'[p] = Tail(s) /\ \A q \in Procs : q # p => mailbox'[q] = mailbox[q]
  BY <1>1 DEF HandleRoute, Receive
<1>5. UNCHANGED <<pc, sm, peer, replacer, table, sent, flight, offline, lost>>
  BY DEF HandleRoute
<1>6. pc[p] \in {"established", "detached"}
  BY DEF HandleRoute, Serving
<1> DEFINE Drop == /\ dropped' = [dropped EXCEPT ![p] = dropped[p] \cup {m}]
                   /\ UNCHANGED <<buffer, delivered>>
           Buffered == /\ p \in sm /\ buffer' = [buffer EXCEPT ![p] = Append(buffer[p], m)]
                       /\ UNCHANGED <<dropped, delivered>>
           Written == /\ p \notin sm /\ delivered' = delivered \cup {m}
                      /\ UNCHANGED <<dropped, buffer>>
<1>7. Drop \/ Buffered \/ Written
  BY DEF HandleRoute
<1>16. dropped \in [Procs -> SUBSET Messages]
  BY DEF CopyInv, TypeOK, CheckTypes
<1> HIDE DEF s, m
<1>8. /\ MailBox(p) \in Boxes /\ BufferBox(p) \in Boxes /\ DeliveredBox \in Boxes
      /\ DropBox(p) \in Boxes
  BY BoxContents
<1>9. m \notin Set(buffer[p])
  BY <1>2, <1>8, BoxContents, BoxesDiffer, InOneBox DEF CopyInv, s
<1>10. /\ Append(buffer[p], m) \in Seq(Messages) /\ Once(Append(buffer[p], m))
       /\ Set(Append(buffer[p], m)) = Set(buffer[p]) \cup {m}
  BY <1>1, <1>3, <1>9, OnceAppend
<1>11. Sorted'
  <2>1. In(MailBox(p))' = In(MailBox(p)) \ {m} /\ {m} \subseteq In(MailBox(p))
    BY <1>2, <1>4, BoxContents DEF s
  <2>2. CASE Buffered
    <3>1. In(BufferBox(p))' = In(BufferBox(p)) \cup {m}
      BY <1>1, <1>10, <2>2, BoxContents
    <3>2. \A c \in Boxes : c # MailBox(p) /\ c # BufferBox(p) => In(c)' = In(c)
      BY <1>1, <1>4, <1>5, <2>2, BoxSame
    <3>3. Sorted /\ sent' = sent /\ MailBox(p) # BufferBox(p)
      BY <1>5, BoxesDiffer DEF CopyInv
    <3> QED
      BY <1>8, <2>1, <3>1, <3>2, <3>3, SortedMove
  <2>3. CASE Written
    <3>1. In(DeliveredBox)' = In(DeliveredBox) \cup {m}
      BY <2>3, BoxContents
    <3>2. \A c \in Boxes : c # MailBox(p) /\ c # DeliveredBox => In(c)' = In(c)
      BY <1>4, <1>5, <2>3, BoxSame
    <3> QED
      BY <1>5, <1>8, <2>1, <3>1, <3>2, BoxesDiffer, SortedMove DEF CopyInv
  <2>4. CASE Drop
    <3>1. In(DropBox(p))' = In(DropBox(p)) \cup {m}
      BY <1>16, <2>4, BoxContents
    <3>2. \A q \in Procs : DropBox(q) # DropBox(p) => dropped'[q] = dropped[q]
      BY <1>16, <2>4
    <3>3. \A c \in Boxes : c # MailBox(p) /\ c # DropBox(p) => In(c)' = In(c)
      BY <1>4, <1>5, <2>4, <3>2, BoxSame
    <3>4. Sorted /\ sent' = sent /\ MailBox(p) # DropBox(p)
      BY <1>5, BoxesDiffer DEF CopyInv
    <3> QED
      BY <1>8, <2>1, <3>1, <3>3, <3>4, SortedMove
  <2> QED
    BY <1>7, <2>2, <2>3, <2>4
<1>12. Single'
  <2>1. \A q \in Procs : Once(buffer'[q])
    BY <1>1, <1>7, <1>10 DEF CopyInv, Single
  <2>2. \A q \in Procs : OnceRouted(mailbox'[q])
    BY <1>2, <1>4 DEF CopyInv, Single
  <2> QED
    BY <1>5, <2>1, <2>2 DEF CopyInv, Single, Once, OnceRouted
<1>13. \A x \in Procs : x \notin sm \/ pc[x] \in {"bounce", "dead"} \/ peer[x] # None
         => buffer'[x] = <<>>
  <2>1. peer[p] = None
    BY <1>6 DEF CopyInv, Emptied
  <2>2. \A x \in Procs : x # p => buffer'[x] = buffer[x]
    BY <1>1, <1>7
  <2>3. p \notin sm => buffer'[p] = buffer[p]
    BY <1>7
  <2> QED
    BY <1>6, <2>1, <2>2, <2>3 DEF CopyInv, Emptied
<1>14. \A q \in Procs : Set(mailbox'[q]) \subseteq Set(mailbox[q]) /\ Msgs(mailbox'[q]) \subseteq Msgs(mailbox[q])
  BY <1>2, <1>4 DEF s
<1>15. \A x \in Procs : Early(x) => \A f \in flight' : f.to # x
  BY <1>5 DEF CopyInv, EarlyIsUnknown
<1> QED
  BY <1>5, <1>11, <1>12, <1>13, <1>14, <1>15, CopyMoved

\* An acknowledgement takes the first message of the buffer.
LEMMA CopyClientAcks ==
  ASSUME CopyInv, HandoverInv', TypeOK', NEW p \in Procs, ClientAcks(p)
  PROVE  CopyInv'
<1> DEFINE m == Head(buffer[p])
<1>1. /\ buffer[p] \in Seq(Messages) /\ Once(buffer[p]) /\ buffer[p] # <<>>
      /\ buffer \in [Procs -> Seq(Messages)]
  BY DEF ClientAcks, CopyInv, TypeOK, Single
<1>2. /\ Once(Tail(buffer[p])) /\ m \in Set(buffer[p])
      /\ Set(Tail(buffer[p])) = Set(buffer[p]) \ {m}
  BY <1>1, OnceTail
<1>3. /\ buffer'[p] = Tail(buffer[p]) /\ \A q \in Procs : q # p => buffer'[q] = buffer[q]
      /\ delivered' = delivered \cup {m}
      /\ UNCHANGED <<pc, sm, peer, replacer, table, mailbox, sent, flight, offline, lost, dropped>>
  BY <1>1 DEF ClientAcks, checkVars
<1> HIDE DEF m
<1>4. BufferBox(p) \in Boxes /\ DeliveredBox \in Boxes
  BY BoxContents
<1>5. Sorted'
  <2>1. /\ In(BufferBox(p))' = In(BufferBox(p)) \ {m} /\ {m} \subseteq In(BufferBox(p))
        /\ In(DeliveredBox)' = In(DeliveredBox) \cup {m}
    BY <1>2, <1>3, BoxContents
  <2>2. \A c \in Boxes : c # BufferBox(p) /\ c # DeliveredBox => In(c)' = In(c)
    BY <1>3, BoxSame
  <2> QED
    BY <1>3, <1>4, <2>1, <2>2, BoxesDiffer, SortedMove DEF CopyInv
<1>6. Single'
  <2>1. \A q \in Procs : Once(buffer'[q])
    BY <1>2, <1>3 DEF CopyInv, Single
  <2> QED
    BY <1>3, <2>1 DEF CopyInv, Single, Once, OnceRouted
<1>7. \A x \in Procs : x \notin sm \/ pc[x] \in {"bounce", "dead"} \/ peer[x] # None
         => buffer'[x] = <<>>
  BY <1>1, <1>3 DEF CopyInv, Emptied
<1>8. \A x \in Procs : Early(x) => \A f \in flight' : f.to # x
  BY <1>3 DEF CopyInv, EarlyIsUnknown
<1> QED
  BY <1>3, <1>5, <1>6, <1>7, <1>8, CopyMoved

\* terminate gives the buffer to the heir or to the router.
LEMMA CopyReroute ==
  ASSUME CopyInv, HandoverInv', TypeOK', NEW p \in Procs, RerouteBuffer(p)
  PROVE  CopyInv'
<1> DEFINE M == Set(buffer[p])
           N == {[m |-> m, to |-> None, via |-> p] : m \in M}
           h == Heir(p)
<1>1. /\ buffer[p] \in Seq(Messages) /\ Once(buffer[p]) /\ M \subseteq Messages
      /\ buffer \in [Procs -> Seq(Messages)] /\ mailbox \in [Procs -> Seq(Entry)]
      /\ pc \in [Procs -> Stage] /\ pc[p] = "reroute" /\ h \in OrNone
      /\ Sorted
  BY ElementOfSeq DEF RerouteBuffer, CopyInv, TypeOK, Single, Set, Heir
<1>2. /\ pc'[p] = "bounce" /\ \A q \in Procs : q # p => pc'[q] = pc[q]
      /\ buffer'[p] = <<>> /\ \A q \in Procs : q # p => buffer'[q] = buffer[q]
      /\ UNCHANGED <<sm, peer, replacer, table, sent, delivered, offline, dropped>>
  BY <1>1 DEF RerouteBuffer, Goto, checkVars
<1>3. /\ p \in Procs /\ BufferBox(p) \in Boxes
      /\ RouterBox \in Boxes /\ LostBox \in Boxes /\ \A q \in Procs : MailBox(q) \in Boxes
  BY BoxContents
<1>4. \/ h = None /\ flight' = flight \cup N /\ UNCHANGED <<mailbox, lost>>
      \/ /\ h \in Procs /\ Live(h) /\ UNCHANGED <<flight, lost>>
         /\ mailbox' = [mailbox EXCEPT ![h] = mailbox[h] \o Routes(buffer[p])]
      \/ lost' = lost \cup M /\ UNCHANGED <<mailbox, flight>>
  BY <1>1 DEF RerouteBuffer, OrNone
<1>5. In(BufferBox(p)) = M /\ In(BufferBox(p))' = In(BufferBox(p)) \ M
  <2>1. Set(<<>>) = {}
    BY DEF Set
  <2> QED
    BY <1>2, <2>1, BoxContents
<1>6. {f.m : f \in N} = M /\ \A f \in N : f.to = None /\ f.m \in M
  <2>1. \A f \in N : f.to = None /\ f.m \in M
    OBVIOUS
  <2>2. ASSUME NEW m \in M
        PROVE  \E f \in N : f.m = m
    <3>1. [m |-> m, to |-> None, via |-> p] \in N /\ [m |-> m, to |-> None, via |-> p].m = m
      OBVIOUS
    <3> QED
      BY <3>1
  <2> HIDE DEF M, N
  <2> QED
    BY <2>1, <2>2
<1>7. \A q \in Procs : Once(buffer'[q])
  <2>1. Once(<<>>)
    BY DEF Once
  <2> QED
    BY <1>2, <2>1 DEF CopyInv, Single
<1>8. \A x \in Procs : Early(x)' => Early(x)
  BY <1>2 DEF Early
\* The three ways.
<1>9. ASSUME h = None, flight' = flight \cup N, UNCHANGED <<mailbox, lost>>
      PROVE  /\ Sorted' /\ Single'
             /\ \A x \in Procs : Early(x) => \A f \in flight' : f.to # x
  <2>1. In(RouterBox)' = In(RouterBox) \cup M
    BY <1>6, <1>9, BoxContents
  <2>2. \A c \in Boxes : c # BufferBox(p) /\ c # RouterBox => In(c)' = In(c)
    BY <1>2, <1>9, BoxSame
  <2>3. BufferBox(p) # RouterBox
    BY BoxesDiffer
  <2>4. Sorted'
    BY <1>1, <1>2, <1>3, <1>5, <2>1, <2>2, <2>3, SortedMove
  <2>5. M \cap {f.m : f \in flight} = {}
    BY <1>1, <1>3, <1>5, <2>3, BoxContents, InOneBox
  <2>6. \A f, g \in flight' : f.m = g.m => f = g
    <3>1. \A f, g \in N : f.m = g.m => f = g
      OBVIOUS
    <3>2. \A f \in flight : f.m \notin M
      BY <2>5
    <3>3. \A f, g \in flight : f.m = g.m => f = g
      BY DEF CopyInv, Single
    <3> HIDE DEF N
    <3> QED
      BY <1>6, <1>9, <3>1, <3>2, <3>3
  <2>7. Single'
    BY <1>7, <1>9, <2>6 DEF CopyInv, Single, Once, OnceRouted
  <2>8. \A x \in Procs : x # None
    BY HandoverAssumption
  <2>9. \A x \in Procs : Early(x) => \A f \in flight' : f.to # x
    <3> HIDE DEF N
    <3> QED
      BY <1>6, <1>9, <2>8 DEF CopyInv, EarlyIsUnknown
  <2> QED
    BY <2>4, <2>7, <2>9
<1>10. ASSUME NEW g \in Procs, g = h, Live(g), UNCHANGED <<flight, lost>>,
              mailbox' = [mailbox EXCEPT ![g] = mailbox[g] \o Routes(buffer[p])]
       PROVE  /\ Sorted' /\ Single'
              /\ \A q, x \in Procs : Exit(x) \in Set(mailbox'[q]) => Exit(x) \in Set(mailbox[q])
              /\ Early(g) \/ pc[g] = "dead" => Msgs(mailbox'[g]) = Msgs(mailbox[g])
              /\ \A q \in Procs : q # g => mailbox'[q] = mailbox[q]
  <2> DEFINE t == mailbox[g] \o Routes(buffer[p])
  <2>1. /\ mailbox[g] \in Seq(Entry) /\ OnceRouted(mailbox[g])
        /\ mailbox'[g] = t /\ \A q \in Procs : q # g => mailbox'[q] = mailbox[q]
    BY <1>1, <1>10 DEF CopyInv, Single
  <2>2. MailBox(g) \in Boxes /\ BufferBox(p) # MailBox(g)
    BY <1>3, <1>10, BoxesDiffer
  <2>3. Msgs(mailbox[g]) \cap M = {}
    BY <1>1, <1>3, <1>5, <1>10, <2>2, BoxContents, InOneBox
  <2>4. /\ Msgs(t) = Msgs(mailbox[g]) \cup M /\ OnceRouted(t)
        /\ \A x \in Procs : Exit(x) \in Set(t) => Exit(x) \in Set(mailbox[g])
    BY <1>1, <2>1, <2>3, MailConcat
  <2> HIDE DEF t
  <2>5. In(MailBox(g))' = In(MailBox(g)) \cup M
    BY <1>10, <2>1, <2>4, BoxContents
  <2>6. \A c \in Boxes : c # BufferBox(p) /\ c # MailBox(g) => In(c)' = In(c)
    BY <1>2, <1>10, <2>1, BoxSame
  <2>7. Sorted'
    BY <1>1, <1>2, <1>3, <1>5, <2>2, <2>5, <2>6, SortedMove, ZenonT(30)
  <2>8. Single'
    <3>1. \A q \in Procs : OnceRouted(mailbox'[q])
      BY <2>1, <2>4 DEF CopyInv, Single
    <3> QED
      BY <1>7, <1>10, <3>1 DEF CopyInv, Single, Once, OnceRouted
  <2>9. Early(g) \/ pc[g] = "dead" => M = {}
    <3>1. pc[g] # "dead"
      BY <1>10 DEF Live
    <3>2. CASE peer[p] # None
      <4>1. buffer[p] = <<>>
        BY <3>2 DEF CopyInv, Emptied
      <4> QED
        BY <4>1 DEF Set
    <3>3. CASE peer[p] = None
      <4>1. g = replacer[p]
        BY <1>10, <3>3 DEF Heir
      <4>2. ~ Early(g)
        BY <1>10, <4>1 DEF CopyInv, EarlyIsUnknown
      <4> QED
        BY <3>1, <4>2
    <3> QED
      BY <3>2, <3>3
  <2> QED
    BY <2>1, <2>4, <2>7, <2>8, <2>9
<1>11. ASSUME lost' = lost \cup M, UNCHANGED <<mailbox, flight>>
       PROVE  Sorted' /\ Single'
  <2>1. In(LostBox)' = In(LostBox) \cup M
    BY <1>11, BoxContents
  <2>2. \A c \in Boxes : c # BufferBox(p) /\ c # LostBox => In(c)' = In(c)
    BY <1>2, <1>11, BoxSame
  <2>3. BufferBox(p) # LostBox
    BY BoxesDiffer
  <2>4. Sorted'
    BY <1>1, <1>2, <1>3, <1>5, <2>1, <2>2, <2>3, SortedMove
  <2>5. Single'
    BY <1>7, <1>11 DEF CopyInv, Single, Once, OnceRouted
  <2> QED
    BY <2>4, <2>5
<1> HIDE DEF M, N, h
<1>12. Sorted' /\ Single'
  BY <1>4, <1>9, <1>10, <1>11
<1>13. \A x \in Procs : Early(x) => \A f \in flight' : f.to # x
  BY <1>4, <1>9 DEF CopyInv, EarlyIsUnknown
<1>14. \A q, x \in Procs : Exit(x) \in Set(mailbox'[q]) => Exit(x) \in Set(mailbox[q])
  BY <1>4, <1>10
<1>15. \A x \in Procs : Early(x) \/ pc[x] = "dead" => Msgs(mailbox'[x]) = Msgs(mailbox[x])
  BY <1>4, <1>10
<1>16. EarlyIsUnknown'
  <2> SUFFICES ASSUME NEW x \in Procs, Early(x)'
               PROVE  /\ x \notin table' /\ \A f \in flight' : f.to # x
                      /\ \A q \in Procs : replacer'[q] # x /\ Exit(x) \notin Set(mailbox'[q])
    BY DEF EarlyIsUnknown, Set, Exit
  <2> QED
    BY <1>2, <1>8, <1>13, <1>14 DEF CopyInv, EarlyIsUnknown
<1>17. Emptied'
  <2> SUFFICES ASSUME NEW q \in Procs
               PROVE  /\ q \notin sm' \/ pc'[q] \in {"bounce", "dead"} \/ peer'[q] # None
                           => buffer'[q] = <<>>
                      /\ peer'[q] # None => pc'[q] \in Ending
                      /\ Early(q)' \/ pc'[q] = "dead" => Msgs(mailbox'[q]) = {}
    BY DEF Emptied, Ending, Msgs, Set, Route
  <2>1. /\ q \notin sm \/ pc[q] \in {"bounce", "dead"} \/ peer[q] # None => buffer[q] = <<>>
        /\ peer[q] # None => pc[q] \in Ending
        /\ Early(q) \/ pc[q] = "dead" => Msgs(mailbox[q]) = {}
    BY DEF CopyInv, Emptied, Ending
  <2>2. pc'[q] = "dead" => pc[q] = "dead"
    BY <1>2
  <2>3. pc[q] \in Ending => pc'[q] \in Ending
    BY <1>2 DEF Ending
  <2> QED
    BY <1>2, <1>8, <1>15, <2>1, <2>2, <2>3
<1> QED
  BY <1>12, <1>16, <1>17 DEF CopyInv

\* bounce_messages gives the messages of the mailbox to the router.
LEMMA CopyBounce ==
  ASSUME CopyInv, HandoverInv', TypeOK', NEW p \in Procs, BounceMessages(p)
  PROVE  CopyInv'
<1> DEFINE M == Msgs(mailbox[p])
           N == {[m |-> m, to |-> None, via |-> p] : m \in M}
<1>1. /\ mailbox \in [Procs -> Seq(Entry)] /\ mailbox[p] \in Seq(Entry) /\ Sorted
  BY DEF CopyInv, TypeOK
<1>2. Set(Payloads(mailbox[p])) = M
  BY <1>1, PayloadsSeq
<1>3. /\ flight' = flight \cup N
      /\ mailbox'[p] = <<>> /\ \A q \in Procs : q # p => mailbox'[q] = mailbox[q]
      /\ UNCHANGED <<pc, sm, peer, replacer, table, buffer, sent, delivered, offline, lost, dropped>>
  BY <1>1, <1>2 DEF BounceMessages, stateVars, checkVars
<1>4. {f.m : f \in N} = M /\ \A f \in N : f.to = None /\ f.m \in M
  <2>1. \A f \in N : f.to = None /\ f.m \in M
    OBVIOUS
  <2>2. ASSUME NEW m \in M
        PROVE  \E f \in N : f.m = m
    <3>1. [m |-> m, to |-> None, via |-> p] \in N /\ [m |-> m, to |-> None, via |-> p].m = m
      OBVIOUS
    <3> QED
      BY <3>1
  <2> HIDE DEF M, N
  <2> QED
    BY <2>1, <2>2
<1>5. \A f, g \in N : f.m = g.m => f = g
  OBVIOUS
<1>6. Set(<<>>) = {} /\ Msgs(<<>>) = {} /\ OnceRouted(<<>>)
  BY DEF Set, Msgs, OnceRouted
<1> HIDE DEF N
<1>7. MailBox(p) \in Boxes /\ RouterBox \in Boxes /\ MailBox(p) # RouterBox
  BY BoxContents, BoxesDiffer
<1>8. In(MailBox(p)) = M /\ In(MailBox(p))' = In(MailBox(p)) \ M
  BY <1>3, <1>6, BoxContents
<1>9. In(RouterBox)' = In(RouterBox) \cup M
  BY <1>3, <1>4, BoxContents
<1>10. \A c \in Boxes : c # MailBox(p) /\ c # RouterBox => In(c)' = In(c)
  BY <1>3, BoxSame
<1>11. Sorted'
  BY <1>1, <1>3, <1>7, <1>8, <1>9, <1>10, SortedMove
<1>12. \A f \in flight : f.m \notin M
  BY <1>1, <1>7, <1>8, BoxContents, InOneBox
<1> HIDE DEF M
<1>13. Single'
  <2>1. \A f, g \in flight' : f.m = g.m => f = g
    BY <1>3, <1>4, <1>5, <1>12 DEF CopyInv, Single
  <2>2. \A q \in Procs : OnceRouted(mailbox'[q])
    BY <1>3, <1>6 DEF CopyInv, Single
  <2> QED
    BY <1>3, <2>1, <2>2 DEF CopyInv, Single, Once, OnceRouted
<1>14. \A x \in Procs : Early(x) => \A f \in flight' : f.to # x
  <2>1. \A x \in Procs : x # None
    BY HandoverAssumption
  <2> QED
    BY <1>3, <1>4, <2>1 DEF CopyInv, EarlyIsUnknown
<1>15. \A q \in Procs : /\ Set(mailbox'[q]) \subseteq Set(mailbox[q])
                        /\ Msgs(mailbox'[q]) \subseteq Msgs(mailbox[q])
  BY <1>3, <1>6
<1>16. \A x \in Procs : x \notin sm \/ pc[x] \in {"bounce", "dead"} \/ peer[x] # None
         => buffer'[x] = <<>>
  BY <1>3 DEF CopyInv, Emptied
<1> QED
  BY <1>3, <1>11, <1>13, <1>14, <1>15, <1>16, CopyMoved

\* A new message enters the router.
LEMMA CopySend ==
  ASSUME CopyInv, HandoverInv', TypeOK', NEW m \in Messages, SendMessage(m)
  PROVE  CopyInv'
<1> DEFINE n == [m |-> m, to |-> None, via |-> None]
<1>1. /\ m \notin sent /\ sent' = sent \cup {m} /\ flight' = flight \cup {n}
      /\ UNCHANGED <<pc, sm, peer, replacer, table, mailbox, buffer, delivered, offline, lost, dropped>>
  BY DEF SendMessage, stateVars
<1>2. n.m = m /\ n.to = None
  OBVIOUS
<1> HIDE DEF n
<1>3. RouterBox \in Boxes /\ In(RouterBox)' = In(RouterBox) \cup {m}
  BY <1>1, <1>2, BoxContents
<1>4. \A c \in Boxes : c # RouterBox => In(c)' = In(c)
  BY <1>1, BoxSame
<1>5. \A c \in Boxes : m \notin In(c)
  BY <1>1 DEF CopyInv, Sorted
<1>6. Sorted'
  <2>1. \A b, c \in Boxes : b # c => In(b)' \cap In(c)' = {}
    <3> SUFFICES ASSUME NEW b \in Boxes, NEW c \in Boxes, NEW k, k \in In(b)', k \in In(c)'
                 PROVE  b = c
      OBVIOUS
    <3>1. CASE k = m
      BY <1>3, <1>4, <1>5, <3>1
    <3>2. CASE k # m
      <4>1. k \in In(b) /\ k \in In(c)
        BY <1>3, <1>4, <3>2
      <4> QED
        BY <4>1 DEF CopyInv, Sorted
    <3> QED
      BY <3>1, <3>2
  <2>2. \A b \in Boxes : In(b)' \subseteq sent'
    BY <1>1, <1>3, <1>4 DEF CopyInv, Sorted
  <2>3. \A k \in sent' : \E b \in Boxes : k \in In(b)'
    BY <1>1, <1>3, <1>4 DEF CopyInv, Sorted
  <2> QED
    BY <2>1, <2>2, <2>3 DEF Sorted
<1>7. \A f \in flight : f.m # m
  BY <1>3, <1>5, BoxContents
<1>8. Single'
  <2>1. \A f, g \in flight' : f.m = g.m => f = g
    BY <1>1, <1>2, <1>7 DEF CopyInv, Single
  <2> QED
    BY <1>1, <2>1 DEF CopyInv, Single, Once, OnceRouted
<1>9. \A x \in Procs : Early(x) => \A f \in flight' : f.to # x
  <2>1. \A x \in Procs : x # None
    BY HandoverAssumption
  <2> QED
    BY <1>1, <1>2, <2>1 DEF CopyInv, EarlyIsUnknown
<1>10. \A x \in Procs : x \notin sm \/ pc[x] \in {"bounce", "dead"} \/ peer[x] # None
         => buffer'[x] = <<>>
  BY <1>1 DEF CopyInv, Emptied
<1> QED
  BY <1>1, <1>6, <1>8, <1>9, <1>10, CopyMoved

\* The router finds the newest session, or stores the message.
LEMMA CopyLookUp ==
  ASSUME CopyInv, HandoverInv', TypeOK', NEW f \in flight, LookUp(f)
  PROVE  CopyInv'
<1>1. f \in [m : Messages, to : OrNone, via : OrNone] /\ Sorted /\ TypeOK
  BY DEF CopyInv, TypeOK
<1>2. UNCHANGED <<pc, sm, peer, replacer, table, mailbox, buffer, sent, delivered, lost, dropped>>
  BY DEF LookUp, stateVars, checkVars
<1>3. RouterBox \in Boxes /\ OfflineBox \in Boxes /\ RouterBox # OfflineBox
  BY BoxContents, BoxesDiffer
<1>4. \A x \in Procs : x \notin sm \/ pc[x] \in {"bounce", "dead"} \/ peer[x] # None
         => buffer'[x] = <<>>
  BY <1>2 DEF CopyInv, Emptied
<1>5. \A g, h \in flight : g.m = h.m => g = h
  BY DEF CopyInv, Single
<1>6. CASE table = {}
  <2>1. offline' = offline \cup {f.m} /\ flight' = flight \ {f}
    BY <1>6 DEF LookUp
  <2>2. /\ In(RouterBox)' = In(RouterBox) \ {f.m} /\ {f.m} \subseteq In(RouterBox)
        /\ In(OfflineBox)' = In(OfflineBox) \cup {f.m}
    BY <1>5, <2>1, BoxContents
  <2>3. \A c \in Boxes : c # RouterBox /\ c # OfflineBox => In(c)' = In(c)
    BY <1>2, BoxSame
  <2>4. Sorted'
    BY <1>1, <1>2, <1>3, <2>2, <2>3, SortedMove
  <2>5. Single'
    BY <1>2, <1>5, <2>1 DEF CopyInv, Single, Once, OnceRouted
  <2>6. \A x \in Procs : Early(x) => \A g \in flight' : g.to # x
    BY <2>1 DEF CopyInv, EarlyIsUnknown
  <2> QED
    BY <1>2, <1>4, <2>4, <2>5, <2>6, CopyMoved
<1>7. CASE table # {}
  <2> DEFINE n == [f EXCEPT !.to = Newest]
  <2>1. flight' = (flight \ {f}) \cup {n} /\ offline' = offline
    BY <1>7 DEF LookUp
  <2>2. Newest \in table
    BY <1>1, <1>7, NewestInTable
  <2>3. n.m = f.m /\ n.to = Newest
    BY <1>1
  <2> HIDE DEF n
  <2>4. {g.m : g \in flight'} = {g.m : g \in flight}
    BY <2>1, <2>3
  <2>5. \A c \in Boxes : In(c)' = In(c)
    <3>1. In(RouterBox)' = In(RouterBox)
      BY <2>4, BoxContents
    <3>2. \A c \in Boxes : c # RouterBox => In(c)' = In(c)
      BY <1>2, <2>1, BoxSame
    <3> QED
      BY <3>1, <3>2
  <2>6. Sorted'
    BY <1>1, <1>2, <2>5 DEF Sorted
  <2>7. Single'
    <3>1. \A g, h \in flight' : g.m = h.m => g = h
      BY <1>5, <2>1, <2>3
    <3> QED
      BY <1>2, <3>1 DEF CopyInv, Single, Once, OnceRouted
  <2>8. \A x \in Procs : Early(x) => \A g \in flight' : g.to # x
    BY <2>1, <2>2, <2>3 DEF CopyInv, EarlyIsUnknown
  <2> QED
    BY <1>2, <1>4, <2>6, <2>7, <2>8, CopyMoved
<1> QED
  BY <1>6, <1>7

\* A routed message reaches a mailbox, or a dead process.
LEMMA CopyArrive ==
  ASSUME CopyInv, HandoverInv', TypeOK', NEW f \in flight, Arrive(f)
  PROVE  CopyInv'
<1>1. /\ f.m \in Messages /\ f.to \in Procs /\ flight' = flight \ {f} /\ Sorted
      /\ mailbox \in [Procs -> Seq(Entry)]
  BY DEF CopyInv, TypeOK, Arrive, OrNone
<1>2. UNCHANGED <<pc, sm, peer, replacer, table, buffer, sent, delivered, offline, dropped>>
  BY DEF Arrive, stateVars, checkVars
<1>3. PICK g \in Procs, m \in Messages : g = f.to /\ m = f.m
  BY <1>1
<1>4. RouterBox \in Boxes /\ LostBox \in Boxes /\ MailBox(g) \in Boxes
      /\ RouterBox # LostBox /\ RouterBox # MailBox(g)
  BY BoxContents, BoxesDiffer
<1>5. \A x \in Procs : x \notin sm \/ pc[x] \in {"bounce", "dead"} \/ peer[x] # None
         => buffer'[x] = <<>>
  BY <1>2 DEF CopyInv, Emptied
<1>6. \A h, k \in flight : h.m = k.m => h = k
  BY DEF CopyInv, Single
<1>7. In(RouterBox)' = In(RouterBox) \ {m} /\ {m} \subseteq In(RouterBox)
  BY <1>1, <1>3, <1>6, BoxContents
<1>8. \A x \in Procs : Early(x) => \A h \in flight' : h.to # x
  BY <1>1 DEF CopyInv, EarlyIsUnknown
<1>9. CASE Live(g)
  <2> DEFINE t == Append(mailbox[g], Route(m))
  <2>1. mailbox' = [mailbox EXCEPT ![g] = t] /\ lost' = lost
    BY <1>3, <1>9 DEF Arrive
  <2>2. mailbox'[g] = t /\ \A q \in Procs : q # g => mailbox'[q] = mailbox[q]
    BY <1>1, <2>1
  <2>3. m \notin Msgs(mailbox[g])
    BY <1>1, <1>4, <1>7, BoxContents, InOneBox
  <2>4. mailbox[g] \in Seq(Entry) /\ OnceRouted(mailbox[g]) /\ Route(m) \in Entry
    BY <1>1, RouteEntries DEF CopyInv, Single
  <2>5. /\ Msgs(t) = Msgs(mailbox[g]) \cup {m} /\ OnceRouted(t)
        /\ Set(t) = Set(mailbox[g]) \cup {Route(m)}
    BY <2>3, <2>4, MailAppend
  <2> HIDE DEF t
  <2>6. In(MailBox(g))' = In(MailBox(g)) \cup {m}
    BY <2>2, <2>5, BoxContents
  <2>7. \A c \in Boxes : c # RouterBox /\ c # MailBox(g) => In(c)' = In(c)
    BY <1>2, <2>1, <2>2, BoxSame
  <2>8. Sorted'
    BY <1>1, <1>2, <1>4, <1>7, <2>6, <2>7, SortedMove, ZenonT(30)
  <2>9. Single'
    <3>1. \A q \in Procs : OnceRouted(mailbox'[q])
      BY <2>2, <2>5 DEF CopyInv, Single
    <3> QED
      BY <1>1, <1>2, <1>6, <3>1 DEF CopyInv, Single, Once, OnceRouted
  <2>10. ~ Early(g) /\ pc[g] # "dead"
    BY <1>3, <1>9 DEF CopyInv, EarlyIsUnknown, Live
  <2>11. \A x \in Procs : Early(x) \/ pc[x] = "dead"
           => Msgs(mailbox'[x]) \subseteq Msgs(mailbox[x])
    BY <2>2, <2>10
  <2>12. \A x, q \in Procs : Exit(x) \in Set(mailbox'[q]) => Exit(x) \in Set(mailbox[q])
    <3>1. \A x \in Procs : Exit(x) # Route(m)
      BY RouteEntries
    <3> QED
      BY <2>2, <2>5, <3>1
  <2> QED
    BY <1>2, <1>5, <1>8, <2>8, <2>9, <2>11, <2>12, CopyMoved
<1>10. CASE ~ Live(g)
  <2>1. lost' = lost \cup {m} /\ mailbox' = mailbox
    BY <1>3, <1>10 DEF Arrive
  <2>2. In(LostBox)' = In(LostBox) \cup {m}
    BY <2>1, BoxContents
  <2>3. \A c \in Boxes : c # RouterBox /\ c # LostBox => In(c)' = In(c)
    BY <1>2, <2>1, BoxSame
  <2>4. Sorted'
    BY <1>1, <1>2, <1>4, <1>7, <2>2, <2>3, SortedMove
  <2>5. Single'
    BY <1>1, <1>2, <1>6, <2>1 DEF CopyInv, Single, Once, OnceRouted
  <2> QED
    BY <1>2, <1>5, <1>8, <2>1, <2>4, <2>5, CopyMoved
<1> QED
  BY <1>9, <1>10

\* A resume call: the acknowledged part of the buffer is delivered, the rest and
\* the messages of the mailbox go to the caller, or are lost with the reply.
LEMMA CopyResumed ==
  ASSUME CopyInv, HandoverInv', TypeOK', NEW q \in Procs, NEW p \in Procs,
         HandleResumeCall(q, p)
  PROVE  CopyInv'
<1> DEFINE t == Tail(mailbox[q])
           rest == Others(t)
<1>1. /\ mailbox \in [Procs -> Seq(Entry)] /\ buffer \in [Procs -> Seq(Messages)]
      /\ pc \in [Procs -> Stage] /\ peer \in [Procs -> OrNone]
      /\ buffer[q] \in Seq(Messages) /\ Once(buffer[q]) /\ Sorted
  BY DEF CopyInv, TypeOK, Single
<1>2. /\ mailbox[q] \in Seq(Entry) /\ mailbox[q] # <<>> /\ OnceRouted(mailbox[q])
      /\ Head(mailbox[q]).tag # "route" /\ pc[q] \in {"established", "detached"}
  BY <1>1 DEF HandleResumeCall, CallFrom, First, Serving, CopyInv, Single
<1>3. /\ t \in Seq(Entry) /\ OnceRouted(t) /\ Msgs(t) = Msgs(mailbox[q])
      /\ Set(t) \subseteq Set(mailbox[q])
  BY <1>2, MailTail
<1> HIDE DEF t
<1>4. /\ Payloads(t) \in Seq(Messages) /\ Once(Payloads(t))
      /\ Set(Payloads(t)) = Msgs(mailbox[q])
      /\ Set(rest) \subseteq Set(mailbox[q]) /\ Msgs(rest) = {} /\ OnceRouted(rest)
  <2>1. Payloads(t) \in Seq(Messages) /\ Set(Payloads(t)) = Msgs(t) /\ Once(Payloads(t))
    BY <1>3, PayloadsSeq
  <2>2. Set(rest) \subseteq Set(t) /\ Msgs(rest) = {} /\ OnceRouted(rest)
    BY <1>3, OthersSeq
  <2> QED
    BY <1>3, <2>1, <2>2
<1>5. PICK n \in 0 .. Len(buffer[q]) :
       /\ delivered' = delivered \cup Set(SubSeq(buffer[q], 1, n))
       /\ IF Awaited(q, p)
            THEN /\ pc' = [pc EXCEPT ![q] = "closing", ![p] = "got"]
                 /\ buffer' = [buffer EXCEPT ![q] = <<>>, ![p] = Passed(q, n)]
                 /\ sm' = sm \cup {p}
                 /\ UNCHANGED lost
            ELSE /\ pc' = [pc EXCEPT ![q] = "closing"]
                 /\ buffer' = [buffer EXCEPT ![q] = <<>>]
                 /\ lost' = lost \cup Set(Passed(q, n))
                 /\ sm' = sm
  BY DEF HandleResumeCall, Goto
<1> DEFINE a == SubSeq(buffer[q], 1, n)
           b == SubSeq(buffer[q], n + 1, Len(buffer[q]))
<1>6. /\ mailbox'[q] = rest /\ \A x \in Procs : x # q => mailbox'[x] = mailbox[x]
      /\ peer'[q] = p /\ \A x \in Procs : x # q => peer'[x] = peer[x]
      /\ UNCHANGED <<replacer, table, sent, flight, offline, dropped>>
  BY <1>1 DEF HandleResumeCall, t
<1>7. /\ b \in Seq(Messages) /\ Once(b) /\ Set(a) \subseteq Set(buffer[q])
      /\ Set(b) = Set(buffer[q]) \ Set(a)
  <2>1. b \in Seq(Messages) /\ Once(b) /\ Set(a) \cup Set(b) = Set(buffer[q])
        /\ Set(a) \cap Set(b) = {}
    BY <1>1, OnceCut
  <2> HIDE DEF a, b
  <2> QED
    BY <2>1
<1>8. Passed(q, n) = b \o Payloads(t)
  BY DEF Passed, t
<1> HIDE DEF a, b, rest
<1>9. /\ BufferBox(q) \in Boxes /\ MailBox(q) \in Boxes /\ DeliveredBox \in Boxes
      /\ LostBox \in Boxes /\ BufferBox(p) \in Boxes
      /\ In(BufferBox(q)) = Set(buffer[q]) /\ In(MailBox(q)) = Msgs(mailbox[q])
      /\ In(BufferBox(p)) = Set(buffer[p]) /\ In(LostBox) = lost
  BY BoxContents
<1>10. Set(b) \cap Msgs(mailbox[q]) = {}
  <2>1. Set(buffer[q]) \cap Msgs(mailbox[q]) = {}
    BY <1>1, <1>9, BoxesDiffer, InOneBox
  <2> QED
    BY <1>7, <2>1
<1>11. /\ Once(Passed(q, n))
       /\ Set(Passed(q, n)) = (Set(buffer[q]) \ Set(a)) \cup Msgs(mailbox[q])
  BY <1>4, <1>7, <1>8, <1>10, OnceConcat
<1>12. Set(<<>>) = {} /\ Once(<<>>)
  BY DEF Set, Once
<1>13. /\ In(MailBox(q))' = {} /\ In(DeliveredBox)' = In(DeliveredBox) \cup Set(a)
  BY <1>4, <1>5, <1>6, BoxContents DEF a
<1>14. Awaited(q, p) => pc[p] = "calling" /\ p # q /\ buffer[p] = <<>> /\ peer[p] = None
  <2>1. Awaited(q, p) => pc[p] = "calling"
    BY DEF Awaited
  <2>2. pc[p] = "calling" => p \notin sm /\ p # q
    BY <1>2 DEF CopyInv, HandoverInv, Stages
  <2> QED
    BY <2>1, <2>2 DEF CopyInv, Emptied
<1>15. /\ buffer'[q] = <<>> /\ In(BufferBox(q))' = {} /\ pc'[q] = "closing"
       /\ \A x \in Procs : x # q /\ x # p => buffer'[x] = buffer[x] /\ pc'[x] = pc[x]
  <2>1. buffer'[q] = <<>> /\ pc'[q] = "closing"
        /\ \A x \in Procs : x # q /\ x # p => buffer'[x] = buffer[x] /\ pc'[x] = pc[x]
    BY <1>1, <1>5, <1>14
  <2> QED
    BY <1>12, <2>1, BoxContents
<1> DEFINE Kept ==
      /\ Sorted' /\ Single' /\ \A x \in Procs : Early(x)' => Early(x)
      /\ \A x \in Procs :
           /\ x \notin sm' \/ pc'[x] \in {"bounce", "dead"} \/ peer'[x] # None
                => buffer'[x] = <<>>
           /\ peer'[x] # None => pc'[x] \in Ending
           /\ pc'[x] = "dead" => pc[x] = "dead"
<1>16. ASSUME Awaited(q, p)
       PROVE  Kept
  <2>1. /\ p # q /\ buffer'[p] = Passed(q, n) /\ pc'[p] = "got"
        /\ sm' = sm \cup {p} /\ lost' = lost /\ buffer[p] = <<>>
        /\ pc[p] = "calling" /\ peer[p] = None
    BY <1>1, <1>5, <1>14, <1>16
  <2>2. In(BufferBox(p))' = In(BufferBox(p)) \cup (In(BufferBox(q)) \ Set(a)) \cup In(MailBox(q))
    BY <1>9, <1>11, <1>12, <2>1, BoxContents
  <2>3. \A c \in Boxes : c \notin {BufferBox(q), MailBox(q), DeliveredBox, BufferBox(p)}
          => In(c)' = In(c)
    BY <1>6, <1>15, <2>1, BoxSame
  <2>4. /\ BufferBox(q) # MailBox(q) /\ BufferBox(q) # DeliveredBox /\ BufferBox(q) # BufferBox(p)
        /\ MailBox(q) # DeliveredBox /\ MailBox(q) # BufferBox(p) /\ DeliveredBox # BufferBox(p)
    BY <2>1, BoxesDiffer
  <2>5. Set(a) \subseteq In(BufferBox(q)) /\ sent' = sent
    BY <1>6, <1>7, <1>9
  <2>6. Sorted'
    BY <1>1, <1>9, <1>13, <1>15, <2>2, <2>3, <2>4, <2>5, SortedHandover, ZenonT(30)
  <2>7. Single'
    <3>1. \A x \in Procs : Once(buffer'[x])
      BY <1>11, <1>12, <1>15, <2>1 DEF CopyInv, Single
    <3>2. \A x \in Procs : OnceRouted(mailbox'[x])
      BY <1>4, <1>6 DEF CopyInv, Single
    <3> QED
      BY <1>6, <3>1, <3>2 DEF CopyInv, Single, Once, OnceRouted
  <2>8. \A x \in Procs : Early(x)' => Early(x)
    BY <1>15, <2>1 DEF Early
  <2>9. \A x \in Procs : /\ x \notin sm' \/ pc'[x] \in {"bounce", "dead"} \/ peer'[x] # None
                              => buffer'[x] = <<>>
                         /\ peer'[x] # None => pc'[x] \in Ending
                         /\ pc'[x] = "dead" => pc[x] = "dead"
    <3> SUFFICES ASSUME NEW x \in Procs
                 PROVE  /\ x \notin sm' \/ pc'[x] \in {"bounce", "dead"} \/ peer'[x] # None
                             => buffer'[x] = <<>>
                        /\ peer'[x] # None => pc'[x] \in Ending
                        /\ pc'[x] = "dead" => pc[x] = "dead"
      OBVIOUS
    <3>1. CASE x = p
      BY <1>6, <2>1, <3>1
    <3>2. CASE x = q
      BY <1>15, <3>2 DEF Ending
    <3>3. CASE x # p /\ x # q
      BY <1>6, <1>15, <2>1, <3>3 DEF CopyInv, Emptied, Ending
    <3> QED
      BY <3>1, <3>2, <3>3
  <2> QED
    BY <2>6, <2>7, <2>8, <2>9
<1>17. ASSUME ~ Awaited(q, p)
       PROVE  Kept
  <2>1. /\ \A x \in Procs : x # q => buffer'[x] = buffer[x] /\ pc'[x] = pc[x]
        /\ sm' = sm /\ lost' = lost \cup Set(Passed(q, n))
    BY <1>1, <1>5, <1>17
  <2>2. In(LostBox)' = In(LostBox) \cup (In(BufferBox(q)) \ Set(a)) \cup In(MailBox(q))
    BY <1>9, <1>11, <2>1, BoxContents
  <2>3. \A c \in Boxes : c \notin {BufferBox(q), MailBox(q), DeliveredBox, LostBox}
          => In(c)' = In(c)
    BY <1>6, <2>1, BoxSame
  <2>4. /\ BufferBox(q) # MailBox(q) /\ BufferBox(q) # DeliveredBox /\ BufferBox(q) # LostBox
        /\ MailBox(q) # DeliveredBox /\ MailBox(q) # LostBox /\ DeliveredBox # LostBox
    BY BoxesDiffer
  <2>5. Set(a) \subseteq In(BufferBox(q)) /\ sent' = sent
    BY <1>6, <1>7, <1>9
  <2>6. Sorted'
    <3>1. /\ BufferBox(q) \in Boxes /\ MailBox(q) \in Boxes /\ DeliveredBox \in Boxes
          /\ LostBox \in Boxes /\ In(BufferBox(q))' = {} /\ Sorted
      BY <1>1, <1>9, <1>15
    <3> QED
      BY <1>13, <2>2, <2>3, <2>4, <2>5, <3>1, SortedHandover
  <2>7. Single'
    <3>1. \A x \in Procs : Once(buffer'[x])
      BY <1>12, <1>15, <2>1 DEF CopyInv, Single
    <3>2. \A x \in Procs : OnceRouted(mailbox'[x])
      BY <1>4, <1>6 DEF CopyInv, Single
    <3> QED
      BY <1>6, <3>1, <3>2 DEF CopyInv, Single, Once, OnceRouted
  <2>8. \A x \in Procs : Early(x)' => Early(x)
    BY <1>15, <2>1 DEF Early
  <2>9. ASSUME NEW x \in Procs
        PROVE  /\ x \notin sm' \/ pc'[x] \in {"bounce", "dead"} \/ peer'[x] # None
                    => buffer'[x] = <<>>
               /\ peer'[x] # None => pc'[x] \in Ending
               /\ pc'[x] = "dead" => pc[x] = "dead"
    <3>1. CASE x = q
      BY <1>15, <3>1 DEF Ending
    <3>2. CASE x # q
      BY <1>6, <2>1, <3>2 DEF CopyInv, Emptied, Ending
    <3> QED
      BY <3>1, <3>2
  <2> QED
    BY <2>6, <2>7, <2>8, <2>9
<1>18. Kept
  <2> HIDE DEF Kept
  <2> QED
    BY <1>16, <1>17
<1>19. \A x \in Procs : /\ Set(mailbox'[x]) \subseteq Set(mailbox[x])
                        /\ Msgs(mailbox'[x]) \subseteq Msgs(mailbox[x])
  BY <1>4, <1>6
<1>20. EarlyIsUnknown'
  <2> SUFFICES ASSUME NEW x \in Procs, Early(x)'
               PROVE  /\ x \notin table' /\ \A f \in flight' : f.to # x
                      /\ \A y \in Procs : replacer'[y] # x /\ Exit(x) \notin Set(mailbox'[y])
    BY DEF EarlyIsUnknown, Set, Exit
  <2> QED
    BY <1>6, <1>18, <1>19 DEF CopyInv, EarlyIsUnknown
<1>21. Emptied'
  <2> SUFFICES ASSUME NEW x \in Procs
               PROVE  /\ x \notin sm' \/ pc'[x] \in {"bounce", "dead"} \/ peer'[x] # None
                           => buffer'[x] = <<>>
                      /\ peer'[x] # None => pc'[x] \in Ending
                      /\ Early(x)' \/ pc'[x] = "dead" => Msgs(mailbox'[x]) = {}
    BY DEF Emptied, Ending, Msgs, Set, Route
  <2>1. Early(x) \/ pc[x] = "dead" => Msgs(mailbox[x]) = {}
    BY DEF CopyInv, Emptied
  <2>2. Early(x)' \/ pc'[x] = "dead" => Early(x) \/ pc[x] = "dead"
    BY <1>18
  <2>3. Msgs(mailbox'[x]) \subseteq Msgs(mailbox[x])
    BY <1>19
  <2> QED
    BY <1>18, <2>1, <2>2, <2>3
<1> QED
  BY <1>18, <1>20, <1>21 DEF CopyInv

-----------------------------------------------------------------------------
(***************************************************************************)
(* One place for every message                                             *)
(***************************************************************************)

\* Every step keeps the invariant.
LEMMA CopyStep ==
  ASSUME CopyInv, [Next]_vars
  PROVE  CopyInv'
<1>1. HandoverInv' /\ TypeOK'
  BY HandoverStep, TypesStep DEF CopyInv
<1>2. CASE UNCHANGED vars
  <2>1. UNCHANGED <<pc, sm, peer, replacer, table, mailbox, buffer, sent, flight,
                    delivered, offline, lost, dropped>>
    BY <1>2 DEF vars, stateVars, msgVars, checkVars
  <2>2. Sorted'
    BY <2>1, SortedStays DEF CopyInv
  <2>3. Single'
    BY <2>1 DEF CopyInv, Single, Once, OnceRouted
  <2>4. \A x \in Procs : Early(x) => \A f \in flight' : f.to # x
    BY <2>1 DEF CopyInv, EarlyIsUnknown
  <2>5. \A x \in Procs : x \notin sm \/ pc[x] \in {"bounce", "dead"} \/ peer[x] # None
          => buffer'[x] = <<>>
    BY <2>1 DEF CopyInv, Emptied
  <2> QED
    BY <1>1, <2>1, <2>2, <2>3, <2>4, <2>5, CopyMoved
<1>3. ASSUME NEW p \in Procs, Opening(p) \/ Calling(p) \/ Client(p) \/ Terminating(p)
      PROVE  CopyInv'
  BY <1>1, <1>3, CopyLife, CopyTold, CopyClientAcks, CopyReroute, CopyBounce
     DEF Opening, Calling, Client, Terminating
<1>4. ASSUME NEW p \in Procs, Handling(p)
      PROVE  CopyInv'
  BY <1>1, <1>4, CopyTold, CopyResumed, CopyHandleRoute DEF Handling
<1>5. CASE Router
  BY <1>1, <1>5, CopySend, CopyLookUp, CopyArrive DEF Router
<1> QED
  BY <1>2, <1>3, <1>4, <1>5 DEF Next

\* Before the first message there is none.
LEMMA CopyInit ==
  ASSUME Init
  PROVE  CopyInv
<1>1. TypeOK
  BY DEF Init, TypeOK, CheckTypes, Stage, OrNone
<1>2. HandoverInv
  BY HandoverInit
<1>3. Set(<<>>) = {} /\ Msgs(<<>>) = {} /\ Once(<<>>) /\ OnceRouted(<<>>)
  BY DEF Set, Msgs, Once, OnceRouted
<1>4. Sorted
  <2>1. \A b \in Boxes : In(b) = {}
    <3> SUFFICES ASSUME NEW b \in Boxes
                 PROVE  In(b) = {}
      OBVIOUS
    <3>1. CASE b \in {RouterBox, DeliveredBox, OfflineBox, LostBox}
      BY <3>1, BoxContents DEF Init
    <3>2. CASE \E p \in Procs : b = BufferBox(p) \/ b = MailBox(p) \/ b = DropBox(p)
      BY <1>3, <3>2, BoxContents DEF Init
    <3> QED
      BY <3>1, <3>2, BoxContents
  <2> QED
    BY <2>1 DEF Sorted, Init
<1>5. Single
  BY <1>3 DEF Single, Init
<1>6. EarlyIsUnknown
  <2>1. \A x \in Procs : x # None
    BY HandoverAssumption
  <2> QED
    BY <1>3, <2>1 DEF EarlyIsUnknown, Init
<1>7. Emptied
  BY <1>3 DEF Emptied, Init
<1> QED
  BY <1>1, <1>2, <1>4, <1>5, <1>6, <1>7 DEF CopyInv

\* A message that is in one box, and in it once, is at one place.
LEMMA OnePlace ==
  ASSUME CopyInv, NEW m \in sent
  PROVE  Cardinality(Places(m)) = 1
<1> DEFINE A == InRouter(m)
           BAt(p) == {j \in 1 .. Len(buffer[p]) : buffer[p][j] = m}
           B == InBuffers(m)
           CAt(p) == {j \in 1 .. Len(mailbox[p]) : mailbox[p][j] = Route(m)}
           C == InMailboxes(m)
           E == AtRest(m)
           D == Drops(m)
<1>1. Places(m) = A \cup B \cup C \cup E \cup D
  BY DEF Places
<1>2. m \in Messages
  BY DEF CopyInv, TypeOK
<1>3. PICK b \in Boxes : m \in In(b) /\ \A c \in Boxes : m \in In(c) => c = b
  BY DEF CopyInv, Sorted
<1>4. /\ RouterBox \in Boxes /\ DeliveredBox \in Boxes /\ OfflineBox \in Boxes /\ LostBox \in Boxes
      /\ \A p \in Procs : /\ BufferBox(p) \in Boxes /\ MailBox(p) \in Boxes
                          /\ DropBox(p) \in Boxes
      /\ \/ b \in {RouterBox, DeliveredBox, OfflineBox, LostBox}
         \/ \E p \in Procs : b = BufferBox(p) \/ b = MailBox(p) \/ b = DropBox(p)
  BY BoxContents
<1>5. b # RouterBox => A = {}
  <2>1. b # RouterBox => m \notin {f.m : f \in flight}
    BY <1>3, <1>4, BoxContents
  <2> QED
    BY <2>1 DEF InRouter
<1>6. \A p \in Procs : b # BufferBox(p) => BAt(p) = {}
  <2>1. \A p \in Procs : b # BufferBox(p) => m \notin Set(buffer[p])
    BY <1>3, <1>4, BoxContents
  <2> QED
    BY <2>1 DEF Set
<1>7. \A p \in Procs : b # MailBox(p) => CAt(p) = {}
  <2>1. \A p \in Procs : b # MailBox(p) => m \notin Msgs(mailbox[p])
    BY <1>3, <1>4, BoxContents
  <2> QED
    BY <1>2, <2>1 DEF Msgs, Set
<1>8. /\ b # DeliveredBox => m \notin delivered
      /\ b # OfflineBox => m \notin offline
      /\ b # LostBox => m \notin lost
  BY <1>3, <1>4, BoxContents
<1>15. \A p \in Procs : b # DropBox(p) => m \notin dropped[p]
  BY <1>3, <1>4, BoxContents
<1>9. \A x : Cardinality({x}) = 1
  BY FS_Singleton
<1>10. /\ (\A p \in Procs : BAt(p) = {}) => B = {}
       /\ (\A p \in Procs : CAt(p) = {}) => C = {}
       /\ m \notin delivered /\ m \notin offline /\ m \notin lost => E = {}
       /\ (\A p \in Procs : m \notin dropped[p]) => D = {}
  BY DEF InBuffers, InMailboxes, AtRest, LiveProcs, Drops
<1>11. CASE b = RouterBox
  <2>1. B = {} /\ C = {} /\ D = {}
    BY <1>6, <1>7, <1>10, <1>11, <1>15, BoxesDiffer
  <2>2. E = {}
    BY <1>8, <1>10, <1>11, BoxesDiffer
  <2>3. PICK f \in flight : f.m = m
    BY <1>3, <1>11, BoxContents
  <2>4. A = {<<"flight", f>>}
    BY <2>3 DEF CopyInv, Single, InRouter
  <2> HIDE DEF A, B, C, D, E
  <2> QED
    BY <1>1, <1>9, <2>1, <2>2, <2>4
<1>12. CASE b \in {DeliveredBox, OfflineBox, LostBox}
  <2>1. A = {} /\ B = {} /\ C = {} /\ D = {}
    BY <1>5, <1>6, <1>7, <1>10, <1>12, <1>15, BoxesDiffer
  <2>2. \E k \in 1 .. 3 : E = {<<"end", k>>}
    <3>1. CASE b = DeliveredBox
      <4>1. m \in delivered /\ m \notin offline /\ m \notin lost
        BY <1>3, <1>8, <3>1, BoxContents, BoxesDiffer
      <4> QED
        BY <4>1 DEF AtRest
    <3>2. CASE b = OfflineBox
      <4>1. m \notin delivered /\ m \in offline /\ m \notin lost
        BY <1>3, <1>8, <3>2, BoxContents, BoxesDiffer
      <4> QED
        BY <4>1 DEF AtRest
    <3>3. CASE b = LostBox
      <4>1. m \notin delivered /\ m \notin offline /\ m \in lost
        BY <1>3, <1>8, <3>3, BoxContents, BoxesDiffer
      <4> QED
        BY <4>1 DEF AtRest
    <3> QED
      BY <1>12, <3>1, <3>2, <3>3
  <2> HIDE DEF A, B, C, D, E
  <2> QED
    BY <1>1, <1>9, <2>1, <2>2
<1>13. ASSUME NEW g \in Procs, b = BufferBox(g)
       PROVE  Cardinality(Places(m)) = 1
  <2>1. A = {} /\ C = {} /\ E = {} /\ D = {}
    BY <1>5, <1>7, <1>8, <1>10, <1>13, <1>15, BoxesDiffer
  <2>2. m \in Set(buffer[g])
    BY <1>3, <1>13, BoxContents
  <2>3. PICK i \in 1 .. Len(buffer[g]) : buffer[g][i] = m
    BY <2>2 DEF Set
  <2>4. BAt(g) = {i}
    BY <2>3 DEF CopyInv, Single, Once
  <2>5. g \in LiveProcs
    <3>1. buffer[g] # <<>>
      BY <2>2 DEF Set
    <3>2. pc[g] # "dead" /\ g \in sm
      BY <3>1 DEF CopyInv, Emptied
    <3>3. pc[g] # "down"
      BY <3>2 DEF CopyInv, HandoverInv, Stages
    <3> QED
      BY <3>2, <3>3 DEF Live, LiveProcs
  <2>6. \A p \in LiveProcs : p # g => BAt(p) = {}
    BY <1>6, <1>13, BoxesDiffer DEF LiveProcs
  <2> HIDE DEF A, C, D, E
  <2>7. B = {<<"buffer", g, i>>}
    BY <2>4, <2>5, <2>6 DEF InBuffers
  <2> HIDE DEF B
  <2> QED
    BY <1>1, <1>9, <2>1, <2>7
<1>14. ASSUME NEW g \in Procs, b = MailBox(g)
       PROVE  Cardinality(Places(m)) = 1
  <2>1. A = {} /\ B = {} /\ E = {} /\ D = {}
    BY <1>5, <1>6, <1>8, <1>10, <1>14, <1>15, BoxesDiffer
  <2>2. m \in Msgs(mailbox[g])
    BY <1>3, <1>14, BoxContents
  <2>3. PICK i \in 1 .. Len(mailbox[g]) : mailbox[g][i] = Route(m)
    BY <2>2 DEF Msgs, Set
  <2>4. CAt(g) = {i}
    BY <2>3, RouteEntries DEF CopyInv, Single, OnceRouted
  <2>5. g \in LiveProcs
    <3>1. pc[g] # "dead" /\ ~ Early(g)
      BY <2>2 DEF CopyInv, Emptied
    <3> QED
      BY <3>1 DEF Live, LiveProcs, Early
  <2>6. \A p \in LiveProcs : p # g => CAt(p) = {}
    BY <1>7, <1>14, BoxesDiffer DEF LiveProcs
  <2> HIDE DEF A, B, D, E
  <2>7. C = {<<"mailbox", g, i>>}
    BY <2>4, <2>5, <2>6 DEF InMailboxes
  <2> HIDE DEF C
  <2> QED
    BY <1>1, <1>9, <2>1, <2>7
<1>16. ASSUME NEW g \in Procs, b = DropBox(g)
       PROVE  Cardinality(Places(m)) = 1
  <2>1. A = {} /\ B = {} /\ C = {} /\ E = {}
    BY <1>5, <1>6, <1>7, <1>8, <1>10, <1>16, BoxesDiffer
  <2>2. m \in dropped[g]
    BY <1>3, <1>16, BoxContents
  <2>3. \A p \in Procs : p # g => m \notin dropped[p]
    BY <1>15, <1>16, BoxesDiffer
  <2>4. D = {<<"dropped", g>>}
    BY <2>2, <2>3 DEF Drops
  <2> HIDE DEF A, B, C, D, E
  <2> QED
    BY <1>1, <1>9, <2>1, <2>4
<1> QED
  BY <1>4, <1>11, <1>12, <1>13, <1>14, <1>16

\* A message to the full JID is at exactly one place, however many processes
\* resume, replace each other and terminate, and whatever calls time out: none of
\* recover_messages, reroute_buffer and bounce_messages loses or doubles it, and
\* what the conflict check drops is accounted for.
THEOREM MessagesInOnePlace == Spec => []ExactlyOneCopy
<1>1. CopyInv /\ [Next]_vars => CopyInv'
  BY CopyStep
<1>2. Init => CopyInv
  BY CopyInit
<1>3. CopyInv => ExactlyOneCopy
  BY OnePlace DEF ExactlyOneCopy
<1> QED
  BY <1>1, <1>2, <1>3, PTL DEF Spec

-----------------------------------------------------------------------------
(***************************************************************************)
(* What the conflict check drops                                           *)
(***************************************************************************)

\* A stream has one process that has not handed it over; it was resumed from
\* another process of the stream, and all older ones were resumed before that.
SameStream(p, o) == p \in sm /\ o \in sm /\ SmidOf(p) = SmidOf(o)
ResumedRight == \A p \in Procs : resumedFrom[p] # None =>
    SameStream(p, resumedFrom[p]) /\ resumedFrom[p] # p
OneNewest == \A p, o \in Procs :
    SameStream(p, o) /\ peer[p] = None /\ peer[o] = None => p = o
OlderResumed == \A p, o \in Procs :
    SameStream(p, o) /\ p # o /\ peer[p] = None =>
      /\ resumedFrom[p] # None
      /\ o # resumedFrom[p] => resumedFrom[resumedFrom[p]] # None
Lineage == ResumedRight /\ OneNewest /\ OlderResumed

\* A message comes from a process that was established, and only such a
\* process has dropped one.
Opened == {p \in Procs : ~ Early(p) /\ (p \in sm \/ previd[p] = None)}
OriginsOpen == \A m \in Messages : origin[m] # None => origin[m] \in Opened
DropsOpen == \A p \in Procs : \A m \in dropped[p] :
    origin[m] # None /\ p \in Opened

DropInv == CopyInv /\ Lineage /\ OriginsOpen /\ DropsOpen /\ OwnMessagesPass

\* What no step takes back.
Kept(x) == /\ ~ Early(x)'
           /\ previd'[x] = previd[x] /\ resumedFrom'[x] = resumedFrom[x]
           /\ x \in sm => x \in sm'

\* Once a process has left its early stages its stream is settled.
LEMMA LateStays ==
  ASSUME CopyInv, [Next]_vars
  PROVE  \A x \in Procs : ~ Early(x) => Kept(x)
<1> SUFFICES ASSUME NEW x \in Procs, ~ Early(x)
             PROVE  Kept(x)
  OBVIOUS
<1>1. /\ pc \in [Procs -> Stage] /\ previd \in [Procs -> OrNone]
      /\ resumedFrom \in [Procs -> OrNone]
  BY DEF CopyInv, TypeOK, CheckTypes
<1> DEFINE Moves(p, l) == /\ pc' = [pc EXCEPT ![p] = l] /\ l \notin {"down", "auth", "calling"}
                          /\ previd' = previd /\ resumedFrom' = resumedFrom
                          /\ sm \subseteq sm'
<1>2. ASSUME NEW p \in Procs, NEW l, Moves(p, l)
      PROVE  Kept(x)
  BY <1>1, <1>2 DEF Early, Kept
<1> HIDE DEF Moves
<1>3. ASSUME NEW p \in Procs, pc[p] \in {"down", "auth", "calling"},
             NEW l, pc' = [pc EXCEPT ![p] = l],
             \A y \in Procs : y # p => previd'[y] = previd[y],
             resumedFrom' = resumedFrom, sm' = sm
      PROVE  Kept(x)
  BY <1>1, <1>3 DEF Early, Kept
<1>4. ASSUME pc' = pc, previd' = previd, resumedFrom' = resumedFrom, sm' = sm
      PROVE  Kept(x)
  BY <1>4 DEF Early, Kept
<1>5. ASSUME NEW p \in Procs, Opening(p)
      PROVE  Kept(x)
  <2>1. CASE Connect(p)
    BY <1>3, <2>1 DEF Connect, Goto, checkVars
  <2>2. CASE SetSession(p)
    <3>1. Moves(p, "set")
      BY <2>2 DEF SetSession, Goto, Moves, checkVars
    <3> QED
      BY <1>2, <3>1
  <2>3. CASE ReplaceSessions(p)
    <3>1. Moves(p, "register") \/ Moves(p, "established")
      BY <2>3 DEF ReplaceSessions, Goto, Moves, checkVars
    <3> QED
      BY <1>2, <3>1
  <2>4. CASE ResumeDone(p)
    <3>1. Moves(p, "established")
      BY <2>4 DEF ResumeDone, Goto, Moves, checkVars
    <3> QED
      BY <1>2, <3>1
  <2>5. CASE Enable(p)
    <3>1. /\ pc' = pc /\ previd' = previd /\ resumedFrom' = resumedFrom
          /\ sm' = sm \cup {p}
      BY <2>5 DEF Enable, checkVars
    <3> QED
      BY <3>1 DEF Kept, Early
  <2> QED
    BY <1>5, <2>1, <2>2, <2>3, <2>4, <2>5 DEF Opening
<1>6. ASSUME NEW p \in Procs, Calling(p)
      PROVE  Kept(x)
  <2>1. ASSUME NEW s \in Procs, ResumeRequest(p, s)
        PROVE  Kept(x)
    BY <1>1, <1>3, <2>1 DEF ResumeRequest, Goto, checkVars
  <2>2. CASE CallFails(p)
    BY <1>1, <1>3, <2>2 DEF CallFails, Goto, checkVars
  <2>3. CASE CallTimeout(p)
    BY <1>1, <1>3, <2>3 DEF CallTimeout, Goto, checkVars
  <2> QED
    BY <1>6, <2>1, <2>2, <2>3 DEF Calling
<1>7. ASSUME NEW p \in Procs, Client(p)
      PROVE  Kept(x)
  <2>1. CASE ClientAcks(p)
    BY <1>4, <2>1 DEF ClientAcks, checkVars
  <2>2. CASE SocketClosed(p)
    <3>1. Moves(p, "detached") \/ Moves(p, "closing")
      BY <2>2 DEF SocketClosed, Goto, Moves, checkVars
    <3> QED
      BY <1>2, <3>1
  <2>3. CASE Stop(p)
    <3>1. Moves(p, "closing")
      BY <2>3 DEF Stop, Goto, Moves, checkVars
    <3> QED
      BY <1>2, <3>1
  <2> QED
    BY <1>7, <2>1, <2>2, <2>3 DEF Client
<1>8. ASSUME NEW p \in Procs, Terminating(p)
      PROVE  Kept(x)
  <2>1. CASE CloseSession(p)
    <3>1. Moves(p, "read") \/ Moves(p, "bounce")
      BY <2>1 DEF CloseSession, Goto, Moves, checkVars
    <3> QED
      BY <1>2, <3>1
  <2>2. CASE UnregisterRead(p)
    <3>1. Moves(p, "delete")
      BY <2>2 DEF UnregisterRead, Goto, Moves, checkVars
    <3> QED
      BY <1>2, <3>1
  <2>3. CASE UnregisterDelete(p)
    <3>1. Moves(p, "reroute")
      BY <2>3 DEF UnregisterDelete, Goto, Moves, checkVars
    <3> QED
      BY <1>2, <3>1
  <2>4. CASE RerouteBuffer(p)
    <3>1. Moves(p, "bounce")
      BY <2>4 DEF RerouteBuffer, Goto, Moves, checkVars
    <3> QED
      BY <1>2, <3>1
  <2>5. CASE BounceMessages(p)
    BY <1>4, <2>5 DEF BounceMessages, stateVars, checkVars
  <2>6. CASE Die(p)
    <3>1. Moves(p, "dead")
      BY <2>6 DEF Die, Goto, Moves, checkVars
    <3> QED
      BY <1>2, <3>1
  <2> QED
    BY <1>8, <2>1, <2>2, <2>3, <2>4, <2>5, <2>6 DEF Terminating
<1>9. ASSUME NEW q \in Procs, NEW p \in Procs, HandleResumeCall(q, p)
      PROVE  Kept(x)
  <2>1. previd' = previd
    BY <1>9 DEF HandleResumeCall
  <2>2. CASE Awaited(q, p)
    <3>1. /\ pc' = [pc EXCEPT ![q] = "closing", ![p] = "got"] /\ sm' = sm \cup {p}
          /\ resumedFrom' = [resumedFrom EXCEPT ![p] = q]
      BY <1>9, <2>2 DEF HandleResumeCall
    <3>2. p # x
      BY <2>2 DEF Awaited, Early
    <3> QED
      BY <1>1, <2>1, <3>1, <3>2 DEF Early, Kept
  <2>3. CASE ~ Awaited(q, p)
    <3>1. Moves(q, "closing")
      BY <1>9, <2>1, <2>3 DEF HandleResumeCall, Goto, Moves
    <3> QED
      BY <1>2, <3>1
  <2> QED
    BY <2>2, <2>3
<1>10. ASSUME NEW q \in Procs, NEW p \in Procs, RefuseResumeCall(q, p)
       PROVE  Kept(x)
  <2>1. /\ \/ pc' = [pc EXCEPT ![q] = "closing", ![p] = "dead"]
           \/ pc' = [pc EXCEPT ![q] = "closing"]
        /\ previd' = previd /\ resumedFrom' = resumedFrom /\ sm' = sm
    BY <1>10 DEF RefuseResumeCall, Goto, checkVars
  <2> QED
    BY <1>1, <2>1 DEF Early, Kept
<1>11. ASSUME NEW p \in Procs, HandleRoute(p)
       PROVE  Kept(x)
  BY <1>4, <1>11 DEF HandleRoute
<1>12. ASSUME NEW p \in Procs, HandleExit(p)
       PROVE  Kept(x)
  <2>1. Moves(p, "closing")
    BY <1>12 DEF HandleExit, Goto, Moves, checkVars
  <2> QED
    BY <1>2, <2>1
<1>13. CASE Router
  BY <1>4, <1>13 DEF Router, SendMessage, LookUp, Arrive, stateVars, checkVars
<1>14. CASE UNCHANGED vars
  BY <1>4, <1>14 DEF vars, stateVars, checkVars
<1> QED
  BY <1>5, <1>6, <1>7, <1>8, <1>9, <1>10, <1>11, <1>12, <1>13, <1>14 DEF Next, Handling

\* Handing a stream over makes the new process its newest one.
LEMMA LineageResumed ==
  ASSUME CopyInv, Lineage, NEW q \in Procs, NEW p \in Procs, HandleResumeCall(q, p),
         Awaited(q, p)
  PROVE  Lineage'
<1>1. /\ q \in sm /\ peer[q] = None /\ pc[p] = "calling" /\ callee[p] = q
  BY DEF HandleResumeCall, CallFrom, Serving, Awaited, CopyInv, Emptied
<1>2. p \notin sm /\ peer[p] = None /\ previd[p] = SmidOf(q) /\ previd[p] # None
  BY <1>1 DEF CopyInv, HandoverInv, Stages, CallsRight, Emptied
<1>3. /\ sm' = sm \cup {p} /\ previd' = previd
      /\ resumedFrom' = [resumedFrom EXCEPT ![p] = q] /\ peer' = [peer EXCEPT ![q] = p]
  BY DEF HandleResumeCall
<1>4. /\ peer \in [Procs -> OrNone] /\ resumedFrom \in [Procs -> OrNone]
      /\ sm \subseteq Procs /\ p # None /\ q # None
  BY HandoverAssumption DEF CopyInv, TypeOK, CheckTypes
<1>5. /\ peer'[q] # None /\ \A x \in Procs : x # q => peer'[x] = peer[x]
      /\ resumedFrom'[p] = q /\ \A x \in Procs : x # p => resumedFrom'[x] = resumedFrom[x]
  BY <1>3, <1>4
<1>6. \A x : SmidOf(x)' = SmidOf(x)
  BY <1>3 DEF SmidOf
<1>7. SmidOf(p) = SmidOf(q) /\ p # q
  BY <1>1, <1>2 DEF SmidOf
<1>8. \A x, y : SameStream(x, y)' <=>
        /\ SmidOf(x) = SmidOf(y)
        /\ x \in sm \/ x = p
        /\ y \in sm \/ y = p
  BY <1>3, <1>6 DEF SameStream
<1>9. ResumedRight'
  <2> SUFFICES ASSUME NEW x \in Procs, resumedFrom'[x] # None
               PROVE  SameStream(x, resumedFrom[x])' /\ resumedFrom'[x] # x
    BY DEF ResumedRight, SameStream, SmidOf
  <2>1. CASE x = p
    BY <1>1, <1>3, <1>5, <1>7, <1>8, <2>1 DEF SameStream, SmidOf
  <2>2. CASE x # p
    BY <1>5, <1>8, <2>2 DEF Lineage, ResumedRight, SameStream, SmidOf
  <2> QED
    BY <2>1, <2>2
<1>10. ASSUME NEW x \in Procs, x # p, x \in sm, SmidOf(x) = SmidOf(p), peer'[x] = None
       PROVE  FALSE
  BY <1>1, <1>5, <1>7, <1>10 DEF Lineage, OneNewest, SameStream
<1>11. OneNewest'
  <2> SUFFICES ASSUME NEW x \in Procs, NEW y \in Procs, SameStream(x, y)',
                      peer'[x] = None, peer'[y] = None
               PROVE  x = y
    BY DEF OneNewest, SameStream, SmidOf
  <2>1. CASE x = p \/ y = p
    BY <1>8, <1>10, <2>1
  <2>2. CASE x # p /\ y # p
    BY <1>5, <1>8, <2>2 DEF Lineage, OneNewest, SameStream
  <2> QED
    BY <2>1, <2>2
<1>12. OlderResumed'
  <2> SUFFICES ASSUME NEW x \in Procs, NEW y \in Procs, SameStream(x, y)', x # y,
                      peer'[x] = None
               PROVE  /\ resumedFrom'[x] # None
                      /\ y # resumedFrom'[x] => resumedFrom'[resumedFrom'[x]] # None
    BY DEF OlderResumed, SameStream, SmidOf
  <2>1. CASE x = p
    <3>1. y \in sm /\ SmidOf(y) = SmidOf(q)
      BY <1>7, <1>8, <2>1
    <3>2. y # q => resumedFrom[q] # None
      BY <1>1, <3>1 DEF Lineage, OlderResumed, SameStream
    <3> QED
      BY <1>4, <1>5, <1>7, <2>1, <3>2
  <2>2. CASE x # p /\ y = p
    BY <1>8, <1>10, <2>2
  <2>3. CASE x # p /\ y # p
    <3>1. SameStream(x, y) /\ peer[x] = None
      BY <1>5, <1>8, <2>3 DEF SameStream
    <3>2. resumedFrom[x] # None /\ (y # resumedFrom[x] => resumedFrom[resumedFrom[x]] # None)
      BY <3>1 DEF Lineage, OlderResumed
    <3>3. resumedFrom[x] \in sm
      BY <3>2 DEF Lineage, ResumedRight, SameStream
    <3>4. resumedFrom[x] \in Procs /\ resumedFrom[x] # p
      BY <1>2, <1>4, <3>3
    <3> QED
      BY <1>5, <2>3, <3>2, <3>4
  <2> QED
    BY <2>1, <2>2, <2>3
<1> QED
  BY <1>9, <1>11, <1>12 DEF Lineage

\* A process that enables stream management is alone in its stream.
LEMMA LineageEnabled ==
  ASSUME CopyInv, Lineage, NEW p \in Procs, Enable(p)
  PROVE  Lineage'
<1>1. /\ p \notin sm /\ sm' = sm \cup {p}
      /\ UNCHANGED <<previd, resumedFrom, peer>> /\ previd[p] = None
  BY DEF Enable, checkVars, CopyInv, HandoverInv, Stages
<1>2. \A x : SmidOf(x)' = SmidOf(x)
  BY <1>1 DEF SmidOf
<1>3. ASSUME NEW x \in Procs, x # p, SmidOf(x) = SmidOf(p)
      PROVE  FALSE
  <2>1. previd[x] = p
    BY <1>1, <1>3 DEF SmidOf
  <2> QED
    BY <1>1, <2>1, HandoverAssumption DEF CopyInv, HandoverInv, SmidsRight
<1>4. \A x, y \in Procs : SameStream(x, y)' <=> SameStream(x, y) \/ (x = p /\ y = p)
  <2> SUFFICES ASSUME NEW x \in Procs, NEW y \in Procs
               PROVE  SameStream(x, y)' <=> SameStream(x, y) \/ (x = p /\ y = p)
    OBVIOUS
  <2>1. x = p /\ y # p => SmidOf(x) # SmidOf(y)
    BY <1>3
  <2>2. x # p /\ y = p => SmidOf(x) # SmidOf(y)
    BY <1>3
  <2>3. SameStream(x, y)' <=> /\ SmidOf(x) = SmidOf(y)
                              /\ x \in sm \/ x = p
                              /\ y \in sm \/ y = p
    BY <1>1, <1>2 DEF SameStream
  <2> QED
    BY <2>1, <2>2, <2>3 DEF SameStream
<1>5. ResumedRight'
  <2> SUFFICES ASSUME NEW x \in Procs, resumedFrom[x] # None
               PROVE  SameStream(x, resumedFrom[x])' /\ resumedFrom[x] # x
    BY <1>1 DEF ResumedRight, SameStream, SmidOf
  <2>1. SameStream(x, resumedFrom[x]) /\ resumedFrom[x] # x
    BY DEF Lineage, ResumedRight
  <2> QED
    BY <1>1, <2>1 DEF SameStream, SmidOf
<1>6. OneNewest'
  BY <1>1, <1>4 DEF Lineage, OneNewest
<1>7. OlderResumed'
  BY <1>1, <1>4 DEF Lineage, OlderResumed
<1> QED
  BY <1>5, <1>6, <1>7 DEF Lineage

\* Any other step leaves streams and their processes as they are.
LEMMA LineageOther ==
  ASSUME CopyInv, Lineage, UNCHANGED <<sm, resumedFrom>>,
         \A x \in sm : previd'[x] = previd[x],
         \A x \in Procs : peer'[x] = None => peer[x] = None
  PROVE  Lineage'
<1>1. \A x, y : SameStream(x, y)' <=> SameStream(x, y)
  BY DEF SameStream, SmidOf
<1>2. ResumedRight'
  <2> SUFFICES ASSUME NEW x \in Procs, resumedFrom[x] # None
               PROVE  SameStream(x, resumedFrom[x])' /\ resumedFrom[x] # x
    BY DEF ResumedRight, SameStream, SmidOf
  <2>1. SameStream(x, resumedFrom[x]) /\ resumedFrom[x] # x
    BY DEF Lineage, ResumedRight
  <2> QED
    BY <2>1 DEF SameStream, SmidOf
<1>3. OneNewest'
  BY <1>1 DEF Lineage, OneNewest
<1>4. OlderResumed'
  BY <1>1 DEF Lineage, OlderResumed
<1> QED
  BY <1>2, <1>3, <1>4 DEF Lineage

LEMMA LineageStep ==
  ASSUME CopyInv, Lineage, [Next]_vars
  PROVE  Lineage'
<1>1. \A p \in sm : p \in Procs /\ ~ Early(p)
  BY DEF CopyInv, TypeOK, HandoverInv, Stages, Early
<1>2. \A p \in sm : previd'[p] = previd[p]
  BY <1>1, LateStays DEF Kept
<1>3. ASSUME UNCHANGED <<sm, resumedFrom, peer>>
      PROVE  Lineage'
  BY <1>2, <1>3, LineageOther
<1>4. ASSUME NEW p \in Procs, Opening(p)
      PROVE  Lineage'
  BY <1>3, <1>4, LineageEnabled
     DEF Opening, Connect, SetSession, ReplaceSessions, ResumeDone, checkVars
<1>5. ASSUME NEW p \in Procs, Calling(p) \/ Client(p) \/ Terminating(p)
      PROVE  Lineage'
  BY <1>3, <1>5
     DEF Calling, ResumeRequest, CallFails, CallTimeout, Client, ClientAcks, SocketClosed,
         Stop, Terminating, CloseSession, UnregisterRead, UnregisterDelete, RerouteBuffer,
         BounceMessages, Die, stateVars, checkVars
<1>6. ASSUME NEW q \in Procs, NEW p \in Procs, HandleResumeCall(q, p)
      PROVE  Lineage'
  <2>1. CASE Awaited(q, p)
    BY <1>6, <2>1, LineageResumed
  <2>2. CASE ~ Awaited(q, p)
    <3>1. UNCHANGED <<sm, resumedFrom>> /\ peer' = [peer EXCEPT ![q] = p]
      BY <1>6, <2>2 DEF HandleResumeCall
    <3>2. \A x \in Procs : peer'[x] = None => peer[x] = None
      BY <3>1, HandoverAssumption DEF CopyInv, TypeOK
    <3> QED
      BY <1>2, <3>1, <3>2, LineageOther
  <2> QED
    BY <2>1, <2>2
<1>7. ASSUME NEW p \in Procs, Handling(p)
      PROVE  Lineage'
  BY <1>3, <1>6, <1>7 DEF Handling, RefuseResumeCall, HandleRoute, HandleExit, checkVars
<1>8. CASE Router
  BY <1>3, <1>8 DEF Router, SendMessage, LookUp, Arrive, stateVars, checkVars
<1>9. CASE UNCHANGED vars
  BY <1>3, <1>9 DEF vars, stateVars, checkVars
<1> QED
  BY <1>4, <1>5, <1>7, <1>8, <1>9 DEF Next

\* A message sent or dropped in this step, or before.
LEMMA OpenStep ==
  ASSUME CopyInv, OriginsOpen, DropsOpen, [Next]_vars
  PROVE  /\ OriginsOpen' /\ DropsOpen'
         /\ \A p \in Procs : \A m \in dropped'[p] :
              /\ origin'[m] = origin[m]
              /\ m \in dropped[p] \/ (Serving(p) /\ Conflict(p, m))
<1>1. \A x \in Procs : ~ Early(x) => Kept(x)
  BY LateStays
<1>2. /\ origin \in [Messages -> OrNone] /\ dropped \in [Procs -> SUBSET Messages]
      /\ mailbox \in [Procs -> Seq(Entry)] /\ sm \subseteq Procs
      /\ previd \in [Procs -> OrNone]
  BY DEF CopyInv, TypeOK, CheckTypes
<1>3. \A p \in Procs : dropped[p] \subseteq sent
  <2>1. \A p \in Procs : DropBox(p) \in Boxes /\ In(DropBox(p)) = dropped[p]
    BY BoxContents
  <2> QED
    BY <2>1 DEF CopyInv, Sorted
<1> DEFINE Goal == \A p \in Procs : \A m \in dropped'[p] :
              /\ origin'[m] = origin[m]
              /\ m \in dropped[p] \/ (Serving(p) /\ Conflict(p, m))
<1>4. Opened \subseteq Opened'
  BY <1>1 DEF Kept, Early, Opened
<1>5. \A x \in Procs : Serving(x) => x \in Opened
  BY DEF Serving, Early, CopyInv, HandoverInv, Stages, Opened
<1>10. ASSUME UNCHANGED <<origin, dropped>>
       PROVE  OriginsOpen' /\ DropsOpen' /\ Goal
  <2>1. OriginsOpen'
    BY <1>4, <1>10 DEF OriginsOpen
  <2>2. DropsOpen'
    BY <1>4, <1>10 DEF DropsOpen
  <2> QED
    BY <1>10, <2>1, <2>2
<1>11. ASSUME NEW p \in Procs, HandleRoute(p)
       PROVE  OriginsOpen' /\ DropsOpen' /\ Goal
  <2> DEFINE m == Head(mailbox[p]).m
  <2>1. /\ origin' = origin /\ Serving(p)
        /\ \/ dropped' = [dropped EXCEPT ![p] = dropped[p] \cup {m}] /\ Conflict(p, m)
           \/ dropped' = dropped
    BY <1>11 DEF HandleRoute
  <2> HIDE DEF m
  <2>2. \A x \in Procs : \A k \in dropped'[x] : k \in dropped[x] \/ (x = p /\ k = m /\ Conflict(p, m))
    BY <1>2, <2>1
  <2>3. OriginsOpen'
    BY <1>4, <2>1 DEF OriginsOpen
  <2>4. Conflict(p, m) => origin[m] # None
    BY DEF Conflict
  <2>5. DropsOpen'
    BY <1>4, <1>5, <2>1, <2>2, <2>4 DEF DropsOpen
  <2> QED
    BY <2>1, <2>2, <2>3, <2>5
<1>12. ASSUME NEW m \in Messages, SendMessage(m)
       PROVE  OriginsOpen' /\ DropsOpen' /\ Goal
  <2>1. PICK o \in {q \in Senders : q # None => pc[q] = "established"} :
          origin' = [origin EXCEPT ![m] = o]
    BY <1>12 DEF SendMessage
  <2>2. m \notin sent /\ dropped' = dropped
    BY <1>12 DEF SendMessage
  <2>3. /\ origin'[m] = o /\ \A k \in Messages : k # m => origin'[k] = origin[k]
    BY <1>2, <2>1
  <2>4. o # None => o \in Opened
    BY <1>5, <2>1, SendersAssumption DEF Serving
  <2>5. \A p \in Procs : \A k \in dropped[p] : k \in Messages /\ k # m
    BY <1>2, <1>3, <2>2
  <2>6. OriginsOpen'
    BY <1>4, <2>3, <2>4 DEF OriginsOpen
  <2>7. DropsOpen'
    BY <1>4, <2>2, <2>3, <2>5 DEF DropsOpen
  <2> QED
    BY <2>2, <2>3, <2>5, <2>6, <2>7
<1> HIDE DEF Goal
<1>13. ASSUME NEW p \in Procs, Opening(p) \/ Calling(p) \/ Client(p) \/ Terminating(p)
       PROVE  UNCHANGED <<origin, dropped>>
  BY <1>13 DEF Opening, Connect, SetSession, ReplaceSessions, ResumeDone, Enable,
         Calling, ResumeRequest, CallFails, CallTimeout, Client, ClientAcks, SocketClosed,
         Stop, Terminating, CloseSession, UnregisterRead, UnregisterDelete, RerouteBuffer,
         BounceMessages, Die, checkVars
<1>14. ASSUME NEW p \in Procs, NEW q \in Procs,
              HandleResumeCall(p, q) \/ RefuseResumeCall(p, q) \/ HandleExit(p)
       PROVE  UNCHANGED <<origin, dropped>>
  BY <1>14 DEF HandleResumeCall, RefuseResumeCall, HandleExit, checkVars
<1>15. ASSUME NEW f \in flight, LookUp(f) \/ Arrive(f)
       PROVE  UNCHANGED <<origin, dropped>>
  BY <1>15 DEF LookUp, Arrive, checkVars
<1>16. ASSUME UNCHANGED vars
       PROVE  UNCHANGED <<origin, dropped>>
  BY <1>16 DEF vars, checkVars
<1>17. ASSUME NEW p \in Procs, Handling(p)
       PROVE  OriginsOpen' /\ DropsOpen' /\ Goal
  BY <1>10, <1>11, <1>14, <1>17 DEF Handling
<1>18. ASSUME Router
       PROVE  OriginsOpen' /\ DropsOpen' /\ Goal
  BY <1>10, <1>12, <1>15, <1>18 DEF Router
<1>19. OriginsOpen' /\ DropsOpen' /\ Goal
  BY <1>10, <1>13, <1>16, <1>17, <1>18 DEF Next
<1> QED
  BY <1>19 DEF Goal

\* What a process drops when the stream is its own was sent before the process
\* that it resumed had it.
LEMMA DropIsOld ==
  ASSUME CopyInv, Lineage, OriginsOpen, NEW p \in Procs, NEW m \in Messages,
         Serving(p), Conflict(p, m), SmidOf(origin[m]) = SmidOf(p)
  PROVE  \E q \in Procs \ {p, origin[m]} :
           resumedFrom[p] = q /\ SmidOf(q) = SmidOf(p) /\ resumedFrom[q] # None
<1>1. PICK o \in Procs : origin[m] = o /\ o # None /\ o # p /\ o # resumedFrom[p]
                         /\ o \in Opened /\ SmidOf(o) = SmidOf(p)
  BY DEF Conflict, OriginsOpen, Opened
<1>2. /\ o \in sm \/ previd[o] = None
      /\ p \in sm \/ previd[p] = None
      /\ peer[p] = None
  BY <1>1 DEF Opened, Serving, CopyInv, HandoverInv, Stages, Emptied
<1>3. \A x \in Procs : previd[x] # None => previd[x] \in sm
  BY DEF CopyInv, HandoverInv, SmidsRight
<1>4. o \in sm /\ p \in sm
  BY <1>1, <1>2, <1>3 DEF SmidOf
<1>5. SameStream(p, o)
  BY <1>1, <1>4 DEF SameStream
<1>6. resumedFrom[p] # None /\ resumedFrom[resumedFrom[p]] # None
  BY <1>1, <1>2, <1>5 DEF Lineage, OlderResumed
<1>7. SameStream(p, resumedFrom[p]) /\ resumedFrom[p] # p
  BY <1>6 DEF Lineage, ResumedRight
<1>8. resumedFrom[p] \in Procs
  BY <1>7 DEF SameStream, CopyInv, TypeOK
<1> QED
  BY <1>1, <1>6, <1>7, <1>8 DEF SameStream

\* What was dropped stays as it is.
LEMMA DropStep ==
  ASSUME DropInv, [Next]_vars
  PROVE  DropInv'
<1>1. CopyInv /\ Lineage /\ OriginsOpen /\ DropsOpen /\ OwnMessagesPass
  BY DEF DropInv
<1>2. CopyInv' /\ Lineage' /\ OriginsOpen' /\ DropsOpen'
  BY <1>1, CopyStep, LineageStep, OpenStep
<1>3. /\ \A x \in Opened : Kept(x) /\ SmidOf(x)' = SmidOf(x)
      /\ Opened \subseteq Procs
  BY <1>1, LateStays DEF Opened, Kept, SmidOf
<1>4. OwnMessagesPass'
  <2> SUFFICES ASSUME NEW p \in Procs, NEW m \in dropped'[p],
                      SmidOf(origin[m])' = SmidOf(p)'
               PROVE  \E q \in Procs \ {p, origin'[m]} :
                        /\ resumedFrom'[p] = q /\ SmidOf(q)' = SmidOf(p)'
                        /\ resumedFrom'[q] # None
    BY DEF OwnMessagesPass, SmidOf
  <2>1. /\ origin'[m] = origin[m]
        /\ m \in dropped[p] \/ (Serving(p) /\ Conflict(p, m))
    BY <1>1, OpenStep
  <2>2. m \in Messages
    BY <1>2 DEF CopyInv, TypeOK, CheckTypes
  <2>3. p \in Opened /\ origin[m] \in Opened
    <3>1. Serving(p) => p \in Opened
      BY <1>1 DEF Serving, Early, CopyInv, HandoverInv, Stages, Opened
    <3>2. m \in dropped[p] => origin[m] # None /\ p \in Opened
      BY <1>1 DEF DropsOpen
    <3>3. Conflict(p, m) => origin[m] # None
      BY DEF Conflict
    <3> QED
      BY <1>1, <2>1, <2>2, <3>1, <3>2, <3>3 DEF OriginsOpen
  <2>4. SmidOf(origin[m]) = SmidOf(p)
    <3>1. SmidOf(origin[m])' = SmidOf(origin[m])
      BY <1>3, <2>1, <2>3 DEF SmidOf, Kept
    <3> QED
      BY <1>3, <2>3, <3>1
  <2>5. PICK q \in Procs \ {p, origin[m]} :
          resumedFrom[p] = q /\ SmidOf(q) = SmidOf(p) /\ resumedFrom[q] # None
    BY <1>1, <2>1, <2>2, <2>4, DropIsOld DEF OwnMessagesPass
  <2>6. q \in Opened
    <3>1. SameStream(q, resumedFrom[q])
      BY <1>1, <2>5 DEF Lineage, ResumedRight
    <3>2. q \in sm /\ ~ Early(q)
      BY <1>1, <3>1 DEF SameStream, CopyInv, HandoverInv, Stages, Early
    <3> QED
      BY <3>2 DEF Opened
  <2> QED
    BY <1>3, <2>1, <2>3, <2>5, <2>6 DEF Kept
<1> QED
  BY <1>2, <1>4 DEF DropInv

\* A message that a client sends to its own full JID passes the conflict check
\* in the process it was sent from and in the one that resumed its stream, for
\* any number of processes, messages and timeouts; what the processes of the
\* stream drop was sent at least two resumptions before.
THEOREM OwnMessagesAreNotDropped == Spec => []OwnMessagesPass
<1>1. ASSUME Init
      PROVE  DropInv
  <2>1. CopyInv
    BY <1>1, CopyInit
  <2>2. sm = {} /\ \A p \in Procs : dropped[p] = {} /\ resumedFrom[p] = None
    BY <1>1 DEF Init
  <2>3. \A m \in Messages : origin[m] = None
    BY <1>1 DEF Init
  <2> QED
    BY <2>1, <2>2, <2>3 DEF DropInv, Lineage, ResumedRight, OneNewest, OlderResumed,
                            SameStream, OriginsOpen, DropsOpen, OwnMessagesPass
<1>2. DropInv /\ [Next]_vars => DropInv'
  BY DropStep
<1>3. DropInv => OwnMessagesPass
  BY DEF DropInv
<1> QED
  BY <1>1, <1>2, <1>3, PTL DEF Spec

=============================================================================
