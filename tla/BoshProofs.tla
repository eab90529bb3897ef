------------------------------ MODULE BoshProofs ------------------------------
(***************************************************************************)
(* Theorems about a BOSH session (Bosh).                                   *)
(***************************************************************************)
EXTENDS Bosh, FiniteSetTheorems, SequenceTheorems, WellFoundedInduction, TLAPS

(***************************************************************************)
(* Sequences and numbers                                                   *)
(***************************************************************************)

\* A set of numbers that is not empty has a smallest member.
LEMMA Smallest ==
  ASSUME NEW S, S \subseteq Nat, S # {}
  PROVE  \E x \in S : \A y \in S : x <= y
<1>1. PICK x \in S : \A y \in S : ~ (<<y, x>> \in OpToRel(<, Nat))
  BY NatLessThanWellFounded, WFMin
<1>2. \A y \in S : ~ (y < x)
  BY <1>1 DEF OpToRel
<1> QED
  BY <1>2

\* A sequence without the element at position i.
LEMMA RemoveAtSeq ==
  ASSUME NEW S, NEW q \in Seq(S), NEW i \in 1 .. Len(q)
  PROVE  /\ RemoveAt(q, i) \in Seq(S) /\ Len(RemoveAt(q, i)) = Len(q) - 1
         /\ \A j \in 1 .. Len(q) - 1 :
              RemoveAt(q, i)[j] = IF j < i THEN q[j] ELSE q[j + 1]
<1> DEFINE a == SubSeq(q, 1, i - 1)
           b == SubSeq(q, i + 1, Len(q))
<1>1. Len(q) \in Nat
  OBVIOUS
<1>2. a \in Seq(S) /\ Len(a) = i - 1 /\ \A j \in 1 .. i - 1 : a[j] = q[j]
  BY <1>1
<1>3. b \in Seq(S) /\ Len(b) = Len(q) - i /\ \A j \in 1 .. Len(q) - i : b[j] = q[j + i]
  BY <1>1
<1>4. RemoveAt(q, i) = a \o b
  BY DEF RemoveAt
<1> HIDE DEF a, b
<1>5. a \o b \in Seq(S) /\ Len(a \o b) = Len(q) - 1
  <2>1. a \o b \in Seq(S) /\ Len(a \o b) = Len(a) + Len(b)
    BY ONLY <1>2, <1>3, ConcatProperties
  <2> QED
    BY ONLY <1>1, <1>2, <1>3, <2>1, i \in 1 .. Len(q)
<1>6. ASSUME NEW j \in 1 .. Len(q) - 1
      PROVE  (a \o b)[j] = IF j < i THEN q[j] ELSE q[j + 1]
  <2>1. CASE j < i
    BY <1>1, <1>2, <1>3, <2>1
  <2>2. CASE ~ (j < i)
    <3>1. j - Len(a) \in 1 .. Len(q) - i /\ j > Len(a) /\ j \in 1 .. Len(a) + Len(b)
      BY <1>1, <1>2, <1>3, <2>2
    <3>2. (a \o b)[j] = b[j - Len(a)]
      BY <1>2, <1>3, <3>1
    <3>3. b[j - Len(a)] = q[j - Len(a) + i] /\ j - Len(a) + i = j + 1
      BY <1>1, <1>2, <1>3, <3>1
    <3> QED
      BY <2>2, <3>2, <3>3
  <2> QED
    BY <2>1, <2>2
<1> QED
  BY <1>4, <1>5, <1>6

\* A sequence with an element more, at position i.
LEMMA InsertAtSeq ==
  ASSUME NEW S, NEW q \in Seq(S), NEW i \in 1 .. Len(q) + 1, NEW e \in S
  PROVE  /\ InsertAt(q, i, e) \in Seq(S) /\ Len(InsertAt(q, i, e)) = Len(q) + 1
         /\ \A j \in 1 .. Len(q) + 1 :
              InsertAt(q, i, e)[j] = IF j < i THEN q[j] ELSE IF j = i THEN e ELSE q[j - 1]
<1> DEFINE a == SubSeq(q, 1, i - 1)
           b == SubSeq(q, i, Len(q))
           c == a \o <<e>>
<1>1. Len(q) \in Nat
  OBVIOUS
<1>2. a \in Seq(S) /\ Len(a) = i - 1 /\ \A j \in 1 .. i - 1 : a[j] = q[j]
  BY <1>1
<1>3. /\ b \in Seq(S) /\ Len(b) = Len(q) - i + 1
      /\ \A j \in 1 .. Len(q) - i + 1 : b[j] = q[j + i - 1]
  BY <1>1
<1>4. InsertAt(q, i, e) = c \o b
  BY DEF InsertAt
<1> HIDE DEF a, b
<1>5. c \in Seq(S) /\ Len(c) = i /\ c[i] = e /\ \A j \in 1 .. i - 1 : c[j] = q[j]
  BY <1>1, <1>2
<1> HIDE DEF c
<1>6. c \o b \in Seq(S) /\ Len(c \o b) = Len(q) + 1
  BY <1>1, <1>3, <1>5
<1>7. ASSUME NEW j \in 1 .. Len(q) + 1
      PROVE  (c \o b)[j] = IF j < i THEN q[j] ELSE IF j = i THEN e ELSE q[j - 1]
  <2>1. CASE j <= i
    BY <1>1, <1>3, <1>5, <2>1
  <2>2. CASE ~ (j <= i)
    <3>1. j - Len(c) \in 1 .. Len(q) - i + 1 /\ j > Len(c) /\ j \in 1 .. Len(c) + Len(b)
      BY <1>1, <1>3, <1>5, <2>2
    <3>2. (c \o b)[j] = b[j - Len(c)]
      BY <1>3, <1>5, <3>1
    <3>3. b[j - Len(c)] = q[j - Len(c) + i - 1] /\ j - Len(c) + i - 1 = j - 1
      BY <1>1, <1>3, <1>5, <3>1
    <3> QED
      BY <2>2, <3>2, <3>3
  <2> QED
    BY <2>1, <2>2
<1> QED
  BY <1>4, <1>6, <1>7

\* A sequence without its first, or without its last element.
LEMMA TailSeq ==
  ASSUME NEW S, NEW q \in Seq(S), q # <<>>
  PROVE  /\ Tail(q) \in Seq(S) /\ Len(Tail(q)) = Len(q) - 1 /\ Len(q) - 1 \in Nat
         /\ \A j \in 1 .. Len(q) - 1 : Tail(q)[j] = q[j + 1]
  OBVIOUS

LEMMA FrontSeq ==
  ASSUME NEW S, NEW q \in Seq(S), q # <<>>
  PROVE  /\ Front(q) \in Seq(S) /\ Len(Front(q)) = Len(q) - 1 /\ Len(q) - 1 \in Nat
         /\ \A j \in 1 .. Len(q) - 1 : Front(q)[j] = q[j]
<1>1. Len(q) \in Nat /\ Len(q) - 1 \in Nat
  OBVIOUS
<1>2. Front(q) = SubSeq(q, 1, Len(q) - 1)
  BY DEF Front
<1> DEFINE p == SubSeq(q, 1, Len(q) - 1)
<1>3. p \in Seq(S) /\ Len(p) = Len(q) - 1 /\ \A j \in 1 .. Len(q) - 1 : p[j] = q[j]
  <2>1. /\ 1 \in Int /\ Len(q) - 1 \in Int /\ (Len(q) - 1) - 1 + 1 = Len(q) - 1
        /\ \A j \in 1 .. Len(q) - 1 : q[j] \in S
    BY <1>1
  <2>2. /\ p \in Seq(S) /\ Len(p) = IF 1 <= Len(q) - 1 THEN (Len(q) - 1) - 1 + 1 ELSE 0
        /\ \A j \in 1 .. (Len(q) - 1) - 1 + 1 : p[j] = q[1 + j - 1]
    BY ONLY <2>1, SubSeqProperties
  <2> HIDE DEF p
  <2>3. Len(p) = Len(q) - 1
    <3> DEFINE n == Len(q)
    <3>a. n \in Nat /\ n - 1 \in Nat
      BY <1>1
    <3> HIDE DEF n
    <3>b. n = 1 \/ n - 1 >= 1
      BY ONLY <3>a
    <3>1. Len(q) = 1 \/ Len(q) - 1 >= 1
      BY <3>b DEF n
    <3>2. CASE Len(q) - 1 >= 1
      BY <1>1, <2>2, <3>2
    <3>3. CASE Len(q) = 1
      BY <2>2, <3>3
    <3> QED
      BY <3>1, <3>2, <3>3
  <2>4. ASSUME NEW j \in 1 .. Len(q) - 1
        PROVE  p[j] = q[j]
    <3>1. j \in 1 .. (Len(q) - 1) - 1 + 1 /\ 1 + j - 1 = j
      BY <1>1
    <3> QED
      BY <2>2, <3>1
  <2> QED
    BY ONLY <2>2, <2>3, <2>4
<1> QED
  BY <1>1, <1>2, <1>3

\* The first position of a rid in a list.
LEMMA FirstIs ==
  ASSUME NEW S, NEW q \in Seq(S), NEW r, HasRid(q, r)
  PROVE  /\ First(q, r) \in 1 .. Len(q) /\ q[First(q, r)].rid = r
         /\ \A j \in 1 .. First(q, r) - 1 : q[j].rid # r
<1> DEFINE P == {i \in 1 .. Len(q) : q[i].rid = r}
<1>1. P \subseteq Nat /\ P # {}
  BY DEF HasRid
<1>2. PICK x \in P : \A y \in P : x <= y
  <2> HIDE DEF P
  <2> QED
    BY <1>1, Smallest
<1>3. x \in DOMAIN q /\ q[x].rid = r /\ \A j \in 1 .. (x - 1) : q[j].rid # r
  BY <1>2
<1>4. \E i \in DOMAIN q : q[i].rid = r /\ \A j \in 1 .. (i - 1) : q[j].rid # r
  BY <1>3
<1>5. /\ First(q, r) \in DOMAIN q /\ q[First(q, r)].rid = r
      /\ \A j \in 1 .. (First(q, r) - 1) : q[j].rid # r
  BY ONLY <1>4 DEF First
<1> QED
  BY <1>5

(***************************************************************************)
(* The order of handlers                                                   *)
(***************************************************************************)

HSet(hs) == {hs[i] : i \in 1 .. Len(hs)}

\* Handlers of different connections, with the references that Arrive gives.
HandlerList(hs) ==
    /\ hs \in Seq(Handler)
    /\ \A i \in 1 .. Len(hs) : hs[i].conn > 0 /\ hs[i].ref \in {hs[i].conn, -hs[i].conn}
    /\ \A i, j \in 1 .. Len(hs) : hs[i].conn = hs[j].conn => i = j

LEMMA HandlerIs ==
  ASSUME NEW hs, HandlerList(hs), NEW i \in 1 .. Len(hs)
  PROVE  /\ hs[i] \in Handler /\ hs[i].rid \in Nat /\ hs[i].ref \in Int /\ hs[i].conn \in Nat
         /\ Len(hs) \in Nat /\ DOMAIN hs = 1 .. Len(hs)
<1>1. hs \in Seq(Handler)
  BY DEF HandlerList
<1>2. hs[i] \in Handler
  BY <1>1
<1>3. hs[i].rid \in Nat /\ hs[i].ref \in Int /\ hs[i].conn \in Nat
  BY <1>2 DEF Handler
<1> QED
  BY <1>1, <1>2, <1>3

\* The order is strict, and total on a list of handlers.
LEMMA BeforeOrder ==
  ASSUME NEW hs, HandlerList(hs)
  PROVE  /\ \A i \in 1 .. Len(hs) : ~ Before(hs[i], hs[i])
         /\ \A i, j \in 1 .. Len(hs) : i # j => Before(hs[i], hs[j]) \/ Before(hs[j], hs[i])
         /\ \A i, j, k \in 1 .. Len(hs) :
              Before(hs[i], hs[j]) /\ Before(hs[j], hs[k]) => Before(hs[i], hs[k])
<1>1. \A i \in 1 .. Len(hs) : hs[i].rid \in Nat /\ hs[i].ref \in Int /\ hs[i].conn \in Nat
  BY HandlerIs
<1>2. ASSUME NEW i \in 1 .. Len(hs), NEW j \in 1 .. Len(hs), i # j
      PROVE  hs[i].ref # hs[j].ref
  <2>1. /\ hs[i].conn > 0 /\ hs[i].ref \in {hs[i].conn, -hs[i].conn}
        /\ hs[j].conn > 0 /\ hs[j].ref \in {hs[j].conn, -hs[j].conn}
        /\ hs[i].conn # hs[j].conn
    BY <1>2 DEF HandlerList
  <2> QED
    BY <1>1, <2>1
<1> QED
  BY <1>1, <1>2, SMTT(30) DEF Before

\* Different handlers have different places, from 1 to their number.
LEMMA PlaceIs ==
  ASSUME NEW hs, HandlerList(hs)
  PROVE  /\ \A i \in 1 .. Len(hs) : Place(hs, i) \in 1 .. Len(hs)
         /\ \A i, j \in 1 .. Len(hs) : Before(hs[i], hs[j]) => Place(hs, i) < Place(hs, j)
<1> DEFINE D == 1 .. Len(hs)
           B(i) == {j \in D : Before(hs[j], hs[i])}
<1>1. Len(hs) \in Nat /\ DOMAIN hs = D
  BY DEF HandlerList
<1>2. IsFiniteSet(D) /\ Cardinality(D) = Len(hs)
  <2>1. 1 \in Int /\ Len(hs) \in Int
    BY <1>1
  <2>2. IsFiniteSet(D) /\ Cardinality(D) = IF 1 > Len(hs) THEN 0 ELSE Len(hs) - 1 + 1
    BY <2>1, FS_Interval
  <2> QED
    BY <1>1, <2>2
<1>3. ASSUME NEW i \in D
      PROVE  IsFiniteSet(B(i)) /\ Cardinality(B(i)) \in Nat
  <2>1. B(i) \in SUBSET D
    OBVIOUS
  <2>2. IsFiniteSet(B(i))
    BY <1>2, <2>1, FS_Subset
  <2> QED
    BY <2>2, FS_CardinalityType
<1>4. \A i \in D : Place(hs, i) = Cardinality(B(i)) + 1
  BY <1>1 DEF Place
<1>5. ASSUME NEW i \in D
      PROVE  Cardinality(B(i)) < Len(hs)
  <2>1. B(i) \in SUBSET D /\ i \notin B(i)
    BY BeforeOrder
  <2>2. Cardinality(B(i)) <= Cardinality(D) /\ (Cardinality(D) = Cardinality(B(i)) => D = B(i))
    BY <1>2, <2>1, FS_Subset
  <2> QED
    BY <1>1, <1>2, <1>3, <2>1, <2>2, SMTT(30)
<1>6. ASSUME NEW i \in D, NEW j \in D, Before(hs[i], hs[j])
      PROVE  Cardinality(B(i)) < Cardinality(B(j))
  <2>1. B(i) \in SUBSET B(j) /\ i \notin B(i) /\ i \in B(j)
    BY <1>6, BeforeOrder
  <2>2. /\ IsFiniteSet(B(j)) /\ Cardinality(B(i)) \in Nat
        /\ Cardinality(B(j)) \in Nat
    BY <1>3
  <2>3. B(i) # B(j)
    BY <2>1
  <2> HIDE DEF B
  <2>4. Cardinality(B(i)) <= Cardinality(B(j))
        /\ (Cardinality(B(j)) = Cardinality(B(i)) => B(j) = B(i))
    BY <2>1, <2>2, FS_Subset
  <2> QED
    BY <2>2, <2>3, <2>4
<1>7. ASSUME NEW i \in D
      PROVE  Place(hs, i) \in 1 .. Len(hs)
  <2>1. Cardinality(B(i)) \in Nat /\ Cardinality(B(i)) < Len(hs)
    BY <1>3, <1>5
  <2> HIDE DEF B
  <2> QED
    BY <1>1, <1>4, <2>1
<1>8. ASSUME NEW i \in D, NEW j \in D, Before(hs[i], hs[j])
      PROVE  Place(hs, i) < Place(hs, j)
  <2>1. /\ Cardinality(B(i)) \in Nat /\ Cardinality(B(j)) \in Nat
        /\ Cardinality(B(i)) < Cardinality(B(j))
    BY <1>3, <1>6, <1>8
  <2> HIDE DEF B
  <2> QED
    BY <1>4, <2>1
<1> QED
  BY <1>7, <1>8

\* Every place is taken.
LEMMA PlaceTaken ==
  ASSUME NEW hs, HandlerList(hs), NEW n \in 1 .. Len(hs)
  PROVE  \E i \in 1 .. Len(hs) : Place(hs, i) = n
<1> DEFINE D == 1 .. Len(hs)
           f == [i \in D |-> Place(hs, i)]
<1>1. Len(hs) \in Nat /\ IsFiniteSet(D)
  BY FS_Interval DEF HandlerList
<1>2. f \in [D -> D]
  BY PlaceIs
<1>3. \A i, j \in D : f[i] = f[j] => i = j
  <2> SUFFICES ASSUME NEW i \in D, NEW j \in D, f[i] = f[j], i # j
               PROVE  FALSE
    OBVIOUS
  <2>1. Before(hs[i], hs[j]) \/ Before(hs[j], hs[i])
    BY BeforeOrder
  <2>2. Place(hs, i) < Place(hs, j) \/ Place(hs, j) < Place(hs, i)
    BY <2>1, PlaceIs
  <2>3. Place(hs, i) \in Nat /\ Place(hs, i) = Place(hs, j)
    BY <1>1, PlaceIs
  <2> QED
    BY <2>2, <2>3
<1> HIDE DEF f
<1>4. f \in Injection(D, D)
  BY <1>2, <1>3 DEF Injection, IsInjective
<1>5. f \in Surjection(D, D)
  BY <1>1, <1>4, FS_Injection
<1>6. \E i \in D : f[i] = n
  BY <1>5 DEF Surjection
<1> QED
  BY <1>6 DEF f

\* The sorted list has the same handlers, in order.
LEMMA SortedIs ==
  ASSUME NEW hs, HandlerList(hs)
  PROVE  /\ HandlerList(Sorted(hs)) /\ Len(Sorted(hs)) = Len(hs)
         /\ HSet(Sorted(hs)) = HSet(hs)
         /\ \A m, n \in 1 .. Len(hs) : m < n => Before(Sorted(hs)[m], Sorted(hs)[n])
<1> DEFINE D == 1 .. Len(hs)
           P(n) == CHOOSE i \in D : Place(hs, i) = n
           q == Sorted(hs)
<1>1. Len(hs) \in Nat /\ DOMAIN hs = D /\ \A i \in D : hs[i] \in Handler
  BY DEF HandlerList
<1>2. \A n \in D : P(n) \in D /\ Place(hs, P(n)) = n
  BY PlaceTaken
<1>3. q = [n \in D |-> hs[P(n)]]
  BY <1>1 DEF Sorted
<1>4. \A i \in D : P(Place(hs, i)) = i
  <2> SUFFICES ASSUME NEW i \in D, P(Place(hs, i)) # i
               PROVE  FALSE
    OBVIOUS
  <2> DEFINE k == P(Place(hs, i))
  <2>1. Place(hs, i) \in D
    BY PlaceIs
  <2>2. k \in D /\ Place(hs, k) = Place(hs, i)
    BY <1>2, <2>1
  <2> HIDE DEF P
  <2>3. Before(hs[i], hs[k]) \/ Before(hs[k], hs[i])
    BY <2>2, BeforeOrder
  <2>4. Place(hs, i) < Place(hs, k) \/ Place(hs, k) < Place(hs, i)
    BY <2>2, <2>3, PlaceIs
  <2> QED
    BY <1>1, <2>1, <2>2, <2>4
<1> HIDE DEF P, q
<1>5. q \in Seq(Handler) /\ Len(q) = Len(hs)
  BY <1>1, <1>2, <1>3
<1>6. ASSUME NEW m \in D, NEW n \in D, m < n
      PROVE  Before(q[m], q[n])
  <2>1. P(m) \in D /\ P(n) \in D /\ Place(hs, P(m)) = m /\ Place(hs, P(n)) = n
    BY <1>2
  <2>2. P(m) # P(n)
    BY <1>1, <1>6, <2>1
  <2>3. Before(hs[P(m)], hs[P(n)]) \/ Before(hs[P(n)], hs[P(m)])
    BY <2>1, <2>2, BeforeOrder
  <2>4. ~ Before(hs[P(n)], hs[P(m)])
    <3>1. Before(hs[P(n)], hs[P(m)]) => n < m
      BY <2>1, PlaceIs
    <3> QED
      BY <1>1, <1>6, <3>1
  <2> QED
    BY <1>3, <2>3, <2>4
<1>7. HSet(q) = HSet(hs)
  <2>1. \A n \in D : q[n] = hs[P(n)] /\ P(n) \in D
    BY <1>2, <1>3
  <2>2. \A i \in D : hs[i] = q[Place(hs, i)] /\ Place(hs, i) \in D
    BY <1>3, <1>4, PlaceIs
  <2>3. HSet(q) = {q[n] : n \in D} /\ HSet(hs) = {hs[n] : n \in D}
    BY <1>5 DEF HSet
  <2>4. {q[n] : n \in D} \subseteq {hs[n] : n \in D}
    BY <2>1
  <2>5. {hs[n] : n \in D} \subseteq {q[n] : n \in D}
    BY <2>2
  <2> QED
    BY <2>3, <2>4, <2>5
<1>8. HandlerList(q)
  <2>1. ASSUME NEW m \in D, NEW n \in D, q[m].conn = q[n].conn
        PROVE  m = n
    <3>1. P(m) \in D /\ P(n) \in D /\ hs[P(m)].conn = hs[P(n)].conn
      BY <1>2, <1>3, <2>1
    <3>2. P(m) = P(n)
      BY <3>1 DEF HandlerList
    <3> QED
      BY <1>2, <3>2
  <2>2. \A n \in D : q[n].conn > 0 /\ q[n].ref \in {q[n].conn, -q[n].conn}
    BY <1>2, <1>3 DEF HandlerList
  <2> QED
    BY <1>5, <2>1, <2>2 DEF HandlerList
<1> QED
  BY <1>5, <1>6, <1>7, <1>8 DEF q

(***************************************************************************)
(* The first handler in order                                              *)
(***************************************************************************)

\* The lowest handler is taken out of the list.
LEMMA PickIs ==
  ASSUME NEW hs, HandlerList(hs), hs # <<>>
  PROVE  /\ Sorted(hs)[1] \in HSet(hs) /\ Sorted(hs)[1] \in Handler
         /\ HandlerList(Tail(Sorted(hs))) /\ Len(Tail(Sorted(hs))) = Len(hs) - 1
         /\ HSet(Tail(Sorted(hs))) = HSet(hs) \ {Sorted(hs)[1]}
         /\ \A h \in HSet(hs) : Sorted(hs)[1].rid <= h.rid
<1> DEFINE q == Sorted(hs)
           p == Tail(q)
<1>1. /\ HandlerList(q) /\ Len(q) = Len(hs) /\ HSet(q) = HSet(hs)
      /\ \A m, n \in 1 .. Len(hs) : m < n => Before(q[m], q[n])
  BY SortedIs
<1>2. hs \in Seq(Handler) /\ q \in Seq(Handler)
  BY <1>1 DEF HandlerList
<1>3. Len(hs) \in Nat /\ Len(hs) # 0
  BY <1>2
<1>4. 1 \in 1 .. Len(q) /\ Len(q) \in Nat /\ q # <<>>
  BY <1>1, <1>2, <1>3
<1> HIDE DEF q
<1>5. /\ p \in Seq(Handler) /\ Len(p) = Len(hs) - 1
      /\ \A j \in 1 .. Len(hs) - 1 : p[j] = q[j + 1]
  BY <1>1, <1>2, <1>4, TailSeq
<1> HIDE DEF p
<1>6. q[1] \in HSet(q) /\ q[1] \in Handler
  <2>1. q[1] \in HSet(q)
    BY <1>4 DEF HSet
  <2> QED
    BY <1>1, <1>4, <2>1, HandlerIs
<1>7. HandlerList(p)
  <2>1. ASSUME NEW i \in 1 .. Len(p)
        PROVE  i + 1 \in 1 .. Len(q) /\ p[i] = q[i + 1]
    BY <1>1, <1>3, <1>5
  <2>2. ASSUME NEW i \in 1 .. Len(p), NEW j \in 1 .. Len(p), p[i].conn = p[j].conn
        PROVE  i = j
    <3>1. i + 1 = j + 1
      BY <1>1, <2>1, <2>2 DEF HandlerList
    <3> QED
      BY <3>1
  <2>3. \A i \in 1 .. Len(p) : p[i].conn > 0 /\ p[i].ref \in {p[i].conn, -p[i].conn}
    BY <1>1, <2>1 DEF HandlerList
  <2> QED
    BY <1>5, <2>2, <2>3 DEF HandlerList
<1>8. HSet(p) = HSet(q) \ {q[1]}
  <2>1. ASSUME NEW i \in 1 .. Len(q), NEW j \in 1 .. Len(q), i # j
        PROVE  q[i] # q[j]
    BY <1>1, <2>1 DEF HandlerList
  <2>2. ASSUME NEW h \in HSet(p)
        PROVE  h \in HSet(q) /\ h # q[1]
    <3>1. PICK j \in 1 .. Len(p) : h = p[j]
      BY DEF HSet
    <3>2. j + 1 \in 1 .. Len(q) /\ j + 1 # 1 /\ h = q[j + 1]
      BY <1>1, <1>3, <1>5, <3>1
    <3> QED
      BY <1>4, <2>1, <3>2 DEF HSet
  <2>3. ASSUME NEW h \in HSet(q), h # q[1]
        PROVE  h \in HSet(p)
    <3>1. PICK j \in 1 .. Len(q) : h = q[j]
      BY DEF HSet
    <3>2. j # 1
      BY <2>3, <3>1
    <3>3. j - 1 \in 1 .. Len(p) /\ (j - 1) + 1 = j /\ j - 1 \in 1 .. Len(hs) - 1
      BY <1>1, <1>3, <1>5, <3>2
    <3>4. h = p[j - 1]
      BY <1>5, <3>1, <3>3
    <3> QED
      BY <3>3, <3>4 DEF HSet
  <2> QED
    BY <2>2, <2>3
<1>9. ASSUME NEW h \in HSet(q)
      PROVE  q[1].rid <= h.rid
  <2>1. PICK j \in 1 .. Len(q) : h = q[j]
    BY DEF HSet
  <2>2. q[1].rid \in Nat /\ q[j].rid \in Nat
    BY <1>1, <1>4, HandlerIs
  <2>3. j = 1 \/ Before(q[1], q[j])
    BY <1>1, <1>4
  <2> QED
    BY <2>1, <2>2, <2>3 DEF Before
<1> QED
  BY <1>1, <1>5, <1>6, <1>7, <1>8, <1>9 DEF q, p

(***************************************************************************)
(* The cache of responses                                                  *)
(***************************************************************************)

CacheEntry == [rid : Nat, els : Seq(Elements)]

LEMMA LowerIs ==
  ASSUME NEW q \in Seq(CacheEntry), NEW r \in Nat
  PROVE  /\ Lower(q, r) \in 0 .. Len(q)
         /\ \A i \in 1 .. Lower(q, r) : q[i].rid < r
         /\ Lower(q, r) < Len(q) => q[Lower(q, r) + 1].rid >= r
<1> DEFINE S == {k \in 0 .. Len(q) : k < Len(q) => q[k + 1].rid >= r}
<1>1. Len(q) \in Nat /\ \A i \in 1 .. Len(q) : q[i].rid \in Nat
  <2>1. \A i \in 1 .. Len(q) : q[i] \in CacheEntry
    OBVIOUS
  <2> QED
    BY <2>1 DEF CacheEntry
<1>2. S \subseteq Nat /\ Len(q) \in S
  BY <1>1
<1>3. PICK k \in S : \A j \in S : k <= j
  <2> HIDE DEF S
  <2> QED
    BY <1>2, Smallest
<1>4. ASSUME NEW i \in 1 .. k
      PROVE  q[i].rid < r
  <2>1. k \in 0 .. Len(q) /\ i - 1 \in 0 .. Len(q) /\ i - 1 < k /\ i \in 1 .. Len(q)
    BY <1>1, <1>3
  <2>2. i - 1 \notin S
    <3> HIDE DEF S
    <3> QED
      BY <1>1, <1>3, <2>1
  <2>3. i - 1 < Len(q) /\ ~ (q[(i - 1) + 1].rid >= r) /\ (i - 1) + 1 = i
    BY <2>1, <2>2
  <2> QED
    BY <1>1, <2>1, <2>3
<1>5. k \in 0 .. Len(q) /\ (k < Len(q) => q[k + 1].rid >= r)
  BY <1>3
<1>6. \E n \in 0 .. Len(q) : /\ \A i \in 1 .. n : q[i].rid < r
                             /\ n < Len(q) => q[n + 1].rid >= r
  BY <1>4, <1>5
<1> QED
  BY ONLY <1>6 DEF Lower

\* The rids of cached responses.
SentRids(q) == {q[i].rid : i \in 1 .. Len(q)}

\* At most two responses are cached, those of before and the new one.
LEMMA CacheIs ==
  ASSUME NEW q \in Seq(CacheEntry), Len(q) <= ConcurrentRequests,
         NEW r \in Nat, NEW els \in Seq(Elements)
  PROVE  /\ CacheResponse(q, r, els) \in Seq(CacheEntry)
         /\ Len(CacheResponse(q, r, els)) <= ConcurrentRequests
         /\ SentRids(CacheResponse(q, r, els)) \subseteq SentRids(q) \cup {r}
<1> DEFINE e == [rid |-> r, els |-> els]
           k == Lower(q, r) + 1
           m == Merged(q, r, els)
<1>1. Len(q) \in Nat /\ Len(q) <= 2
  BY DEF ConcurrentRequests
<1>2. e \in CacheEntry
  BY DEF CacheEntry
<1>3. k \in 1 .. Len(q) + 1
  <2>1. Lower(q, r) \in 0 .. Len(q)
    BY LowerIs
  <2> QED
    BY <1>1, <2>1
<1>4. m = InsertAt(q, k, e)
  BY DEF Merged
<1> HIDE DEF e, k, m
<1>5. /\ m \in Seq(CacheEntry) /\ Len(m) = Len(q) + 1
      /\ \A j \in 1 .. Len(q) + 1 : m[j] = IF j < k THEN q[j] ELSE IF j = k THEN e ELSE q[j - 1]
  <2>1. /\ InsertAt(q, k, e) \in Seq(CacheEntry) /\ Len(InsertAt(q, k, e)) = Len(q) + 1
        /\ \A j \in 1 .. Len(q) + 1 :
             InsertAt(q, k, e)[j] = IF j < k THEN q[j] ELSE IF j = k THEN e ELSE q[j - 1]
    BY ONLY q \in Seq(CacheEntry), <1>2, <1>3, InsertAtSeq
  <2> QED
    BY ONLY <1>4, <2>1
<1>6. m # <<>>
  BY <1>1, <1>5
<1>7. /\ Tail(m) \in Seq(CacheEntry) /\ Len(Tail(m)) = Len(q)
      /\ \A j \in 1 .. Len(q) : Tail(m)[j] = m[j + 1]
  <2>1. /\ Tail(m) \in Seq(CacheEntry) /\ Len(Tail(m)) = Len(m) - 1
        /\ \A j \in 1 .. Len(m) - 1 : Tail(m)[j] = m[j + 1]
    BY <1>5, <1>6, TailSeq
  <2>2. Len(m) - 1 = Len(q)
    BY <1>1, <1>5
  <2> QED
    BY <2>1, <2>2
<1>a. SentRids(m) \subseteq SentRids(q) \cup {r}
  <2> SUFFICES ASSUME NEW j \in 1 .. Len(m)
               PROVE  m[j].rid \in SentRids(q) \cup {r}
    BY DEF SentRids
  <2>1. j \in 1 .. Len(q) + 1 /\ m[j] = IF j < k THEN q[j] ELSE IF j = k THEN e ELSE q[j - 1]
    BY <1>5
  <2>2. CASE j < k
    <3>1. j \in 1 .. Len(q)
      BY <1>1, <1>3, <2>1, <2>2
    <3> QED
      BY <2>1, <2>2, <3>1 DEF SentRids
  <2>3. CASE j = k
    BY <2>1, <2>3 DEF e
  <2>4. CASE j > k
    <3>1. j - 1 \in 1 .. Len(q) /\ ~ (j < k) /\ j # k
      BY <1>1, <1>3, <2>1, <2>4
    <3> QED
      BY <2>1, <3>1 DEF SentRids
  <2> QED
    BY <1>3, <2>1, <2>2, <2>3, <2>4
<1>b. SentRids(Tail(m)) \subseteq SentRids(m)
  <2> SUFFICES ASSUME NEW j \in 1 .. Len(q)
               PROVE  Tail(m)[j].rid \in SentRids(m)
    BY <1>7 DEF SentRids
  <2>1. j + 1 \in 1 .. Len(m)
    BY <1>1, <1>5
  <2> QED
    BY <1>7, <2>1 DEF SentRids
<1>8. CacheResponse(q, r, els) = IF Len(m) > 2 THEN Tail(m) ELSE m
  BY DEF CacheResponse, CacheUpTo, ConcurrentRequests, m
<1>9. CASE Len(m) > 2
  <2>1. CacheResponse(q, r, els) = Tail(m)
    BY <1>8, <1>9
  <2> QED
    BY <1>1, <1>7, <1>a, <1>b, <2>1 DEF ConcurrentRequests
<1>10. CASE ~ (Len(m) > 2)
  <2>1. CacheResponse(q, r, els) = m
    BY <1>8, <1>10
  <2> QED
    BY <1>1, <1>5, <1>10, <1>a, <2>1 DEF ConcurrentRequests
<1> QED
  BY <1>9, <1>10

(***************************************************************************)
(* Answers                                                                 *)
(***************************************************************************)

\* A stream end is the last thing that is pending.
EndLast(q) == \A i \in 1 .. Len(q) : q[i] = End => i = Len(q)

\* Nobody who was answered is still listed.
Apart(hs, replies) == \A h \in HSet(hs), m \in replies : h.conn # m.conn

Good(t) ==
    /\ t \in State /\ HandlerList(t.handlers) /\ Apart(t.handlers, t.reply)
    /\ Len(t.sent) <= ConcurrentRequests /\ EndLast(t.pending)

\* The rids of the requests that are open or were answered.
Rids(t) == SentRids(t.sent) \cup {h.rid : h \in HSet(t.handlers)}

LEMMA ApartFirst ==
  ASSUME NEW hs, HandlerList(hs), hs # <<>>, NEW replies, Apart(hs, replies), NEW els
  PROVE  /\ Apart(Tail(Sorted(hs)), replies)
         /\ Apart(Tail(Sorted(hs)), replies \cup {[conn |-> Sorted(hs)[1].conn, els |-> els]})
<1> DEFINE f == Sorted(hs)[1]
           q == Tail(Sorted(hs))
           m == [conn |-> f.conn, els |-> els]
<1>1. f \in HSet(hs) /\ HSet(q) = HSet(hs) \ {f}
  BY PickIs
<1>2. \A h \in HSet(hs) : h.conn = f.conn => h = f
  BY <1>1 DEF HandlerList, HSet
<1>3. m.conn = f.conn
  OBVIOUS
<1> HIDE DEF f, q, m
<1>4. Apart(q, replies) /\ Apart(q, replies \cup {m})
  BY <1>1, <1>2, <1>3 DEF Apart
<1> QED
  BY <1>4 DEF f, q, m

LEMMA StateIs ==
  ASSUME NEW t \in State
  PROVE  /\ t.name \in Names /\ t.handlers \in Seq(Handler) /\ t.pending \in Seq(Elements)
         /\ t.rid \in Nat /\ t.deferred \in Seq(Types) /\ t.sent \in Seq(CacheEntry)
         /\ t.idle \in BOOLEAN /\ t.fwd \in Seq([rid : Nat, type : Types])
         /\ t.reply \in SUBSET [conn : Nat, els : Bodies] /\ t.stop \in Stops
  BY DEF State, CacheEntry

\* What send_to_handler leaves of the state.
LEMMA SendToIs ==
  ASSUME NEW t \in State, NEW h, NEW data, ~ NoBody(data),
         NEW u, u = SendTo(t, h, data),
         NEW els, els = IF Splits(data) THEN Front(data) ELSE data
  PROVE  /\ u.name = t.name /\ u.handlers = t.handlers /\ u.rid = t.rid
         /\ u.deferred = t.deferred /\ u.fwd = t.fwd /\ u.stop = t.stop
         /\ u.sent = CacheResponse(t.sent, h.rid, els)
         /\ u.pending = IF Splits(data) THEN Append(t.pending, End) ELSE t.pending
         /\ u.idle = (t.idle \/ t.handlers = <<>>)
         /\ u.reply = t.reply \cup {[conn |-> h.conn, els |-> els]}
         /\ u.sent \in Seq(CacheEntry) /\ u.pending \in Seq(Elements)
              /\ [conn |-> h.conn, els |-> els] \in [conn : Nat, els : Bodies]
                 => u \in State
<1> DEFINE c == CacheResponse(t.sent, h.rid, els)
           p == IF Splits(data) THEN Append(t.pending, End) ELSE t.pending
           m == [conn |-> h.conn, els |-> els]
           v == [t EXCEPT !.sent = c, !.pending = p]
<1>a. SendTo(t, h, data) = Reply(v, h, els)
  BY DEF SendTo
<1>b. u = [v EXCEPT !.reply = v.reply \cup {m}, !.idle = v.idle \/ v.handlers = <<>>]
  <2> HIDE DEF v, c, p
  <2> QED
    BY <1>a DEF Reply
<1> HIDE DEF c, p, m
<1>c. v.handlers = t.handlers /\ v.reply = t.reply /\ v.idle = t.idle
  BY DEF State
<1>1. u = [v EXCEPT !.reply = t.reply \cup {m}, !.idle = t.idle \/ t.handlers = <<>>]
  BY <1>b, <1>c
<1>2. u = [t EXCEPT !.sent = c, !.pending = p, !.reply = t.reply \cup {m},
                    !.idle = t.idle \/ t.handlers = <<>>]
  BY <1>1 DEF State
<1>3. /\ u.name = t.name /\ u.handlers = t.handlers /\ u.rid = t.rid
      /\ u.deferred = t.deferred /\ u.fwd = t.fwd /\ u.stop = t.stop
      /\ u.sent = c /\ u.pending = p
      /\ u.idle = (t.idle \/ t.handlers = <<>>)
      /\ u.reply = t.reply \cup {m}
  BY <1>2 DEF State
<1>4. ASSUME c \in Seq(CacheEntry), p \in Seq(Elements), m \in [conn : Nat, els : Bodies]
      PROVE  u \in State
  <2>1. (t.idle \/ t.handlers = <<>>) \in BOOLEAN /\ t.reply \cup {m} \in SUBSET [conn : Nat, els : Bodies]
    BY <1>4, StateIs
  <2> QED
    BY <1>2, <1>4, <2>1 DEF State, CacheEntry
<1> QED
  BY <1>3, <1>4 DEF c, p, m

\* What the client is given of the data.
Wrapped(data) == IF Splits(data) THEN Front(data) ELSE data

LEMMA WrappedIs ==
  ASSUME NEW data \in Seq(Elements)
  PROVE  Wrapped(data) \in Seq(Elements)
<1>1. CASE Splits(data)
  <2>1. data # <<>>
    BY <1>1 DEF Splits
  <2>2. Front(data) \in Seq(Elements)
    BY <2>1, FrontSeq
  <2> QED
    BY <1>1, <2>2 DEF Wrapped
<1>2. CASE ~ Splits(data)
  BY <1>2 DEF Wrapped
<1> QED
  BY <1>1, <1>2

LEMMA MessageIs ==
  ASSUME NEW h \in Handler, NEW els \in Seq(Elements)
  PROVE  [conn |-> h.conn, els |-> els] \in [conn : Nat, els : Bodies]
<1>1. h.conn \in Nat /\ els \in Bodies
  BY DEF Handler, Bodies
<1> QED
  BY <1>1

\* A state with other handlers.
LEMMA WithHandlers ==
  ASSUME NEW t \in State, NEW hs \in Seq(Handler), NEW u, u = [t EXCEPT !.handlers = hs]
  PROVE  /\ u \in State /\ u.handlers = hs
         /\ u.name = t.name /\ u.pending = t.pending /\ u.rid = t.rid
         /\ u.deferred = t.deferred /\ u.sent = t.sent /\ u.idle = t.idle
         /\ u.fwd = t.fwd /\ u.reply = t.reply /\ u.stop = t.stop
  BY DEF State

\* What pick_handler and send_to_handler leave of the state.
LEMMA SendToFirstIs ==
  ASSUME NEW t, Good(t), t.handlers # <<>>, NEW data \in Seq(Elements), ~ NoBody(data),
         Splits(data) => t.pending = <<>>,
         NEW u, u = SendToFirst(t, data)
  PROVE  /\ u.name = t.name /\ u.rid = t.rid
         /\ u.deferred = t.deferred /\ u.fwd = t.fwd /\ u.stop = t.stop
         /\ u.handlers = Tail(Sorted(t.handlers))
         /\ u.sent = CacheResponse(t.sent, Sorted(t.handlers)[1].rid, Wrapped(data))
         /\ u.pending = IF Splits(data) THEN <<End>> ELSE t.pending
         /\ u.idle = (t.idle \/ u.handlers = <<>>)
         /\ u.reply = t.reply \cup {[conn |-> Sorted(t.handlers)[1].conn, els |-> Wrapped(data)]}
         /\ Good(u) /\ Rids(u) \subseteq Rids(t)
<1> DEFINE h == Sorted(t.handlers)[1]
           q == Tail(Sorted(t.handlers))
           v == Picked(t)
<1>1. t \in State /\ HandlerList(t.handlers) /\ Len(t.sent) <= ConcurrentRequests
      /\ EndLast(t.pending)
  BY DEF Good
<1>2. h \in Handler /\ HandlerList(q) /\ h \in HSet(t.handlers) /\ HSet(q) \subseteq HSet(t.handlers)
  BY <1>1, PickIs
<1>3. q \in Seq(Handler)
  BY <1>2 DEF HandlerList
<1>4. v = [t EXCEPT !.handlers = q]
  BY DEF Picked
<1>5. u = SendTo(v, h, data)
  BY DEF SendToFirst
<1> HIDE DEF h, q, v
<1>6. /\ v \in State /\ v.handlers = q
      /\ v.name = t.name /\ v.pending = t.pending /\ v.rid = t.rid
      /\ v.deferred = t.deferred /\ v.sent = t.sent /\ v.idle = t.idle
      /\ v.fwd = t.fwd /\ v.reply = t.reply /\ v.stop = t.stop
  BY <1>1, <1>3, <1>4, WithHandlers
<1> DEFINE els == Wrapped(data)
<1>7. els = IF Splits(data) THEN Front(data) ELSE data
  BY DEF Wrapped
<1>8. els \in Seq(Elements)
  BY WrappedIs
<1> HIDE DEF els
<1>9. /\ u.name = v.name /\ u.handlers = v.handlers /\ u.rid = v.rid
      /\ u.deferred = v.deferred /\ u.fwd = v.fwd /\ u.stop = v.stop
      /\ u.sent = CacheResponse(v.sent, h.rid, els)
      /\ u.pending = IF Splits(data) THEN Append(v.pending, End) ELSE v.pending
      /\ u.idle = (v.idle \/ v.handlers = <<>>)
      /\ u.reply = v.reply \cup {[conn |-> h.conn, els |-> els]}
      /\ u.sent \in Seq(CacheEntry) /\ u.pending \in Seq(Elements)
           /\ [conn |-> h.conn, els |-> els] \in [conn : Nat, els : Bodies]
              => u \in State
  BY <1>5, <1>6, <1>7, SendToIs
<1>10. u.pending = IF Splits(data) THEN <<End>> ELSE t.pending
  <2>1. CASE Splits(data)
    <3>1. u.pending = Append(<<>>, End)
      BY <1>6, <1>9, <2>1
    <3> QED
      BY <2>1, <3>1
  <2>2. CASE ~ Splits(data)
    BY <1>6, <1>9, <2>2
  <2> QED
    BY <2>1, <2>2
<1>11. u.pending \in Seq(Elements) /\ EndLast(u.pending)
  <2>1. t.pending \in Seq(Elements)
    BY <1>1, StateIs
  <2>2. End \in Elements
    BY BoshAssumption DEF End, Elements
  <2>3. <<End>> \in Seq(Elements) /\ EndLast(<<End>>)
    BY <2>2 DEF EndLast
  <2> QED
    BY <1>1, <1>10, <2>1, <2>3
<1>12. /\ u.sent \in Seq(CacheEntry) /\ Len(u.sent) <= ConcurrentRequests
       /\ SentRids(u.sent) \subseteq SentRids(t.sent) \cup {h.rid}
  <2>1. t.sent \in Seq(CacheEntry) /\ h.rid \in Nat
    BY <1>1, <1>2, StateIs DEF Handler
  <2> QED
    <3> DEFINE c == CacheResponse(t.sent, h.rid, els)
    <3>1. /\ c \in Seq(CacheEntry) /\ Len(c) <= ConcurrentRequests
          /\ SentRids(c) \subseteq SentRids(t.sent) \cup {h.rid}
      BY ONLY <1>1, <1>8, <2>1, CacheIs
    <3>2. u.sent = c
      BY <1>6, <1>9
    <3> HIDE DEF c
    <3> QED
      BY ONLY <3>1, <3>2
<1>13. u \in State
  BY <1>2, <1>8, <1>9, <1>11, <1>12, MessageIs
<1>14. Good(u)
  <2>1. Apart(t.handlers, t.reply)
    BY DEF Good
  <2>2. Apart(u.handlers, u.reply)
    <3>1. Apart(Tail(Sorted(t.handlers)),
                t.reply \cup {[conn |-> Sorted(t.handlers)[1].conn, els |-> els]})
      BY <1>1, <2>1, ApartFirst
    <3>2. Apart(q, t.reply \cup {[conn |-> h.conn, els |-> els]})
      BY <3>1 DEF h, q
    <3> QED
      BY <1>6, <1>9, <3>2
  <2> QED
    BY <1>2, <1>6, <1>9, <1>11, <1>12, <1>13, <2>2 DEF Good
<1>15. Rids(u) \subseteq Rids(t)
  <2>1. u.handlers = q
    BY <1>6, <1>9
  <2> QED
    BY <1>2, <1>12, <2>1 DEF Rids
<1> QED
  BY <1>6, <1>9, <1>10, <1>14, <1>15 DEF h, q, els

\* u is t after some of its handlers have been answered.
Answers(t, u) ==
    /\ Good(u) /\ u.name = t.name /\ u.rid = t.rid /\ u.deferred = t.deferred /\ u.fwd = t.fwd
    /\ HSet(u.handlers) \subseteq HSet(t.handlers) /\ Len(u.handlers) <= Len(t.handlers)
    /\ t.reply \subseteq u.reply /\ u.stop \in {t.stop, "no body"} /\ Rids(u) \subseteq Rids(t)
    /\ \/ Crashed(u)
       \/ /\ \A h \in HSet(t.handlers) \ HSet(u.handlers) : \E m \in u.reply : m.conn = h.conn
          /\ t.idle => u.idle
          /\ u.handlers = <<>> => t.handlers = <<>> \/ u.idle

\* Nothing new is pending after a stream end.
Sends(t, u) == Answers(t, u) /\ (Has(u.pending, End) => Has(t.pending, End))

LEMMA SendsNothing ==
  ASSUME NEW t, Good(t)
  PROVE  Sends(t, t)
<1>1. Len(t.handlers) \in Nat
  BY DEF Good, HandlerList
<1> QED
  BY <1>1 DEF Sends, Answers

LEMMA SendsMore ==
  ASSUME NEW t, NEW u, NEW v, Good(t), Sends(t, u), Sends(u, v)
  PROVE  Sends(t, v)
<1>1. Good(u) /\ Good(v)
  BY DEF Sends, Answers
<1>2. Len(t.handlers) \in Nat /\ Len(u.handlers) \in Nat /\ Len(v.handlers) \in Nat
  BY <1>1 DEF Good, HandlerList
<1>3. Len(v.handlers) <= Len(t.handlers)
  <2>1. Len(v.handlers) <= Len(u.handlers) /\ Len(u.handlers) <= Len(t.handlers)
    BY DEF Sends, Answers
  <2> QED
    BY <1>2, <2>1
<1>4. Crashed(u) => Crashed(v)
  BY DEF Sends, Answers, Crashed
<1>5. ASSUME ~ Crashed(v)
      PROVE  /\ \A h \in HSet(t.handlers) \ HSet(v.handlers) : \E m \in v.reply : m.conn = h.conn
             /\ t.idle => v.idle
             /\ v.handlers = <<>> => t.handlers = <<>> \/ v.idle
  <2>1. ~ Crashed(u)
    BY <1>4, <1>5
  <2> QED
    BY <1>5, <2>1 DEF Sends, Answers
<1> QED
  BY <1>1, <1>3, <1>5 DEF Sends, Answers

LEMMA WithPending ==
  ASSUME NEW t \in State, NEW p \in Seq(Elements), NEW u, u = [t EXCEPT !.pending = p]
  PROVE  /\ u \in State /\ u.pending = p
         /\ u.name = t.name /\ u.handlers = t.handlers /\ u.rid = t.rid
         /\ u.deferred = t.deferred /\ u.sent = t.sent /\ u.idle = t.idle
         /\ u.fwd = t.fwd /\ u.reply = t.reply /\ u.stop = t.stop
  BY DEF State

\* The handlers of two states, one of which has lost one of them.
LEMMA OneAnswered ==
  ASSUME NEW t, NEW u, Good(t), t.handlers # <<>>,
         u.handlers = Tail(Sorted(t.handlers))
  PROVE  /\ HSet(u.handlers) \subseteq HSet(t.handlers)
         /\ Len(u.handlers) <= Len(t.handlers) /\ Len(u.handlers) = Len(t.handlers) - 1
         /\ HSet(t.handlers) \ HSet(u.handlers) = {Sorted(t.handlers)[1]}
<1>1. HandlerList(t.handlers) /\ Len(t.handlers) \in Nat
  BY DEF Good, HandlerList
<1>2. /\ Sorted(t.handlers)[1] \in HSet(t.handlers)
      /\ Len(u.handlers) = Len(t.handlers) - 1
      /\ HSet(u.handlers) = HSet(t.handlers) \ {Sorted(t.handlers)[1]}
  BY <1>1, PickIs
<1>3. Len(u.handlers) <= Len(t.handlers)
  BY <1>1, <1>2
<1> QED
  BY <1>2, <1>3

LEMMA AnswersFirst ==
  ASSUME NEW t, Good(t), t.handlers # <<>>, NEW data \in Seq(Elements),
         Splits(data) => t.pending = <<>>,
         NEW u, u = SendToFirst(t, data)
  PROVE  /\ Answers(t, u) /\ (Has(u.pending, End) => Has(t.pending, End) \/ Has(data, End))
         /\ Len(u.handlers) = Len(t.handlers) - 1
<1>1. CASE ~ NoBody(data)
  <2>1. /\ u.name = t.name /\ u.rid = t.rid
        /\ u.deferred = t.deferred /\ u.fwd = t.fwd /\ u.stop = t.stop
        /\ u.handlers = Tail(Sorted(t.handlers))
        /\ u.pending = IF Splits(data) THEN <<End>> ELSE t.pending
        /\ u.idle = (t.idle \/ u.handlers = <<>>)
        /\ u.reply = t.reply \cup {[conn |-> Sorted(t.handlers)[1].conn, els |-> Wrapped(data)]}
        /\ Good(u) /\ Rids(u) \subseteq Rids(t)
    BY <1>1, SendToFirstIs
  <2>2. /\ HSet(u.handlers) \subseteq HSet(t.handlers)
        /\ Len(u.handlers) <= Len(t.handlers) /\ Len(u.handlers) = Len(t.handlers) - 1
        /\ HSet(t.handlers) \ HSet(u.handlers) = {Sorted(t.handlers)[1]}
    BY <2>1, OneAnswered
  <2>3. \A h \in HSet(t.handlers) \ HSet(u.handlers) : \E m \in u.reply : m.conn = h.conn
    <3> DEFINE m == [conn |-> Sorted(t.handlers)[1].conn, els |-> Wrapped(data)]
    <3>1. m \in u.reply /\ m.conn = Sorted(t.handlers)[1].conn
      BY <2>1
    <3> QED
      BY <2>2, <3>1
  <2>4. t.reply \subseteq u.reply
    BY <2>1
  <2>5. Answers(t, u)
    BY <2>1, <2>2, <2>3, <2>4 DEF Answers
  <2>6. Has(u.pending, End) => Has(t.pending, End) \/ Has(data, End)
    BY <2>1 DEF Splits
  <2> QED
    BY <2>2, <2>5, <2>6
<1>2. CASE NoBody(data)
  <2> DEFINE q == Tail(Sorted(t.handlers))
             v == Picked(t)
  <2>1. t \in State /\ HandlerList(t.handlers)
    BY DEF Good
  <2>2. HandlerList(q)
    BY <2>1, PickIs
  <2>3. q \in Seq(Handler) /\ v = [t EXCEPT !.handlers = q]
    BY <2>2 DEF HandlerList, Picked
  <2>4. u = [v EXCEPT !.stop = "no body"]
    <3> HIDE DEF v
    <3>1. u = SendTo(v, Sorted(t.handlers)[1], data)
      BY DEF SendToFirst, v
    <3> QED
      BY <1>2, <3>1 DEF SendTo
  <2> HIDE DEF q, v
  <2>5. /\ v \in State /\ v.handlers = q
        /\ v.name = t.name /\ v.pending = t.pending /\ v.rid = t.rid
        /\ v.deferred = t.deferred /\ v.sent = t.sent
        /\ v.fwd = t.fwd /\ v.reply = t.reply
    BY <2>1, <2>3, WithHandlers
  <2>6. "no body" \in Stops
    BY DEF Stops
  <2>7. /\ u \in State /\ u.handlers = q
        /\ u.name = t.name /\ u.pending = t.pending /\ u.rid = t.rid
        /\ u.deferred = t.deferred /\ u.sent = t.sent
        /\ u.fwd = t.fwd /\ u.reply = t.reply /\ u.stop = "no body"
    <3>1. /\ u \in State /\ u.stop = "no body"
          /\ u.name = v.name /\ u.pending = v.pending /\ u.rid = v.rid
          /\ u.deferred = v.deferred /\ u.sent = v.sent /\ u.idle = v.idle
          /\ u.fwd = v.fwd /\ u.reply = v.reply /\ u.handlers = v.handlers
      BY <2>4, <2>5, <2>6 DEF State
    <3> QED
      BY <2>5, <3>1
  <2>8. Good(u)
    <3>1. Apart(q, t.reply)
      BY <2>1, ApartFirst DEF Good, q
    <3> QED
      BY <2>2, <2>7, <3>1 DEF Good
  <2>9. HSet(u.handlers) \subseteq HSet(t.handlers) /\ Len(u.handlers) <= Len(t.handlers)
        /\ Len(u.handlers) = Len(t.handlers) - 1
    BY <2>7, OneAnswered DEF q
  <2>10. Rids(u) \subseteq Rids(t)
    BY <2>7, <2>9 DEF Rids
  <2>11. Answers(t, u)
    BY <2>7, <2>8, <2>9, <2>10 DEF Answers, Crashed
  <2> QED
    BY <2>7, <2>9, <2>11
<1> QED
  BY <1>1, <1>2

LEMMA ValidHasHandler ==
  ASSUME NEW t, Good(t), Valid(t)
  PROVE  t.handlers # <<>>
  BY DEF Valid, Good, HandlerList

\* What is pending goes to the first handler, or stays.
LEMMA SendPendingIs ==
  ASSUME NEW t, Good(t), NEW v, v = [t EXCEPT !.pending = <<>>]
  PROVE  /\ Good(v) /\ v.pending = <<>>
         /\ v.name = t.name /\ v.handlers = t.handlers /\ v.rid = t.rid
         /\ v.deferred = t.deferred /\ v.sent = t.sent /\ v.idle = t.idle
         /\ v.fwd = t.fwd /\ v.reply = t.reply /\ v.stop = t.stop
         /\ t.pending \in Seq(Elements)
         /\ SendPending(t) = IF Valid(t) THEN SendToFirst(v, t.pending) ELSE t
<1>1. t \in State /\ t.pending \in Seq(Elements) /\ <<>> \in Seq(Elements)
  BY StateIs DEF Good
<1>2. /\ v \in State /\ v.pending = <<>>
      /\ v.name = t.name /\ v.handlers = t.handlers /\ v.rid = t.rid
      /\ v.deferred = t.deferred /\ v.sent = t.sent /\ v.idle = t.idle
      /\ v.fwd = t.fwd /\ v.reply = t.reply /\ v.stop = t.stop
  BY ONLY <1>1, v = [t EXCEPT !.pending = <<>>] DEF State
<1>3. Good(v)
  BY <1>2 DEF Good, EndLast
<1>4. SendPending(t) = SendOrStore(v, t.pending)
  BY DEF SendPending
<1>5. Valid(v) <=> Valid(t)
  BY <1>2 DEF Valid
<1>6. <<>> \o t.pending = t.pending
  BY <1>1
<1>7. [v EXCEPT !.pending = v.pending \o t.pending] = t
  <2>1. [v EXCEPT !.pending = v.pending \o t.pending] = [v EXCEPT !.pending = t.pending]
    BY <1>2, <1>6
  <2>2. [v EXCEPT !.pending = t.pending] = t
    BY <1>1, v = [t EXCEPT !.pending = <<>>] DEF State
  <2> QED
    BY <2>1, <2>2
<1> QED
  BY <1>1, <1>2, <1>3, <1>4, <1>5, <1>7 DEF SendOrStore

LEMMA SendsPending ==
  ASSUME NEW t, Good(t)
  PROVE  Sends(t, SendPending(t))
<1> DEFINE v == [t EXCEPT !.pending = <<>>]
           u == SendPending(t)
<1>1. /\ Good(v) /\ v.pending = <<>>
      /\ v.name = t.name /\ v.handlers = t.handlers /\ v.rid = t.rid
      /\ v.deferred = t.deferred /\ v.sent = t.sent /\ v.idle = t.idle
      /\ v.fwd = t.fwd /\ v.reply = t.reply /\ v.stop = t.stop
      /\ t.pending \in Seq(Elements)
      /\ u = IF Valid(t) THEN SendToFirst(v, t.pending) ELSE t
  BY SendPendingIs
<1> HIDE DEF v, u
<1>2. CASE ~ Valid(t)
  BY <1>1, <1>2, SendsNothing DEF u
<1>3. CASE Valid(t)
  <2>1. v.handlers # <<>> /\ u = SendToFirst(v, t.pending)
    BY <1>1, <1>3, ValidHasHandler
  <2>2. /\ Answers(v, u)
        /\ Has(u.pending, End) => Has(v.pending, End) \/ Has(t.pending, End)
    BY <1>1, <2>1, AnswersFirst
  <2>3. ~ Has(v.pending, End)
    BY <1>1 DEF Has
  <2>4. Rids(v) = Rids(t)
    BY <1>1 DEF Rids
  <2>5. Answers(t, u)
    BY <1>1, <2>2, <2>4 DEF Answers
  <2> QED
    BY <2>2, <2>3, <2>5 DEF Sends, u
<1> QED
  BY <1>2, <1>3

(***************************************************************************)
(* Empty answers to several handlers                                       *)
(***************************************************************************)

Step(t) == IF Valid(t) THEN SendToFirst(t, <<>>) ELSE t

\* A function defined by recursion on numbers is what its definition says.
LEMMA ReturnedIs ==
  ASSUME NEW t
  PROVE  Returned(t, 0) = t /\ \A n \in Nat : Returned(t, n + 1) = Step(Returned(t, n))
<1> DEFINE Tr(g, n) == g = [i \in 0 .. n |-> IF i = 0 THEN t ELSE Step(g[i - 1])]
           Def(f) == f = [i \in Nat |-> IF i = 0 THEN t ELSE Step(f[i - 1])]
<1>1. ASSUME NEW n0 \in Nat
      PROVE  \E g : Tr(g, n0)
  <2> SUFFICES ASSUME ~ \E g : Tr(g, n0)
               PROVE  FALSE
    OBVIOUS
  <2> DEFINE S == {n \in Nat : ~ \E g : Tr(g, n)}
  <2>1. S \subseteq Nat /\ n0 \in S
    OBVIOUS
  <2>2. PICK n \in S : \A m \in S : n <= m
    <3> HIDE DEF S
    <3> QED
      BY <2>1, Smallest
  <2>3. n \in Nat /\ ~ \E g : Tr(g, n)
    BY <2>2
  <2>4. n # 0
    <3> DEFINE g == [i \in 0 .. 0 |-> t]
    <3>1. Tr(g, 0)
      OBVIOUS
    <3> QED
      BY <2>3, <3>1
  <2>5. n - 1 \in Nat /\ n - 1 \notin S
    <3> HIDE DEF S
    <3> QED
      BY <2>2, <2>3, <2>4
  <2>6. PICK g : Tr(g, n - 1)
    BY <2>5
  <2> DEFINE h == [i \in 0 .. n |-> IF i = 0 THEN t ELSE Step(g[i - 1])]
  <2>7. \A i \in 0 .. n - 1 : h[i] = g[i]
    BY <2>3, <2>5, <2>6
  <2>8. \A i \in 0 .. n : h[i] = IF i = 0 THEN t ELSE Step(h[i - 1])
    <3> SUFFICES ASSUME NEW i \in 0 .. n
                 PROVE  h[i] = IF i = 0 THEN t ELSE Step(h[i - 1])
      OBVIOUS
    <3>1. h[i] = IF i = 0 THEN t ELSE Step(g[i - 1])
      OBVIOUS
    <3>2. i # 0 => h[i - 1] = g[i - 1]
      <4> HIDE DEF h
      <4> QED
        BY <2>3, <2>7
    <3> HIDE DEF h
    <3> QED
      BY <3>1, <3>2
  <2>9. Tr(h, n)
    BY <2>8
  <2> QED
    BY <2>3, <2>9
<1>2. ASSUME NEW m \in Nat, NEW n \in Nat, NEW g, NEW h, Tr(g, m), Tr(h, n), m <= n
      PROVE  g[m] = h[m]
  <2> DEFINE S == {i \in 0 .. m : g[i] # h[i]}
  <2> SUFFICES ASSUME S # {}
               PROVE  FALSE
    OBVIOUS
  <2>1. S \subseteq Nat
    OBVIOUS
  <2>2. PICK i \in S : \A j \in S : i <= j
    <3> HIDE DEF S
    <3> QED
      BY <2>1, Smallest
  <2>3. i \in 0 .. m /\ g[i] # h[i]
    BY <2>2
  <2>4. i # 0
    BY <1>2, <2>3
  <2>5. i - 1 \in 0 .. m /\ i - 1 \notin S
    <3> HIDE DEF S
    <3> QED
      BY <2>2, <2>3, <2>4
  <2>6. g[i - 1] = h[i - 1]
    BY <2>5
  <2> QED
    BY <1>2, <2>3, <2>4, <2>6
<1> DEFINE T(n) == CHOOSE g : Tr(g, n)
           F == [n \in Nat |-> T(n)[n]]
<1>3. \A n \in Nat : Tr(T(n), n)
  BY <1>1
<1> HIDE DEF T
<1>4. Def(F)
  <2>1. ASSUME NEW n \in Nat
        PROVE  F[n] = IF n = 0 THEN t ELSE Step(F[n - 1])
    <3>1. Tr(T(n), n)
      BY <1>3
    <3>2. CASE n = 0
      BY <3>1, <3>2
    <3>3. CASE n # 0
      <4>1. n - 1 \in Nat /\ Tr(T(n - 1), n - 1)
        BY <1>3, <3>3
      <4>2. T(n - 1)[n - 1] = T(n)[n - 1]
        BY <1>2, <3>1, <4>1
      <4>3. T(n)[n] = Step(T(n)[n - 1])
        BY <3>1, <3>3
      <4> QED
        BY <3>3, <4>1, <4>2, <4>3
    <3> QED
      BY <3>2, <3>3
  <2> QED
    BY <2>1
<1> DEFINE f == CHOOSE f : Def(f)
<1>5. Def(f)
  BY <1>4
<1>6. \A n \in Nat : f[n] = IF n = 0 THEN t ELSE Step(f[n - 1])
  BY <1>5
<1>7. \A n : Returned(t, n) = f[n]
  BY DEF Returned, Step
<1> HIDE DEF f
<1> QED
  BY <1>6, <1>7

EmptyFacts == <<>> \in Seq(Elements) /\ ~ NoBody(<<>>) /\ ~ Splits(<<>>) /\ ~ Has(<<>>, End)
                /\ Wrapped(<<>>) = <<>>

LEMMA EmptyIs == EmptyFacts
  BY DEF EmptyFacts, NoBody, Splits, Has, Wrapped

\* u is t after an empty answer to handlers with processed rids.
Returns(t, u) == Sends(t, u) /\ u.stop = t.stop /\ u.pending = t.pending

LEMMA ReturnsOne ==
  ASSUME NEW t, Good(t)
  PROVE  /\ Returns(t, Step(t))
         /\ Valid(t) => Len(Step(t).handlers) = Len(t.handlers) - 1
<1>1. CASE ~ Valid(t)
  BY <1>1, SendsNothing DEF Step, Returns
<1>2. CASE Valid(t)
  <2> DEFINE u == Step(t)
             e == <<>>
  <2>1. u = SendToFirst(t, e) /\ t.handlers # <<>>
    BY <1>2, ValidHasHandler DEF Step
  <2>2. /\ e \in Seq(Elements) /\ ~ NoBody(e) /\ ~ Splits(e) /\ ~ Has(e, End)
        /\ Wrapped(e) = <<>>
    BY EmptyIs DEF EmptyFacts
  <2> HIDE DEF u, e
  <2>3. Answers(t, u) /\ (Has(u.pending, End) => Has(t.pending, End))
    BY <2>1, <2>2, AnswersFirst
  <2>4. u.stop = t.stop /\ u.pending = t.pending /\ u.handlers = Tail(Sorted(t.handlers))
    <3>1. /\ u.stop = t.stop /\ u.handlers = Tail(Sorted(t.handlers))
          /\ u.pending = IF Splits(e) THEN <<End>> ELSE t.pending
      BY <2>1, <2>2, SendToFirstIs
    <3> QED
      BY <2>2, <3>1
  <2>5. Len(u.handlers) = Len(t.handlers) - 1
    BY <2>1, <2>4, OneAnswered
  <2> QED
    BY <2>3, <2>4, <2>5 DEF Returns, Sends, u
<1> QED
  BY <1>1, <1>2

\* One handler less for every answer, as long as there is one to answer.
LEMMA ReturnsSome ==
  ASSUME NEW t, Good(t), NEW n0 \in Nat
  PROVE  /\ Returns(t, Returned(t, n0))
         /\ ~ Valid(Returned(t, n0)) \/ Len(Returned(t, n0).handlers) = Len(t.handlers) - n0
<1> DEFINE P(n) == /\ Returns(t, Returned(t, n))
                   /\ ~ Valid(Returned(t, n)) \/ Len(Returned(t, n).handlers) = Len(t.handlers) - n
           S == {n \in Nat : ~ P(n)}
<1> SUFFICES ASSUME ~ P(n0)
             PROVE  FALSE
  OBVIOUS
<1>1. S \subseteq Nat /\ n0 \in S
  OBVIOUS
<1>2. PICK n \in S : \A m \in S : n <= m
  <2> HIDE DEF S
  <2> QED
    BY <1>1, Smallest
<1>3. n \in Nat /\ ~ P(n)
  BY <1>2
<1>4. Len(t.handlers) \in Nat
  BY DEF Good, HandlerList
<1>5. n # 0
  <2>1. Returned(t, 0) = t
    BY ReturnedIs
  <2>2. P(0)
    BY <1>4, <2>1, SendsNothing DEF Returns
  <2> HIDE DEF P
  <2> QED
    BY <1>3, <2>2
<1>6. n - 1 \in Nat /\ n - 1 \notin S
  <2> HIDE DEF S
  <2> QED
    BY <1>2, <1>3, <1>5
<1>7. P(n - 1)
  BY <1>6
<1> DEFINE u == Returned(t, n - 1)
           v == Returned(t, n)
<1>8. v = Step(u)
  <2>1. (n - 1) + 1 = n
    BY <1>3
  <2>2. \A k \in Nat : Returned(t, k + 1) = Step(Returned(t, k))
    BY ReturnedIs
  <2>3. Returned(t, (n - 1) + 1) = Step(u)
    BY <1>6, <2>2
  <2> QED
    BY <2>1, <2>3
<1>9. Returns(t, u) /\ (~ Valid(u) \/ Len(u.handlers) = Len(t.handlers) - (n - 1))
  BY <1>7
<1> HIDE DEF u, v
<1>10. Good(u)
  BY <1>9 DEF Returns, Sends, Answers
<1>11. Returns(u, v) /\ (Valid(u) => Len(v.handlers) = Len(u.handlers) - 1)
  BY <1>8, <1>10, ReturnsOne
<1>12. Returns(t, v)
  BY <1>9, <1>11, SendsMore DEF Returns
<1>13. ~ Valid(v) \/ Len(v.handlers) = Len(t.handlers) - n
  <2>1. CASE ~ Valid(u)
    BY <1>8, <2>1 DEF Step
  <2>2. CASE Valid(u)
    <3>1. Len(v.handlers) = Len(u.handlers) - 1 /\ Len(u.handlers) = Len(t.handlers) - (n - 1)
      BY <1>9, <1>11, <2>2
    <3> QED
      BY <1>3, <1>4, <3>1
  <2> QED
    BY <2>1, <2>2
<1> QED
  BY <1>3, <1>12, <1>13 DEF v

LEMMA SendsSurplus ==
  ASSUME NEW t, Good(t)
  PROVE  Sends(t, ReturnSurplusHandlers(t))
<1>1. Len(t.handlers) \in Nat /\ (t.handlers # <<>> => Len(t.handlers) - 1 \in Nat)
  BY DEF Good, HandlerList
<1>2. CASE t.stop # "no" \/ t.handlers = <<>>
  BY <1>2, SendsNothing DEF ReturnSurplusHandlers
<1>3. CASE ~ (t.stop # "no" \/ t.handlers = <<>>) /\ t.name = "accumulate"
  <2>1. ReturnSurplusHandlers(t) = Returned(t, Len(t.handlers) - 1)
    BY <1>3 DEF ReturnSurplusHandlers
  <2> QED
    BY <1>1, <1>3, <2>1, ReturnsSome DEF Returns
<1>4. CASE ~ (t.stop # "no" \/ t.handlers = <<>>) /\ t.name # "accumulate"
  <2>1. \/ ReturnSurplusHandlers(t) = t
        \/ ReturnSurplusHandlers(t) = SendPending(t)
    BY <1>4 DEF ReturnSurplusHandlers
  <2> QED
    BY <2>1, SendsNothing, SendsPending
<1> QED
  BY <1>2, <1>3, <1>4

(***************************************************************************)
(* Requests                                                                *)
(***************************************************************************)

\* u is t after some of its handlers have been answered, in a step that may
\* also stop the process.
Handles(t, u) ==
    /\ Good(u) /\ u.name = t.name
    /\ HSet(u.handlers) \subseteq HSet(t.handlers) /\ Len(u.handlers) <= Len(t.handlers)
    /\ t.reply \subseteq u.reply /\ Rids(u) \subseteq Rids(t)
    /\ u.stop \in {t.stop, "no body", "crash", "policy_violation", "invalid_rid"}
    /\ Crashed(t) => Crashed(u)
    /\ Has(u.pending, End) => Has(t.pending, End)
    /\ \/ Crashed(u)
       \/ \A h \in HSet(t.handlers) \ HSet(u.handlers) : \E m \in u.reply : m.conn = h.conn
    /\ u.stop = "no" => /\ t.idle => u.idle
                        /\ u.handlers = <<>> => t.handlers = <<>> \/ u.idle

LEMMA HandlesSends ==
  ASSUME NEW t, NEW u, Sends(t, u)
  PROVE  Handles(t, u)
<1>1. u.stop = "no" => ~ Crashed(u)
  BY DEF Crashed
<1>2. Crashed(t) => Crashed(u)
  BY DEF Sends, Answers, Crashed
<1> QED
  BY <1>1, <1>2 DEF Sends, Answers, Handles

LEMMA HandlesMore ==
  ASSUME NEW t, NEW u, NEW v, Good(t), Handles(t, u), Handles(u, v)
  PROVE  Handles(t, v)
<1>1. Good(u) /\ Good(v)
  BY DEF Handles
<1>2. Len(t.handlers) \in Nat /\ Len(u.handlers) \in Nat /\ Len(v.handlers) \in Nat
  BY <1>1 DEF Good, HandlerList
<1>3. Len(v.handlers) <= Len(t.handlers)
  <2>1. Len(v.handlers) <= Len(u.handlers) /\ Len(u.handlers) <= Len(t.handlers)
    BY DEF Handles
  <2> QED
    BY <1>2, <2>1
<1>4. Crashed(v) \/ \A h \in HSet(t.handlers) \ HSet(v.handlers) : \E m \in v.reply : m.conn = h.conn
  BY DEF Handles
<1>5. v.stop = "no" => u.stop = "no"
  BY DEF Handles
<1>6. /\ v.stop \in {t.stop, "no body", "crash", "policy_violation", "invalid_rid"}
      /\ v.stop = "no" => /\ t.idle => v.idle
                          /\ v.handlers = <<>> => t.handlers = <<>> \/ v.idle
  BY <1>5 DEF Handles
<1> QED
  BY <1>1, <1>3, <1>4, <1>6 DEF Handles

LEMMA HandlesStopAll ==
  ASSUME NEW t, Good(t), ~ Crashed(t), NEW why, why \in {"policy_violation", "invalid_rid"},
         NEW u, u = StopAll(t, why)
  PROVE  /\ Handles(t, u) /\ u.rid = t.rid /\ u.fwd = t.fwd /\ u.stop = why
         /\ u.deferred = t.deferred
<1> DEFINE m == {[conn |-> t.handlers[i].conn, els |-> Gone] : i \in DOMAIN t.handlers}
<1>1. t \in State /\ HandlerList(t.handlers) /\ why \in Stops /\ t.handlers \in Seq(Handler)
  BY DEF Good, Stops, HandlerList
<1>2. u = [t EXCEPT !.reply = t.reply \cup m, !.handlers = <<>>, !.stop = why]
  BY DEF StopAll
<1>3. m \in SUBSET [conn : Nat, els : Bodies]
  <2>1. Gone \in Bodies
    BY DEF Bodies
  <2>2. ASSUME NEW i \in DOMAIN t.handlers
        PROVE  t.handlers[i].conn \in Nat
    BY <1>1, <2>2, HandlerIs
  <2> QED
    BY <2>1, <2>2
<1>4. \A h \in HSet(t.handlers) : \E x \in m : x.conn = h.conn
  <2> SUFFICES ASSUME NEW i \in 1 .. Len(t.handlers)
               PROVE  \E x \in m : x.conn = t.handlers[i].conn
    BY DEF HSet
  <2>1. i \in DOMAIN t.handlers
    BY <1>1
  <2>2. [conn |-> t.handlers[i].conn, els |-> Gone] \in m
    BY <2>1
  <2> QED
    BY <2>2
<1> HIDE DEF m
<1>5. t.reply \cup m \in SUBSET [conn : Nat, els : Bodies] /\ <<>> \in Seq(Handler)
  BY <1>1, <1>3, StateIs
<1>6. /\ u \in State /\ u.handlers = <<>> /\ u.reply = t.reply \cup m /\ u.stop = why
      /\ u.name = t.name /\ u.pending = t.pending /\ u.rid = t.rid /\ u.deferred = t.deferred
      /\ u.sent = t.sent /\ u.idle = t.idle /\ u.fwd = t.fwd
  BY ONLY <1>1, <1>2, <1>5 DEF State
<1>7. HandlerList(u.handlers) /\ HSet(u.handlers) = {} /\ Len(u.handlers) = 0
  BY <1>6 DEF HandlerList, HSet
<1>8. Good(u)
  BY <1>6, <1>7 DEF Good, Apart
<1>9. Len(t.handlers) \in Nat
  BY <1>1
<1>10. Len(u.handlers) <= Len(t.handlers)
  BY <1>7, <1>9
<1>11. \A h \in HSet(t.handlers) : \E x \in u.reply : x.conn = h.conn
  BY <1>4, <1>6
<1>12. Rids(u) \subseteq Rids(t)
  BY <1>6, <1>7 DEF Rids
<1> QED
  BY <1>6, <1>7, <1>8, <1>10, <1>11, <1>12 DEF Handles, Crashed

LEMMA HandlesCrash ==
  ASSUME NEW t, Good(t), NEW u, u = Crash(t)
  PROVE  /\ Handles(t, u) /\ u.rid = t.rid /\ u.fwd = t.fwd /\ u.stop = "crash"
         /\ u.deferred = t.deferred
<1>1. t \in State /\ "crash" \in Stops /\ Len(t.handlers) \in Nat
  BY DEF Good, Stops, HandlerList
<1>2. /\ u \in State /\ u.stop = "crash"
      /\ u.name = t.name /\ u.pending = t.pending /\ u.rid = t.rid
      /\ u.deferred = t.deferred /\ u.sent = t.sent /\ u.idle = t.idle
      /\ u.fwd = t.fwd /\ u.reply = t.reply /\ u.handlers = t.handlers
  BY <1>1 DEF Crash, State
<1>3. Good(u)
  BY <1>2 DEF Good
<1>4. Len(u.handlers) <= Len(t.handlers)
  BY <1>1, <1>2
<1>5. Rids(u) = Rids(t)
  BY <1>2 DEF Rids
<1> QED
  BY <1>2, <1>3, <1>4, <1>5 DEF Handles, Crashed

LEMMA HandlesPause ==
  ASSUME NEW t, Good(t), NEW v, v = Pause(t)
  PROVE  Handles(t, v) /\ v.rid = t.rid /\ v.fwd = t.fwd /\ v.deferred = t.deferred
<1> DEFINE u == Returned(t, Len(t.handlers))
<1>1. v = IF u.handlers = <<>> THEN u ELSE Crash(u)
  BY DEF Pause
<1>2. Len(t.handlers) \in Nat
  BY DEF Good, HandlerList
<1>3. Returns(t, u)
  BY <1>2, ReturnsSome
<1> HIDE DEF u
<1>4. Sends(t, u) /\ Good(u) /\ u.rid = t.rid /\ u.fwd = t.fwd /\ u.deferred = t.deferred
  BY <1>3 DEF Returns, Sends, Answers
<1>5. Handles(t, u)
  BY <1>4, HandlesSends
<1>6. CASE u.handlers = <<>>
  BY <1>1, <1>4, <1>5, <1>6
<1>7. CASE u.handlers # <<>>
  <2>1. v = Crash(u)
    BY <1>1, <1>7
  <2>2. Handles(u, v) /\ v.rid = u.rid /\ v.fwd = u.fwd /\ v.deferred = u.deferred
    BY <1>4, <2>1, HandlesCrash
  <2> QED
    BY <1>4, <1>5, <2>2, HandlesMore
<1> QED
  BY <1>6, <1>7

LEMMA HandlesOne ==
  ASSUME NEW t, Good(t), ~ Crashed(t), NEW r \in Nat, NEW type \in Types,
         NEW v, v = ProcessOne(t, type, r)
  PROVE  /\ Handles(t, v) /\ v.rid = r /\ v.fwd = Append(t.fwd, [rid |-> r, type |-> type])
         /\ v.deferred = t.deferred
<1> DEFINE f == Append(t.fwd, [rid |-> r, type |-> type])
           u == [t EXCEPT !.rid = r, !.fwd = f]
<1>1. t \in State /\ t.fwd \in Seq([rid : Nat, type : Types])
  BY StateIs DEF Good
<1>2. f \in Seq([rid : Nat, type : Types])
  BY <1>1
<1>3. v = CASE type = "pause" -> Pause(u)
            [] type = "long pause" -> StopAll(u, "policy_violation")
            [] OTHER -> u
  BY DEF ProcessOne
<1> HIDE DEF f
<1>4. /\ u \in State /\ u.handlers = t.handlers /\ u.reply = t.reply /\ u.stop = t.stop
      /\ u.name = t.name /\ u.pending = t.pending /\ u.rid = r /\ u.deferred = t.deferred
      /\ u.sent = t.sent /\ u.idle = t.idle /\ u.fwd = f
  BY <1>1, <1>2 DEF State
<1> HIDE DEF u
<1>5. Good(u) /\ ~ Crashed(u)
  BY <1>4 DEF Good, Crashed
<1>6. /\ Handles(u, v) /\ v.rid = r /\ v.fwd = f
      /\ v.deferred = t.deferred
  <2>1. CASE type = "pause"
    <3>1. v = Pause(u)
      BY <1>3, <2>1
    <3> QED
      BY <1>4, <1>5, <3>1, HandlesPause
  <2>2. CASE type = "long pause"
    <3> DEFINE why == "policy_violation"
    <3>1. v = StopAll(u, why) /\ why \in {"policy_violation", "invalid_rid"}
      BY <1>3, <2>2
    <3> HIDE DEF why
    <3> QED
      BY <1>4, <1>5, <3>1, HandlesStopAll
  <2>3. CASE type \notin {"pause", "long pause"}
    <3>1. v = u
      BY <1>3, <2>3
    <3> QED
      BY <1>4, <1>5, <3>1, SendsNothing, HandlesSends
  <2> QED
    BY <2>1, <2>2, <2>3
<1>7. Handles(t, v)
  <2>1. Rids(u) = Rids(t)
    BY <1>4 DEF Rids
  <2> QED
    BY <1>4, <1>6, <2>1 DEF Handles, Crashed
<1> QED
  BY <1>6, <1>7 DEF f

LEMMA HandlesSurplus ==
  ASSUME NEW t, Good(t), NEW u, u = ReturnSurplusHandlers(t)
  PROVE  /\ Handles(t, u) /\ u.rid = t.rid /\ u.fwd = t.fwd
         /\ u.deferred = t.deferred
<1>1. Sends(t, u)
  BY SendsSurplus
<1> QED
  BY <1>1, HandlesSends DEF Sends, Answers

\* The request ahead is processed once the expected one was.
LEMMA HandlesDeferred ==
  ASSUME NEW t, Good(t), ~ Crashed(t), NEW w, w = ProcessDeferred(t)
  PROVE  /\ Handles(t, w)
         /\ t.stop # "no" \/ t.deferred = <<>> => w = t
         /\ t.stop = "no" /\ t.deferred # <<>> =>
              /\ w.rid = t.rid + 1 /\ w.deferred = <<>>
              /\ w.fwd = Append(t.fwd, [rid |-> t.rid + 1, type |-> t.deferred[1]])
<1>1. CASE t.stop # "no" \/ t.deferred = <<>>
  <2>1. w = t
    BY <1>1 DEF ProcessDeferred
  <2> QED
    BY <1>1, <2>1, SendsNothing, HandlesSends
<1>2. CASE t.stop = "no" /\ t.deferred # <<>>
  <2> DEFINE r == t.rid + 1
             type == t.deferred[1]
             u == [t EXCEPT !.deferred = <<>>]
             x == ProcessOne(u, type, r)
             v == ReturnSurplusHandlers(x)
  <2>1. t \in State /\ t.rid \in Nat /\ t.deferred \in Seq(Types)
    BY StateIs DEF Good
  <2>2. r \in Nat /\ type \in Types /\ <<>> \in Seq(Types)
    BY <1>2, <2>1
  <2>3. w = IF Len(t.deferred) > 1 /\ v.stop = "no" THEN StopAll(v, "invalid_rid") ELSE v
    BY <1>2 DEF ProcessDeferred
  <2>4. /\ u \in State /\ u.handlers = t.handlers /\ u.reply = t.reply /\ u.stop = t.stop
        /\ u.name = t.name /\ u.pending = t.pending /\ u.rid = t.rid /\ u.deferred = <<>>
        /\ u.sent = t.sent /\ u.idle = t.idle /\ u.fwd = t.fwd
    BY <2>1, <2>2 DEF State
  <2> HIDE DEF r, type, u, x, v
  <2>5. Good(u) /\ ~ Crashed(u)
    BY <2>4 DEF Good, Crashed
  <2>6. /\ Handles(u, x) /\ x.rid = r /\ x.fwd = Append(u.fwd, [rid |-> r, type |-> type])
        /\ x.deferred = u.deferred
    BY <2>2, <2>5, HandlesOne DEF x
  <2>7. Good(x)
    BY <2>6 DEF Handles
  <2>8. Handles(x, v) /\ v.rid = x.rid /\ v.fwd = x.fwd /\ v.deferred = x.deferred
    BY <2>7, HandlesSurplus DEF v
  <2>9. Handles(u, v) /\ Good(v)
    BY <2>5, <2>6, <2>8, HandlesMore DEF Handles
  <2>10. Handles(u, w) /\ w.rid = v.rid /\ w.fwd = v.fwd /\ w.deferred = v.deferred
    <3>1. CASE Len(t.deferred) > 1 /\ v.stop = "no"
      <4> DEFINE why == "invalid_rid"
      <4>1. w = StopAll(v, why) /\ why \in {"policy_violation", "invalid_rid"} /\ ~ Crashed(v)
        BY <2>3, <3>1 DEF Crashed
      <4> HIDE DEF why
      <4>2. Handles(v, w) /\ w.rid = v.rid /\ w.fwd = v.fwd /\ w.deferred = v.deferred
        BY <2>9, <4>1, HandlesStopAll
      <4> QED
        BY <2>5, <2>9, <4>2, HandlesMore
    <3>2. CASE ~ (Len(t.deferred) > 1 /\ v.stop = "no")
      BY <2>3, <2>9, <3>2
    <3> QED
      BY <3>1, <3>2
  <2>11. Handles(t, w)
    <3>1. Rids(u) = Rids(t)
      BY <2>4 DEF Rids
    <3> QED
      BY <2>4, <2>10, <3>1 DEF Handles, Crashed
  <2> QED
    BY <1>2, <2>4, <2>6, <2>8, <2>10, <2>11 DEF r, type
<1> QED
  BY <1>1, <1>2

\* A cached response is given to the first handler in order.
LEMMA ResendIs ==
  ASSUME NEW t, Good(t), Valid(t), NEW r, HasRid(t.sent, r),
         NEW u, u = ResendCached(t, r)
  PROVE  /\ u.name = t.name /\ u.rid = t.rid
         /\ u.deferred = t.deferred /\ u.fwd = t.fwd /\ u.stop = t.stop
         /\ u.handlers = Tail(Sorted(t.handlers))
         /\ u.sent = t.sent /\ u.pending = t.pending
         /\ u.idle = (t.idle \/ u.handlers = <<>>)
         /\ u.reply = t.reply \cup {[conn |-> Sorted(t.handlers)[1].conn,
                                     els |-> CachedResponse(t.sent, r)]}
         /\ Good(u) /\ t.handlers # <<>>
<1> DEFINE h == Sorted(t.handlers)[1]
           q == Tail(Sorted(t.handlers))
           v == Picked(t)
           els == CachedResponse(t.sent, r)
           m == [conn |-> h.conn, els |-> els]
<1>1. t \in State /\ HandlerList(t.handlers) /\ Len(t.sent) <= ConcurrentRequests
      /\ EndLast(t.pending)
  BY DEF Good
<1>2. h \in Handler /\ HandlerList(q) /\ t.handlers # <<>>
  BY <1>1, PickIs, ValidHasHandler
<1>3. q \in Seq(Handler)
  BY <1>2 DEF HandlerList
<1>4. v = [t EXCEPT !.handlers = q]
  BY DEF Picked
<1>5. els \in Seq(Elements)
  <2>1. t.sent \in Seq(CacheEntry)
    BY <1>1, StateIs
  <2>2. First(t.sent, r) \in 1 .. Len(t.sent)
    BY <2>1, FirstIs
  <2>3. t.sent[First(t.sent, r)] \in CacheEntry
    BY <2>1, <2>2
  <2> QED
    BY <2>3 DEF CachedResponse, CacheEntry
<1>6. u = [v EXCEPT !.reply = v.reply \cup {m}, !.idle = v.idle \/ v.handlers = <<>>]
  <2> HIDE DEF v, h
  <2>1. u = Reply(v, h, els)
    BY DEF ResendCached, v, h
  <2> QED
    BY <2>1 DEF Reply
<1>7. m \in [conn : Nat, els : Bodies]
  BY <1>2, <1>5, MessageIs
<1> HIDE DEF h, q, v, els, m
<1>8. /\ v \in State /\ v.handlers = q
      /\ v.name = t.name /\ v.pending = t.pending /\ v.rid = t.rid
      /\ v.deferred = t.deferred /\ v.sent = t.sent /\ v.idle = t.idle
      /\ v.fwd = t.fwd /\ v.reply = t.reply /\ v.stop = t.stop
  BY <1>1, <1>3, <1>4, WithHandlers
<1>9. v.reply \cup {m} \in SUBSET [conn : Nat, els : Bodies]
      /\ (v.idle \/ v.handlers = <<>>) \in BOOLEAN
  BY <1>7, <1>8, StateIs
<1>10. /\ u \in State /\ u.handlers = v.handlers
       /\ u.name = v.name /\ u.pending = v.pending /\ u.rid = v.rid
       /\ u.deferred = v.deferred /\ u.sent = v.sent /\ u.idle = (v.idle \/ v.handlers = <<>>)
       /\ u.fwd = v.fwd /\ u.reply = v.reply \cup {m} /\ u.stop = v.stop
  BY <1>6, <1>8, <1>9 DEF State
<1>11. Good(u)
  <2>1. Apart(t.handlers, t.reply)
    BY DEF Good
  <2>2. Apart(u.handlers, u.reply)
    <3>1. Apart(Tail(Sorted(t.handlers)),
                t.reply \cup {[conn |-> Sorted(t.handlers)[1].conn, els |-> els]})
      BY <1>1, <1>2, <2>1, ApartFirst
    <3>2. Apart(q, t.reply \cup {m})
      BY <3>1 DEF h, q, m
    <3> QED
      BY <1>8, <1>10, <3>2
  <2> QED
    BY <1>1, <1>2, <1>8, <1>10, <2>2 DEF Good
<1> QED
  BY <1>2, <1>8, <1>10, <1>11 DEF h, q, els, m

LEMMA HandlesResend ==
  ASSUME NEW t, Good(t), NEW r, HasRid(t.sent, r), NEW u, u = ResendCached(t, r)
  PROVE  Handles(t, u) /\ u.rid = t.rid /\ u.fwd = t.fwd /\ u.deferred = t.deferred
<1>1. CASE ~ Valid(t)
  <2>1. u = Crash(t)
    BY <1>1 DEF ResendCached
  <2> QED
    BY <2>1, HandlesCrash
<1>2. CASE Valid(t)
  <2> DEFINE m == [conn |-> Sorted(t.handlers)[1].conn, els |-> CachedResponse(t.sent, r)]
  <2>1. /\ u.name = t.name /\ u.rid = t.rid
        /\ u.deferred = t.deferred /\ u.fwd = t.fwd /\ u.stop = t.stop
        /\ u.handlers = Tail(Sorted(t.handlers))
        /\ u.sent = t.sent /\ u.pending = t.pending
        /\ u.idle = (t.idle \/ u.handlers = <<>>)
        /\ u.reply = t.reply \cup {m}
        /\ Good(u) /\ t.handlers # <<>>
    BY <1>2, ResendIs
  <2>2. /\ HSet(u.handlers) \subseteq HSet(t.handlers)
        /\ Len(u.handlers) <= Len(t.handlers)
        /\ HSet(t.handlers) \ HSet(u.handlers) = {Sorted(t.handlers)[1]}
    BY <2>1, OneAnswered
  <2>3. m \in u.reply /\ m.conn = Sorted(t.handlers)[1].conn
    BY <2>1
  <2> HIDE DEF m
  <2>4. \A h \in HSet(t.handlers) \ HSet(u.handlers) : \E x \in u.reply : x.conn = h.conn
    BY <2>2, <2>3
  <2>5. Rids(u) \subseteq Rids(t)
    BY <2>1, <2>2 DEF Rids
  <2> QED
    BY <2>1, <2>2, <2>4, <2>5 DEF Handles, Crashed
<1> QED
  BY <1>1, <1>2

\* What c2s was forwarded, and what waits for its turn, are the client's requests.
Forwarded(t) ==
    /\ t.rid <= Len(req)
    /\ t.fwd = [r \in 1 .. t.rid |-> [rid |-> r, type |-> req[r]]]
DeferredOk(t) ==
    t.deferred # <<>> =>
        /\ t.rid + 2 <= Len(req)
        /\ \A i \in 1 .. Len(t.deferred) : t.deferred[i] = req[t.rid + 2]

LEMMA ForwardedMore ==
  ASSUME req \in Seq(Types), NEW t, t.rid \in Nat, Forwarded(t), t.rid + 1 <= Len(req),
         NEW u, u.rid = t.rid + 1,
         u.fwd = Append(t.fwd, [rid |-> t.rid + 1, type |-> req[t.rid + 1]])
  PROVE  Forwarded(u)
<1> DEFINE e(r) == [rid |-> r, type |-> req[r]]
<1>1. t.fwd = [r \in 1 .. t.rid |-> e(r)]
  BY DEF Forwarded
<1> HIDE DEF e
<1>2. Len(t.fwd) = t.rid /\ DOMAIN t.fwd = 1 .. t.rid
  BY <1>1
<1>3. Append(t.fwd, e(t.rid + 1)) = [r \in 1 .. t.rid + 1 |-> e(r)]
  <2>1. Append(t.fwd, e(t.rid + 1)) =
          [i \in 1 .. Len(t.fwd) + 1 |-> IF i = Len(t.fwd) + 1 THEN e(t.rid + 1) ELSE t.fwd[i]]
    BY <1>1
  <2> QED
    BY <1>1, <1>2, <2>1
<1> QED
  BY <1>3 DEF Forwarded, e

\* The handler that handle_stream_event adds.
Added(t, h) == [t EXCEPT !.handlers = <<h>> \o @, !.idle = FALSE]

NewHandler(t, h) ==
    /\ h \in Handler /\ h.conn > 0 /\ h.ref \in {h.conn, -h.conn}
    /\ \A i \in 1 .. Len(t.handlers) : t.handlers[i].conn # h.conn
    /\ t.reply = {}

AddedTo(hs, h, q) ==
    /\ q # <<>> /\ Len(q) = Len(hs) + 1 /\ q[1] = h
    /\ \A i \in 1 .. Len(hs) : q[i + 1] = hs[i]
    /\ HSet(q) = HSet(hs) \cup {h}

LEMMA AddedIs ==
  ASSUME NEW t, Good(t), NEW h, NewHandler(t, h), NEW u, u = Added(t, h)
  PROVE  /\ Good(u) /\ ~ u.idle /\ AddedTo(t.handlers, h, u.handlers)
         /\ u.name = t.name /\ u.pending = t.pending /\ u.rid = t.rid
         /\ u.deferred = t.deferred /\ u.sent = t.sent
         /\ u.fwd = t.fwd /\ u.reply = t.reply /\ u.stop = t.stop
<1> DEFINE q == <<h>> \o t.handlers
<1>1. t \in State /\ HandlerList(t.handlers) /\ t.handlers \in Seq(Handler) /\ h \in Handler
  BY DEF Good, HandlerList, NewHandler
<1>2. Len(t.handlers) \in Nat
  BY <1>1
<1>3. q \in Seq(Handler) /\ Len(q) = Len(t.handlers) + 1 /\ q[1] = h
  BY <1>1
<1>4. ASSUME NEW i \in 1 .. Len(t.handlers)
      PROVE  q[i + 1] = t.handlers[i]
  <2>1. Len(<<h>>) = 1 /\ i + 1 \in 1 .. 1 + Len(t.handlers) /\ ~ (i + 1 <= 1) /\ (i + 1) - 1 = i
    BY <1>2
  <2>2. <<h>> \in Seq(Handler)
    BY <1>1
  <2> QED
    BY <1>1, <2>1, <2>2
<1>5. u = [t EXCEPT !.handlers = q, !.idle = FALSE]
  BY DEF Added
<1> HIDE DEF q
<1>6. /\ u \in State /\ u.handlers = q /\ u.idle = FALSE
      /\ u.name = t.name /\ u.pending = t.pending /\ u.rid = t.rid
      /\ u.deferred = t.deferred /\ u.sent = t.sent
      /\ u.fwd = t.fwd /\ u.reply = t.reply /\ u.stop = t.stop
  BY <1>1, <1>3, <1>5 DEF State
<1>7. \A i \in 1 .. Len(q) : i = 1 \/ (i - 1 \in 1 .. Len(t.handlers) /\ q[i] = t.handlers[i - 1])
  <2> SUFFICES ASSUME NEW i \in 1 .. Len(q), i # 1
               PROVE  i - 1 \in 1 .. Len(t.handlers) /\ q[i] = t.handlers[i - 1]
    OBVIOUS
  <2>1. i - 1 \in 1 .. Len(t.handlers) /\ (i - 1) + 1 = i
    BY <1>2, <1>3
  <2>2. q[(i - 1) + 1] = t.handlers[i - 1]
    BY <1>4, <2>1
  <2> QED
    BY <2>1, <2>2
<1>8. HandlerList(q)
  <2>1. \A i \in 1 .. Len(q) : q[i].conn > 0 /\ q[i].ref \in {q[i].conn, -q[i].conn}
    BY <1>1, <1>3, <1>7 DEF HandlerList, NewHandler
  <2>2. ASSUME NEW i \in 1 .. Len(q), NEW j \in 1 .. Len(q), q[i].conn = q[j].conn, i # j
        PROVE  FALSE
    <3>1. CASE i = 1
      BY <1>3, <1>7, <2>2, <3>1 DEF NewHandler
    <3>2. CASE j = 1
      BY <1>3, <1>7, <2>2, <3>2 DEF NewHandler
    <3>3. CASE i # 1 /\ j # 1
      <4>1. /\ i - 1 \in 1 .. Len(t.handlers) /\ j - 1 \in 1 .. Len(t.handlers)
            /\ t.handlers[i - 1].conn = t.handlers[j - 1].conn
        BY <1>7, <2>2, <3>3
      <4>2. \A k, l \in 1 .. Len(t.handlers) : t.handlers[k].conn = t.handlers[l].conn => k = l
        BY <1>1 DEF HandlerList
      <4>3. i - 1 = j - 1
        BY <4>1, <4>2
      <4> QED
        BY <2>2, <4>3
    <3> QED
      BY <3>1, <3>2, <3>3
  <2> QED
    BY <1>3, <2>1, <2>2 DEF HandlerList
<1>9. HSet(q) = HSet(t.handlers) \cup {h}
  <2>1. HSet(q) \subseteq HSet(t.handlers) \cup {h}
    BY <1>3, <1>7 DEF HSet
  <2>2. h \in HSet(q)
    <3>1. 1 \in 1 .. Len(q)
      BY <1>2, <1>3
    <3> QED
      BY <1>3, <3>1 DEF HSet
  <2>3. ASSUME NEW i \in 1 .. Len(t.handlers)
        PROVE  t.handlers[i] \in HSet(q)
    <3>1. i + 1 \in 1 .. Len(q) /\ q[i + 1] = t.handlers[i]
      BY <1>2, <1>3, <1>4
    <3> QED
      BY <3>1 DEF HSet
  <2>4. HSet(t.handlers) \subseteq HSet(q)
    BY <2>3 DEF HSet
  <2> QED
    BY <2>1, <2>2, <2>4
<1>10. q # <<>>
  BY <1>2, <1>3
<1>11. AddedTo(t.handlers, h, q)
  BY <1>3, <1>4, <1>9, <1>10 DEF AddedTo
<1>12. Good(u)
  <2>1. u.reply = {}
    BY <1>6 DEF NewHandler
  <2> QED
    BY <1>6, <1>8, <2>1 DEF Good, Apart
<1> QED
  BY <1>6, <1>11, <1>12

\* handle_stream_event answers handlers and forwards requests in order.
LEMMA HandlesEvent ==
  ASSUME req \in Seq(Types), NEW t, Good(t), t.stop = "no", Forwarded(t), DeferredOk(t),
         NEW h, NewHandler(t, h), h.rid \in 1 .. Len(req),
         NEW u, u = Added(t, h), NEW w, w = HandleStreamEvent(t, req[h.rid], h)
  PROVE  Handles(u, w) /\ Forwarded(w) /\ (w.stop = "no" => DeferredOk(w))
<1> DEFINE r == h.rid
           type == req[h.rid]
           v == IF IsRetransmission(t, r) THEN IF HasRid(t.sent, r) THEN ResendCached(u, r) ELSE u
                ELSE IF IsExpectedRid(t, r) THEN ProcessDeferred(ProcessOne(u, type, r))
                ELSE IF IsAcceptableRid(t, r) THEN [u EXCEPT !.deferred = <<type>> \o @]
                ELSE StopAll(u, "invalid_rid")
<1>1. /\ Good(u) /\ u.rid = t.rid
      /\ u.deferred = t.deferred /\ u.sent = t.sent
      /\ u.fwd = t.fwd /\ u.reply = t.reply /\ u.stop = t.stop
  BY ONLY Good(t), NewHandler(t, h), u = Added(t, h), AddedIs
<1>2. w = ReturnSurplusHandlers(v)
  BY DEF HandleStreamEvent, Added
<1>3. /\ t.rid \in Nat /\ type \in Types /\ r \in Nat /\ Len(req) \in Nat /\ ~ Crashed(u)
      /\ t.deferred \in Seq(Types) /\ u \in State
  BY <1>1, StateIs DEF Good, Crashed
<1> HIDE DEF v
<1> SUFFICES Handles(u, v) /\ Forwarded(v) /\ (v.stop = "no" => DeferredOk(v))
  <2>1. Good(v)
    BY DEF Handles
  <2>2. /\ Handles(v, w) /\ w.rid = v.rid /\ w.fwd = v.fwd
        /\ w.deferred = v.deferred
    BY <1>2, <2>1, HandlesSurplus
  <2>3. w.stop = "no" => v.stop = "no"
    BY <2>2 DEF Handles
  <2> QED
    BY <1>1, <2>2, <2>3, HandlesMore DEF Forwarded, DeferredOk
<1>4. CASE IsRetransmission(t, r)
  <2>1. Handles(u, v) /\ v.rid = u.rid /\ v.fwd = u.fwd /\ v.deferred = u.deferred
    <3>1. CASE HasRid(t.sent, r)
      <4>1. v = ResendCached(u, r)
        BY <1>4, <3>1 DEF v
      <4> QED
        BY <1>1, <3>1, <4>1, HandlesResend
    <3>2. CASE ~ HasRid(t.sent, r)
      <4>1. v = u
        BY <1>4, <3>2 DEF v
      <4> QED
        BY <1>1, <4>1, SendsNothing, HandlesSends
    <3> QED
      BY <3>1, <3>2
  <2> QED
    BY <1>1, <2>1 DEF Forwarded, DeferredOk
<1>5. CASE ~ IsRetransmission(t, r) /\ IsExpectedRid(t, r)
  <2> DEFINE p == ProcessOne(u, type, r)
  <2>1. v = ProcessDeferred(p)
    BY <1>5 DEF v
  <2>2. /\ Handles(u, p) /\ p.rid = r /\ p.fwd = Append(u.fwd, [rid |-> r, type |-> type])
        /\ p.deferred = u.deferred
    <3> HIDE DEF p, type, r
    <3> QED
      BY <1>1, <1>3, HandlesOne, SMTT(30) DEF p
  <2> HIDE DEF p
  <2>3. r = t.rid + 1 /\ t.rid + 1 <= Len(req)
    BY <1>3, <1>5 DEF IsExpectedRid
  <2>4. Forwarded(p)
    BY <1>1, <1>3, <2>2, <2>3, ForwardedMore
  <2>5. CASE p.stop # "no" \/ p.deferred = <<>>
    <3>1. v = p
      BY <2>1, <2>5 DEF ProcessDeferred
    <3> QED
      BY <2>2, <2>4, <2>5, <3>1 DEF DeferredOk
  <2>6. CASE p.stop = "no" /\ p.deferred # <<>>
    <3>1. Good(p) /\ ~ Crashed(p)
      BY <2>2, <2>6 DEF Handles, Crashed
    <3>2. /\ Handles(p, v) /\ v.rid = p.rid + 1 /\ v.deferred = <<>>
          /\ v.fwd = Append(p.fwd, [rid |-> p.rid + 1, type |-> p.deferred[1]])
      BY <2>1, <2>6, <3>1, HandlesDeferred
    <3>3. Handles(u, v)
      BY <1>1, <2>2, <3>2, HandlesMore
    <3>4. t.rid + 2 <= Len(req) /\ t.deferred[1] = req[t.rid + 2]
      <4>1. t.deferred # <<>>
        BY <1>1, <2>2, <2>6
      <4>2. 1 \in 1 .. Len(t.deferred)
        BY <1>3, <4>1
      <4> QED
        BY <4>1, <4>2 DEF DeferredOk
    <3>5. p.rid + 1 = t.rid + 2 /\ p.rid + 1 <= Len(req) /\ p.rid \in Nat
      BY <1>3, <2>2, <2>3, <3>4
    <3>6. p.deferred[1] = req[p.rid + 1]
      BY <1>1, <2>2, <3>4, <3>5
    <3>7. Forwarded(v)
      BY <2>4, <3>2, <3>5, <3>6, ForwardedMore
    <3> QED
      BY <3>2, <3>3, <3>7 DEF DeferredOk
  <2> QED
    BY <2>5, <2>6
<1>6. CASE ~ IsRetransmission(t, r) /\ ~ IsExpectedRid(t, r) /\ IsAcceptableRid(t, r)
  <2> DEFINE d == <<type>> \o t.deferred
  <2>1. v = [u EXCEPT !.deferred = d]
    BY <1>1, <1>6 DEF v
  <2>2. d \in Seq(Types) /\ Len(d) = Len(t.deferred) + 1 /\ d[1] = type
        /\ \A i \in 2 .. Len(d) : d[i] = t.deferred[i - 1]
    BY <1>3
  <2>3. r = t.rid + 2 /\ t.rid + 2 <= Len(req)
    BY <1>3, <1>6 DEF IsAcceptableRid, ConcurrentRequests
  <2> HIDE DEF d
  <2>4. /\ v \in State /\ v.deferred = d /\ v.handlers = u.handlers /\ v.reply = u.reply
        /\ v.stop = u.stop /\ v.name = u.name /\ v.pending = u.pending /\ v.rid = u.rid
        /\ v.sent = u.sent /\ v.idle = u.idle /\ v.fwd = u.fwd
    BY <1>3, <2>1, <2>2 DEF State
  <2>5. Good(v)
    BY <1>1, <2>4 DEF Good
  <2>6. Handles(u, v)
    <3>1. Handles(u, u)
      BY <1>1, SendsNothing, HandlesSends
    <3>2. Rids(v) = Rids(u)
      BY <2>4 DEF Rids
    <3> QED
      BY <2>4, <2>5, <3>1, <3>2 DEF Handles, Crashed
  <2>7. ASSUME NEW i \in 1 .. Len(d)
        PROVE  d[i] = req[t.rid + 2]
    <3>1. CASE i = 1
      BY <2>2, <2>3, <3>1
    <3>2. CASE i # 1
      <4>1. Len(t.deferred) \in Nat
        BY <1>3
      <4>2. i \in 2 .. Len(d) /\ i - 1 \in 1 .. Len(t.deferred)
        BY <2>2, <3>2, <4>1
      <4>3. t.deferred # <<>>
        BY <4>2
      <4> QED
        BY <2>2, <4>2, <4>3 DEF DeferredOk
    <3> QED
      BY <3>1, <3>2
  <2> QED
    BY <1>1, <2>3, <2>4, <2>6, <2>7 DEF Forwarded, DeferredOk
<1>7. CASE ~ IsRetransmission(t, r) /\ ~ IsExpectedRid(t, r) /\ ~ IsAcceptableRid(t, r)
  <2> DEFINE why == "invalid_rid"
  <2>1. v = StopAll(u, why) /\ why \in {"policy_violation", "invalid_rid"} /\ why # "no"
    BY <1>7 DEF v
  <2> HIDE DEF why
  <2>2. Handles(u, v) /\ v.rid = u.rid /\ v.fwd = u.fwd /\ v.stop = why
    BY <1>1, <1>3, <2>1, HandlesStopAll
  <2> QED
    BY <1>1, <2>1, <2>2 DEF Forwarded
<1> QED
  BY <1>4, <1>5, <1>6, <1>7

(***************************************************************************)
(* The end of a step                                                       *)
(***************************************************************************)

Conn == [rid : DOMAIN req, st : {"sent", "held", "answered", "done"}, els : Bodies]
C2SStates == {"new", "start", "open", "ended", "closed"}
Replied(c, replies) == \E m \in replies : m.conn = c

AnsweredAs(cs, replies, closes, as) ==
    /\ as \in Seq(Conn) /\ Len(as) = Len(cs)
    /\ \A c \in 1 .. Len(cs) :
         /\ as[c].rid = cs[c].rid
         /\ cs[c].st # "held" => as[c] = cs[c]
         /\ cs[c].st = "held" /\ Replied(c, replies) =>
              as[c].st = "answered" /\ \E m \in replies : m.conn = c /\ as[c].els = m.els
         /\ cs[c].st = "held" /\ ~ Replied(c, replies) /\ c \in closes =>
              as[c].st = "answered" /\ as[c].els = Gone
         /\ cs[c].st = "held" /\ ~ Replied(c, replies) /\ c \notin closes => as[c] = cs[c]

LEMMA AnsweredIs ==
  ASSUME NEW cs \in Seq(Conn), NEW replies \in SUBSET [conn : Nat, els : Bodies], NEW closes,
         NEW as, as = Answered(cs, replies, closes)
  PROVE  AnsweredAs(cs, replies, closes, as)
<1> DEFINE F(c) ==
        IF cs[c].st = "held" /\ Replied(c, replies)
        THEN [cs[c] EXCEPT !.st = "answered", !.els = (CHOOSE m \in replies : m.conn = c).els]
        ELSE IF cs[c].st = "held" /\ c \in closes
        THEN [cs[c] EXCEPT !.st = "answered", !.els = Gone]
        ELSE cs[c]
<1>1. as = [c \in 1 .. Len(cs) |-> F(c)]
  <2>1. Answered(cs, replies, closes) = [c \in DOMAIN cs |-> F(c)]
    BY ONLY TRUE DEF Answered, Replied
  <2>2. DOMAIN cs = 1 .. Len(cs)
    OBVIOUS
  <2> HIDE DEF F
  <2> QED
    BY <2>1, <2>2
<1>2. Len(cs) \in Nat /\ \A c \in 1 .. Len(cs) : cs[c] \in Conn
  OBVIOUS
<1>3. ASSUME NEW c \in 1 .. Len(cs)
      PROVE  /\ F(c) \in Conn /\ F(c).rid = cs[c].rid
             /\ cs[c].st # "held" => F(c) = cs[c]
             /\ cs[c].st = "held" /\ Replied(c, replies) =>
                   F(c).st = "answered" /\ \E m \in replies : m.conn = c /\ F(c).els = m.els
             /\ cs[c].st = "held" /\ ~ Replied(c, replies) /\ c \in closes =>
                   F(c).st = "answered" /\ F(c).els = Gone
             /\ cs[c].st = "held" /\ ~ Replied(c, replies) /\ c \notin closes => F(c) = cs[c]
  <2>0. cs[c] \in Conn
    BY <1>2
  <2>1. CASE cs[c].st = "held" /\ Replied(c, replies)
    <3> DEFINE m == CHOOSE m \in replies : m.conn = c
    <3>1. m \in replies /\ m.conn = c
      BY <2>1 DEF Replied
    <3>2. m.els \in Bodies
      <4> HIDE DEF m
      <4> QED
        BY <3>1
    <3>3. F(c) = [cs[c] EXCEPT !.st = "answered", !.els = m.els]
      BY <2>1
    <3> HIDE DEF m, F
    <3>4. F(c) \in Conn /\ F(c).rid = cs[c].rid /\ F(c).st = "answered" /\ F(c).els = m.els
      BY <2>0, <3>2, <3>3 DEF Conn
    <3> QED
      BY <2>1, <3>1, <3>4
  <2>2. CASE cs[c].st = "held" /\ ~ Replied(c, replies) /\ c \in closes
    <3>1. F(c) = [cs[c] EXCEPT !.st = "answered", !.els = Gone] /\ Gone \in Bodies
      BY <2>2 DEF Bodies
    <3> HIDE DEF F
    <3>2. F(c) \in Conn /\ F(c).rid = cs[c].rid /\ F(c).st = "answered" /\ F(c).els = Gone
      BY <2>0, <3>1 DEF Conn
    <3> QED
      BY <2>2, <3>2
  <2>3. CASE ~ (cs[c].st = "held" /\ (Replied(c, replies) \/ c \in closes))
    <3>1. F(c) = cs[c]
      BY <2>3
    <3> HIDE DEF F
    <3> QED
      BY <2>0, <2>3, <3>1
  <2> QED
    BY <2>1, <2>2, <2>3
<1> HIDE DEF F
<1>4. as \in Seq(Conn) /\ Len(as) = Len(cs) /\ \A c \in 1 .. Len(cs) : as[c] = F(c)
  BY <1>1, <1>2, <1>3
<1> QED
  BY <1>3, <1>4 DEF AnsweredAs

\* A handler is listed with the connection it serves.
ListedIn(h, cs) ==
    /\ h.conn \in 1 .. Len(cs) /\ h.rid = cs[h.conn].rid
    /\ cs[h.conn].st \in {"held", "done"}

Stopped ==
    /\ s.handlers = <<>> /\ s.deferred = <<>> /\ s.pending = <<>> /\ ~ s.idle
    /\ waitMsgs = {} /\ ~ idleMsg /\ accOff = 0 /\ c2s = "closed"

\* The inductive invariant of the session.
SessionInv ==
    /\ Good(s) /\ Forwarded(s) /\ DeferredOk(s)
    /\ \A h \in HSet(s.handlers) : ListedIn(h, conns)
    /\ s.reply = {} /\ (s.stop = "no" <=> Alive) /\ (~ Alive => Stopped)
    /\ waitMsgs \subseteq 1 .. Len(conns)
    /\ idleMsg \in BOOLEAN /\ accOff \in Nat /\ out \in 0 .. MaxOut /\ c2s \in C2SStates
    /\ req \in Seq(Types) /\ got \in Seq(Bodies \cup {NoAnswer}) /\ Len(got) = Len(req)
    /\ conns \in Seq(Conn) /\ fires \in Nat /\ doubled \in BOOLEAN
    /\ IdleIsTimed /\ HeldIsTimed
    /\ Has(s.pending, End) => c2s \in {"ended", "closed"}

LEMMA SessionGives ==
  ASSUME SessionInv
  PROVE  TypeOK /\ InboundOnce /\ IdleIsTimed /\ HeldIsTimed
<1>1. InboundOnce /\ s.rid <= Len(req) /\ IdleIsTimed /\ HeldIsTimed
  BY DEF SessionInv, Forwarded, InboundOnce
<1>2. HandlerList(s.handlers) /\ s \in State /\ s.handlers \in Seq(Handler)
      /\ s.pending \in Seq(Elements) /\ conns \in Seq(Conn)
  BY StateIs DEF SessionInv, Good, HandlerList
<1>3. \A i \in DOMAIN s.handlers :
         /\ s.handlers[i].conn \in DOMAIN conns
         /\ \A j \in 1 .. (i - 1) : s.handlers[j].conn # s.handlers[i].conn
  <2> SUFFICES ASSUME NEW i \in 1 .. Len(s.handlers)
               PROVE  /\ s.handlers[i].conn \in DOMAIN conns
                      /\ \A j \in 1 .. (i - 1) : s.handlers[j].conn # s.handlers[i].conn
    BY <1>2
  <2>1. s.handlers[i].conn \in 1 .. Len(conns)
    BY DEF SessionInv, ListedIn, HSet
  <2>2. ASSUME NEW j \in 1 .. (i - 1)
        PROVE  s.handlers[j].conn # s.handlers[i].conn
    <3>1. Len(s.handlers) \in Nat
      BY <1>2
    <3>2. j \in 1 .. Len(s.handlers) /\ j # i
      BY <3>1
    <3> QED
      BY <1>2, <3>2 DEF HandlerList
  <2> QED
    BY <1>2, <2>1, <2>2
<1>4. \A i \in DOMAIN s.pending : s.pending[i] = End => i = Len(s.pending)
  BY <1>2 DEF SessionInv, Good, EndLast
<1>5. TypeOK
  BY <1>1, <1>2, <1>3, <1>4 DEF SessionInv, Good, C2SStates, Conn, TypeOK
<1> QED
  BY <1>1, <1>5

\* A step that leaves the process in state t, and cs of the connections.
StepOk(t, cs, waits, idle, accs, next) ==
    /\ Good(t) /\ Forwarded(t) /\ t.name # "stopped"
    /\ cs \in Seq(Conn) /\ Len(cs) = Len(conns)
    /\ \A h \in HSet(t.handlers) : ListedIn(h, cs)
    /\ \A c \in 1 .. Len(cs) : cs[c].st = "held" =>
         c \in Conns(t.handlers) \/ Replied(c, t.reply) \/ Crashed(t)
    /\ t.stop = "no" => /\ DeferredOk(t)
                        /\ t.rid > 0 /\ t.handlers = <<>> => t.idle \/ idle
                        /\ Has(t.pending, End) => next \in {"ended", "closed"}
    /\ waits \subseteq 1 .. Len(conns) /\ idle \in BOOLEAN /\ accs \in Nat /\ next \in C2SStates

LEMMA ConnsIs ==
  ASSUME NEW hs, HandlerList(hs)
  PROVE  Conns(hs) = {h.conn : h \in HSet(hs)}
<1>1. DOMAIN hs = 1 .. Len(hs)
  BY DEF HandlerList
<1> QED
  BY <1>1 DEF Conns, HSet

LEMMA FinishStep ==
  ASSUME SessionInv, NEW t, NEW cs, NEW waits, NEW idle, NEW accs, NEW next,
         StepOk(t, cs, waits, idle, accs, next),
         Finish(t, cs, waits, idle, accs, next),
         req' = req, got' = got, fires' \in Nat, doubled' \in BOOLEAN, out' \in 0 .. MaxOut
  PROVE  SessionInv'
<1> USE DEF StepOk
<1>1. /\ req \in Seq(Types) /\ got \in Seq(Bodies \cup {NoAnswer}) /\ Len(got) = Len(req)
      /\ t \in State /\ HandlerList(t.handlers) /\ Apart(t.handlers, t.reply)
      /\ t.reply \in SUBSET [conn : Nat, els : Bodies] /\ t.rid \in Nat
      /\ t.fwd \in Seq([rid : Nat, type : Types]) /\ t.stop \in Stops
  BY StateIs DEF SessionInv, Good
<1>2. Conn' = Conn
  BY DEF Conn
<1>3. Conns(t.handlers) = {h.conn : h \in HSet(t.handlers)}
  BY <1>1, ConnsIs
<1>4. CASE t.stop = "no"
  <2> DEFINE as == Answered(cs, t.reply, {})
  <2>1. /\ s' = [t EXCEPT !.reply = {}] /\ conns' = as
        /\ waitMsgs' = waits /\ idleMsg' = idle /\ accOff' = accs /\ c2s' = next
    BY <1>4 DEF Finish
  <2>2. /\ as \in Seq(Conn) /\ Len(as) = Len(cs)
        /\ \A c \in 1 .. Len(cs) :
              /\ as[c].rid = cs[c].rid
              /\ cs[c].st # "held" => as[c] = cs[c]
              /\ cs[c].st = "held" /\ Replied(c, t.reply) => as[c].st = "answered"
              /\ cs[c].st = "held" /\ ~ Replied(c, t.reply) => as[c] = cs[c]
    <3> DEFINE none == {}
    <3>1. as = Answered(cs, t.reply, none) /\ \A c : c \notin none
      OBVIOUS
    <3> HIDE DEF none, as
    <3>2. AnsweredAs(cs, t.reply, none, as)
      BY <1>1, <3>1, AnsweredIs
    <3> QED
      BY <3>1, <3>2 DEF AnsweredAs
  <2> HIDE DEF as
  <2>3. /\ s' \in State /\ s'.handlers = t.handlers /\ s'.reply = {} /\ s'.stop = t.stop
        /\ s'.name = t.name /\ s'.pending = t.pending /\ s'.rid = t.rid /\ s'.deferred = t.deferred
        /\ s'.sent = t.sent /\ s'.idle = t.idle /\ s'.fwd = t.fwd
    BY <1>1, <2>1 DEF State
  <2>4. Good(s')
    BY <2>3 DEF Good, Apart
  <2>5. Forwarded(s)' /\ DeferredOk(s)'
    BY <1>4, <2>3 DEF Forwarded, DeferredOk
  <2>6. ASSUME NEW h \in HSet(t.handlers)
        PROVE  ListedIn(h, as)
    <3>1. ListedIn(h, cs) /\ ~ Replied(h.conn, t.reply)
      BY <1>1 DEF Apart, Replied
    <3> QED
      BY <2>2, <3>1 DEF ListedIn
  <2>7. s'.stop = "no" /\ Alive' /\ ~ Crashed(t)
    BY <1>4, <2>3 DEF Alive, Crashed
  <2>8. IdleIsTimed'
    BY <1>4, <2>1, <2>3 DEF IdleIsTimed
  <2>9. HeldIsTimed'
    <3>1. ASSUME NEW c \in 1 .. Len(cs), as[c].st = "held"
          PROVE  \E i \in DOMAIN s'.handlers : s'.handlers[i].conn = c
      <4>1. cs[c].st = "held" /\ ~ Replied(c, t.reply)
        BY <2>2, <3>1
      <4>2. c \in Conns(t.handlers)
        BY <2>7, <4>1
      <4> QED
        BY <2>3, <4>2 DEF Conns
    <3>2. DOMAIN conns' = 1 .. Len(cs)
      <4>0. as \in Seq(Conn)
        BY ONLY <2>2
      <4>1. DOMAIN as = 1 .. Len(as)
        BY ONLY <4>0, LenProperties
      <4> QED
        BY <2>1, <2>2, <4>1
    <3> QED
      BY <2>1, <3>1, <3>2 DEF HeldIsTimed
  <2>10. \A h \in HSet(s'.handlers) : ListedIn(h, conns')
    BY <2>1, <2>3, <2>6
  <2>11. conns' \in Seq(Conn') /\ waitMsgs' \subseteq 1 .. Len(conns')
    BY <1>2, <2>1, <2>2
  <2>12. Has(s'.pending, End) => c2s' \in {"ended", "closed"}
    BY <1>4, <2>1, <2>3
  <2>13. idleMsg' \in BOOLEAN /\ accOff' \in Nat /\ c2s' \in C2SStates
    BY <2>1
  <2> QED
    BY <1>1, <2>3, <2>4, <2>5, <2>7, <2>8, <2>9, <2>10, <2>11, <2>12, <2>13
       DEF SessionInv, ListedIn
<1>5. CASE t.stop # "no"
  <2> DEFINE as == Answered(cs, t.reply, Closed(t))
  <2>1. /\ s' = [Fresh EXCEPT !.name = "stopped", !.stop = t.stop, !.rid = t.rid, !.fwd = t.fwd]
        /\ conns' = as
        /\ waitMsgs' = {} /\ idleMsg' = FALSE /\ accOff' = 0 /\ c2s' = "closed"
    BY <1>5 DEF Finish
  <2>2. /\ as \in Seq(Conn) /\ Len(as) = Len(cs)
        /\ \A c \in 1 .. Len(cs) :
              /\ cs[c].st # "held" => as[c] = cs[c]
              /\ cs[c].st = "held" /\ Replied(c, t.reply) => as[c].st = "answered"
              /\ cs[c].st = "held" /\ ~ Replied(c, t.reply) /\ c \in Closed(t) =>
                   as[c].st = "answered"
    <3> HIDE DEF as
    <3>1. AnsweredAs(cs, t.reply, Closed(t), as)
      BY <1>1, AnsweredIs DEF as
    <3> QED
      BY <3>1 DEF AnsweredAs
  <2> HIDE DEF as
  <2>3. /\ s'.name = "stopped" /\ s'.handlers = <<>> /\ s'.pending = <<>> /\ s'.rid = t.rid
        /\ s'.deferred = <<>> /\ s'.sent = <<>> /\ s'.idle = FALSE /\ s'.fwd = t.fwd
        /\ s'.reply = {} /\ s'.stop = t.stop
    BY <2>1 DEF Fresh
  <2>4. s' \in State
    <3>1. s' = [name |-> "stopped", handlers |-> <<>>, pending |-> <<>>, rid |-> t.rid,
                deferred |-> <<>>, sent |-> <<>>, idle |-> FALSE,
                fwd |-> t.fwd, reply |-> {}, stop |-> t.stop]
      BY <2>1 DEF Fresh
    <3>2. "stopped" \in Names /\ FALSE \in BOOLEAN /\ {} \in SUBSET [conn : Nat, els : Bodies]
          /\ <<>> \in Seq(Handler) /\ <<>> \in Seq(Elements) /\ <<>> \in Seq(Types)
          /\ <<>> \in Seq([rid : Nat, els : Seq(Elements)])
      BY DEF Names
    <3> QED
      BY <1>1, <3>1, <3>2 DEF State
  <2>5. Good(s') /\ HSet(s'.handlers) = {}
    <3>1. HandlerList(<<>>) /\ HSet(<<>>) = {} /\ EndLast(<<>>) /\ Len(<<>>) <= ConcurrentRequests
      BY DEF HandlerList, HSet, EndLast, ConcurrentRequests
    <3> QED
      BY <2>3, <2>4, <3>1 DEF Good, Apart
  <2>6. Forwarded(s)' /\ DeferredOk(s)'
    BY <2>3 DEF Forwarded, DeferredOk
  <2>7. ~ Alive' /\ Stopped' /\ s'.stop # "no" /\ IdleIsTimed'
    BY <1>5, <2>1, <2>3 DEF Alive, Stopped, IdleIsTimed
  <2>8. HeldIsTimed'
    <3>1. ASSUME NEW c \in 1 .. Len(cs), as[c].st = "held"
          PROVE  Crashed(s')
      <4>1. cs[c].st = "held" /\ ~ Replied(c, t.reply) /\ c \notin Closed(t)
        BY <2>2, <3>1
      <4>2. Crashed(t)
        BY <4>1 DEF Closed
      <4> QED
        BY <2>3, <4>2 DEF Crashed
    <3>2. DOMAIN conns' = 1 .. Len(cs)
      <4>0. as \in Seq(Conn)
        BY ONLY <2>2
      <4>1. DOMAIN as = 1 .. Len(as)
        BY ONLY <4>0, LenProperties
      <4> QED
        BY <2>1, <2>2, <4>1
    <3> QED
      BY <2>1, <3>1, <3>2 DEF HeldIsTimed
  <2>9. conns' \in Seq(Conn') /\ waitMsgs' \subseteq 1 .. Len(conns')
    BY <1>2, <2>1, <2>2
  <2>10. ~ Has(s'.pending, End)
    BY <2>3 DEF Has
  <2>11. idleMsg' \in BOOLEAN /\ accOff' \in Nat /\ c2s' \in C2SStates
    BY <2>1 DEF C2SStates
  <2> QED
    BY <1>1, <2>3, <2>5, <2>6, <2>7, <2>8, <2>9, <2>10, <2>11 DEF SessionInv
<1> QED
  BY <1>4, <1>5

\* The handlers of u serve the connections that are held.
Serves(u, cs) ==
    /\ Good(u)
    /\ \A h \in HSet(u.handlers) : ListedIn(h, cs)
    /\ \A c \in 1 .. Len(cs) : cs[c].st = "held" => c \in Conns(u.handlers)

LEMMA HandlesStep ==
  ASSUME NEW u, NEW t, NEW cs, Serves(u, cs), Handles(u, t), Forwarded(t), u.name # "stopped",
         cs \in Seq(Conn), Len(cs) = Len(conns),
         t.stop = "no" => DeferredOk(t),
         NEW waits, NEW idle, NEW accs, NEW next,
         t.rid > 0 /\ u.handlers = <<>> => u.idle \/ idle,
         Has(u.pending, End) => next \in {"ended", "closed"},
         waits \subseteq 1 .. Len(conns), idle \in BOOLEAN, accs \in Nat, next \in C2SStates
  PROVE  StepOk(t, cs, waits, idle, accs, next)
<1>1. Good(t) /\ t.name # "stopped"
  BY DEF Handles
<1>2. \A h \in HSet(t.handlers) : ListedIn(h, cs)
  BY DEF Handles, Serves
<1>3. ASSUME NEW c \in 1 .. Len(cs), cs[c].st = "held"
      PROVE  c \in Conns(t.handlers) \/ Replied(c, t.reply) \/ Crashed(t)
  <2>1. HandlerList(u.handlers) /\ HandlerList(t.handlers)
    BY <1>1 DEF Good, Serves
  <2>2. c \in {h.conn : h \in HSet(u.handlers)}
    BY <1>3, <2>1, ConnsIs DEF Serves
  <2>3. PICK h \in HSet(u.handlers) : c = h.conn
    BY <2>2
  <2>4. h \in HSet(t.handlers) \/ Replied(c, t.reply) \/ Crashed(t)
    BY <2>3 DEF Handles, Replied
  <2> QED
    BY <2>1, <2>3, <2>4, ConnsIs
<1>4. t.stop = "no" => /\ t.rid > 0 /\ t.handlers = <<>> => t.idle \/ idle
                       /\ Has(t.pending, End) => next \in {"ended", "closed"}
  BY DEF Handles
<1> QED
  BY <1>1, <1>2, <1>3, <1>4 DEF StepOk

LEMMA SessionServes ==
  ASSUME SessionInv, Alive
  PROVE  /\ Serves(s, conns) /\ s.stop = "no" /\ s.name # "stopped" /\ ~ Crashed(s)
         /\ conns \in Seq(Conn) /\ DOMAIN conns = 1 .. Len(conns) /\ Len(conns) \in Nat
         /\ s.rid > 0 /\ s.handlers = <<>> => s.idle \/ idleMsg
<1>1. s.stop = "no" /\ s.name # "stopped" /\ conns \in Seq(Conn)
  BY DEF SessionInv, Alive
<1>2. ~ Crashed(s)
  BY <1>1 DEF Crashed
<1>3. DOMAIN conns = 1 .. Len(conns) /\ Len(conns) \in Nat
  BY <1>1, LenProperties
<1>4. ASSUME NEW c \in 1 .. Len(conns), conns[c].st = "held"
      PROVE  c \in Conns(s.handlers)
  BY <1>2, <1>3, <1>4 DEF SessionInv, HeldIsTimed, Conns
<1> QED
  BY <1>1, <1>2, <1>3, <1>4 DEF SessionInv, Serves, IdleIsTimed

\* determine_next_state ends the process or its accumulation.
LEMMA DeterminedIs ==
  ASSUME NEW w, Good(w), NEW type, NEW t, t = DetermineNextState(w, type)
  PROVE  /\ Good(t) /\ t.rid = w.rid /\ t.fwd = w.fwd /\ t.deferred = w.deferred
         /\ t.handlers = w.handlers /\ t.reply = w.reply /\ t.pending = w.pending
         /\ t.sent = w.sent /\ t.idle = w.idle
         /\ t.stop \in {w.stop, "normal"} /\ (w.stop # "no" => t = w)
         /\ w.name # "stopped" => t.name # "stopped"
         /\ t.name \in {w.name, "accumulate"}
<1>1. w \in State /\ "normal" \in Stops /\ "accumulate" \in Names
  BY DEF Good, Stops, Names
<1>2. CASE t = w
  BY <1>2
<1>3. CASE t = [w EXCEPT !.stop = "normal"] /\ w.stop = "no"
  <2>1. /\ t \in State /\ t.handlers = w.handlers /\ t.reply = w.reply /\ t.stop = "normal"
        /\ t.name = w.name /\ t.pending = w.pending /\ t.rid = w.rid /\ t.deferred = w.deferred
        /\ t.sent = w.sent /\ t.idle = w.idle /\ t.fwd = w.fwd
    BY <1>1, <1>3 DEF State
  <2>2. Good(t)
    BY <2>1 DEF Good
  <2> QED
    BY <1>3, <2>1, <2>2
<1>4. CASE t = [w EXCEPT !.name = "accumulate"] /\ w.stop = "no"
  <2>1. /\ t \in State /\ t.handlers = w.handlers /\ t.reply = w.reply /\ t.stop = w.stop
        /\ t.name = "accumulate" /\ t.pending = w.pending /\ t.rid = w.rid
        /\ t.deferred = w.deferred
        /\ t.sent = w.sent /\ t.idle = w.idle /\ t.fwd = w.fwd
    BY <1>1, <1>4 DEF State
  <2>2. Good(t)
    BY <2>1 DEF Good
  <2> QED
    BY <1>4, <2>1, <2>2
<1> QED
  BY <1>2, <1>3, <1>4 DEF DetermineNextState

(***************************************************************************)
(* The actions of the process                                              *)
(***************************************************************************)

\* A request that was sent arrives.
Arrival(c, h, cs) ==
    /\ h \in Handler /\ h.rid = conns[c].rid /\ h.conn = c /\ h.ref \in {c, -c}
    /\ cs \in Seq(Conn) /\ Len(cs) = Len(conns)
    /\ cs[c].st = "held" /\ cs[c].rid = conns[c].rid
    /\ \A d \in 1 .. Len(conns) : d # c => cs[d] = conns[d]

LEMMA ArrivalIs ==
  ASSUME SessionInv, NEW c \in 1 .. Len(conns), conns[c].st = "sent", NEW ref \in {c, -c},
         NEW h, h = [rid |-> conns[c].rid, ref |-> ref, conn |-> c],
         NEW cs, cs = [conns EXCEPT ![c].st = "held"]
  PROVE  Arrival(c, h, cs) /\ NewHandler(s, h) /\ h.rid \in 1 .. Len(req)
<1>1. conns \in Seq(Conn) /\ req \in Seq(Types) /\ s.reply = {} /\ HandlerList(s.handlers)
  BY DEF SessionInv, Good
<1>2. Len(conns) \in Nat /\ DOMAIN conns = 1 .. Len(conns) /\ conns[c] \in Conn
      /\ DOMAIN req = 1 .. Len(req) /\ Len(req) \in Nat
  BY <1>1
<1>3. conns[c].rid \in 1 .. Len(req) /\ conns[c].rid \in Nat
  BY <1>2 DEF Conn
<1>4. h \in Handler /\ h.rid = conns[c].rid /\ h.conn = c /\ h.ref = ref
  BY <1>2, <1>3 DEF Handler
<1>5. NewHandler(s, h)
  <2>1. ASSUME NEW i \in 1 .. Len(s.handlers)
        PROVE  s.handlers[i].conn # c
    <3>1. s.handlers[i] \in HSet(s.handlers)
      BY DEF HSet
    <3>2. ListedIn(s.handlers[i], conns)
      BY <3>1 DEF SessionInv
    <3> QED
      BY <3>2 DEF ListedIn
  <2>2. h.conn > 0 /\ h.ref \in {h.conn, -h.conn}
    BY <1>2, <1>4
  <2> QED
    BY <1>1, <1>4, <2>1, <2>2 DEF NewHandler
<1>6. [conns[c] EXCEPT !.st = "held"] \in Conn
      /\ [conns[c] EXCEPT !.st = "held"].st = "held"
      /\ [conns[c] EXCEPT !.st = "held"].rid = conns[c].rid
  BY <1>2 DEF Conn
<1> DEFINE e == [conns[c] EXCEPT !.st = "held"]
<1>7. cs = [conns EXCEPT ![c] = e]
  OBVIOUS
<1> HIDE DEF e
<1>8. /\ cs \in Seq(Conn) /\ Len(cs) = Len(conns) /\ cs[c] = e
      /\ \A d \in 1 .. Len(conns) : d # c => cs[d] = conns[d]
  BY <1>1, <1>2, <1>6, <1>7, ExceptSeq DEF e
<1> QED
  BY <1>3, <1>4, <1>5, <1>6, <1>8 DEF Arrival, e

LEMMA ArrivalServes ==
  ASSUME SessionInv, Alive, NEW c \in 1 .. Len(conns), NEW h, NEW cs, Arrival(c, h, cs),
         NewHandler(s, h), conns[c].st = "sent", NEW u, u = Added(s, h)
  PROVE  Serves(u, cs)
<1>1. Serves(s, conns) /\ Good(s)
  BY SessionServes DEF SessionInv
<1>2. Good(u) /\ AddedTo(s.handlers, h, u.handlers)
  BY <1>1, AddedIs
<1>3. HSet(u.handlers) = HSet(s.handlers) \cup {h}
  BY <1>2 DEF AddedTo
<1>4. ASSUME NEW k \in HSet(u.handlers)
      PROVE  ListedIn(k, cs)
  <2>1. CASE k = h
    BY <2>1 DEF ListedIn, Arrival
  <2>2. CASE k # h
    <3>1. k \in HSet(s.handlers)
      BY <1>3, <2>2
    <3>2. ListedIn(k, conns)
      BY <1>1, <3>1 DEF Serves
    <3> QED
      BY <3>2 DEF ListedIn, Arrival
  <2> QED
    BY <2>1, <2>2
<1>5. ASSUME NEW d \in 1 .. Len(cs), cs[d].st = "held"
      PROVE  d \in Conns(u.handlers)
  <2>1. HandlerList(u.handlers) /\ HandlerList(s.handlers) /\ Len(cs) = Len(conns)
    BY <1>1, <1>2 DEF Good, Arrival
  <2>2. Conns(u.handlers) = {k.conn : k \in HSet(u.handlers)}
        /\ Conns(s.handlers) = {k.conn : k \in HSet(s.handlers)}
    BY <2>1, ConnsIs
  <2>3. CASE d = c
    <3>1. h.conn = c /\ h \in HSet(u.handlers)
      BY <1>3 DEF Arrival
    <3> QED
      BY <2>2, <2>3, <3>1
  <2>4. CASE d # c
    <3>1. conns[d].st = "held" /\ d \in 1 .. Len(conns)
      BY <1>5, <2>1, <2>4 DEF Arrival
    <3>2. d \in Conns(s.handlers)
      BY <1>1, <3>1 DEF Serves
    <3> QED
      BY <1>3, <2>2, <3>2
  <2> QED
    BY <2>3, <2>4
<1> QED
  BY <1>2, <1>4, <1>5 DEF Serves

LEMMA ArriveInv ==
  ASSUME SessionInv, NEW c \in DOMAIN conns, Arrive(c)
  PROVE  SessionInv'
<1>1. conns[c].st = "sent" /\ Alive
  BY DEF Arrive
<1>2. /\ Serves(s, conns) /\ s.stop = "no" /\ s.name # "stopped" /\ ~ Crashed(s)
      /\ DOMAIN conns = 1 .. Len(conns) /\ Good(s) /\ Forwarded(s) /\ DeferredOk(s)
      /\ req \in Seq(Types)
  BY <1>1, SessionServes DEF SessionInv
<1> DEFINE r == conns[c].rid
           held == [conns EXCEPT ![c].st = "held"]
           H(ref) == [rid |-> r, ref |-> ref, conn |-> c]
           T(ref) == DetermineNextState(HandleStreamEvent(s, req[r], H(ref)), req[r])
           acc == IF req[r] \in {"streamstart", "restart"} THEN accOff + 1 ELSE accOff
           N(ref) == IF Restarts(T(ref)) /\ c2s \in {"new", "open"} THEN "start" ELSE c2s
<1>3. PICK ref \in {c, -c} : Finish(T(ref), held, waitMsgs, idleMsg, acc, N(ref))
  BY DEF Arrive
<1> DEFINE h == H(ref)
           u == Added(s, h)
           w == HandleStreamEvent(s, req[r], h)
           t == DetermineNextState(w, req[r])
           next == N(ref)
<1>4. Finish(t, held, waitMsgs, idleMsg, acc, next)
  BY <1>3
<1>5. /\ acc \in Nat /\ waitMsgs \subseteq 1 .. Len(conns) /\ idleMsg \in BOOLEAN
      /\ c2s \in C2SStates
  BY DEF SessionInv
<1>6. next \in C2SStates /\ (c2s \in {"ended", "closed"} => next = c2s)
  BY <1>5 DEF C2SStates
<1>7. Arrival(c, h, held) /\ NewHandler(s, h) /\ h.rid \in 1 .. Len(req) /\ h.rid = r
  <2>1. /\ c \in 1 .. Len(conns) /\ h = [rid |-> conns[c].rid, ref |-> ref, conn |-> c]
        /\ held = [conns EXCEPT ![c].st = "held"]
    BY <1>2
  <2> HIDE DEF h, held
  <2>2. Arrival(c, h, held) /\ NewHandler(s, h) /\ h.rid \in 1 .. Len(req)
    BY <1>1, <2>1, ArrivalIs
  <2> QED
    BY <2>2 DEF Arrival
<1> HIDE DEF acc, next, h, u, held
<1>8. Serves(u, held)
  BY <1>1, <1>2, <1>7, ArrivalServes DEF u
<1>9. /\ Good(u) /\ AddedTo(s.handlers, h, u.handlers) /\ u.pending = s.pending
      /\ u.name = s.name
  BY <1>2, <1>7, AddedIs DEF u
<1>10. w = HandleStreamEvent(s, req[h.rid], h)
  BY <1>7
<1> HIDE DEF w, r
<1>11. Handles(u, w) /\ Forwarded(w) /\ (w.stop = "no" => DeferredOk(w))
  BY <1>2, <1>7, <1>10, HandlesEvent DEF u
<1>12. Good(w)
  BY <1>11 DEF Handles
<1> HIDE DEF t
<1>13. /\ Good(t) /\ t.rid = w.rid /\ t.fwd = w.fwd /\ t.deferred = w.deferred
       /\ t.handlers = w.handlers /\ t.reply = w.reply /\ t.pending = w.pending
       /\ t.sent = w.sent /\ t.idle = w.idle
       /\ t.stop \in {w.stop, "normal"} /\ (w.stop # "no" => t = w)
       /\ w.name # "stopped" => t.name # "stopped"
  BY <1>12, DeterminedIs DEF t
<1>14. StepOk(w, held, waitMsgs, idleMsg, acc, next)
  <2>1. u.handlers # <<>>
    BY <1>9 DEF AddedTo
  <2>2. Has(u.pending, End) => next \in {"ended", "closed"}
    BY <1>6, <1>9 DEF SessionInv
  <2>3. held \in Seq(Conn) /\ Len(held) = Len(conns)
    BY <1>7 DEF Arrival
  <2> QED
    BY <1>2, <1>5, <1>6, <1>8, <1>9, <1>11, <2>1, <2>2, <2>3, HandlesStep
<1>15. StepOk(t, held, waitMsgs, idleMsg, acc, next)
  <2>1. CASE w.stop # "no"
    BY <1>13, <1>14, <2>1
  <2>2. CASE w.stop = "no"
    BY <1>13, <1>14, <2>2 DEF StepOk, Crashed, Forwarded, DeferredOk
  <2> QED
    BY <2>1, <2>2
<1>16. /\ req' = req /\ got' = got /\ fires' \in Nat /\ out' \in 0 .. MaxOut
       /\ doubled' \in BOOLEAN
  BY DEF Arrive, SessionInv
<1> QED
  BY <1>4, <1>15, <1>16, FinishStep DEF t, w

\* An empty answer to a handler whose wait is over.
LEMMA RemovedIs ==
  ASSUME NEW hs, HandlerList(hs), NEW i \in 1 .. Len(hs), NEW q, q = RemoveAt(hs, i)
  PROVE  /\ HandlerList(q) /\ Len(q) = Len(hs) - 1 /\ HSet(q) = HSet(hs) \ {hs[i]}
         /\ \A k \in HSet(hs) : k.conn = hs[i].conn => k = hs[i]
<1>1. hs \in Seq(Handler) /\ Len(hs) \in Nat
  BY DEF HandlerList
<1>2. /\ q \in Seq(Handler) /\ Len(q) = Len(hs) - 1
      /\ \A j \in 1 .. Len(hs) - 1 : q[j] = IF j < i THEN hs[j] ELSE hs[j + 1]
  BY <1>1, RemoveAtSeq
<1>3. \A j, k \in 1 .. Len(hs) : hs[j].conn = hs[k].conn => j = k
  BY DEF HandlerList
<1>4. ASSUME NEW j \in 1 .. Len(q)
      PROVE  \E k \in 1 .. Len(hs) : k = (IF j < i THEN j ELSE j + 1) /\ k # i /\ q[j] = hs[k]
  <2>1. CASE j < i
    BY <1>1, <1>2, <2>1
  <2>2. CASE ~ (j < i)
    BY <1>1, <1>2, <2>2
  <2> QED
    BY <2>1, <2>2
<1>5. ASSUME NEW k \in 1 .. Len(hs), k # i
      PROVE  \E j \in 1 .. Len(q) : q[j] = hs[k]
  <2>1. CASE k < i
    <3>1. k \in 1 .. Len(q) /\ q[k] = hs[k]
      BY <1>1, <1>2, <2>1
    <3> QED
      BY <3>1
  <2>2. CASE ~ (k < i)
    <3>1. k - 1 \in 1 .. Len(q) /\ ~ (k - 1 < i) /\ (k - 1) + 1 = k /\ k - 1 \in 1 .. Len(hs) - 1
      BY <1>1, <1>2, <1>5, <2>2
    <3>2. q[k - 1] = hs[k]
      BY <1>2, <3>1
    <3> QED
      BY <3>1, <3>2
  <2> QED
    BY <2>1, <2>2
<1>6. HSet(q) = HSet(hs) \ {hs[i]}
  <2>1. HSet(q) \subseteq HSet(hs) \ {hs[i]}
    <3> SUFFICES ASSUME NEW j \in 1 .. Len(q)
                 PROVE  q[j] \in HSet(hs) /\ q[j] # hs[i]
      BY DEF HSet
    <3>1. PICK k \in 1 .. Len(hs) : k # i /\ q[j] = hs[k]
      BY <1>4
    <3> QED
      BY <1>3, <3>1 DEF HSet
  <2>2. HSet(hs) \ {hs[i]} \subseteq HSet(q)
    BY <1>5 DEF HSet
  <2> QED
    BY <2>1, <2>2
<1>7. HandlerList(q)
  <2>1. ASSUME NEW j \in 1 .. Len(q), NEW l \in 1 .. Len(q), q[j].conn = q[l].conn
        PROVE  j = l
    <3>1. PICK k \in 1 .. Len(hs) : k = (IF j < i THEN j ELSE j + 1) /\ k # i /\ q[j] = hs[k]
      BY <1>4
    <3>2. PICK m \in 1 .. Len(hs) : m = (IF l < i THEN l ELSE l + 1) /\ m # i /\ q[l] = hs[m]
      BY <1>4
    <3>3. k = m
      BY <1>3, <2>1, <3>1, <3>2
    <3> HIDE DEF HandlerList
    <3> QED
      BY <1>1, <1>2, <3>1, <3>2, <3>3
  <2>2. \A j \in 1 .. Len(q) : q[j].conn > 0 /\ q[j].ref \in {q[j].conn, -q[j].conn}
    BY <1>4 DEF HandlerList
  <2> QED
    BY <1>2, <2>1, <2>2 DEF HandlerList
<1> QED
  BY <1>2, <1>3, <1>6, <1>7 DEF HSet

Taken(t, i, u) ==
    /\ u.name = t.name /\ u.rid = t.rid
    /\ u.deferred = t.deferred /\ u.fwd = t.fwd /\ u.stop = t.stop
    /\ Len(u.handlers) = Len(t.handlers) - 1
    /\ HSet(u.handlers) = HSet(t.handlers) \ {t.handlers[i]}
    /\ u.sent = CacheResponse(t.sent, t.handlers[i].rid, <<>>)
    /\ u.pending = t.pending
    /\ u.idle = (t.idle \/ u.handlers = <<>>)
    /\ u.reply = t.reply \cup {[conn |-> t.handlers[i].conn, els |-> <<>>]}
    /\ Good(u) /\ Rids(u) \subseteq Rids(t)

LEMMA TakeHandlerIs ==
  ASSUME NEW t, Good(t), NEW i \in 1 .. Len(t.handlers), NEW u, u = TakeHandler(t, i)
  PROVE  Taken(t, i, u)
<1> DEFINE h == t.handlers[i]
           q == RemoveAt(t.handlers, i)
           v == [t EXCEPT !.handlers = q]
           e == <<>>
           m == [conn |-> h.conn, els |-> e]
<1>1. t \in State /\ HandlerList(t.handlers) /\ Len(t.sent) <= ConcurrentRequests
      /\ EndLast(t.pending) /\ Apart(t.handlers, t.reply)
  BY DEF Good
<1>2. h \in Handler /\ h.rid \in Nat
  BY <1>1, HandlerIs
<1>3. /\ HandlerList(q) /\ Len(q) = Len(t.handlers) - 1 /\ HSet(q) = HSet(t.handlers) \ {h}
      /\ \A k \in HSet(t.handlers) : k.conn = h.conn => k = h
  BY <1>1, RemovedIs
<1>4. u = SendTo(v, h, e) /\ q \in Seq(Handler) /\ h \in HSet(t.handlers)
  BY <1>3 DEF TakeHandler, HandlerList, HSet
<1>5. e \in Seq(Elements) /\ ~ NoBody(e) /\ ~ Splits(e) /\ e = IF Splits(e) THEN Front(e) ELSE e
  BY EmptyIs DEF EmptyFacts
<1> HIDE DEF h, q, e
<1>6. /\ v \in State /\ v.handlers = q
      /\ v.name = t.name /\ v.pending = t.pending /\ v.rid = t.rid
      /\ v.deferred = t.deferred /\ v.sent = t.sent /\ v.idle = t.idle
      /\ v.fwd = t.fwd /\ v.reply = t.reply /\ v.stop = t.stop
  BY <1>1, <1>4, WithHandlers
<1> HIDE DEF v
<1>7. /\ u.name = v.name /\ u.handlers = v.handlers /\ u.rid = v.rid
      /\ u.deferred = v.deferred /\ u.fwd = v.fwd /\ u.stop = v.stop
      /\ u.sent = CacheResponse(v.sent, h.rid, e)
      /\ u.pending = IF Splits(e) THEN Append(v.pending, End) ELSE v.pending
      /\ u.idle = (v.idle \/ v.handlers = <<>>)
      /\ u.reply = v.reply \cup {[conn |-> h.conn, els |-> e]}
      /\ u.sent \in Seq(CacheEntry) /\ u.pending \in Seq(Elements)
           /\ [conn |-> h.conn, els |-> e] \in [conn : Nat, els : Bodies]
              => u \in State
  BY <1>4, <1>5, <1>6, SendToIs
<1>8. m \in [conn : Nat, els : Bodies] /\ m.conn = h.conn
  BY <1>2, <1>5, MessageIs
<1>9. /\ u.sent \in Seq(CacheEntry) /\ Len(u.sent) <= ConcurrentRequests
      /\ SentRids(u.sent) \subseteq SentRids(t.sent) \cup {h.rid}
  <2>1. t.sent \in Seq(CacheEntry)
    BY <1>1, StateIs
  <2> QED
    <3> DEFINE c == CacheResponse(t.sent, h.rid, e)
    <3>1. /\ c \in Seq(CacheEntry) /\ Len(c) <= ConcurrentRequests
          /\ SentRids(c) \subseteq SentRids(t.sent) \cup {h.rid}
      BY ONLY <1>1, <1>2, <1>5, <2>1, CacheIs
    <3>2. u.sent = c
      BY <1>6, <1>7
    <3> HIDE DEF c
    <3> QED
      BY ONLY <3>1, <3>2
<1>10. u.pending = t.pending /\ u.pending \in Seq(Elements) /\ u \in State
  <2>1. u.pending = t.pending /\ t.pending \in Seq(Elements)
    BY <1>1, <1>5, <1>6, <1>7, StateIs
  <2> QED
    BY <1>7, <1>8, <1>9, <2>1
<1>11. u.reply = t.reply \cup {m}
  BY <1>6, <1>7
<1> HIDE DEF m
<1>12. Apart(q, t.reply \cup {m})
  BY <1>1, <1>3, <1>8 DEF Apart
<1>13. Good(u)
  BY <1>1, <1>3, <1>6, <1>7, <1>9, <1>10, <1>11, <1>12 DEF Good
<1>14. Rids(u) \subseteq Rids(t)
  <2>1. u.handlers = q
    BY <1>6, <1>7
  <2> QED
    BY <1>3, <1>4, <1>9, <2>1 DEF Rids
<1> QED
  BY <1>3, <1>6, <1>7, <1>10, <1>11, <1>13, <1>14 DEF h, q, e, m, Taken

LEMMA HandlesTake ==
  ASSUME NEW t, Good(t), NEW i \in 1 .. Len(t.handlers), NEW u, u = TakeHandler(t, i)
  PROVE  Handles(t, u) /\ u.rid = t.rid /\ u.fwd = t.fwd /\ u.deferred = t.deferred
<1> DEFINE m == [conn |-> t.handlers[i].conn, els |-> <<>>]
<1>1. /\ u.name = t.name /\ u.rid = t.rid
      /\ u.deferred = t.deferred /\ u.fwd = t.fwd /\ u.stop = t.stop
      /\ Len(u.handlers) = Len(t.handlers) - 1
      /\ HSet(u.handlers) = HSet(t.handlers) \ {t.handlers[i]}
      /\ u.pending = t.pending
      /\ u.idle = (t.idle \/ u.handlers = <<>>)
      /\ u.reply = t.reply \cup {m}
      /\ Good(u) /\ Rids(u) \subseteq Rids(t)
  <2>1. Taken(t, i, u)
    BY TakeHandlerIs
  <2> QED
    BY <2>1 DEF Taken
<1>2. m.conn = t.handlers[i].conn
  OBVIOUS
<1> HIDE DEF m
<1>3. \A h \in HSet(t.handlers) \ HSet(u.handlers) : \E x \in u.reply : x.conn = h.conn
  BY <1>1, <1>2
<1>4. Len(t.handlers) \in Nat
  BY DEF Good, HandlerList
<1>5. Len(u.handlers) <= Len(t.handlers)
  BY <1>1, <1>4
<1> QED
  BY <1>1, <1>3, <1>5 DEF Handles, Crashed

\* A step that keeps the connections, and answers handlers.
LEMMA PlainStep ==
  ASSUME SessionInv, Alive, NEW u, Good(u), u.handlers = s.handlers, u.name # "stopped",
         u.idle = s.idle,
         NEW t, Handles(u, t), t.rid = s.rid, t.fwd = s.fwd, t.deferred = s.deferred,
         NEW waits, NEW idle, NEW accs, NEW next,
         idleMsg => idle, Has(u.pending, End) => next \in {"ended", "closed"},
         waits \subseteq 1 .. Len(conns), idle \in BOOLEAN, accs \in Nat, next \in C2SStates,
         Finish(t, conns, waits, idle, accs, next),
         req' = req, got' = got, fires' = fires, doubled' = doubled, out' \in 0 .. MaxOut
  PROVE  SessionInv'
<1>1. /\ Serves(s, conns) /\ conns \in Seq(Conn) /\ s.stop = "no" /\ s.name # "stopped"
      /\ s.rid > 0 /\ s.handlers = <<>> => s.idle \/ idleMsg
  BY SessionServes
<1>2. Serves(u, conns)
  BY <1>1 DEF Serves
<1>3. Forwarded(t) /\ DeferredOk(t) /\ fires' \in Nat /\ doubled' \in BOOLEAN
  BY DEF SessionInv, Forwarded, DeferredOk
<1>4. StepOk(t, conns, waits, idle, accs, next)
  BY <1>1, <1>2, <1>3, HandlesStep
<1> QED
  BY <1>3, <1>4, FinishStep

LEMMA WaitTimeoutInv ==
  ASSUME SessionInv, NEW c \in DOMAIN conns, WaitTimeout(c)
  PROVE  SessionInv'
<1> DEFINE i == First(s.handlers, conns[c].rid)
           t == IF ~ HasRid(s.handlers, conns[c].rid) THEN s
                ELSE IF s.handlers[i].conn = c THEN TakeHandler(s, i)
                ELSE Crash(s)
<1>1. /\ c \in waitMsgs /\ Finish(t, conns, waitMsgs \ {c}, idleMsg, accOff, c2s)
      /\ UNCHANGED <<out, req, got, fires, doubled>>
  BY DEF WaitTimeout
<1>2. Alive
  BY <1>1 DEF SessionInv, Stopped
<1>3. Good(s) /\ s.handlers \in Seq(Handler)
  BY DEF SessionInv, Good, HandlerList
<1>4. Handles(s, t) /\ t.rid = s.rid /\ t.fwd = s.fwd /\ t.deferred = s.deferred
  <2>1. CASE ~ HasRid(s.handlers, conns[c].rid)
    <3>1. t = s
      BY <2>1
    <3> QED
      BY <1>3, <3>1, SendsNothing, HandlesSends
  <2>2. CASE HasRid(s.handlers, conns[c].rid) /\ s.handlers[i].conn = c
    <3>1. t = TakeHandler(s, i)
      BY <2>2
    <3>2. i \in 1 .. Len(s.handlers)
      BY <1>3, <2>2, FirstIs
    <3> HIDE DEF t, i
    <3> QED
      BY <1>3, <3>1, <3>2, HandlesTake
  <2>3. CASE HasRid(s.handlers, conns[c].rid) /\ s.handlers[i].conn # c
    <3>1. t = Crash(s)
      BY <2>3
    <3> HIDE DEF t
    <3> QED
      BY <1>3, <3>1, HandlesCrash
  <2> QED
    BY <2>1, <2>2, <2>3
<1> HIDE DEF t
<1>5. s.name # "stopped" /\ waitMsgs \ {c} \subseteq 1 .. Len(conns) /\ idleMsg \in BOOLEAN
      /\ accOff \in Nat /\ c2s \in C2SStates /\ out \in 0 .. MaxOut
      /\ (Has(s.pending, End) => c2s \in {"ended", "closed"})
  BY <1>2 DEF Alive, SessionInv
<1> QED
  BY <1>1, <1>2, <1>3, <1>4, <1>5, PlainStep

\* The name of a state and the reason to stop may change after a step.
LEMMA StepRenamed ==
  ASSUME NEW w, NEW cs, NEW waits, NEW idle, NEW accs, NEW next,
         StepOk(w, cs, waits, idle, accs, next),
         NEW t, t.name # "stopped", t \in State, t.rid = w.rid, t.fwd = w.fwd,
         t.deferred = w.deferred, t.handlers = w.handlers, t.reply = w.reply,
         t.pending = w.pending, t.sent = w.sent, t.idle = w.idle,
         t.stop = "no" => w.stop = "no", Crashed(w) => Crashed(t)
  PROVE  StepOk(t, cs, waits, idle, accs, next)
<1>1. Good(t)
  BY DEF StepOk, Good
<1> QED
  BY <1>1 DEF StepOk, Forwarded, DeferredOk

\* Doing nothing is a step.
LEMMA StepNothing ==
  ASSUME SessionInv, Alive
  PROVE  StepOk(s, conns, waitMsgs, idleMsg, accOff, c2s)
<1>1. /\ Serves(s, conns) /\ conns \in Seq(Conn) /\ s.stop = "no" /\ s.name # "stopped"
      /\ s.rid > 0 /\ s.handlers = <<>> => s.idle \/ idleMsg
  BY SessionServes
<1>2. Good(s) /\ Handles(s, s)
  BY SendsNothing, HandlesSends DEF SessionInv
<1> QED
  BY <1>1, <1>2, HandlesStep DEF SessionInv

LEMMA InactivityTimeoutInv ==
  ASSUME SessionInv, InactivityTimeout
  PROVE  SessionInv'
<1> DEFINE t == [s EXCEPT !.stop = "inactivity_timeout"]
<1>1. /\ Finish(t, conns, waitMsgs, FALSE, accOff, c2s)
      /\ UNCHANGED <<out, req, got, fires, doubled>> /\ idleMsg
  BY DEF InactivityTimeout
<1>2. Alive
  BY <1>1 DEF SessionInv, Stopped
<1>3. s \in State /\ "inactivity_timeout" \in Stops
  BY DEF SessionInv, Good, Stops
<1>4. /\ t \in State /\ t.rid = s.rid /\ t.fwd = s.fwd
      /\ t.deferred = s.deferred /\ t.handlers = s.handlers /\ t.reply = s.reply
      /\ t.pending = s.pending /\ t.sent = s.sent /\ t.idle = s.idle
      /\ t.stop = "inactivity_timeout" /\ t.name = s.name
  BY <1>3 DEF State
<1> HIDE DEF t
<1>5. StepOk(s, conns, waitMsgs, idleMsg, accOff, c2s) /\ s.name # "stopped" /\ ~ Crashed(s)
  BY <1>2, StepNothing, SessionServes
<1>6. StepOk(t, conns, waitMsgs, idleMsg, accOff, c2s) /\ t.stop # "no"
  BY <1>4, <1>5, StepRenamed
<1>7. StepOk(t, conns, waitMsgs, FALSE, accOff, c2s)
  BY <1>6 DEF StepOk
<1>8. /\ req' = req /\ got' = got /\ fires' \in Nat /\ doubled' \in BOOLEAN
      /\ out' \in 0 .. MaxOut
  BY <1>1 DEF SessionInv
<1> DEFINE no == FALSE
<1>9. Finish(t, conns, waitMsgs, no, accOff, c2s) /\ StepOk(t, conns, waitMsgs, no, accOff, c2s)
  BY <1>1, <1>7
<1> HIDE DEF no
<1> QED
  BY <1>8, <1>9, FinishStep

LEMMA AccOffInv ==
  ASSUME SessionInv, AccOff
  PROVE  SessionInv'
<1> DEFINE w == SendPending(s)
           t == IF s.name = "accumulate" THEN [w EXCEPT !.name = "normal"] ELSE s
<1>1. /\ Finish(t, conns, waitMsgs, idleMsg, accOff - 1, c2s) /\ accOff > 0
      /\ UNCHANGED <<out, req, got, fires, doubled>>
  BY DEF AccOff
<1>2. Alive /\ Good(s) /\ accOff - 1 \in Nat
  BY <1>1 DEF SessionInv, Stopped
<1>3. /\ Serves(s, conns) /\ conns \in Seq(Conn) /\ s.stop = "no" /\ s.name # "stopped"
      /\ s.rid > 0 /\ s.handlers = <<>> => s.idle \/ idleMsg
  BY <1>2, SessionServes
<1>4. StepOk(t, conns, waitMsgs, idleMsg, accOff, c2s)
  <2>1. CASE s.name = "accumulate"
    <3>1. Sends(s, w)
      BY <1>2, SendsPending
    <3> HIDE DEF w
    <3>2. Handles(s, w) /\ Forwarded(w) /\ DeferredOk(w) /\ Good(w)
      BY <3>1, HandlesSends DEF SessionInv, Sends, Answers, Forwarded, DeferredOk
    <3>3. StepOk(w, conns, waitMsgs, idleMsg, accOff, c2s)
      <4>1. /\ waitMsgs \subseteq 1 .. Len(conns) /\ idleMsg \in BOOLEAN
            /\ accOff \in Nat /\ c2s \in C2SStates
            /\ Has(s.pending, End) => c2s \in {"ended", "closed"}
            /\ w.rid > 0 /\ s.handlers = <<>> => s.idle \/ idleMsg
        BY <1>3, <3>1 DEF SessionInv, Sends, Answers
      <4> QED
        BY <1>3, <3>2, <4>1, HandlesStep
    <3>4. w \in State /\ "normal" \in Names /\ t = [w EXCEPT !.name = "normal"]
      BY <2>1, <3>2 DEF Good, Names
    <3> HIDE DEF t
    <3>5. /\ t \in State /\ t.rid = w.rid /\ t.fwd = w.fwd
          /\ t.deferred = w.deferred /\ t.handlers = w.handlers /\ t.reply = w.reply
          /\ t.pending = w.pending /\ t.sent = w.sent /\ t.idle = w.idle
          /\ t.stop = w.stop /\ t.name = "normal"
      BY <3>4 DEF State
    <3> QED
      BY <3>3, <3>5, StepRenamed DEF Crashed
  <2>2. CASE s.name # "accumulate"
    BY <1>2, <2>2, StepNothing
  <2> QED
    BY <2>1, <2>2
<1> HIDE DEF t
<1> DEFINE a == accOff - 1
<1>5. /\ StepOk(t, conns, waitMsgs, idleMsg, a, c2s)
      /\ Finish(t, conns, waitMsgs, idleMsg, a, c2s)
  BY <1>1, <1>2, <1>4 DEF StepOk
<1> HIDE DEF a
<1>6. /\ req' = req /\ got' = got /\ fires' \in Nat /\ doubled' \in BOOLEAN
      /\ out' \in 0 .. MaxOut
  BY <1>1 DEF SessionInv
<1> QED
  BY <1>5, <1>6, FinishStep

LEMMA C2SCloseInv ==
  ASSUME SessionInv, C2SClose
  PROVE  SessionInv'
<1> DEFINE t == IF s.pending = <<>> THEN [s EXCEPT !.stop = "normal"]
                ELSE [s EXCEPT !.name = "closing"]
           next == "closed"
<1>1. /\ Finish(t, conns, waitMsgs, idleMsg, accOff, next)
      /\ c2s \in {"start", "open", "ended"} /\ UNCHANGED <<out, req, got, fires, doubled>>
  BY DEF C2SClose
<1>2. Alive /\ s \in State /\ "normal" \in Stops /\ "closing" \in Names
  BY <1>1 DEF SessionInv, Stopped, Good, Stops, Names
<1>3. StepOk(s, conns, waitMsgs, idleMsg, accOff, c2s) /\ s.stop = "no" /\ s.name # "stopped"
      /\ ~ Crashed(s)
  BY <1>2, StepNothing, SessionServes
<1>4. /\ t \in State /\ t.rid = s.rid /\ t.fwd = s.fwd
      /\ t.deferred = s.deferred /\ t.handlers = s.handlers /\ t.reply = s.reply
      /\ t.pending = s.pending /\ t.sent = s.sent /\ t.idle = s.idle
      /\ t.stop \in {"no", "normal"} /\ t.name \in {s.name, "closing"}
  BY <1>2, <1>3 DEF State
<1> HIDE DEF t
<1>5. StepOk(t, conns, waitMsgs, idleMsg, accOff, c2s)
  BY <1>3, <1>4, StepRenamed
<1>6. StepOk(t, conns, waitMsgs, idleMsg, accOff, next)
  BY <1>5 DEF StepOk, C2SStates
<1> HIDE DEF next
<1>7. /\ req' = req /\ got' = got /\ fires' \in Nat /\ doubled' \in BOOLEAN
      /\ out' \in 0 .. MaxOut
  BY <1>1 DEF SessionInv
<1> QED
  BY <1>1, <1>6, <1>7, FinishStep

\* A state with one more element pending.
LEMMA AppendedIs ==
  ASSUME NEW t, Good(t), ~ Has(t.pending, End), NEW e \in Elements,
         NEW u, u = [t EXCEPT !.pending = Append(t.pending, e)]
  PROVE  /\ Good(u) /\ u.pending = Append(t.pending, e)
         /\ u.name = t.name /\ u.handlers = t.handlers /\ u.rid = t.rid
         /\ u.deferred = t.deferred /\ u.sent = t.sent /\ u.idle = t.idle
         /\ u.fwd = t.fwd /\ u.reply = t.reply /\ u.stop = t.stop
         /\ Has(u.pending, End) => e = End
<1> DEFINE p == Append(t.pending, e)
<1>1. t \in State /\ t.pending \in Seq(Elements)
  BY StateIs DEF Good
<1>2. Len(t.pending) \in Nat /\ DOMAIN t.pending = 1 .. Len(t.pending)
  BY <1>1
<1>3. /\ p \in Seq(Elements) /\ Len(p) = Len(t.pending) + 1 /\ p[Len(t.pending) + 1] = e
      /\ \A i \in 1 .. Len(t.pending) : p[i] = t.pending[i]
  BY <1>1, AppendProperties
<1>4. \A i \in 1 .. Len(t.pending) : t.pending[i] # End
  BY <1>2 DEF Has
<1> HIDE DEF p
<1>5. ASSUME NEW i \in 1 .. Len(p), p[i] = End
      PROVE  i = Len(p) /\ e = End
  <2>1. i \notin 1 .. Len(t.pending)
    BY <1>3, <1>4, <1>5
  <2>2. i = Len(t.pending) + 1
    BY <1>2, <1>3, <2>1
  <2> QED
    BY <1>3, <1>5, <2>2
<1>6. EndLast(p) /\ (Has(p, End) => e = End)
  <2>1. DOMAIN p = 1 .. Len(p)
    BY <1>3, LenProperties
  <2> QED
    BY <1>5, <2>1 DEF EndLast, Has
<1>7. /\ u \in State /\ u.pending = p
      /\ u.name = t.name /\ u.handlers = t.handlers /\ u.rid = t.rid
      /\ u.deferred = t.deferred /\ u.sent = t.sent /\ u.idle = t.idle
      /\ u.fwd = t.fwd /\ u.reply = t.reply /\ u.stop = t.stop
  <2>1. u = [t EXCEPT !.pending = p]
    BY DEF p
  <2> QED
    BY <1>1, <1>3, <2>1, WithPending, SMTT(30)
<1> QED
  BY <1>6, <1>7 DEF Good, p

LEMMA SingleIs ==
  ASSUME NEW e \in Elements, e # End, NEW q, q = <<e>>
  PROVE  q \in Seq(Elements) /\ ~ Splits(q) /\ ~ Has(q, End) /\ ~ NoBody(q) /\ Wrapped(q) = q
<1>1. q \in Seq(Elements) /\ Len(q) = 1 /\ DOMAIN q = 1 .. 1 /\ q[1] = e
  OBVIOUS
<1>2. ~ Has(q, End)
  BY <1>1 DEF Has
<1>3. ~ Splits(q) /\ ~ NoBody(q)
  BY <1>1, <1>2 DEF Splits, NoBody
<1> QED
  BY <1>1, <1>2, <1>3 DEF Wrapped

\* What c2s sent is given to a handler, or waits.
LEMMA HandlesSend ==
  ASSUME NEW t, Good(t), ~ Has(t.pending, End), NEW e \in Elements,
         NEW w, w = HandleSend(t, e)
  PROVE  \E u : /\ Good(u) /\ u.handlers = t.handlers /\ u.name = t.name
                /\ u.idle = t.idle /\ u.stop = t.stop /\ u.sent = t.sent
                /\ Handles(u, w) /\ w.rid = t.rid /\ w.fwd = t.fwd /\ w.deferred = t.deferred
                /\ Has(u.pending, End) => e = End
<1> DEFINE u == [t EXCEPT !.pending = Append(t.pending, e)]
<1>1. /\ Good(u) /\ u.pending = Append(t.pending, e)
      /\ u.name = t.name /\ u.handlers = t.handlers /\ u.rid = t.rid
      /\ u.deferred = t.deferred /\ u.sent = t.sent /\ u.idle = t.idle
      /\ u.fwd = t.fwd /\ u.reply = t.reply /\ u.stop = t.stop
      /\ Has(u.pending, End) => e = End
  <2> HIDE DEF u
  <2> QED
    BY AppendedIs DEF u
<1>2. t \in State /\ t.pending \in Seq(Elements)
  BY StateIs DEF Good
<1>3. CASE t.name = "accumulate"
  <2>1. w = u
    BY <1>3 DEF HandleSend
  <2> HIDE DEF u
  <2> QED
    BY <1>1, <2>1, SendsNothing, HandlesSends
<1>4. CASE t.name = "normal" /\ e = End
  <2>1. w = SendOrStore([t EXCEPT !.pending = <<>>], Append(t.pending, e))
    BY <1>4 DEF HandleSend
  <2>2. [u EXCEPT !.pending = <<>>] = [t EXCEPT !.pending = <<>>]
    BY <1>2 DEF State
  <2> HIDE DEF u
  <2>3. w = SendPending(u)
    BY <1>1, <2>1, <2>2 DEF SendPending
  <2>4. Sends(u, w)
    BY <1>1, <2>3, SendsPending
  <2> QED
    BY <1>1, <2>4, HandlesSends DEF Sends, Answers
<1>5. CASE t.name = "normal" /\ e # End
  <2> DEFINE q == <<e>>
  <2>1. w = SendOrStore(t, q)
    BY <1>5 DEF HandleSend
  <2>2. Append(t.pending, e) = t.pending \o q
    BY <1>2
  <2>3. q \in Seq(Elements) /\ ~ Splits(q) /\ ~ Has(q, End)
    <3> HIDE DEF q
    <3> QED
      BY <1>5, SingleIs DEF q
  <2> HIDE DEF q
  <2>4. CASE Valid(t)
    <3>1. w = SendToFirst(t, q) /\ t.handlers # <<>>
      BY <2>1, <2>4, ValidHasHandler DEF SendOrStore
    <3>2. Sends(t, w)
      BY <2>3, <3>1, AnswersFirst DEF Sends
    <3>3. Handles(t, w) /\ w.rid = t.rid /\ w.fwd = t.fwd /\ w.deferred = t.deferred
      BY <3>2, HandlesSends DEF Sends, Answers
    <3> QED
      BY <3>3
  <2>5. CASE ~ Valid(t)
    <3>1. w = u
      BY <2>1, <2>2, <2>5 DEF SendOrStore
    <3> HIDE DEF u
    <3> QED
      BY <1>1, <3>1, SendsNothing, HandlesSends
  <2> QED
    BY <2>4, <2>5
<1>6. CASE t.name \notin {"accumulate", "normal"}
  <2>1. w = t
    BY <1>6 DEF HandleSend
  <2> QED
    BY <2>1, SendsNothing, HandlesSends
<1> QED
  BY <1>3, <1>4, <1>5, <1>6

LEMMA SendInv ==
  ASSUME SessionInv, c2s \in {"start", "open"}, NEW e \in Elements, NEW next \in C2SStates,
         e = End => next = "ended", Send(e, next), out' \in 0 .. MaxOut
  PROVE  SessionInv'
<1> DEFINE w == HandleSend(s, e)
<1>1. /\ Finish(w, conns, waitMsgs, idleMsg, accOff, next)
      /\ UNCHANGED <<req, got, fires, doubled>>
  BY DEF Send
<1>2. Alive /\ Good(s) /\ ~ Has(s.pending, End)
  BY DEF SessionInv, Stopped
<1>3. PICK u : /\ Good(u) /\ u.handlers = s.handlers /\ u.name = s.name
               /\ u.idle = s.idle /\ u.stop = s.stop
               /\ Handles(u, w) /\ w.rid = s.rid /\ w.fwd = s.fwd /\ w.deferred = s.deferred
               /\ Has(u.pending, End) => e = End
  <2> HIDE DEF w
  <2> QED
    BY <1>2, HandlesSend DEF w
<1> HIDE DEF w
<1>4. s.name # "stopped" /\ waitMsgs \subseteq 1 .. Len(conns) /\ idleMsg \in BOOLEAN
      /\ accOff \in Nat
  BY <1>2 DEF Alive, SessionInv
<1>5. Has(u.pending, End) => next \in {"ended", "closed"}
  BY <1>3
<1> QED
  BY <1>1, <1>2, <1>3, <1>4, <1>5, PlainStep

LEMMA C2SSendInv ==
  ASSUME SessionInv, C2SStart \/ C2SStanza \/ C2SEnd
  PROVE  SessionInv'
<1>1. MaxOut \in Nat /\ out \in 0 .. MaxOut
  BY BoshAssumption DEF SessionInv
<1>2. Start \in Elements /\ Start # End /\ End \in Elements /\ "open" \in C2SStates /\ "ended" \in C2SStates
  BY <1>1 DEF Elements, Start, End, C2SStates
<1>3. CASE C2SStart
  <2>1. c2s \in {"start", "open"} /\ Send(Start, "open") /\ out' \in 0 .. MaxOut
    BY <1>1, <1>3 DEF C2SStart
  <2> QED
    BY <1>2, <2>1, SendInv
<1>4. CASE C2SStanza
  <2> DEFINE e == out + 1
             next == "open"
  <2>1. /\ c2s \in {"start", "open"} /\ Send(e, next) /\ out' \in 0 .. MaxOut
        /\ e \in Elements /\ e # End /\ next \in C2SStates
    BY <1>1, <1>2, <1>4 DEF C2SStanza, Elements, End
  <2> HIDE DEF e, next
  <2> QED
    BY <2>1, SendInv
<1>5. CASE C2SEnd
  <2>1. c2s \in {"start", "open"} /\ Send(End, "ended") /\ out' \in 0 .. MaxOut
    BY <1>1, <1>5 DEF C2SEnd
  <2> QED
    BY <1>2, <2>1, SendInv
<1> QED
  BY <1>3, <1>4, <1>5

(***************************************************************************)
(* The client, the connections and the timers                              *)
(***************************************************************************)

\* A connection changes, but for its request; only one that no handler serves
\* may change to anything but done.
LEMMA ConnStep ==
  ASSUME SessionInv, NEW c \in 1 .. Len(conns), NEW e \in Conn, e.rid = conns[c].rid,
         e.st # "held", e.st = "done" \/ conns[c].st = "sent",
         conns' = [conns EXCEPT ![c] = e],
         UNCHANGED <<s, waitMsgs, idleMsg, accOff, c2s, out, req, fires, doubled>>,
         got' \in Seq(Bodies \cup {NoAnswer}), Len(got') = Len(got)
  PROVE  SessionInv'
<1>1. conns \in Seq(Conn) /\ Len(conns) \in Nat /\ DOMAIN conns = 1 .. Len(conns)
  BY DEF SessionInv
<1>2. /\ conns' \in Seq(Conn) /\ Len(conns') = Len(conns) /\ conns'[c] = e
      /\ \A d \in 1 .. Len(conns) : d # c => conns'[d] = conns[d]
  BY <1>1, ExceptSeq
<1>3. Conn' = Conn
  BY DEF Conn
<1>4. \A h \in HSet(s.handlers) : ListedIn(h, conns)'
  <2> SUFFICES ASSUME NEW h \in HSet(s.handlers)
               PROVE  ListedIn(h, conns')
    BY DEF ListedIn
  <2>1. ListedIn(h, conns)
    BY DEF SessionInv
  <2> QED
    BY <1>2, <2>1 DEF ListedIn
<1>5. HeldIsTimed'
  <2>1. DOMAIN conns' = 1 .. Len(conns)
    BY <1>2, LenProperties
  <2>2. ASSUME NEW d \in 1 .. Len(conns), conns'[d].st = "held"
        PROVE  conns[d].st = "held"
    BY <1>2, <2>2
  <2>3. HeldIsTimed
    BY DEF SessionInv
  <2> QED
    BY <1>1, <2>1, <2>2, <2>3 DEF HeldIsTimed
<1>6. /\ Good(s)' /\ Forwarded(s)' /\ DeferredOk(s)' /\ IdleIsTimed' /\ (~ Alive' => Stopped')
      /\ (s'.stop = "no" <=> Alive') /\ s'.reply = {}
  BY DEF SessionInv, Forwarded, DeferredOk, IdleIsTimed, Alive, Stopped
<1>7. waitMsgs' \subseteq 1 .. Len(conns')
  BY <1>2 DEF SessionInv
<1>8. conns' \in Seq(Conn')
  BY <1>2, <1>3
<1> QED
  BY <1>4, <1>5, <1>6, <1>7, <1>8 DEF SessionInv

LEMMA ConnectionInv ==
  ASSUME SessionInv, NEW c \in DOMAIN conns, NoSession(c) \/ Break(c) \/ Receive(c)
  PROVE  SessionInv'
<1>1. conns \in Seq(Conn) /\ c \in 1 .. Len(conns) /\ conns[c] \in Conn
      /\ got \in Seq(Bodies \cup {NoAnswer}) /\ req \in Seq(Types) /\ Len(got) = Len(req)
  BY DEF SessionInv
<1>2. Gone \in Bodies /\ <<>> \in Bodies
  BY DEF Bodies
<1>3. CASE NoSession(c)
  <2> DEFINE e == [conns[c] EXCEPT !.st = "answered", !.els = Gone]
  <2>1. conns' = [conns EXCEPT ![c] = e] /\ conns[c].st = "sent"
    BY <1>3 DEF NoSession
  <2>2. e \in Conn /\ e.rid = conns[c].rid /\ e.st = "answered"
    BY <1>1, <1>2 DEF Conn
  <2> HIDE DEF e
  <2>3. UNCHANGED <<s, waitMsgs, idleMsg, accOff, c2s, out, req, got, fires, doubled>>
    BY <1>3 DEF NoSession
  <2> QED
    BY <1>1, <2>1, <2>2, <2>3, ConnStep
<1>4. CASE Break(c)
  <2> DEFINE e == [conns[c] EXCEPT !.st = "done", !.els = <<>>]
  <2>1. conns' = [conns EXCEPT ![c] = e]
    BY <1>4 DEF Break
  <2>2. e \in Conn /\ e.rid = conns[c].rid /\ e.st = "done"
    BY <1>1, <1>2 DEF Conn
  <2> HIDE DEF e
  <2>3. UNCHANGED <<s, waitMsgs, idleMsg, accOff, c2s, out, req, got, fires, doubled>>
    BY <1>4 DEF Break
  <2> QED
    BY <1>1, <2>1, <2>2, <2>3, ConnStep
<1>5. CASE Receive(c)
  <2> DEFINE e == [conns[c] EXCEPT !.st = "done", !.els = <<>>]
             r == conns[c].rid
             b == conns[c].els
  <2>1. conns' = [conns EXCEPT ![c] = e] /\ got' = [got EXCEPT ![r] = b]
    BY <1>5 DEF Receive
  <2>2. e \in Conn /\ e.rid = conns[c].rid /\ e.st = "done"
    BY <1>1, <1>2 DEF Conn
  <2>3. r \in 1 .. Len(got) /\ b \in Bodies \cup {NoAnswer}
    BY <1>1 DEF Conn
  <2> HIDE DEF e, r, b
  <2>4. got' \in Seq(Bodies \cup {NoAnswer}) /\ Len(got') = Len(got)
    BY <1>1, <2>1, <2>3, ExceptSeq
  <2>5. UNCHANGED <<s, waitMsgs, idleMsg, accOff, c2s, out, req, fires, doubled>>
    BY <1>5 DEF Receive
  <2> QED
    BY <1>1, <2>1, <2>2, <2>4, <2>5, ConnStep
<1> QED
  BY <1>3, <1>4, <1>5

\* The wait and the inactivity timers.
LEMMA TimersInv ==
  ASSUME SessionInv, InactivityFires \/ \E c \in DOMAIN conns : WaitFires(c)
  PROVE  SessionInv'
<1>1. ASSUME UNCHANGED <<req, got, conns, out, c2s, accOff, doubled>>
      PROVE  /\ conns' \in Seq(Conn') /\ out' \in 0 .. MaxOut /\ c2s' \in C2SStates
             /\ accOff' \in Nat /\ doubled' \in BOOLEAN /\ req' \in Seq(Types)
             /\ got' \in Seq(Bodies \cup {NoAnswer}) /\ Len(got') = Len(req')
  BY <1>1 DEF SessionInv, Conn
<1>2. CASE InactivityFires
  <2>1. /\ s' = [s EXCEPT !.idle = FALSE] /\ idleMsg' = TRUE /\ s.idle
        /\ UNCHANGED <<waitMsgs, accOff, c2s, out, req, got, conns, fires, doubled>>
    BY <1>2 DEF InactivityFires
  <2>2. s \in State /\ Alive
    BY <2>1 DEF SessionInv, Good, Stopped
  <2>3. /\ s' \in State /\ s'.handlers = s.handlers /\ s'.reply = s.reply /\ s'.stop = s.stop
        /\ s'.name = s.name /\ s'.pending = s.pending /\ s'.rid = s.rid
        /\ s'.deferred = s.deferred /\ s'.sent = s.sent /\ s'.fwd = s.fwd
    BY <2>1, <2>2 DEF State
  <2>4. Good(s')
    BY <2>3 DEF SessionInv, Good
  <2>5. /\ Forwarded(s)' /\ DeferredOk(s)' /\ IdleIsTimed' /\ Alive'
        /\ \A h \in HSet(s'.handlers) : ListedIn(h, conns)'
    BY <2>1, <2>2, <2>3 DEF SessionInv, Forwarded, DeferredOk, IdleIsTimed, Alive, ListedIn
  <2>6. HeldIsTimed'
    BY <2>1, <2>3 DEF SessionInv, HeldIsTimed, Crashed
  <2>7. /\ waitMsgs' \subseteq 1 .. Len(conns') /\ idleMsg' \in BOOLEAN /\ fires' \in Nat
        /\ s'.reply = {} /\ s'.stop = "no" /\ (Has(s'.pending, End) => c2s' \in {"ended", "closed"})
    BY <2>1, <2>2, <2>3 DEF SessionInv
  <2> QED
    BY <1>1, <2>1, <2>4, <2>5, <2>6, <2>7 DEF SessionInv
<1>3. CASE \E c \in DOMAIN conns : WaitFires(c)
  <2>1. PICK c \in DOMAIN conns : WaitFires(c)
    BY <1>3
  <2>2. /\ waitMsgs' = waitMsgs \cup {c} /\ fires' = fires + 1 /\ c \in Conns(s.handlers)
        /\ UNCHANGED <<s, idleMsg, accOff, c2s, out, req, got, conns, doubled>>
    BY <2>1 DEF WaitFires
  <2>3. Alive /\ DOMAIN conns = 1 .. Len(conns)
    BY <2>2 DEF SessionInv, Stopped, Conns
  <2>4. /\ Good(s)' /\ Forwarded(s)' /\ DeferredOk(s)' /\ IdleIsTimed' /\ HeldIsTimed' /\ Alive'
        /\ \A h \in HSet(s'.handlers) : ListedIn(h, conns)'
    BY <2>2, <2>3 DEF SessionInv, Forwarded, DeferredOk, IdleIsTimed, HeldIsTimed, Alive, ListedIn
  <2>5. /\ waitMsgs' \subseteq 1 .. Len(conns') /\ idleMsg' \in BOOLEAN /\ fires' \in Nat
        /\ s'.reply = {} /\ s'.stop = "no" /\ (Has(s'.pending, End) => c2s' \in {"ended", "closed"})
    <3>1. waitMsgs' \subseteq 1 .. Len(conns')
      BY <2>2, <2>3 DEF SessionInv
    <3>2. idleMsg' \in BOOLEAN /\ s'.reply = {} /\ s'.stop = "no"
          /\ (Has(s'.pending, End) => c2s' \in {"ended", "closed"})
      BY <2>2, <2>3 DEF SessionInv
    <3>3. fires' \in Nat
      BY <2>2 DEF SessionInv
    <3> QED
      BY <3>1, <3>2, <3>3
  <2> QED
    BY <1>1, <2>2, <2>4, <2>5 DEF SessionInv
<1> QED
  BY <1>2, <1>3

LEMMA TransmitInv ==
  ASSUME SessionInv, req' \in Seq(Types), Len(req) <= Len(req'),
         \A i \in 1 .. Len(req) : req'[i] = req[i],
         got' \in Seq(Bodies \cup {NoAnswer}), Len(got') = Len(req'),
         NEW r \in 1 .. Len(req'), Transmit(r)
  PROVE  SessionInv'
<1> DEFINE e == [rid |-> r, st |-> "sent", els |-> <<>>]
<1>1. /\ conns' = Append(conns, e) /\ Alive /\ ~ idleMsg
      /\ UNCHANGED <<s, waitMsgs, idleMsg, accOff, c2s, out, fires, doubled>>
  BY DEF Transmit
<1>2. /\ conns \in Seq(Conn) /\ Len(conns) \in Nat /\ req \in Seq(Types) /\ Len(req) \in Nat
      /\ Len(req') \in Nat /\ DOMAIN req = 1 .. Len(req) /\ DOMAIN req' = 1 .. Len(req')
      /\ DOMAIN conns = 1 .. Len(conns)
  BY DEF SessionInv
<1>3. Conn \subseteq Conn' /\ e \in Conn'
  <2>1. DOMAIN req \subseteq DOMAIN req' /\ r \in DOMAIN req' /\ <<>> \in Bodies
    BY <1>2 DEF Bodies
  <2> QED
    BY <2>1 DEF Conn
<1>4. conns \in Seq(Conn')
  BY <1>2, <1>3
<1>5. e.st = "sent"
  OBVIOUS
<1> HIDE DEF e
<1>6. /\ conns' \in Seq(Conn') /\ Len(conns') = Len(conns) + 1 /\ conns'[Len(conns) + 1] = e
      /\ \A c \in 1 .. Len(conns) : conns'[c] = conns[c]
  BY <1>1, <1>3, <1>4, AppendProperties
<1>7. Forwarded(s)' /\ DeferredOk(s)'
  <2>1. s.rid \in Nat /\ s.rid <= Len(req) /\ Good(s) /\ Forwarded(s) /\ DeferredOk(s)
    BY StateIs DEF SessionInv, Good, Forwarded
  <2>2. \A k \in 1 .. s.rid : req'[k] = req[k]
    BY <1>2, <2>1
  <2>3. s.rid <= Len(req')
    BY <1>2, <2>1
  <2>4. Forwarded(s)'
    BY <1>1, <2>1, <2>2, <2>3 DEF Forwarded
  <2>5. s.deferred # <<>> => s.rid + 2 <= Len(req') /\ req'[s.rid + 2] = req[s.rid + 2]
    BY <1>2, <2>1 DEF DeferredOk
  <2>6. DeferredOk(s)'
    BY <1>1, <2>1, <2>5 DEF DeferredOk
  <2> QED
    BY <2>4, <2>6
<1>8. ASSUME NEW h \in HSet(s.handlers)
      PROVE  ListedIn(h, conns')
  <2>1. h.conn \in 1 .. Len(conns) /\ h.rid = conns[h.conn].rid
        /\ conns[h.conn].st \in {"held", "done"}
    BY DEF SessionInv, ListedIn
  <2>2. h.conn \in 1 .. Len(conns')
    BY <1>2, <1>6, <2>1
  <2> QED
    BY <1>6, <2>1, <2>2 DEF ListedIn
<1>9. HeldIsTimed'
  <2>1. DOMAIN conns' = 1 .. Len(conns) + 1
    <3>1. DOMAIN conns' = 1 .. Len(conns')
      BY <1>6, LenProperties
    <3> QED
      BY <1>6, <3>1
  <2>2. ASSUME NEW d \in 1 .. Len(conns) + 1, conns'[d].st = "held"
        PROVE  d \in 1 .. Len(conns) /\ conns[d].st = "held"
    <3>1. d # Len(conns) + 1
      BY <1>5, <1>6, <2>2
    <3>2. d \in 1 .. Len(conns)
      BY ONLY Len(conns) \in Nat, d \in 1 .. Len(conns) + 1, <1>2, <3>1
    <3> QED
      BY <1>6, <2>2, <3>2
  <2>3. HeldIsTimed
    BY DEF SessionInv
  <2> QED
    BY <1>1, <1>2, <2>1, <2>2, <2>3 DEF HeldIsTimed
<1>10. /\ Good(s)' /\ IdleIsTimed' /\ Alive' /\ s'.stop = "no" /\ s'.reply = {}
       /\ idleMsg' \in BOOLEAN /\ doubled' \in BOOLEAN
       /\ (Has(s'.pending, End) => c2s' \in {"ended", "closed"})
  BY <1>1 DEF SessionInv, IdleIsTimed, Alive
<1>11. /\ waitMsgs' \subseteq 1 .. Len(conns')
  BY <1>1, <1>2, <1>6 DEF SessionInv
<1>12. accOff' \in Nat /\ out' \in 0 .. MaxOut /\ c2s' \in C2SStates /\ fires' \in Nat
  BY <1>1 DEF SessionInv
<1>13. \A h \in HSet(s'.handlers) : ListedIn(h, conns)'
  BY <1>1, <1>8 DEF ListedIn
<1> QED
  BY <1>6, <1>7, <1>9, <1>10, <1>11, <1>12, <1>13 DEF SessionInv

LEMMA ClientInv ==
  ASSUME SessionInv,
         (\E type \in Types : Request(type)) \/ (\E r \in DOMAIN req : Repeat(r))
  PROVE  SessionInv'
<1>1. req \in Seq(Types) /\ got \in Seq(Bodies \cup {NoAnswer}) /\ Len(got) = Len(req)
      /\ Len(req) \in Nat
  BY DEF SessionInv
<1>2. CASE \E type \in Types : Request(type)
  <2>1. PICK type \in Types : Request(type)
    BY <1>2
  <2>2. req' = Append(req, type) /\ got' = Append(got, NoAnswer) /\ Transmit(Len(req) + 1)
    BY <2>1 DEF Request
  <2> DEFINE r == Len(req) + 1
             no == NoAnswer
  <2>3. /\ req' \in Seq(Types) /\ Len(req') = Len(req) + 1
        /\ \A i \in 1 .. Len(req) : req'[i] = req[i]
    BY <1>1, <2>2, AppendProperties
  <2>4. no \in Bodies \cup {NoAnswer} /\ got' = Append(got, no)
    BY <2>2
  <2> HIDE DEF no
  <2>5. got' \in Seq(Bodies \cup {NoAnswer}) /\ Len(got') = Len(req')
    BY <1>1, <2>3, <2>4, AppendProperties
  <2>6. Len(req) <= Len(req') /\ r \in 1 .. Len(req') /\ Transmit(r)
    BY <1>1, <2>2, <2>3
  <2> HIDE DEF r
  <2> QED
    BY <2>3, <2>5, <2>6, TransmitInv
<1>3. CASE \E r \in DOMAIN req : Repeat(r)
  <2>1. PICK r \in DOMAIN req : Repeat(r)
    BY <1>3
  <2>2. r \in 1 .. Len(req') /\ req' = req /\ got' = got /\ Transmit(r) /\ Len(req) <= Len(req')
    BY <1>1, <2>1 DEF Repeat
  <2> QED
    BY <1>1, <2>2, TransmitInv
<1> QED
  BY <1>2, <1>3

LEMMA SessionInit ==
  ASSUME Init
  PROVE  SessionInv
<1>1. /\ s = Fresh /\ waitMsgs = {} /\ idleMsg = FALSE /\ accOff = 0
      /\ c2s = "new" /\ out = 0
      /\ req = <<>> /\ got = <<>> /\ conns = <<>>
      /\ fires = 0 /\ doubled = FALSE
  BY DEF Init
<1>2. /\ s.name = "accumulate" /\ s.handlers = <<>> /\ s.pending = <<>> /\ s.rid = 0
      /\ s.deferred = <<>> /\ s.sent = <<>> /\ s.idle = FALSE /\ s.fwd = <<>>
      /\ s.reply = {} /\ s.stop = "no"
  BY <1>1 DEF Fresh
<1>3. s \in State
  <2>1. /\ "accumulate" \in Names /\ "no" \in Stops /\ 0 \in Nat /\ FALSE \in BOOLEAN
        /\ {} \in SUBSET [conn : Nat, els : Bodies]
        /\ <<>> \in Seq(Handler) /\ <<>> \in Seq(Elements) /\ <<>> \in Seq(Types)
        /\ <<>> \in Seq([rid : Nat, els : Seq(Elements)])
        /\ <<>> \in Seq([rid : Nat, type : Types])
    BY DEF Names, Stops
  <2> QED
    BY <1>1, <2>1 DEF State, Fresh
<1>4. Good(s) /\ HSet(s.handlers) = {}
  <2>1. HandlerList(<<>>) /\ HSet(<<>>) = {} /\ EndLast(<<>>) /\ Len(<<>>) <= ConcurrentRequests
    BY DEF HandlerList, HSet, EndLast, ConcurrentRequests
  <2> QED
    BY <1>2, <1>3, <2>1 DEF Good, Apart
<1>5. Forwarded(s) /\ DeferredOk(s)
  <2>1. Len(req) = 0 /\ 1 .. 0 = {}
    BY <1>1
  <2>2. [r \in 1 .. 0 |-> [rid |-> r, type |-> req[r]]] = <<>>
    BY <2>1
  <2> QED
    BY <1>2, <2>1, <2>2 DEF Forwarded, DeferredOk
<1>6. Alive /\ IdleIsTimed /\ HeldIsTimed /\ ~ Has(s.pending, End)
  BY <1>1, <1>2 DEF Alive, IdleIsTimed, HeldIsTimed, Has
<1>7. 0 \in 0 .. MaxOut /\ "new" \in C2SStates
  BY BoshAssumption DEF C2SStates
<1>8. req \in Seq(Types) /\ got \in Seq(Bodies \cup {NoAnswer}) /\ Len(got) = Len(req)
      /\ conns \in Seq(Conn) /\ waitMsgs \subseteq 1 .. Len(conns)
  BY <1>1
<1>9. idleMsg \in BOOLEAN /\ doubled \in BOOLEAN /\ accOff \in Nat /\ fires \in Nat
      /\ out \in 0 .. MaxOut /\ c2s \in C2SStates
  BY <1>1, <1>7
<1> QED
  BY <1>2, <1>4, <1>5, <1>6, <1>8, <1>9 DEF SessionInv

LEMMA SessionStutter ==
  ASSUME SessionInv, UNCHANGED vars
  PROVE  SessionInv'
<1>1. /\ s' = s /\ waitMsgs' = waitMsgs /\ idleMsg' = idleMsg /\ accOff' = accOff
      /\ c2s' = c2s /\ out' = out /\ req' = req /\ got' = got /\ conns' = conns
      /\ fires' = fires /\ doubled' = doubled
  BY DEF vars
<1> QED
  BY <1>1 DEF SessionInv, Forwarded, DeferredOk, ListedIn, Alive, Stopped, Conn,
              IdleIsTimed, HeldIsTimed

LEMMA SessionNext ==
  ASSUME SessionInv, [Next]_vars
  PROVE  SessionInv'
<1>1. ASSUME NEW c \in DOMAIN conns, OnConnection(c) \/ Break(c)
      PROVE  SessionInv'
  BY <1>1, ArriveInv, WaitTimeoutInv, ConnectionInv, TimersInv DEF OnConnection
<1>2. CASE InactivityFires \/ InactivityTimeout \/ AccOff
  BY <1>2, TimersInv, InactivityTimeoutInv, AccOffInv
<1>3. CASE C2SStart \/ C2SStanza \/ C2SEnd \/ C2SClose
  BY <1>3, C2SSendInv, C2SCloseInv
<1>4. CASE (\E type \in Types : Request(type)) \/ (\E r \in DOMAIN req : Repeat(r))
  BY <1>4, ClientInv
<1>5. CASE UNCHANGED vars
  BY <1>5, SessionStutter
<1> QED
  BY <1>1, <1>2, <1>3, <1>4, <1>5 DEF Next

LEMMA SessionAlways == Spec => []SessionInv
<1>1. Init => SessionInv
  BY SessionInit
<1>2. SessionInv /\ [Next]_vars => SessionInv'
  BY SessionNext
<1> QED
  BY <1>1, <1>2, PTL DEF Spec

\* The variables of a session have their types, nothing is held twice, at most
\* two responses are cached, and nothing is pending after a stream end.
THEOREM BoshTypes == Spec => []TypeOK
<1>1. SessionInv => TypeOK
  BY SessionGives
<1> QED
  BY <1>1, SessionAlways, PTL

\* Requests reach c2s in the order of their rids, each once, however they arrive
\* and however often they are repeated.
THEOREM BoshInboundOnce == Spec => []InboundOnce
<1>1. SessionInv => InboundOnce
  BY SessionGives
<1> QED
  BY <1>1, SessionAlways, PTL

\* A session without a request to answer runs out.
THEOREM BoshIdleIsTimed == Spec => []IdleIsTimed
<1>1. SessionInv => IdleIsTimed
  BY SessionGives
<1> QED
  BY <1>1, SessionAlways, PTL

\* A request that waits for an answer has a handler, whose wait timer runs or has
\* fired, unless the process crashed.
THEOREM BoshHeldIsTimed == Spec => []HeldIsTimed
<1>1. SessionInv => HeldIsTimed
  BY SessionGives
<1> QED
  BY <1>1, SessionAlways, PTL

(***************************************************************************)
(* Held requests                                                           *)
(***************************************************************************)

\* A request that can take a stanza is the only one held, and nothing waits for
\* it; without a request that was deferred twice, one request is held at most.
Held(t) ==
    /\ Valid(t) => Len(t.handlers) = 1 /\ (t.name = "normal" => t.pending = <<>>)
    /\ Len(t.deferred) <= 1 => Len(t.handlers) <= 1

\* Only a deferred request is ahead of the last one that was processed.
AheadIn(t) == \A r \in Rids(t) : r <= t.rid \/ (r = t.rid + 2 /\ t.deferred # <<>>)

\* Valid, by the set of handlers.
LEMMA ValidIs ==
  ASSUME NEW t, Good(t)
  PROVE  Valid(t) <=> \E h \in HSet(t.handlers) : h.rid <= t.rid
<1>1. DOMAIN t.handlers = 1 .. Len(t.handlers)
  BY DEF Good, HandlerList
<1> QED
  BY <1>1 DEF Valid, HSet

LEMMA LenIs ==
  ASSUME NEW t, Good(t)
  PROVE  /\ Len(t.handlers) \in Nat /\ (t.handlers = <<>> <=> Len(t.handlers) = 0)
         /\ t.rid \in Nat /\ \A h \in HSet(t.handlers) : h \in Handler /\ h.rid \in Nat
         /\ t.deferred \in Seq(Types) /\ Len(t.deferred) \in Nat
         /\ t.deferred = <<>> <=> Len(t.deferred) = 0
<1>1. t \in State /\ HandlerList(t.handlers) /\ t.handlers \in Seq(Handler)
  BY DEF Good, HandlerList
<1>2. t.rid \in Nat /\ t.deferred \in Seq(Types)
  BY <1>1, StateIs
<1>3. \A h \in HSet(t.handlers) : h \in Handler /\ h.rid \in Nat
  BY <1>1, HandlerIs DEF HSet
<1>4. Len(t.handlers) \in Nat /\ (t.handlers = <<>> <=> Len(t.handlers) = 0)
  BY <1>1
<1>5. Len(t.deferred) \in Nat /\ (t.deferred = <<>> <=> Len(t.deferred) = 0)
  BY <1>2
<1> QED
  BY <1>2, <1>3, <1>4, <1>5

\* Two different handlers take two places; two places have two handlers.
LEMMA TwoHandlers ==
  ASSUME NEW hs, HandlerList(hs)
  PROVE  /\ \A h, k \in HSet(hs) : h # k => Len(hs) >= 2
         /\ Len(hs) >= 1 => HSet(hs) # {}
         /\ Len(hs) >= 2 => \E h, k \in HSet(hs) : h # k
<1>1. Len(hs) \in Nat
  BY DEF HandlerList
<1>2. ASSUME NEW i \in 1 .. Len(hs), NEW j \in 1 .. Len(hs), hs[i] # hs[j]
      PROVE  Len(hs) >= 2
  <2>1. i # j
    BY <1>2
  <2> QED
    BY <1>1, <2>1
<1>3. ASSUME Len(hs) >= 1
      PROVE  HSet(hs) # {}
  <2>1. 1 \in 1 .. Len(hs)
    BY <1>1, <1>3
  <2> QED
    BY <2>1 DEF HSet
<1>4. ASSUME Len(hs) >= 2
      PROVE  \E h, k \in HSet(hs) : h # k
  <2>1. 1 \in 1 .. Len(hs) /\ 2 \in 1 .. Len(hs)
    BY <1>1, <1>4
  <2>2. hs[1] # hs[2]
    BY <2>1 DEF HandlerList
  <2> QED
    BY <2>1, <2>2 DEF HSet
<1> QED
  BY <1>2, <1>3, <1>4 DEF HSet

\* Of two handlers, one is answered and one is held.
LEMMA SurplusOne ==
  ASSUME NEW t, Good(t), t.stop = "no", Len(t.handlers) <= 2, Len(t.handlers) = 2 => Valid(t),
         NEW u, u = ReturnSurplusHandlers(t)
  PROVE  Len(u.handlers) <= 1
<1> DEFINE n == Len(t.handlers)
<1>1. n \in Nat /\ (t.handlers = <<>> <=> n = 0)
  BY LenIs
<1>2. Len(u.handlers) <= n /\ Good(u)
  BY HandlesSurplus DEF Handles
<1>3. Len(u.handlers) \in Nat
  BY <1>2, LenIs
<1>4. CASE n <= 1
  <2> HIDE DEF n
  <2> QED
    BY <1>1, <1>2, <1>3, <1>4
<1>5. CASE n = 2
  <2>1. Valid(t) /\ t.handlers # <<>> /\ n - 1 = 1
    BY <1>1, <1>5
  <2>2. CASE t.name = "accumulate"
    <3>1. u = Returned(t, 1)
      BY <1>5, <2>1, <2>2 DEF ReturnSurplusHandlers
    <3>2. Returned(t, 0) = t /\ \A k \in Nat : Returned(t, k + 1) = Step(Returned(t, k))
      BY ReturnedIs
    <3>3. u = Step(t)
      <4>1. Returned(t, 0 + 1) = Step(Returned(t, 0)) /\ 0 + 1 = 1
        BY <3>2
      <4> QED
        BY <3>1, <3>2, <4>1
    <3>4. Len(u.handlers) = n - 1
      BY <2>1, <3>3, ReturnsOne
    <3> QED
      BY <2>1, <3>4
  <2>3. CASE t.name # "accumulate"
    <3>1. u = SendPending(t)
      BY <1>5, <2>1, <2>3 DEF ReturnSurplusHandlers
    <3> DEFINE v == [t EXCEPT !.pending = <<>>]
    <3>2. /\ Good(v) /\ v.pending = <<>> /\ v.handlers = t.handlers
          /\ t.pending \in Seq(Elements)
          /\ SendPending(t) = IF Valid(t) THEN SendToFirst(v, t.pending) ELSE t
      BY SendPendingIs
    <3> HIDE DEF v
    <3>3. u = SendToFirst(v, t.pending) /\ v.handlers # <<>>
      BY <2>1, <3>1, <3>2
    <3>4. Len(u.handlers) = Len(v.handlers) - 1
      BY <3>2, <3>3, AnswersFirst
    <3> QED
      BY <2>1, <3>2, <3>4
  <2> QED
    BY <2>2, <2>3
<1>6. n <= 2
  OBVIOUS
<1>7. n <= 1 \/ n = 2
  <2> HIDE DEF n
  <2> QED
    BY ONLY <1>1, <1>6
<1> QED
  BY <1>4, <1>5, <1>7

\* What return_surplus_handlers leaves is held rightly, if two requests that can
\* take a stanza are all there are and nothing waits for them.
Two(t) ==
    \A h, k \in HSet(t.handlers) :
        h # k /\ h.rid <= t.rid /\ k.rid <= t.rid
            => Len(t.handlers) = 2 /\ (t.name = "normal" => t.pending = <<>>)
Few(t) ==
    Len(t.deferred) <= 1 => Len(t.handlers) <= 2 /\ (Len(t.handlers) = 2 => Valid(t))

LEMMA SurplusHolds ==
  ASSUME NEW t, Good(t), t.stop = "no", Two(t), Few(t),
         NEW u, u = ReturnSurplusHandlers(t), u.stop = "no"
  PROVE  Held(u)
<1>1. /\ Len(t.handlers) \in Nat /\ (t.handlers = <<>> <=> Len(t.handlers) = 0)
      /\ HandlerList(t.handlers)
  BY LenIs DEF Good
<1>2. /\ Good(u) /\ u.name = t.name /\ u.deferred = t.deferred /\ u.rid = t.rid
      /\ Handles(t, u)
  <2>1. Handles(t, u) /\ u.rid = t.rid /\ u.deferred = t.deferred
    BY ONLY Good(t), u = ReturnSurplusHandlers(t), HandlesSurplus
  <2> QED
    BY <2>1 DEF Handles
<1>3. ASSUME Len(u.deferred) <= 1
      PROVE  Len(u.handlers) <= 1
  <2>1. Len(t.handlers) <= 2 /\ (Len(t.handlers) = 2 => Valid(t))
    BY <1>2, <1>3 DEF Few
  <2> QED
    BY <2>1, SurplusOne
<1>4. ASSUME Valid(u)
      PROVE  Len(u.handlers) = 1 /\ (u.name = "normal" => u.pending = <<>>)
  <2>1. u.handlers # <<>>
    BY <1>2, <1>4, ValidHasHandler
  <2>2. t.handlers # <<>>
    <3>1. HSet(u.handlers) \subseteq HSet(t.handlers) /\ Len(u.handlers) <= Len(t.handlers)
      BY <1>2 DEF Handles
    <3>2. Len(u.handlers) \in Nat /\ (u.handlers = <<>> <=> Len(u.handlers) = 0)
      BY <1>2, LenIs
    <3> QED
      BY <1>1, <2>1, <3>1, <3>2
  <2>3. CASE t.name = "accumulate"
    <3>1. u = Returned(t, Len(t.handlers) - 1) /\ Len(t.handlers) - 1 \in Nat
      BY <1>1, <2>2, <2>3 DEF ReturnSurplusHandlers
    <3>2. Len(u.handlers) = Len(t.handlers) - (Len(t.handlers) - 1)
      BY <1>4, <3>1, ReturnsSome
    <3>3. Len(u.handlers) = 1
      BY <1>1, <3>2
    <3> QED
      BY <1>2, <2>3, <3>3
  <2>4. CASE t.name # "accumulate" /\ Len(t.handlers) = 1 /\ t.pending = <<>>
    <3>1. u = t
      BY <2>4 DEF ReturnSurplusHandlers
    <3> QED
      BY <2>4, <3>1
  <2>5. CASE t.name # "accumulate" /\ ~ (Len(t.handlers) = 1 /\ t.pending = <<>>)
    <3> DEFINE v == [t EXCEPT !.pending = <<>>]
               f == Sorted(t.handlers)[1]
    <3>1. u = SendPending(t)
      BY <2>2, <2>5 DEF ReturnSurplusHandlers
    <3>2. /\ Good(v) /\ v.pending = <<>> /\ v.handlers = t.handlers /\ v.rid = t.rid
          /\ t.pending \in Seq(Elements) /\ v.stop = t.stop
          /\ SendPending(t) = IF Valid(t) THEN SendToFirst(v, t.pending) ELSE t
      BY SendPendingIs
    <3> HIDE DEF v
    <3>3. Valid(t)
      <4>1. \E h \in HSet(u.handlers) : h.rid <= u.rid
        BY <1>2, <1>4, ValidIs
      <4> QED
        BY <1>2, <4>1, ValidIs DEF Handles
    <3>4. u = SendToFirst(v, t.pending) /\ v.handlers # <<>>
      BY <2>2, <3>1, <3>2, <3>3
    <3>5. /\ f \in HSet(t.handlers)
          /\ HSet(Tail(Sorted(t.handlers))) = HSet(t.handlers) \ {f}
          /\ \A h \in HSet(t.handlers) : f.rid <= h.rid
      BY <1>1, <2>2, PickIs
    <3>6. ~ NoBody(t.pending)
      <4>1. NoBody(t.pending) => u.stop = "no body"
        <5>1. u = SendTo(Picked(v), Sorted(v.handlers)[1], t.pending)
          BY <3>4 DEF SendToFirst
        <5>2. Picked(v) \in State
          <6>1. v \in State /\ Tail(Sorted(v.handlers)) \in Seq(Handler)
            BY <1>1, <2>2, <3>2, PickIs DEF Good, HandlerList
          <6> QED
            BY <6>1, WithHandlers DEF Picked
        <5>3. NoBody(t.pending) => u = [Picked(v) EXCEPT !.stop = "no body"]
          BY <5>1 DEF SendTo
        <5> QED
          BY <5>2, <5>3 DEF State
      <4> QED
        BY <4>1
    <3>7. /\ u.handlers = Tail(Sorted(t.handlers))
          /\ u.pending = IF Splits(t.pending) THEN <<End>> ELSE v.pending
          /\ Len(u.handlers) = Len(t.handlers) - 1
      <4>1. /\ u.handlers = Tail(Sorted(v.handlers))
            /\ u.pending = IF Splits(t.pending) THEN <<End>> ELSE v.pending
        BY <3>2, <3>4, <3>6, SendToFirstIs
      <4>2. Len(u.handlers) = Len(v.handlers) - 1
        BY <3>2, <3>4, AnswersFirst
      <4> QED
        BY <3>2, <4>1, <4>2
    <3>8. PICK k \in HSet(u.handlers) : k.rid <= t.rid
      BY <1>2, <1>4, ValidIs
    <3>9. k \in HSet(t.handlers) /\ k # f /\ f.rid <= t.rid
      <4>1. k \in HSet(t.handlers) /\ k # f
        BY <3>5, <3>7
      <4>2. f.rid \in Nat /\ k.rid \in Nat /\ t.rid \in Nat
        BY <3>5, <4>1, LenIs
      <4> QED
        BY <3>5, <3>8, <4>1, <4>2
    <3>10. Len(t.handlers) = 2 /\ (t.name = "normal" => t.pending = <<>>)
      BY <3>5, <3>8, <3>9 DEF Two
    <3>11. t.pending = <<>> => u.pending = <<>>
      <4>1. ~ Splits(<<>>)
        BY EmptyIs DEF EmptyFacts
      <4> QED
        BY <3>2, <3>7, <4>1
    <3> QED
      BY <1>2, <3>7, <3>10, <3>11
  <2> QED
    BY <2>3, <2>4, <2>5
<1> QED
  BY <1>3, <1>4 DEF Held

\* A request that is processed leaves what is pending, or no handler.
LEMMA ProcessedIs ==
  ASSUME NEW t, Good(t), NEW r \in Nat, NEW type \in Types,
         NEW v, v = ProcessOne(t, type, r), v.stop = "no"
  PROVE  v.handlers = <<>> \/ v.pending = t.pending
<1> DEFINE f == Append(t.fwd, [rid |-> r, type |-> type])
           u == [t EXCEPT !.rid = r, !.fwd = f]
<1>1. t \in State /\ t.fwd \in Seq([rid : Nat, type : Types])
  BY StateIs DEF Good
<1>2. f \in Seq([rid : Nat, type : Types])
  BY <1>1
<1>3. v = CASE type = "pause" -> Pause(u)
            [] type = "long pause" -> StopAll(u, "policy_violation")
            [] OTHER -> u
  BY DEF ProcessOne
<1> HIDE DEF f
<1>4. u \in State /\ u.pending = t.pending
  BY <1>1, <1>2 DEF State
<1> HIDE DEF u
<1>5. CASE type = "pause"
  <2> DEFINE x == Returned(u, Len(u.handlers))
  <2>1. v = IF x.handlers = <<>> THEN x ELSE Crash(x)
    BY <1>3, <1>5 DEF Pause
  <2>2. CASE x.handlers = <<>>
    BY <2>1, <2>2
  <2>3. CASE x.handlers # <<>>
    <3>1. v = Crash(x)
      BY <2>1, <2>3
    <3>2. x \in State
      <4>1. Good(u) /\ Len(u.handlers) \in Nat
        <5>1. /\ u.handlers = t.handlers /\ u.reply = t.reply /\ u.sent = t.sent
          BY <1>1, <1>2 DEF State, u
        <5> QED
          BY <1>4, <5>1, LenIs DEF Good
      <4>2. Returns(u, x)
        BY <4>1, ReturnsSome
      <4> QED
        BY <4>2 DEF Returns, Sends, Answers, Good
    <3> HIDE DEF x
    <3>3. v.stop = "crash"
      BY <3>1, <3>2 DEF Crash, State
    <3> QED
      BY <3>3
  <2> QED
    BY <2>2, <2>3
<1>6. CASE type = "long pause"
  <2>1. v = StopAll(u, "policy_violation")
    BY <1>3, <1>6
  <2>2. v.stop = "policy_violation"
    BY <1>4, <2>1 DEF StopAll, State
  <2> QED
    BY <2>2
<1>7. CASE type \notin {"pause", "long pause"}
  BY <1>3, <1>4, <1>7
<1> QED
  BY <1>5, <1>6, <1>7

\* The rids after a request was added.
LEMMA AddedRids ==
  ASSUME NEW t, NEW h, NEW u, AddedTo(t.handlers, h, u.handlers), u.sent = t.sent
  PROVE  Rids(u) = Rids(t) \cup {h.rid}
<1>1. HSet(u.handlers) = HSet(t.handlers) \cup {h}
  BY DEF AddedTo
<1> QED
  BY <1>1 DEF Rids

\* A request that is repeated.
LEMMA RepeatHolds ==
  ASSUME NEW t, Good(t), t.stop = "no", Held(t), AheadIn(t), NEW h, NewHandler(t, h),
         NEW u, u = Added(t, h), IsRetransmission(t, h.rid),
         NEW v, v = IF HasRid(t.sent, h.rid) THEN ResendCached(u, h.rid) ELSE u, v.stop = "no"
  PROVE  /\ Two(v) /\ Few(v) /\ v.rid = t.rid /\ v.deferred = t.deferred
         /\ Rids(v) \subseteq Rids(t) \cup {h.rid} /\ h.rid \in Rids(t) \cup {t.rid}
<1>1. /\ Good(u) /\ AddedTo(t.handlers, h, u.handlers) /\ u.name = t.name
      /\ u.pending = t.pending /\ u.rid = t.rid /\ u.deferred = t.deferred /\ u.sent = t.sent
      /\ u.stop = "no"
  BY AddedIs
<1>2. /\ Rids(u) = Rids(t) \cup {h.rid} /\ Len(u.handlers) = Len(t.handlers) + 1
      /\ HSet(u.handlers) = HSet(t.handlers) \cup {h}
  <2>1. Rids(u) = Rids(t) \cup {h.rid}
    BY <1>1, AddedRids
  <2> QED
    BY <1>1, <2>1 DEF AddedTo
<1>3. /\ Len(t.handlers) \in Nat /\ t.rid \in Nat /\ h.rid \in Nat
      /\ \A k \in HSet(u.handlers) : k.rid \in Nat
  <2>1. Len(t.handlers) \in Nat /\ t.rid \in Nat
    BY LenIs
  <2>2. \A k \in HSet(u.handlers) : k.rid \in Nat
    BY <1>1, LenIs
  <2> QED
    BY <1>2, <2>1, <2>2
\* One more request that can take a stanza makes two of them.
<1>4. ASSUME NEW k \in HSet(u.handlers), NEW l \in HSet(u.handlers), k # l,
             k.rid <= t.rid, l.rid <= t.rid
      PROVE  Len(t.handlers) = 1 /\ (t.name = "normal" => t.pending = <<>>)
  <2>1. k \in HSet(t.handlers) \/ l \in HSet(t.handlers)
    BY <1>2, <1>4
  <2>2. Valid(t)
    BY <1>4, <2>1, ValidIs
  <2> QED
    BY <2>2 DEF Held
<1>5. CASE HasRid(t.sent, h.rid)
  <2>1. v = ResendCached(u, h.rid) /\ HasRid(u.sent, h.rid)
    BY <1>1, <1>5
  <2>2. Valid(u)
    <3>1. ~ Valid(u) => v = Crash(u)
      BY <2>1 DEF ResendCached
    <3>2. v = Crash(u) => v.stop = "crash"
      BY <1>1 DEF Crash, Good, State
    <3> QED
      BY <3>1, <3>2
  <2> DEFINE f == Sorted(u.handlers)[1]
  <2>3. /\ v.name = u.name /\ v.rid = u.rid /\ v.deferred = u.deferred
        /\ v.handlers = Tail(Sorted(u.handlers)) /\ v.sent = u.sent /\ v.pending = u.pending
        /\ Good(v) /\ u.handlers # <<>>
    BY <1>1, <2>1, <2>2, ResendIs
  <2>4. /\ f \in HSet(u.handlers) /\ Len(v.handlers) = Len(u.handlers) - 1
        /\ HSet(v.handlers) = HSet(u.handlers) \ {f}
        /\ \A k \in HSet(u.handlers) : f.rid <= k.rid
    <3>1. HandlerList(u.handlers)
      BY <1>1 DEF Good
    <3> QED
      BY <2>3, <3>1, PickIs
  <2> HIDE DEF f
  <2>5. Len(v.handlers) = Len(t.handlers)
    BY <1>2, <1>3, <2>4
  <2>6. Two(v)
    <3> SUFFICES ASSUME NEW k \in HSet(v.handlers), NEW l \in HSet(v.handlers), k # l,
                        k.rid <= v.rid, l.rid <= v.rid
                 PROVE  FALSE
      BY DEF Two
    <3>1. k \in HSet(u.handlers) /\ l \in HSet(u.handlers) /\ k.rid <= t.rid /\ l.rid <= t.rid
      BY <1>1, <2>3, <2>4
    <3>2. Len(v.handlers) = 1
      BY <1>4, <2>5, <3>1
    <3>3. Len(v.handlers) >= 2
      BY <2>3, TwoHandlers DEF Good
    <3> QED
      BY ONLY <3>2, <3>3
  <2>7. Few(v)
    <3>1. ASSUME Len(v.deferred) <= 1
          PROVE  Len(v.handlers) <= 1
      BY <1>1, <2>3, <2>5, <3>1 DEF Held
    <3>2. Len(v.handlers) \in Nat
      BY <1>3, <2>5
    <3>3. Len(v.handlers) <= 1 => Len(v.handlers) <= 2 /\ Len(v.handlers) # 2
      BY ONLY <3>2, SMTT(30)
    <3> QED
      BY ONLY <3>1, <3>3 DEF Few
  <2>8. Rids(v) \subseteq Rids(u)
    BY <2>3, <2>4 DEF Rids
  <2>9. h.rid \in Rids(t)
    <3>1. t.sent \in Seq(CacheEntry)
      BY StateIs DEF Good
    <3>2. DOMAIN t.sent = 1 .. Len(t.sent)
      BY <3>1
    <3> QED
      BY <1>5, <3>2 DEF Rids, SentRids, HasRid
  <2> QED
    BY <1>1, <1>2, <2>3, <2>6, <2>7, <2>8, <2>9
<1>6. CASE ~ HasRid(t.sent, h.rid)
  <2>1. v = u /\ h.rid = t.rid
    BY <1>6 DEF IsRetransmission
  <2>2. Two(u)
    <3> SUFFICES ASSUME NEW k \in HSet(u.handlers), NEW l \in HSet(u.handlers), k # l,
                        k.rid <= u.rid, l.rid <= u.rid
                 PROVE  Len(u.handlers) = 2 /\ (u.name = "normal" => u.pending = <<>>)
      BY DEF Two
    <3>1. Len(t.handlers) = 1 /\ (t.name = "normal" => t.pending = <<>>)
      BY <1>1, <1>4
    <3> QED
      BY <1>1, <1>2, <3>1
  <2>3. Few(u)
    <3> SUFFICES ASSUME Len(u.deferred) <= 1
                 PROVE  Len(u.handlers) <= 2 /\ Valid(u)
      BY DEF Few
    <3>1. Len(t.handlers) <= 1
      BY <1>1 DEF Held
    <3>2. h \in HSet(u.handlers) /\ h.rid <= u.rid
      BY <1>1, <1>2, <1>3, <2>1
    <3>3. Valid(u)
      BY <1>1, <3>2, ValidIs
    <3> QED
      BY <1>2, <1>3, <3>1, <3>3
  <2> QED
    BY <1>1, <1>2, <2>1, <2>2, <2>3
<1> QED
  BY <1>5, <1>6

\* At most one handler holds whatever the rest.
LEMMA OneHandler ==
  ASSUME NEW t, Good(t), Len(t.handlers) <= 1
  PROVE  Two(t) /\ Few(t)
<1>1. Len(t.handlers) \in Nat
  BY LenIs
<1>2. Len(t.handlers) <= 2 /\ Len(t.handlers) # 2 /\ ~ (Len(t.handlers) >= 2)
  BY ONLY <1>1, Len(t.handlers) <= 1
<1>3. \A h, k \in HSet(t.handlers) : h = k
  BY <1>2, TwoHandlers DEF Good
<1> QED
  BY <1>2, <1>3 DEF Two, Few

\* The request whose turn it is, and with it the deferred one.
LEMMA ExpectedHolds ==
  ASSUME NEW t, Good(t), t.stop = "no", Held(t), AheadIn(t), NEW h, NewHandler(t, h),
         NEW u, u = Added(t, h), h.rid = t.rid + 1, NEW type \in Types,
         NEW p, p = ProcessOne(u, type, h.rid), NEW v, v = ProcessDeferred(p), v.stop = "no"
  PROVE  Two(v) /\ Few(v) /\ Good(v) /\ (\A r \in Rids(v) : r <= v.rid)
<1> DEFINE r == h.rid
<1>1. /\ Good(u) /\ AddedTo(t.handlers, h, u.handlers) /\ u.name = t.name
      /\ u.pending = t.pending /\ u.rid = t.rid /\ u.deferred = t.deferred /\ u.sent = t.sent
      /\ u.stop = "no"
  BY ONLY Good(t), NewHandler(t, h), u = Added(t, h), t.stop = "no", AddedIs
<1>2. /\ Rids(u) = Rids(t) \cup {h.rid} /\ Len(u.handlers) = Len(t.handlers) + 1
      /\ HSet(u.handlers) = HSet(t.handlers) \cup {h}
  <2>1. Rids(u) = Rids(t) \cup {h.rid}
    BY <1>1, AddedRids
  <2> QED
    BY <1>1, <2>1 DEF AddedTo
<1>3. /\ Len(t.handlers) \in Nat /\ t.rid \in Nat /\ r \in Nat /\ t.deferred \in Seq(Types)
      /\ Len(t.deferred) \in Nat /\ (t.deferred = <<>> <=> Len(t.deferred) = 0)
  <2>1. /\ Len(t.handlers) \in Nat /\ t.rid \in Nat /\ t.deferred \in Seq(Types)
        /\ Len(t.deferred) \in Nat /\ (t.deferred = <<>> <=> Len(t.deferred) = 0)
    BY ONLY Good(t), LenIs
  <2> QED
    BY <2>1
<1>4. ~ Crashed(u)
  BY <1>1 DEF Crashed
<1>a. p = ProcessOne(u, type, r) /\ r = t.rid + 1
  OBVIOUS
<1> HIDE DEF r
<1>5. Handles(u, p) /\ p.rid = r /\ p.deferred = t.deferred
  <2>1. Handles(u, p) /\ p.rid = r /\ p.deferred = u.deferred
    <3> DEFINE x == ProcessOne(u, type, r)
    <3>1. /\ Handles(u, x) /\ x.rid = r /\ x.deferred = u.deferred
          /\ x.fwd = Append(u.fwd, [rid |-> r, type |-> type])
      BY ONLY <1>1, <1>3, <1>4, type \in Types, HandlesOne
    <3>2. x = p
      BY <1>a
    <3> HIDE DEF x
    <3> QED
      BY ONLY <3>1, <3>2
  <2> QED
    BY <1>1, <2>1
<1>6. /\ Good(p) /\ HSet(p.handlers) \subseteq HSet(u.handlers)
      /\ Len(p.handlers) <= Len(t.handlers) + 1 /\ p.name = t.name
      /\ Rids(p) \subseteq Rids(t) \cup {r}
  BY <1>1, <1>2, <1>5 DEF Handles, r
<1>7. Len(p.handlers) \in Nat /\ (p.handlers = <<>> <=> Len(p.handlers) = 0)
  BY <1>6, LenIs
<1>8. \A k \in HSet(p.handlers) : k.rid \in Rids(p)
  BY DEF Rids
<1>9. p.stop = "no"
  BY DEF ProcessDeferred
<1>10. CASE t.deferred = <<>>
  <2>1. v = p
    BY <1>5, <1>10 DEF ProcessDeferred
  <2>2. \A q \in Rids(p) : q <= p.rid
    <3>1. \A q \in Rids(t) : q <= t.rid
      BY <1>10 DEF AheadIn
    <3>2. \A q \in Rids(t) : q \in Nat
      <4>1. t.sent \in Seq(CacheEntry)
        BY StateIs DEF Good
      <4>2. \A i \in 1 .. Len(t.sent) : t.sent[i].rid \in Nat
        <5>1. \A i \in 1 .. Len(t.sent) : t.sent[i] \in CacheEntry
          BY <4>1
        <5> QED
          BY <5>1 DEF CacheEntry
      <4>3. \A k \in HSet(t.handlers) : k.rid \in Nat
        BY LenIs
      <4> QED
        BY <4>2, <4>3 DEF Rids, SentRids
    <3>3. \A q \in Rids(t) : q <= r
      BY ONLY <1>3, <1>a, <3>1, <3>2
    <3>4. r <= r
      BY ONLY <1>3
    <3> QED
      BY <1>5, <1>6, <3>3, <3>4
  <2>3. Len(t.handlers) <= 1
    BY <1>3, <1>10 DEF Held
  <2>4. Len(p.handlers) <= 2
    BY <1>3, <1>6, <1>7, <2>3
  <2>5. Len(p.handlers) = 2 => Valid(p)
    <3>1. Len(p.handlers) = 2 => HSet(p.handlers) # {}
      <4>1. HandlerList(p.handlers)
        BY <1>6 DEF Good
      <4>2. Len(p.handlers) >= 1 => HSet(p.handlers) # {}
        BY ONLY <4>1, TwoHandlers
      <4> QED
        BY ONLY <4>2
    <3> QED
      BY <1>6, <1>8, <2>2, <3>1, ValidIs
  <2>6. Two(p)
    <3> SUFFICES ASSUME NEW k \in HSet(p.handlers), NEW l \in HSet(p.handlers), k # l
                 PROVE  Len(p.handlers) = 2 /\ (p.name = "normal" => p.pending = <<>>)
      BY DEF Two
    <3>1. Len(p.handlers) >= 2
      <4>1. HandlerList(p.handlers)
        BY <1>6 DEF Good
      <4> QED
        BY <4>1, TwoHandlers
    <3>2. Len(p.handlers) = 2 /\ Len(t.handlers) >= 1 /\ p.handlers # <<>>
      <4> DEFINE n == Len(p.handlers)
                 m == Len(t.handlers)
      <4>1. /\ n \in Nat /\ (p.handlers = <<>> <=> n = 0) /\ n <= 2 /\ n >= 2
            /\ n <= m + 1 /\ m \in Nat
        BY <1>3, <1>6, <1>7, <2>4, <3>1
      <4> HIDE DEF n, m
      <4>2. n = 2 /\ m >= 1 /\ n # 0
        BY ONLY <4>1
      <4>3. p.handlers # <<>>
        BY ONLY <4>1, <4>2
      <4> QED
        BY <4>2, <4>3 DEF n, m
    <3>3. p.pending = t.pending
      <4>1. p.handlers = <<>> \/ p.pending = u.pending
        BY ONLY <1>1, <1>3, <1>9, type \in Types, <1>a, ProcessedIs
      <4> QED
        BY <1>1, <3>2, <4>1
    <3>4. Valid(t)
      <4>1. HandlerList(t.handlers)
        BY DEF Good
      <4>2. HSet(t.handlers) # {}
        BY <3>2, <4>1, TwoHandlers
      <4>3. \A k2 \in HSet(t.handlers) : k2.rid \in Rids(t)
        BY DEF Rids
      <4>4. \A q \in Rids(t) : q <= t.rid
        BY <1>10 DEF AheadIn
      <4> QED
        BY <4>2, <4>3, <4>4, ValidIs
    <3> QED
      BY <1>6, <3>2, <3>3, <3>4 DEF Held
  <2> QED
    BY <1>6, <2>1, <2>2, <2>4, <2>5, <2>6 DEF Few
<1>11. CASE t.deferred # <<>>
  <2> DEFINE x == [p EXCEPT !.deferred = <<>>]
             y == ProcessOne(x, p.deferred[1], p.rid + 1)
             z == ReturnSurplusHandlers(y)
  <2>1. v = IF Len(p.deferred) > 1 /\ z.stop = "no" THEN StopAll(z, "invalid_rid") ELSE z
    BY <1>5, <1>9, <1>11 DEF ProcessDeferred
  <2>2. p \in State /\ <<>> \in Seq(Types) /\ p.deferred[1] \in Types /\ p.rid + 1 \in Nat
    BY <1>3, <1>5, <1>6, <1>11 DEF Good
  <2>3. /\ x \in State /\ x.handlers = p.handlers /\ x.reply = p.reply /\ x.stop = p.stop
        /\ x.name = p.name /\ x.pending = p.pending /\ x.rid = p.rid /\ x.deferred = <<>>
        /\ x.sent = p.sent
    BY <2>2 DEF State
  <2> HIDE DEF x
  <2>4. Good(x) /\ ~ Crashed(x) /\ Rids(x) = Rids(p)
    BY <1>6, <1>9, <2>3 DEF Good, Crashed, Rids
  <2> DEFINE d == p.deferred[1]
             n == p.rid + 1
  <2>5. d \in Types /\ n \in Nat /\ y = ProcessOne(x, d, n)
    BY <2>2
  <2> HIDE DEF d, n, y
  <2>6. Handles(x, y) /\ y.rid = n /\ y.deferred = x.deferred
    <3> DEFINE o == ProcessOne(x, d, n)
    <3>1. /\ Handles(x, o) /\ o.rid = n /\ o.deferred = x.deferred
          /\ o.fwd = Append(x.fwd, [rid |-> n, type |-> d])
      BY ONLY <2>4, <2>5, HandlesOne
    <3>2. o = y
      BY <2>5
    <3> HIDE DEF o
    <3> QED
      BY ONLY <3>1, <3>2
  <2>7. /\ Good(y) /\ Rids(y) \subseteq Rids(t) \cup {r} /\ Len(y.handlers) <= Len(p.handlers)
    BY <1>6, <2>3, <2>4, <2>6 DEF Handles
  <2> HIDE DEF z
  <2>8. Handles(y, z) /\ z.rid = n
    BY <2>6, <2>7, HandlesSurplus DEF z
  <2>9. Good(z) /\ Rids(z) \subseteq Rids(t) \cup {r}
    BY <2>7, <2>8 DEF Handles
  <2>10. ~ (Len(p.deferred) > 1 /\ z.stop = "no")
    <3>1. z \in State
      BY <2>9 DEF Good
    <3>2. StopAll(z, "invalid_rid").stop = "invalid_rid"
      BY <3>1 DEF StopAll, State
    <3> QED
      BY <2>1, <3>2
  <2>11. v = z /\ z.stop = "no" /\ ~ (Len(t.deferred) > 1)
    BY <1>5, <2>1, <2>10
  <2>12. y.stop = "no"
    BY <2>8, <2>11 DEF Handles
  <2>13. n = t.rid + 2
    BY <1>3, <1>5, <1>a DEF n
  <2>14. \A q \in Rids(t) \cup {r} : q <= n
    <3>1. \A q \in Rids(t) : q <= t.rid \/ q = t.rid + 2
      BY DEF AheadIn
    <3>2. \A q \in Rids(t) : q \in Nat
      <4>1. t.sent \in Seq(CacheEntry)
        BY StateIs DEF Good
      <4>2. \A i \in 1 .. Len(t.sent) : t.sent[i].rid \in Nat
        <5>1. \A i \in 1 .. Len(t.sent) : t.sent[i] \in CacheEntry
          BY <4>1
        <5> QED
          BY <5>1 DEF CacheEntry
      <4>3. \A k \in HSet(t.handlers) : k.rid \in Nat
        BY LenIs
      <4> QED
        BY <4>2, <4>3 DEF Rids, SentRids
    <3> QED
      BY ONLY <1>3, <1>a, <2>13, <3>1, <3>2
  <2>15. Len(t.handlers) <= 1
    BY <1>3, <2>11 DEF Held
  <2>16. Len(y.handlers) \in Nat
    BY <2>7, LenIs
  <2>17. Len(y.handlers) <= 2
    BY <1>3, <1>6, <1>7, <2>7, <2>15, <2>16
  <2>18. Len(y.handlers) = 2 => Valid(y)
    <3>1. Len(y.handlers) = 2 => HSet(y.handlers) # {}
      <4>1. HandlerList(y.handlers)
        BY <2>7 DEF Good
      <4>2. Len(y.handlers) >= 1 => HSet(y.handlers) # {}
        BY ONLY <4>1, TwoHandlers
      <4> QED
        BY ONLY <4>2
    <3>2. \A k \in HSet(y.handlers) : k.rid <= y.rid
      BY <2>6, <2>7, <2>14 DEF Rids
    <3> QED
      BY <2>7, <3>1, <3>2, ValidIs
  <2>19. Len(z.handlers) <= 1
    BY <2>7, <2>12, <2>17, <2>18, SurplusOne DEF z
  <2>20. Two(z) /\ Few(z)
    BY <2>9, <2>19, OneHandler
  <2> QED
    BY <2>8, <2>9, <2>11, <2>14, <2>20
<1> QED
  BY <1>10, <1>11

\* A request that is ahead of its turn is deferred.
LEMMA DeferredHolds ==
  ASSUME NEW t, Good(t), Held(t), AheadIn(t), NEW h, NewHandler(t, h),
         NEW u, u = Added(t, h), h.rid = t.rid + 2,
         NEW v, Good(v), v.handlers = u.handlers, v.rid = u.rid, v.sent = u.sent,
         Len(v.deferred) = Len(u.deferred) + 1
  PROVE  /\ Two(v) /\ Few(v) /\ v.rid = t.rid /\ v.deferred # <<>>
         /\ Rids(v) \subseteq Rids(t) \cup {t.rid + 2}
<1>1. /\ Good(u) /\ AddedTo(t.handlers, h, u.handlers)
      /\ u.rid = t.rid /\ u.deferred = t.deferred /\ u.sent = t.sent
  BY ONLY Good(t), NewHandler(t, h), u = Added(t, h), AddedIs
<1>2. /\ Rids(u) = Rids(t) \cup {h.rid} /\ Len(u.handlers) = Len(t.handlers) + 1
      /\ HSet(u.handlers) = HSet(t.handlers) \cup {h}
  <2>1. Rids(u) = Rids(t) \cup {h.rid}
    BY <1>1, AddedRids
  <2> QED
    BY <1>1, <2>1 DEF AddedTo
<1>3. /\ Len(t.handlers) \in Nat /\ t.rid \in Nat /\ t.deferred \in Seq(Types)
      /\ Len(t.deferred) \in Nat /\ (t.deferred = <<>> <=> Len(t.deferred) = 0)
      /\ \A k \in HSet(t.handlers) : k.rid \in Nat
  BY ONLY Good(t), LenIs
<1>4. /\ Len(v.deferred) = Len(t.deferred) + 1
      /\ Len(v.deferred) \in Nat /\ (v.deferred = <<>> <=> Len(v.deferred) = 0)
  BY <1>1, LenIs
<1>5. v.deferred # <<>> /\ (Len(v.deferred) <= 1 => Len(t.deferred) = 0)
  <2> DEFINE n == Len(t.deferred)
             m == Len(v.deferred)
  <2>1. n \in Nat /\ m = n + 1 /\ (v.deferred = <<>> <=> m = 0)
    BY <1>3, <1>4
  <2> HIDE DEF n, m
  <2>2. m # 0 /\ (m <= 1 => n = 0)
    BY ONLY <2>1
  <2> QED
    BY <2>1, <2>2 DEF n, m
<1>6. v.handlers = u.handlers /\ v.rid = u.rid /\ v.sent = u.sent
  OBVIOUS
<1>7. Good(v)
  OBVIOUS
<1>8. Rids(v) = Rids(t) \cup {t.rid + 2}
  BY <1>2, <1>6 DEF Rids
<1>9. Two(v)
  <2> SUFFICES ASSUME NEW k \in HSet(v.handlers), NEW l \in HSet(v.handlers), k # l,
                      k.rid <= v.rid, l.rid <= v.rid
               PROVE  FALSE
    BY DEF Two
  <2>1. ~ (t.rid + 2 <= t.rid)
    BY ONLY <1>3
  <2>2. k \in HSet(t.handlers) /\ l \in HSet(t.handlers) /\ k.rid <= t.rid
    BY <1>1, <1>2, <1>6, <2>1
  <2>3. Valid(t)
    BY <2>2, ValidIs
  <2>4. Len(t.handlers) = 1
    BY <2>3 DEF Held
  <2>5. HandlerList(t.handlers)
    BY DEF Good
  <2>6. Len(t.handlers) >= 2
    BY <2>2, <2>5, TwoHandlers
  <2> QED
    BY ONLY <2>4, <2>6
<1>10. Few(v)
  <2>1. ASSUME Len(v.deferred) <= 1
        PROVE  Len(v.handlers) <= 2 /\ (Len(v.handlers) = 2 => Valid(v))
    <3>1. Len(t.deferred) = 0 /\ t.deferred = <<>> /\ Len(t.deferred) <= 1
      BY <1>3, <1>5, <1>6, <2>1
    <3>2. Len(t.handlers) <= 1
      BY <3>1 DEF Held
    <3>3. Len(v.handlers) <= 2 /\ (Len(v.handlers) = 2 => Len(t.handlers) >= 1)
      <4> DEFINE n == Len(t.handlers)
      <4>1. n \in Nat /\ n <= 1 /\ Len(v.handlers) = n + 1
        BY <1>2, <1>3, <1>6, <3>2
      <4> HIDE DEF n
      <4>2. n + 1 <= 2 /\ (n + 1 = 2 => n >= 1)
        BY ONLY <4>1
      <4> QED
        BY <4>1, <4>2 DEF n
    <3>4. ASSUME Len(v.handlers) = 2
          PROVE  Valid(v)
      <4>1. HandlerList(t.handlers) /\ Len(t.handlers) >= 1
        BY <3>3, <3>4 DEF Good
      <4>2. HSet(t.handlers) # {}
        BY ONLY <4>1, TwoHandlers
      <4>3. PICK k \in HSet(t.handlers) : TRUE
        BY <4>2
      <4>4. k.rid \in Rids(t)
        BY DEF Rids
      <4>5. k.rid <= t.rid
        BY <3>1, <4>4 DEF AheadIn
      <4>6. k \in HSet(v.handlers) /\ k.rid <= v.rid
        BY <1>1, <1>2, <1>6, <4>5
      <4> QED
        BY <1>7, <4>6, ValidIs
    <3> QED
      BY <3>3, <3>4
  <2> QED
    BY <2>1 DEF Few
<1> QED
  BY <1>1, <1>5, <1>6, <1>7, <1>8, <1>9, <1>10

\* handle_stream_event keeps at most one request that can take a stanza.
LEMMA EventHolds ==
  ASSUME NEW t, Good(t), t.stop = "no", Held(t), AheadIn(t), NEW h, NewHandler(t, h),
         NEW type \in Types, NEW w, w = HandleStreamEvent(t, type, h), w.stop = "no"
  PROVE  Held(w) /\ AheadIn(w)
<1> DEFINE u == Added(t, h)
           r == h.rid
           v == IF IsRetransmission(t, r) THEN IF HasRid(t.sent, r) THEN ResendCached(u, r) ELSE u
                ELSE IF IsExpectedRid(t, r) THEN ProcessDeferred(ProcessOne(u, type, r))
                ELSE IF IsAcceptableRid(t, r) THEN [u EXCEPT !.deferred = <<type>> \o @]
                ELSE StopAll(u, "invalid_rid")
<1>1. w = ReturnSurplusHandlers(v)
  BY DEF HandleStreamEvent, Added
<1>2. /\ Good(u) /\ u.rid = t.rid /\ u.deferred = t.deferred /\ u.sent = t.sent
      /\ u.stop = "no"
  <2> HIDE DEF u
  <2> QED
    BY AddedIs DEF u
<1>3. t.rid \in Nat /\ r \in Nat
  <2>1. t.rid \in Nat
    BY ONLY Good(t), LenIs
  <2> QED
    BY <2>1 DEF NewHandler, Handler
<1> HIDE DEF u, v, r
<1> SUFFICES ASSUME v.stop = "no"
             PROVE  /\ Good(v) /\ Two(v) /\ Few(v)
                    /\ AheadIn(v)
  <2>1. v.stop # "no" => w = v
    BY <1>1 DEF ReturnSurplusHandlers
  <2>2. v.stop = "no"
    BY <2>1
  <2>3. Good(v) /\ Two(v) /\ Few(v) /\ AheadIn(v)
    BY <2>2
  <2>4. Held(w)
    BY <1>1, <2>2, <2>3, SurplusHolds
  <2>5. Handles(v, w) /\ w.rid = v.rid /\ w.deferred = v.deferred
    BY ONLY <1>1, <2>3, HandlesSurplus
  <2>6. Rids(w) \subseteq Rids(v)
    BY <2>5 DEF Handles
  <2>7. AheadIn(w)
    BY <2>3, <2>5, <2>6 DEF AheadIn
  <2> QED
    BY <2>4, <2>7
<1>4. CASE IsRetransmission(t, r)
  <2>1. v = IF HasRid(t.sent, r) THEN ResendCached(u, r) ELSE u
    BY <1>4 DEF v
  <2>2. /\ Two(v) /\ Few(v) /\ v.rid = t.rid /\ v.deferred = t.deferred
        /\ Rids(v) \subseteq Rids(t) \cup {r} /\ r \in Rids(t) \cup {t.rid}
    BY <1>4, <2>1, RepeatHolds DEF u, r
  <2>3. Good(v)
    <3>1. CASE HasRid(t.sent, r)
      <4>1. v = ResendCached(u, r) /\ HasRid(u.sent, r)
        BY <1>2, <2>1, <3>1
      <4>2. Handles(u, v)
        BY <1>2, <4>1, HandlesResend
      <4> QED
        BY <4>2 DEF Handles
    <3>2. CASE ~ HasRid(t.sent, r)
      BY <1>2, <2>1, <3>2
    <3> QED
      BY <3>1, <3>2
  <2>4. t.rid <= t.rid
    BY ONLY <1>3
  <2>5. AheadIn(v)
    BY <2>2, <2>4 DEF AheadIn
  <2> QED
    BY <2>2, <2>3, <2>5
<1>5. CASE ~ IsRetransmission(t, r) /\ IsExpectedRid(t, r)
  <2> DEFINE p == ProcessOne(u, type, r)
  <2>1. v = ProcessDeferred(p) /\ r = t.rid + 1
    BY <1>5 DEF v, IsExpectedRid
  <2> HIDE DEF p
  <2>2. Two(v) /\ Few(v) /\ Good(v) /\ (\A q \in Rids(v) : q <= v.rid)
    BY <2>1, ExpectedHolds DEF p, u, r
  <2> QED
    BY <2>2 DEF AheadIn
<1>6. CASE ~ IsRetransmission(t, r) /\ ~ IsExpectedRid(t, r) /\ IsAcceptableRid(t, r)
  <2> DEFINE d == <<type>> \o u.deferred
  <2>1. v = [u EXCEPT !.deferred = d]
    BY <1>6 DEF v
  <2> HIDE DEF d
  <2>2. r = t.rid + 2
    BY <1>3, <1>6 DEF IsAcceptableRid, ConcurrentRequests
  <2>3. /\ Two(v) /\ Few(v) /\ Good(v) /\ v.rid = t.rid /\ v.deferred # <<>>
        /\ Rids(v) \subseteq Rids(t) \cup {t.rid + 2}
    <3>1. u = Added(t, h) /\ h.rid = t.rid + 2
      BY <2>2 DEF u, r
    <3>2. u \in State /\ u.deferred \in Seq(Types)
      BY <1>2, StateIs DEF Good
    <3>3. d \in Seq(Types) /\ Len(d) = Len(u.deferred) + 1
      BY <3>2 DEF d
    <3>4. /\ v \in State /\ v.deferred = d /\ v.handlers = u.handlers /\ v.reply = u.reply
          /\ v.rid = u.rid /\ v.sent = u.sent /\ v.pending = u.pending
      BY ONLY <2>1, <3>2, <3>3 DEF State
    <3>5. Good(v)
      BY <1>2, <3>4 DEF Good
    <3>6. Len(v.deferred) = Len(u.deferred) + 1
      BY <3>3, <3>4
    <3>7. /\ Two(v) /\ Few(v) /\ v.rid = t.rid /\ v.deferred # <<>>
          /\ Rids(v) \subseteq Rids(t) \cup {t.rid + 2}
      BY ONLY Good(t), Held(t), AheadIn(t), NewHandler(t, h), <3>1, <3>4, <3>5, <3>6,
              DeferredHolds
    <3> QED
      BY <3>5, <3>7
  <2> QED
    BY <2>3 DEF AheadIn
<1>7. CASE ~ IsRetransmission(t, r) /\ ~ IsExpectedRid(t, r) /\ ~ IsAcceptableRid(t, r)
  <2>1. v = StopAll(u, "invalid_rid")
    BY <1>7 DEF v
  <2>2. v.stop = "invalid_rid"
    <3> DEFINE why == "invalid_rid"
    <3>1. v = StopAll(u, why) /\ why \in {"policy_violation", "invalid_rid"} /\ ~ Crashed(u)
      BY <1>2, <2>1 DEF Crashed
    <3> HIDE DEF why
    <3>2. v.stop = why
      BY <1>2, <3>1, HandlesStopAll
    <3> QED
      BY <3>2 DEF why
  <2> QED
    BY <2>2
<1> QED
  BY <1>4, <1>5, <1>6, <1>7

HoldInv == Held(s) /\ AheadIn(s)

LEMMA FinishHolds ==
  ASSUME NEW t \in State, NEW cs, NEW waits, NEW idle, NEW accs, NEW next,
         Finish(t, cs, waits, idle, accs, next), t.stop = "no" => Held(t) /\ AheadIn(t)
  PROVE  HoldInv'
<1>1. CASE t.stop = "no"
  <2>1. s' = [t EXCEPT !.reply = {}]
    BY <1>1 DEF Finish
  <2>2. /\ s'.handlers = t.handlers /\ s'.rid = t.rid /\ s'.name = t.name
        /\ s'.pending = t.pending /\ s'.deferred = t.deferred /\ s'.sent = t.sent
    BY <2>1 DEF State
  <2>3. Rids(s') = Rids(t) /\ (Valid(s') <=> Valid(t))
    BY <2>2 DEF Rids, Valid
  <2>4. Held(s')
    BY <1>1, <2>2, <2>3 DEF Held
  <2>5. AheadIn(s')
    BY <1>1, <2>2, <2>3 DEF AheadIn
  <2> QED
    BY <2>4, <2>5 DEF HoldInv
<1>2. CASE t.stop # "no"
  <2>1. s' = [Fresh EXCEPT !.name = "stopped", !.stop = t.stop, !.rid = t.rid, !.fwd = t.fwd]
    BY <1>2 DEF Finish
  <2>2. s'.handlers = <<>> /\ s'.sent = <<>>
    BY <2>1 DEF Fresh
  <2>3. Len(s'.handlers) = 0 /\ Len(s'.sent) = 0 /\ DOMAIN s'.handlers = {}
    BY <2>2
  <2>4. Rids(s') = {} /\ ~ Valid(s')
    BY <2>3 DEF Rids, SentRids, HSet, Valid
  <2>5. Held(s')
    BY <2>3, <2>4 DEF Held
  <2>6. AheadIn(s')
    BY <2>4 DEF AheadIn
  <2> QED
    BY <2>5, <2>6 DEF HoldInv
<1> QED
  BY <1>1, <1>2

\* Answering handlers keeps what is held right, unless something waits.
LEMMA HandlesHolds ==
  ASSUME NEW k, Good(k), Held(k), AheadIn(k), NEW u, u.handlers = k.handlers, u.sent = k.sent,
         NEW t, Handles(u, t), t.rid = k.rid, t.deferred = k.deferred,
         t.name = "normal" /\ Valid(t) => t.pending = <<>>
  PROVE  Held(t) /\ AheadIn(t)
<1>1. Good(t) /\ HSet(t.handlers) \subseteq HSet(k.handlers) /\ Len(t.handlers) <= Len(k.handlers)
      /\ Rids(t) \subseteq Rids(k)
  BY DEF Handles, Rids
<1>2. Len(t.handlers) \in Nat /\ Len(k.handlers) \in Nat /\ (t.handlers = <<>> <=> Len(t.handlers) = 0)
  BY <1>1, LenIs
<1>3. AheadIn(t)
  BY <1>1 DEF AheadIn
<1>4. ASSUME Valid(t)
      PROVE  Len(t.handlers) = 1
  <2>1. t.handlers # <<>>
    BY <1>1, <1>4, ValidHasHandler
  <2>2. \E h \in HSet(t.handlers) : h.rid <= t.rid
    BY <1>1, <1>4, ValidIs
  <2>3. Valid(k)
    BY <1>1, <2>2, ValidIs
  <2>4. Len(k.handlers) = 1
    BY <2>3 DEF Held
  <2> DEFINE m == Len(t.handlers)
             n == Len(k.handlers)
  <2>5. m \in Nat /\ m # 0 /\ m <= n /\ n = 1
    BY <1>1, <1>2, <2>1, <2>4
  <2> HIDE DEF m, n
  <2>6. m = 1
    BY ONLY <2>5
  <2> QED
    BY <2>6 DEF m
<1>5. ASSUME Len(t.deferred) <= 1
      PROVE  Len(t.handlers) <= 1
  <2>1. Len(k.handlers) <= 1
    BY <1>5 DEF Held
  <2> DEFINE m == Len(t.handlers)
             n == Len(k.handlers)
  <2>2. m \in Nat /\ n \in Nat /\ m <= n /\ n <= 1
    BY <1>1, <1>2, <2>1
  <2> HIDE DEF m, n
  <2>3. m <= 1
    BY ONLY <2>2
  <2> QED
    BY <2>3 DEF m
<1> QED
  BY <1>3, <1>4, <1>5 DEF Held

\* The one request that can take it is given what there is to send.
LEMMA OnlyOneTaken ==
  ASSUME NEW t, Good(t), t.handlers # <<>>, Len(t.handlers) = 1, NEW data \in Seq(Elements),
         Splits(data) => t.pending = <<>>, NEW u, u = SendToFirst(t, data)
  PROVE  ~ Valid(u)
<1>1. Answers(t, u) /\ Len(u.handlers) = Len(t.handlers) - 1
  BY AnswersFirst
<1>2. Good(u) /\ Len(u.handlers) = 0
  <2>1. Good(u)
    BY <1>1 DEF Answers
  <2> DEFINE n == Len(t.handlers)
             m == Len(u.handlers)
  <2>2. m = n - 1 /\ n = 1
    BY <1>1
  <2> HIDE DEF n, m
  <2>3. m = 0
    BY ONLY <2>2
  <2> QED
    BY <2>1, <2>3 DEF m
<1>3. u.handlers = <<>>
  BY ONLY <1>2, LenIs
<1> QED
  BY <1>2, <1>3, ValidHasHandler

LEMMA PendingHolds ==
  ASSUME NEW t, Good(t), Held(t), NEW u, u = SendPending(t)
  PROVE  ~ Valid(u)
<1> DEFINE v == [t EXCEPT !.pending = <<>>]
<1>1. /\ Good(v) /\ v.pending = <<>> /\ v.handlers = t.handlers
      /\ t.pending \in Seq(Elements)
      /\ SendPending(t) = IF Valid(t) THEN SendToFirst(v, t.pending) ELSE t
  BY SendPendingIs
<1> HIDE DEF v
<1>2. CASE Valid(t)
  <2>1. t.handlers # <<>> /\ Len(t.handlers) = 1
    BY <1>2, ValidHasHandler DEF Held
  <2>2. u = SendToFirst(v, t.pending) /\ v.handlers # <<>> /\ Len(v.handlers) = 1
    BY <1>1, <1>2, <2>1
  <2> QED
    BY <1>1, <2>2, OnlyOneTaken
<1>3. CASE ~ Valid(t)
  BY <1>1, <1>3
<1> QED
  BY <1>2, <1>3

LEMMA SendHolds ==
  ASSUME NEW t, Good(t), Held(t), ~ Has(t.pending, End), NEW e \in Elements,
         NEW w, w = HandleSend(t, e), w.name = "normal"
  PROVE  ~ Valid(w)
<1> DEFINE u == [t EXCEPT !.pending = Append(t.pending, e)]
<1>1. /\ Good(u) /\ u.pending = Append(t.pending, e)
      /\ u.name = t.name /\ u.handlers = t.handlers /\ u.rid = t.rid
      /\ u.deferred = t.deferred
  <2> HIDE DEF u
  <2> QED
    BY AppendedIs DEF u
<1>2. t \in State /\ t.pending \in Seq(Elements)
  BY StateIs DEF Good
<1>3. Valid(u) <=> Valid(t)
  BY <1>1 DEF Valid
<1>4. CASE t.name = "accumulate"
  <2>1. w = u
    BY <1>4 DEF HandleSend
  <2> QED
    BY <1>1, <1>4, <2>1
<1>5. CASE t.name = "normal" /\ e = End
  <2>1. w = SendOrStore([t EXCEPT !.pending = <<>>], Append(t.pending, e))
    BY <1>5 DEF HandleSend
  <2> DEFINE v == [t EXCEPT !.pending = <<>>]
             q == Append(t.pending, e)
  <2>2. /\ Good(v) /\ v.pending = <<>> /\ v.handlers = t.handlers /\ v.rid = t.rid
    BY SendPendingIs
  <2>3. q \in Seq(Elements)
    BY <1>2
  <2>4. w = SendOrStore(v, q)
    BY <2>1
  <2>5. Valid(v) <=> Valid(t)
    BY <2>2 DEF Valid
  <2>6. v \in State
    BY <2>2 DEF Good
  <2> HIDE DEF v, q, u
  <2>7. CASE Valid(t)
    <3>1. t.handlers # <<>> /\ Len(t.handlers) = 1
      BY <2>7, ValidHasHandler DEF Held
    <3>2. w = SendToFirst(v, q)
      BY <2>4, <2>5, <2>7 DEF SendOrStore
    <3> QED
      BY <2>2, <2>3, <3>1, <3>2, OnlyOneTaken
  <2>8. CASE ~ Valid(t)
    <3>1. w = [v EXCEPT !.pending = @ \o q]
      BY <2>4, <2>5, <2>8 DEF SendOrStore
    <3>2. w.handlers = v.handlers /\ w.rid = v.rid
      BY <2>6, <3>1 DEF State
    <3>3. Valid(w) <=> Valid(v)
      BY <3>2 DEF Valid
    <3> QED
      BY <2>5, <2>8, <3>3
  <2> QED
    BY <2>7, <2>8
<1>6. CASE t.name = "normal" /\ e # End
  <2> DEFINE q == <<e>>
  <2>1. w = SendOrStore(t, q)
    BY <1>6 DEF HandleSend
  <2>2. q \in Seq(Elements) /\ ~ Splits(q)
    <3> HIDE DEF q
    <3> QED
      BY <1>6, SingleIs DEF q
  <2> HIDE DEF q, u
  <2>3. CASE Valid(t)
    <3>1. t.handlers # <<>> /\ Len(t.handlers) = 1
      BY <2>3, ValidHasHandler DEF Held
    <3>2. w = SendToFirst(t, q)
      BY <2>1, <2>3 DEF SendOrStore
    <3> QED
      BY <2>2, <3>1, <3>2, OnlyOneTaken
  <2>4. CASE ~ Valid(t)
    <3>1. w = [t EXCEPT !.pending = @ \o q]
      BY <2>1, <2>4 DEF SendOrStore
    <3>2. w.handlers = t.handlers /\ w.rid = t.rid
      BY <1>2, <3>1 DEF State
    <3>3. Valid(w) <=> Valid(t)
      BY <3>2 DEF Valid
    <3> QED
      BY <2>4, <3>3
  <2> QED
    BY <2>3, <2>4
<1>7. CASE t.name \notin {"accumulate", "normal"}
  <2>1. w = t
    BY <1>7 DEF HandleSend
  <2> QED
    BY <1>7, <2>1
<1> QED
  BY <1>4, <1>5, <1>6, <1>7

LEMMA ArriveHolds ==
  ASSUME SessionInv, HoldInv, NEW c \in DOMAIN conns, Arrive(c)
  PROVE  HoldInv'
<1>1. conns[c].st = "sent" /\ Alive
  BY DEF Arrive
<1>2. s.stop = "no" /\ DOMAIN conns = 1 .. Len(conns) /\ Good(s) /\ req \in Seq(Types)
      /\ Forwarded(s) /\ DeferredOk(s) /\ s.reply = {}
  BY <1>1, SessionServes DEF SessionInv
<1> DEFINE r == conns[c].rid
           held == [conns EXCEPT ![c].st = "held"]
           H(ref) == [rid |-> r, ref |-> ref, conn |-> c]
           T(ref) == DetermineNextState(HandleStreamEvent(s, req[r], H(ref)), req[r])
           acc == IF req[r] \in {"streamstart", "restart"} THEN accOff + 1 ELSE accOff
           N(ref) == IF Restarts(T(ref)) /\ c2s \in {"new", "open"} THEN "start" ELSE c2s
<1>3. PICK ref \in {c, -c} : Finish(T(ref), held, waitMsgs, idleMsg, acc, N(ref))
  BY DEF Arrive
<1> DEFINE h == H(ref)
           type == req[r]
           w == HandleStreamEvent(s, type, h)
           t == DetermineNextState(w, type)
           next == N(ref)
<1>4. Finish(t, held, waitMsgs, idleMsg, acc, next)
  BY <1>3
<1>5. NewHandler(s, h) /\ h.rid \in 1 .. Len(req) /\ h.rid = r
  <2>1. /\ c \in 1 .. Len(conns) /\ h = [rid |-> conns[c].rid, ref |-> ref, conn |-> c]
        /\ held = [conns EXCEPT ![c].st = "held"]
    BY <1>2
  <2>2. h.rid = r
    OBVIOUS
  <2> HIDE DEF h, held
  <2>3. NewHandler(s, h) /\ h.rid \in 1 .. Len(req)
    BY <1>1, <2>1, ArrivalIs
  <2> QED
    BY <2>2, <2>3
<1>6. type \in Types /\ w = HandleStreamEvent(s, req[h.rid], h)
  BY <1>2, <1>5
<1> HIDE DEF acc, next, h, held, w, t, r, type
<1>7. Good(w)
  <2> DEFINE u == Added(s, h)
  <2> HIDE DEF u
  <2>1. Handles(u, w)
    BY <1>2, <1>5, <1>6, HandlesEvent DEF u
  <2> QED
    BY <2>1 DEF Handles
<1>8. /\ Good(t) /\ t.rid = w.rid /\ t.fwd = w.fwd /\ t.deferred = w.deferred
      /\ t.handlers = w.handlers /\ t.reply = w.reply /\ t.pending = w.pending
      /\ t.sent = w.sent /\ t.idle = w.idle
      /\ t.stop \in {w.stop, "normal"} /\ (w.stop # "no" => t = w)
      /\ w.name # "stopped" => t.name # "stopped"
      /\ t.name \in {w.name, "accumulate"}
  BY <1>7, DeterminedIs DEF t
<1>9. ASSUME t.stop = "no"
      PROVE  Held(t) /\ AheadIn(t)
  <2>1. w.stop = "no"
    BY <1>8, <1>9
  <2>2. Held(s) /\ AheadIn(s) /\ w = HandleStreamEvent(s, type, h)
    BY DEF HoldInv, w
  <2>3. Held(w) /\ AheadIn(w)
    BY <1>2, <1>5, <1>6, <2>1, <2>2, EventHolds
  <2>4. Rids(t) = Rids(w) /\ (Valid(t) <=> Valid(w))
    BY <1>8 DEF Rids, Valid
  <2>5. Held(t)
    BY <1>8, <2>3, <2>4 DEF Held
  <2>6. AheadIn(t)
    BY <1>8, <2>3, <2>4 DEF AheadIn
  <2> QED
    BY <2>5, <2>6
<1>10. t \in State
  BY <1>8 DEF Good
<1> QED
  BY ONLY <1>4, <1>9, <1>10, FinishHolds

LEMMA WaitTimeoutHolds ==
  ASSUME SessionInv, HoldInv, NEW c \in DOMAIN conns, WaitTimeout(c)
  PROVE  HoldInv'
<1> DEFINE i == First(s.handlers, conns[c].rid)
           t == IF ~ HasRid(s.handlers, conns[c].rid) THEN s
                ELSE IF s.handlers[i].conn = c THEN TakeHandler(s, i)
                ELSE Crash(s)
           waits == waitMsgs \ {c}
<1>1. Finish(t, conns, waits, idleMsg, accOff, c2s)
  BY DEF WaitTimeout
<1>2. Good(s) /\ s \in State /\ s.handlers \in Seq(Handler) /\ Held(s) /\ AheadIn(s)
  BY DEF SessionInv, Good, HandlerList, HoldInv
<1>3. t \in State /\ (t.stop = "no" => Held(t) /\ AheadIn(t))
  <2>1. CASE ~ HasRid(s.handlers, conns[c].rid)
    <3>1. t = s
      BY <2>1
    <3> QED
      BY <1>2, <3>1
  <2>2. CASE HasRid(s.handlers, conns[c].rid) /\ s.handlers[i].conn = c
    <3>1. t = TakeHandler(s, i)
      BY <2>2
    <3>2. i \in 1 .. Len(s.handlers)
      BY <1>2, <2>2, FirstIs
    <3> HIDE DEF t, i
    <3>3. Handles(s, t) /\ t.rid = s.rid /\ t.deferred = s.deferred
      BY <1>2, <3>1, <3>2, HandlesTake
    <3>4. Taken(s, i, t)
      BY <1>2, <3>1, <3>2, TakeHandlerIs
    <3>5. t.name = s.name /\ t.pending = s.pending /\ Good(t)
          /\ HSet(t.handlers) \subseteq HSet(s.handlers)
      BY <3>4 DEF Taken
    <3>6. Valid(t) => Valid(s)
      BY <1>2, <3>3, <3>5, ValidIs
    <3>7. t.name = "normal" /\ Valid(t) => t.pending = <<>>
      BY <1>2, <3>5, <3>6 DEF Held
    <3>8. Held(t) /\ AheadIn(t)
      BY <1>2, <3>3, <3>7, HandlesHolds
    <3> QED
      BY <3>5, <3>8 DEF Good
  <2>3. CASE HasRid(s.handlers, conns[c].rid) /\ s.handlers[i].conn # c
    <3>1. t = [s EXCEPT !.stop = "crash"] /\ "crash" \in Stops
      BY <2>3 DEF Crash, Stops
    <3> HIDE DEF t
    <3>2. t \in State /\ t.stop = "crash"
      BY <1>2, <3>1 DEF State
    <3> QED
      BY <3>2
  <2> QED
    BY <2>1, <2>2, <2>3
<1> HIDE DEF t, waits
<1> QED
  BY ONLY <1>1, <1>3, FinishHolds

LEMMA EndHolds ==
  ASSUME SessionInv, HoldInv, InactivityTimeout \/ C2SClose
  PROVE  HoldInv'
<1>1. s \in State /\ Held(s) /\ AheadIn(s) /\ "inactivity_timeout" \in Stops /\ "normal" \in Stops
      /\ "closing" \in Names
  BY DEF SessionInv, Good, HoldInv, Stops, Names
<1>2. CASE InactivityTimeout
  <2> DEFINE t == [s EXCEPT !.stop = "inactivity_timeout"]
             no == FALSE
  <2>1. Finish(t, conns, waitMsgs, no, accOff, c2s)
    BY <1>2 DEF InactivityTimeout
  <2>2. t \in State /\ t.stop # "no"
    BY <1>1 DEF State
  <2> HIDE DEF t, no
  <2> QED
    BY ONLY <2>1, <2>2, FinishHolds
<1>3. CASE C2SClose
  <2> DEFINE t == IF s.pending = <<>> THEN [s EXCEPT !.stop = "normal"]
                  ELSE [s EXCEPT !.name = "closing"]
             next == "closed"
  <2>1. Finish(t, conns, waitMsgs, idleMsg, accOff, next)
    BY <1>3 DEF C2SClose
  <2>2. /\ t \in State /\ t.rid = s.rid /\ t.deferred = s.deferred /\ t.handlers = s.handlers
        /\ t.sent = s.sent /\ (t.stop = "no" => t.name = "closing")
    BY <1>1 DEF State
  <2> HIDE DEF t, next
  <2>3. Rids(t) = Rids(s) /\ (Valid(t) <=> Valid(s))
    BY <2>2 DEF Rids, Valid
  <2>4. AheadIn(t)
    BY <1>1, <2>2, <2>3 DEF AheadIn
  <2>5. t.stop = "no" => Held(t)
    BY <1>1, <2>2, <2>3 DEF Held
  <2> QED
    BY ONLY <2>1, <2>2, <2>4, <2>5, FinishHolds
<1> QED
  BY <1>2, <1>3

LEMMA AccOffHolds ==
  ASSUME SessionInv, HoldInv, AccOff
  PROVE  HoldInv'
<1> DEFINE w == SendPending(s)
           t == IF s.name = "accumulate" THEN [w EXCEPT !.name = "normal"] ELSE s
           a == accOff - 1
<1>1. Finish(t, conns, waitMsgs, idleMsg, a, c2s)
  BY DEF AccOff
<1>2. Good(s) /\ Held(s) /\ AheadIn(s) /\ s \in State
  BY DEF SessionInv, HoldInv, Good
<1>3. CASE s.name = "accumulate"
  <2>1. Sends(s, w) /\ ~ Valid(w)
    <3>1. Sends(s, w)
      BY <1>2, SendsPending
    <3> HIDE DEF w
    <3>2. ~ Valid(w)
      BY <1>2, PendingHolds DEF w
    <3> QED
      BY <3>1, <3>2
  <2>2. t = [w EXCEPT !.name = "normal"] /\ "normal" \in Names
    BY <1>3 DEF Names
  <2> HIDE DEF w, t
  <2>3. Handles(s, w) /\ w.rid = s.rid /\ w.deferred = s.deferred /\ w \in State
    BY <2>1, HandlesSends DEF Sends, Answers, Good
  <2>4. Held(w) /\ AheadIn(w)
    BY <1>2, <2>1, <2>3, HandlesHolds
  <2>5. /\ t \in State /\ t.rid = w.rid /\ t.deferred = w.deferred /\ t.handlers = w.handlers
        /\ t.sent = w.sent
    BY <2>2, <2>3 DEF State
  <2>6. Rids(t) = Rids(w) /\ ~ Valid(t)
    BY <2>1, <2>5 DEF Rids, Valid
  <2>7. AheadIn(t)
    BY <2>4, <2>5, <2>6 DEF AheadIn
  <2>8. Held(t)
    BY <2>4, <2>5, <2>6 DEF Held
  <2> HIDE DEF a
  <2> QED
    BY ONLY <1>1, <2>5, <2>7, <2>8, FinishHolds
<1>4. CASE s.name # "accumulate"
  <2>1. t = s
    BY <1>4
  <2> HIDE DEF t, a
  <2> QED
    BY ONLY <1>1, <1>2, <2>1, FinishHolds
<1> QED
  BY <1>3, <1>4

LEMMA SendStepHolds ==
  ASSUME SessionInv, HoldInv, c2s \in {"start", "open"}, NEW e \in Elements, NEW next, Send(e, next)
  PROVE  HoldInv'
<1> DEFINE w == HandleSend(s, e)
<1>1. Finish(w, conns, waitMsgs, idleMsg, accOff, next)
  BY DEF Send
<1>2. Good(s) /\ ~ Has(s.pending, End) /\ Held(s) /\ AheadIn(s)
  BY DEF SessionInv, Stopped, HoldInv
<1>3. w.name = "normal" => ~ Valid(w)
  <2> HIDE DEF w
  <2> QED
    BY <1>2, SendHolds DEF w
<1>4. PICK u : /\ u.handlers = s.handlers /\ u.sent = s.sent
               /\ Handles(u, w) /\ w.rid = s.rid /\ w.deferred = s.deferred
  <2> HIDE DEF w
  <2> QED
    BY <1>2, HandlesSend DEF w
<1> HIDE DEF w
<1>5. Held(w) /\ AheadIn(w)
  BY <1>2, <1>3, <1>4, HandlesHolds
<1>6. w \in State
  BY <1>4 DEF Handles, Good
<1> QED
  BY ONLY <1>1, <1>5, <1>6, FinishHolds

LEMMA C2SHolds ==
  ASSUME SessionInv, HoldInv, C2SStart \/ C2SStanza \/ C2SEnd
  PROVE  HoldInv'
<1>1. MaxOut \in Nat /\ out \in 0 .. MaxOut
  BY BoshAssumption DEF SessionInv
<1>2. Start \in Elements /\ End \in Elements
  BY <1>1 DEF Elements, Start, End
<1>3. \E e \in Elements : \E next : c2s \in {"start", "open"} /\ Send(e, next)
  <2>1. CASE C2SStart
    BY <1>2, <2>1 DEF C2SStart
  <2>2. CASE C2SStanza
    <3> DEFINE e == out + 1
    <3>1. e \in Elements /\ c2s \in {"start", "open"} /\ Send(e, "open")
      BY <1>1, <2>2 DEF C2SStanza, Elements, End
    <3> HIDE DEF e
    <3> QED
      BY <3>1
  <2>3. CASE C2SEnd
    BY <1>2, <2>3 DEF C2SEnd
  <2> QED
    BY <2>1, <2>2, <2>3
<1> QED
  BY <1>3, SendStepHolds

\* Steps that leave the process, or all of it but its inactivity timer.
LEMMA OtherHolds ==
  ASSUME SessionInv, HoldInv, s' = s \/ s' = [s EXCEPT !.idle = FALSE]
  PROVE  HoldInv'
<1>1. s \in State
  BY DEF SessionInv, Good
<1>2. /\ s'.handlers = s.handlers /\ s'.rid = s.rid /\ s'.name = s.name
      /\ s'.pending = s.pending /\ s'.deferred = s.deferred /\ s'.sent = s.sent
  BY <1>1 DEF State
<1>3. Rids(s') = Rids(s) /\ (Valid(s') <=> Valid(s))
  BY <1>2 DEF Rids, Valid
<1>4. Held(s')
  BY <1>2, <1>3 DEF Held, HoldInv
<1>5. AheadIn(s')
  BY <1>2, <1>3 DEF AheadIn, HoldInv
<1> QED
  BY <1>4, <1>5 DEF HoldInv

LEMMA HoldNext ==
  ASSUME SessionInv, HoldInv, [Next]_vars
  PROVE  HoldInv'
<1>1. ASSUME NEW c \in DOMAIN conns, OnConnection(c) \/ Break(c)
      PROVE  HoldInv'
  <2>1. CASE NoSession(c) \/ WaitFires(c) \/ Receive(c) \/ Break(c)
    <3>1. s' = s
      BY <2>1 DEF NoSession, WaitFires, Receive, Break
    <3> QED
      BY <3>1, OtherHolds
  <2> QED
    BY <1>1, <2>1, ArriveHolds, WaitTimeoutHolds DEF OnConnection
<1>2. CASE InactivityFires
  <2>1. s' = [s EXCEPT !.idle = FALSE]
    BY <1>2 DEF InactivityFires
  <2> QED
    BY <2>1, OtherHolds
<1>3. CASE InactivityTimeout \/ C2SClose \/ AccOff
  BY <1>3, EndHolds, AccOffHolds
<1>4. CASE C2SStart \/ C2SStanza \/ C2SEnd
  BY <1>4, C2SHolds
<1>5. CASE (\E type \in Types : Request(type)) \/ (\E r \in DOMAIN req : Repeat(r)) \/ UNCHANGED vars
  <2>1. s' = s
    BY <1>5 DEF Request, Repeat, Transmit, vars
  <2> QED
    BY <2>1, OtherHolds
<1> QED
  BY <1>1, <1>2, <1>3, <1>4, <1>5 DEF Next

LEMMA HoldAlways == Spec => []HoldInv
<1>1. Init => HoldInv
  <2> SUFFICES ASSUME Init PROVE HoldInv
    OBVIOUS
  <2>1. s.handlers = <<>> /\ s.sent = <<>>
    BY DEF Init, Fresh
  <2>2. Len(s.handlers) = 0 /\ Len(s.sent) = 0 /\ DOMAIN s.handlers = {}
    BY <2>1
  <2>3. Rids(s) = {} /\ ~ Valid(s)
    BY <2>2 DEF Rids, SentRids, HSet, Valid
  <2> QED
    BY <2>2, <2>3 DEF HoldInv, Held, AheadIn
<1>2. SessionInv /\ HoldInv /\ [Next]_vars => HoldInv'
  BY HoldNext
<1> QED
  BY <1>1, <1>2, SessionAlways, PTL DEF Spec

\* A request that could take a stanza is the only one that is held, and in normal
\* nothing waits beside it: return_surplus_handlers leaves at most one such
\* request, and none when there is something to send.  Two requests are held
\* only when two copies of the one ahead of its turn are.
THEOREM BoshPromptDelivery == Spec => []PromptDelivery
<1>1. SessionInv /\ HoldInv => PromptDelivery
  <2> SUFFICES ASSUME SessionInv, HoldInv
               PROVE  PromptDelivery
    OBVIOUS
  <2>1. Len(s.handlers) \in Nat /\ Len(s.deferred) \in Nat
    BY LenIs DEF SessionInv
  <2> QED
    BY <2>1 DEF HoldInv, Held, PromptDelivery
<1> QED
  BY <1>1, SessionAlways, HoldAlways, PTL

-------------------------------------------------------------------------------
(***************************************************************************)
(* Two stream events                                                       *)
(***************************************************************************)

\* bosh_wrap was given two stream events.
Unwrapped(t) == t.stop = "no body"

OtherStops == {"no", "normal", "inactivity_timeout", "policy_violation", "invalid_rid", "crash"}

\* u is t after a step in which bosh_wrap got two stream events only if they
\* were pending in t.
Wraps(t, u) ==
    /\ NoBody(u.pending) => NoBody(t.pending)
    /\ Unwrapped(u) => Unwrapped(t) \/ NoBody(t.pending)

LEMMA OtherStop ==
  ASSUME NEW u, u.stop \in OtherStops
  PROVE  ~ Unwrapped(u)
  BY Zenon DEF Unwrapped, OtherStops

LEMMA WrapsSame ==
  ASSUME NEW t, NEW u, u.pending = t.pending, u.stop = t.stop \/ u.stop \in OtherStops
  PROVE  Wraps(t, u)
<1>1. CASE u.stop = t.stop
  <2>1. Unwrapped(u) => Unwrapped(t)
    BY <1>1, Zenon DEF Unwrapped
  <2> QED
    BY <2>1, Zenon DEF Wraps
<1>2. CASE u.stop \in OtherStops
  <2>1. ~ Unwrapped(u)
    BY <1>2, OtherStop
  <2> QED
    BY <2>1, Zenon DEF Wraps
<1> QED
  BY <1>1, <1>2

LEMMA WrapsMore ==
  ASSUME NEW t, NEW u, NEW v, Wraps(t, u), Wraps(u, v)
  PROVE  Wraps(t, v)
  BY Zenon DEF Wraps

\* One stream event, or none, can be wrapped.
LEMMA OneEvent == ~ NoBody(<<>>) /\ \A e : ~ NoBody(<<e>>)
  BY DEF NoBody

\* All that is pending is sent: it cannot be wrapped, or at most a stream end
\* stays behind.
LEMMA WrapsPending ==
  ASSUME NEW t, Good(t)
  PROVE  Wraps(t, SendPending(t))
<1> DEFINE v == [t EXCEPT !.pending = <<>>]
           u == SendPending(t)
           p == t.pending
<1>1. /\ Good(v) /\ v.pending = <<>> /\ v.handlers = t.handlers /\ v.stop = t.stop
      /\ p \in Seq(Elements)
      /\ u = IF Valid(t) THEN SendToFirst(v, p) ELSE t
  BY SendPendingIs
<1> HIDE DEF v, u
<1>2. CASE ~ Valid(t)
  BY <1>1, <1>2, WrapsSame DEF u
<1>3. CASE Valid(t) /\ NoBody(p)
  BY <1>3, Zenon DEF Wraps, u
<1>4. CASE Valid(t) /\ ~ NoBody(p)
  <2>1. v.handlers # <<>> /\ u = SendToFirst(v, p)
    BY <1>1, <1>4, ValidHasHandler
  <2> HIDE DEF p
  <2>2. u.stop = v.stop /\ u.pending = IF Splits(p) THEN <<End>> ELSE v.pending
    BY <1>1, <1>4, <2>1, SendToFirstIs
  <2>3. ~ NoBody(u.pending)
    BY <1>1, <2>2, OneEvent
  <2>4. Unwrapped(u) => Unwrapped(t)
    BY <1>1, <2>2, Zenon DEF Unwrapped
  <2> QED
    BY <2>3, <2>4, Zenon DEF Wraps, u
<1> QED
  BY <1>2, <1>3, <1>4

LEMMA WrapsReturned ==
  ASSUME NEW t, Good(t), NEW n \in Nat
  PROVE  Wraps(t, Returned(t, n)) /\ Good(Returned(t, n))
<1>1. Returns(t, Returned(t, n))
  BY ReturnsSome
<1> QED
  BY <1>1, WrapsSame DEF Returns, Sends, Answers

LEMMA WrapsSurplus ==
  ASSUME NEW t, Good(t)
  PROVE  Wraps(t, ReturnSurplusHandlers(t))
<1>1. Len(t.handlers) \in Nat /\ (t.handlers # <<>> => Len(t.handlers) - 1 \in Nat)
  BY DEF Good, HandlerList
<1>2. \/ ReturnSurplusHandlers(t) = t
      \/ ReturnSurplusHandlers(t) = SendPending(t)
      \/ t.handlers # <<>> /\ ReturnSurplusHandlers(t) = Returned(t, Len(t.handlers) - 1)
  BY DEF ReturnSurplusHandlers
<1> QED
  BY <1>1, <1>2, WrapsSame, WrapsPending, WrapsReturned

LEMMA WrapsCrash ==
  ASSUME NEW t, Good(t)
  PROVE  Wraps(t, Crash(t))
<1> DEFINE u == Crash(t)
<1>1. u.pending = t.pending /\ u.stop = "crash"
  BY DEF Crash, Good, State
<1>2. u.stop \in OtherStops
  BY <1>1 DEF OtherStops
<1> HIDE DEF u
<1>3. Wraps(t, u)
  BY <1>1, <1>2, WrapsSame
<1> QED
  BY <1>3 DEF u

LEMMA WrapsStopAll ==
  ASSUME NEW t, Good(t), NEW why \in OtherStops, NEW u, u = StopAll(t, why)
  PROVE  Wraps(t, u)
<1> DEFINE m == t.reply \cup {[conn |-> t.handlers[i].conn, els |-> Gone] : i \in DOMAIN t.handlers}
<1>1. t \in State
  BY DEF Good
<1>2. u = [t EXCEPT !.reply = m, !.handlers = <<>>, !.stop = why]
  BY DEF StopAll
<1> HIDE DEF m
<1>3. u.pending = t.pending /\ u.stop = why
  BY <1>1, <1>2 DEF State
<1> QED
  BY <1>3, WrapsSame

LEMMA WrapsOne ==
  ASSUME NEW t, Good(t), NEW r \in Nat, NEW type \in Types, NEW v, v = ProcessOne(t, type, r)
  PROVE  Wraps(t, v)
<1> DEFINE f == Append(t.fwd, [rid |-> r, type |-> type])
           u == [t EXCEPT !.rid = r, !.fwd = f]
<1>1. t \in State /\ t.fwd \in Seq([rid : Nat, type : Types])
  BY StateIs DEF Good
<1>2. f \in Seq([rid : Nat, type : Types])
  BY <1>1
<1>3. v = CASE type = "pause" -> Pause(u)
            [] type = "long pause" -> StopAll(u, "policy_violation")
            [] OTHER -> u
  BY DEF ProcessOne
<1> HIDE DEF f
<1>4. /\ u \in State /\ u.handlers = t.handlers /\ u.reply = t.reply /\ u.stop = t.stop
      /\ u.pending = t.pending /\ u.sent = t.sent
  BY <1>1, <1>2 DEF State
<1> HIDE DEF u
<1>5. Good(u) /\ Wraps(t, u)
  BY <1>4, WrapsSame DEF Good
<1>6. Wraps(u, v)
  <2>1. CASE type = "pause"
    <3> DEFINE w == Returned(u, Len(u.handlers))
    <3>1. Len(u.handlers) \in Nat
      BY <1>5 DEF Good, HandlerList
    <3>2. Wraps(u, w) /\ Good(w)
      BY <1>5, <3>1, WrapsReturned
    <3>3. v = IF w.handlers = <<>> THEN w ELSE Crash(w)
      BY <1>3, <2>1 DEF Pause
    <3> HIDE DEF w
    <3> QED
      BY <3>2, <3>3, WrapsCrash, WrapsMore
  <2>2. CASE type = "long pause"
    <3> DEFINE why == "policy_violation"
    <3>1. v = StopAll(u, why)
      BY <1>3, <2>2, Zenon
    <3>2. why \in OtherStops
      BY DEF OtherStops
    <3> HIDE DEF why
    <3> QED
      BY <1>5, <3>1, <3>2, WrapsStopAll
  <2>3. CASE type \notin {"pause", "long pause"}
    <3>1. v = u
      BY <1>3, <2>3, Zenon
    <3> QED
      BY <3>1, WrapsSame
  <2> QED
    BY <2>1, <2>2, <2>3, Zenon
<1> QED
  BY <1>5, <1>6, WrapsMore

LEMMA WrapsDeferred ==
  ASSUME NEW t, Good(t), NEW w, w = ProcessDeferred(t)
  PROVE  Wraps(t, w)
<1>1. CASE t.stop # "no" \/ t.deferred = <<>>
  <2>1. w = t
    BY <1>1 DEF ProcessDeferred
  <2> QED
    BY <2>1, WrapsSame
<1>2. CASE t.stop = "no" /\ t.deferred # <<>>
  <2> DEFINE r == t.rid + 1
             type == t.deferred[1]
             u == [t EXCEPT !.deferred = <<>>]
             x == ProcessOne(u, type, r)
             v == ReturnSurplusHandlers(x)
             why == "invalid_rid"
  <2>1. t \in State /\ t.rid \in Nat /\ t.deferred \in Seq(Types)
    BY StateIs DEF Good
  <2>2. r \in Nat /\ type \in Types /\ <<>> \in Seq(Types)
    BY <1>2, <2>1
  <2>3. w = IF Len(t.deferred) > 1 /\ v.stop = "no" THEN StopAll(v, why) ELSE v
    BY <1>2 DEF ProcessDeferred
  <2>4. /\ u \in State /\ u.handlers = t.handlers /\ u.reply = t.reply /\ u.stop = t.stop
        /\ u.pending = t.pending /\ u.sent = t.sent
    BY <2>1, <2>2 DEF State
  <2>5. why \in OtherStops
    BY DEF OtherStops
  <2> HIDE DEF r, type, u, x, v, why
  <2>6. Good(u) /\ ~ Crashed(u) /\ Wraps(t, u)
    <3>1. Good(u) /\ Wraps(t, u)
      BY <2>4, WrapsSame DEF Good
    <3>2. u.stop = "no"
      BY <1>2, <2>4
    <3> QED
      BY <3>1, <3>2, Zenon DEF Crashed
  <2>7. Wraps(u, x) /\ Good(x)
    BY <2>2, <2>6, WrapsOne, HandlesOne DEF x, Handles
  <2>8. Wraps(x, v) /\ Good(v)
    BY <2>7, WrapsSurplus, HandlesSurplus DEF v, Handles
  <2>9. Wraps(v, w)
    BY <2>3, <2>5, <2>8, WrapsStopAll, WrapsSame
  <2> QED
    BY <2>6, <2>7, <2>8, <2>9, WrapsMore
<1> QED
  BY <1>1, <1>2

\* A request is handled.
LEMMA WrapsEvent ==
  ASSUME NEW t, Good(t), t.stop = "no", NEW h, NewHandler(t, h), NEW type \in Types,
         h.rid \in Nat, NEW w, w = HandleStreamEvent(t, type, h)
  PROVE  Wraps(t, w)
<1> DEFINE r == h.rid
           u == Added(t, h)
           why == "invalid_rid"
           d == <<type>> \o t.deferred
           v == IF IsRetransmission(t, r) THEN IF HasRid(t.sent, r) THEN ResendCached(u, r) ELSE u
                ELSE IF IsExpectedRid(t, r) THEN ProcessDeferred(ProcessOne(u, type, r))
                ELSE IF IsAcceptableRid(t, r) THEN [u EXCEPT !.deferred = d]
                ELSE StopAll(u, why)
<1> HIDE DEF u
<1>1. /\ Good(u) /\ u.deferred = t.deferred /\ u.sent = t.sent /\ u.pending = t.pending
      /\ u.stop = t.stop
  BY AddedIs DEF u
<1>2. w = ReturnSurplusHandlers(v)
  BY <1>1 DEF HandleStreamEvent, Added, u
<1>3. why \in OtherStops /\ ~ Crashed(u)
  <2>1. u.stop = "no"
    BY <1>1
  <2>2. ~ Crashed(u)
    BY <2>1, Zenon DEF Crashed
  <2> QED
    BY <2>2 DEF OtherStops
<1> HIDE DEF v, why, d
<1>4. Wraps(t, u)
  BY <1>1, WrapsSame
<1>5. Good(v) /\ Wraps(u, v)
  <2>1. CASE IsRetransmission(t, r) /\ HasRid(t.sent, r)
    <3>1. v = ResendCached(u, r) /\ HasRid(u.sent, r)
      BY <1>1, <2>1 DEF v
    <3>2. Good(v)
      BY <1>1, <3>1, HandlesResend DEF Handles
    <3>3. CASE Valid(u)
      <4>1. v.pending = u.pending /\ v.stop = u.stop
        BY <1>1, <3>1, <3>3, ResendIs
      <4> QED
        BY <3>2, <4>1, WrapsSame
    <3>4. CASE ~ Valid(u)
      <4>1. v = Crash(u)
        BY <3>1, <3>4 DEF ResendCached
      <4> QED
        BY <1>1, <3>2, <4>1, WrapsCrash
    <3> QED
      BY <3>3, <3>4
  <2>2. CASE IsRetransmission(t, r) /\ ~ HasRid(t.sent, r)
    <3>1. v = u
      BY <2>2 DEF v
    <3> QED
      BY <1>1, <3>1, WrapsSame
  <2>3. CASE ~ IsRetransmission(t, r) /\ IsExpectedRid(t, r)
    <3> DEFINE p == ProcessOne(u, type, r)
    <3>1. v = ProcessDeferred(p)
      BY <2>3 DEF v
    <3> HIDE DEF p, r
    <3>2. r \in Nat
      BY DEF r
    <3>3. Handles(u, p) /\ Wraps(u, p)
      BY <1>1, <1>3, <3>2, HandlesOne, WrapsOne DEF p
    <3>4. Good(p)
      BY <3>3 DEF Handles
    <3>5. Wraps(p, v)
      BY <3>1, <3>4, WrapsDeferred
    <3>6. CASE p.stop # "no" \/ p.deferred = <<>>
      <4>1. v = p
        BY <3>1, <3>6 DEF ProcessDeferred
      <4> QED
        BY <3>3, <3>4, <4>1
    <3>7. CASE p.stop = "no" /\ p.deferred # <<>>
      <4>1. ~ Crashed(p)
        BY <3>7, Zenon DEF Crashed
      <4>2. Good(v)
        BY <3>1, <3>4, <4>1, HandlesDeferred DEF Handles
      <4> QED
        BY <3>3, <3>5, <4>2, WrapsMore
    <3> QED
      BY <3>6, <3>7
  <2>4. CASE ~ IsRetransmission(t, r) /\ ~ IsExpectedRid(t, r) /\ IsAcceptableRid(t, r)
    <3>1. v = [u EXCEPT !.deferred = d] /\ u \in State
      BY <1>1, <2>4 DEF v, Good
    <3>2. d \in Seq(Types)
      <4>1. t.deferred \in Seq(Types)
        BY StateIs DEF Good
      <4> QED
        BY <4>1 DEF d
    <3>3. /\ v \in State /\ v.handlers = u.handlers /\ v.reply = u.reply
          /\ v.stop = u.stop /\ v.pending = u.pending /\ v.sent = u.sent
      BY <3>1, <3>2 DEF State
    <3>4. Good(v)
      BY <1>1, <3>3 DEF Good
    <3> QED
      BY <3>3, <3>4, WrapsSame
  <2>5. CASE ~ IsRetransmission(t, r) /\ ~ IsExpectedRid(t, r) /\ ~ IsAcceptableRid(t, r)
    <3>1. v = StopAll(u, why)
      BY <2>5 DEF v
    <3>2. why \in {"policy_violation", "invalid_rid"}
      BY DEF why
    <3>3. Good(v)
      BY <1>1, <1>3, <3>1, <3>2, HandlesStopAll DEF Handles
    <3> QED
      BY <1>1, <1>3, <3>1, <3>3, WrapsStopAll
  <2> QED
    BY <2>1, <2>2, <2>3, <2>4, <2>5
<1>6. Wraps(v, w)
  BY <1>2, <1>5, WrapsSurplus
<1> QED
  BY <1>4, <1>5, <1>6, WrapsMore

\* What a step leaves: it failed in bosh_wrap only over what was pending.
WrapStep == Unwrapped(s') => Unwrapped(s) \/ NoBody(s.pending)

LEMMA WrapFinish ==
  ASSUME NEW t \in State, NEW cs, NEW waits, NEW idle, NEW accs, NEW next,
         Finish(t, cs, waits, idle, accs, next), Unwrapped(t) => NoBody(s.pending)
  PROVE  WrapStep
<1>1. s'.stop = t.stop
  <2>1. CASE t.stop = "no"
    BY <2>1 DEF Finish, State
  <2>2. CASE t.stop # "no"
    BY <2>2 DEF Finish, Fresh
  <2> QED
    BY <2>1, <2>2
<1> QED
  BY <1>1, Zenon DEF Unwrapped, WrapStep

LEMMA ArriveWraps ==
  ASSUME SessionInv, NEW c \in DOMAIN conns, Arrive(c)
  PROVE  WrapStep
<1>1. conns[c].st = "sent" /\ Alive
  BY DEF Arrive
<1>2. s.stop = "no" /\ DOMAIN conns = 1 .. Len(conns) /\ Good(s) /\ req \in Seq(Types)
      /\ Forwarded(s) /\ DeferredOk(s)
  BY <1>1, SessionServes DEF SessionInv
<1> DEFINE r == conns[c].rid
           held == [conns EXCEPT ![c].st = "held"]
           H(ref) == [rid |-> r, ref |-> ref, conn |-> c]
           T(ref) == DetermineNextState(HandleStreamEvent(s, req[r], H(ref)), req[r])
           acc == IF req[r] \in {"streamstart", "restart"} THEN accOff + 1 ELSE accOff
           N(ref) == IF Restarts(T(ref)) /\ c2s \in {"new", "open"} THEN "start" ELSE c2s
<1>3. PICK ref \in {c, -c} : Finish(T(ref), held, waitMsgs, idleMsg, acc, N(ref))
  BY DEF Arrive
<1> DEFINE h == H(ref)
           type == req[r]
           w == HandleStreamEvent(s, type, h)
           t == DetermineNextState(w, type)
           next == N(ref)
<1>4. Finish(t, held, waitMsgs, idleMsg, acc, next)
  BY <1>3
<1>5. NewHandler(s, h) /\ h.rid \in 1 .. Len(req) /\ h.rid = r
  <2>1. /\ c \in 1 .. Len(conns) /\ h = [rid |-> conns[c].rid, ref |-> ref, conn |-> c]
        /\ held = [conns EXCEPT ![c].st = "held"]
    BY <1>2
  <2>2. h.rid = r
    OBVIOUS
  <2> HIDE DEF h, held
  <2>3. NewHandler(s, h) /\ h.rid \in 1 .. Len(req)
    BY <1>1, <2>1, ArrivalIs
  <2> QED
    BY <2>2, <2>3
<1>6. type \in Types /\ w = HandleStreamEvent(s, req[h.rid], h) /\ h.rid \in Nat
  BY <1>2, <1>5
<1> HIDE DEF acc, next, h, held, w, t, r, type
<1>7. Good(w)
  <2> DEFINE u == Added(s, h)
  <2> HIDE DEF u
  <2>1. Handles(u, w)
    BY <1>2, <1>5, <1>6, HandlesEvent DEF u
  <2> QED
    BY <2>1 DEF Handles
<1>8. Wraps(s, w)
  BY <1>2, <1>5, <1>6, WrapsEvent DEF w
<1>9. Good(t) /\ t.stop \in {w.stop, "normal"}
  BY <1>7, DeterminedIs DEF t
<1>10. Unwrapped(t) => Unwrapped(w)
  BY <1>9, Zenon DEF Unwrapped
<1>11. ~ Unwrapped(s)
  BY <1>2, OtherStop DEF OtherStops
<1>12. (Unwrapped(t) => NoBody(s.pending)) /\ t \in State
  BY <1>8, <1>9, <1>10, <1>11 DEF Wraps, Good
<1> QED
  BY ONLY <1>4, <1>12, WrapFinish

LEMMA WaitTimeoutWraps ==
  ASSUME SessionInv, NEW c \in DOMAIN conns, WaitTimeout(c), Alive
  PROVE  WrapStep
<1> DEFINE i == First(s.handlers, conns[c].rid)
           t == IF ~ HasRid(s.handlers, conns[c].rid) THEN s
                ELSE IF s.handlers[i].conn = c THEN TakeHandler(s, i)
                ELSE Crash(s)
           waits == waitMsgs \ {c}
<1>1. Finish(t, conns, waits, idleMsg, accOff, c2s)
  BY DEF WaitTimeout
<1>2. Good(s) /\ s \in State /\ s.handlers \in Seq(Handler) /\ s.stop = "no"
  BY DEF SessionInv, Good, HandlerList
<1>3. t \in State /\ t.stop \in OtherStops
  <2>1. CASE ~ HasRid(s.handlers, conns[c].rid)
    BY <1>2, <2>1 DEF OtherStops
  <2>2. CASE HasRid(s.handlers, conns[c].rid) /\ s.handlers[i].conn = c
    <3>1. t = TakeHandler(s, i)
      BY <2>2
    <3>2. i \in 1 .. Len(s.handlers)
      BY <1>2, <2>2, FirstIs
    <3> HIDE DEF t, i
    <3>3. Taken(s, i, t)
      BY <1>2, <3>1, <3>2, TakeHandlerIs
    <3> QED
      BY <1>2, <3>3 DEF Taken, Good, OtherStops
  <2>3. CASE HasRid(s.handlers, conns[c].rid) /\ s.handlers[i].conn # c
    <3>1. t = [s EXCEPT !.stop = "crash"] /\ "crash" \in Stops
      BY <2>3 DEF Crash, Stops
    <3> HIDE DEF t
    <3> QED
      BY <1>2, <3>1 DEF State, OtherStops
  <2> QED
    BY <2>1, <2>2, <2>3
<1> HIDE DEF t, waits
<1>4. ~ Unwrapped(t)
  BY <1>3, OtherStop
<1> QED
  BY ONLY <1>1, <1>3, <1>4, WrapFinish

LEMMA EndWraps ==
  ASSUME SessionInv, Alive, InactivityTimeout \/ C2SClose
  PROVE  WrapStep
<1>1. s \in State /\ s.stop = "no"
  BY DEF SessionInv, Good
<1>2. s'.stop \in OtherStops
  <2>1. CASE InactivityTimeout
    BY <1>1, <2>1 DEF InactivityTimeout, Finish, Fresh, State, OtherStops
  <2>2. CASE C2SClose
    BY <1>1, <2>2 DEF C2SClose, Finish, Fresh, State, OtherStops
  <2> QED
    BY <2>1, <2>2
<1>3. ~ Unwrapped(s')
  BY <1>2, OtherStop
<1> QED
  BY <1>3, Zenon DEF WrapStep

LEMMA AccOffWraps ==
  ASSUME SessionInv, Alive, AccOff
  PROVE  WrapStep
<1> DEFINE w == SendPending(s)
           t == IF s.name = "accumulate" THEN [w EXCEPT !.name = "normal"] ELSE s
           a == accOff - 1
<1>1. Finish(t, conns, waitMsgs, idleMsg, a, c2s)
  BY DEF AccOff
<1>2. Good(s) /\ s \in State /\ s.stop = "no"
  BY DEF SessionInv, Good
<1>3. Wraps(s, w) /\ w \in State
  <2>1. Sends(s, w)
    BY <1>2, SendsPending
  <2>2. Wraps(s, w)
    BY <1>2, WrapsPending
  <2> HIDE DEF w
  <2> QED
    BY <2>1, <2>2 DEF Sends, Answers, Good
<1> HIDE DEF w
<1>4. t \in State /\ t.stop \in {s.stop, w.stop}
  BY <1>2, <1>3 DEF State, Names
<1> HIDE DEF t, a
<1>5. ~ Unwrapped(s)
  BY <1>2, OtherStop DEF OtherStops
<1>6. Unwrapped(t) => Unwrapped(s) \/ Unwrapped(w)
  BY <1>4, Zenon DEF Unwrapped
<1>7. Unwrapped(t) => NoBody(s.pending)
  BY <1>3, <1>5, <1>6 DEF Wraps
<1> QED
  BY ONLY <1>1, <1>4, <1>7, WrapFinish

\* What c2s sends is wrapped alone: when a request can take it, nothing waits.
LEMMA SendWraps ==
  ASSUME SessionInv, HoldInv, Alive, c2s \in {"start", "open"}, NEW e \in Elements, NEW next,
         Send(e, next)
  PROVE  WrapStep
<1> DEFINE w == HandleSend(s, e)
<1>1. Finish(w, conns, waitMsgs, idleMsg, accOff, next)
  BY DEF Send
<1>2. /\ Good(s) /\ s \in State /\ s.pending \in Seq(Elements) /\ s.stop = "no" /\ Held(s)
      /\ ~ Has(s.pending, End)
  BY StateIs DEF SessionInv, Good, HoldInv
<1>3. w \in State
  <2> HIDE DEF w
  <2>1. PICK u : Handles(u, w)
    BY <1>2, HandlesSend DEF w
  <2> QED
    BY <2>1 DEF Handles, Good
<1>4. w.stop = s.stop
  <2>1. CASE s.name # "normal"
    BY <1>2, <2>1 DEF HandleSend, State
  <2>2. CASE s.name = "normal" /\ ~ Valid(s)
    <3>1. \/ \E p : w = [s EXCEPT !.pending = p]
          \/ \E p, q : w = [[s EXCEPT !.pending = p] EXCEPT !.pending = q]
      <4>1. ~ Valid([s EXCEPT !.pending = <<>>])
        BY <1>2, <2>2 DEF Valid, State
      <4> QED
        BY <2>2, <4>1 DEF HandleSend, SendOrStore
    <3> HIDE DEF w
    <3> QED
      BY <1>2, <3>1 DEF State
  <2>3. CASE s.name = "normal" /\ Valid(s)
    <3> DEFINE v == [s EXCEPT !.pending = <<>>]
               data == <<e>>
    <3>1. s.pending = <<>> /\ s.handlers # <<>>
      BY <1>2, <2>3, ValidHasHandler DEF Held
    <3>2. v = s
      BY <1>2, <3>1 DEF State
    <3>3. Append(s.pending, e) = data
      BY <3>1
    <3>4. w = SendToFirst(s, data)
      <4>1. w = SendOrStore(s, data)
        BY <2>3, <3>2, <3>3 DEF HandleSend
      <4> QED
        BY <2>3, <4>1 DEF SendOrStore
    <3>5. ~ NoBody(data) /\ data \in Seq(Elements)
      BY OneEvent
    <3> HIDE DEF w, v, data
    <3> QED
      BY <1>2, <3>1, <3>4, <3>5, SendToFirstIs
  <2> QED
    BY <2>1, <2>2, <2>3
<1> HIDE DEF w
<1>5. ~ Unwrapped(w)
  BY <1>2, <1>4, OtherStop DEF OtherStops
<1> QED
  BY ONLY <1>1, <1>3, <1>5, WrapFinish

LEMMA C2SWraps ==
  ASSUME SessionInv, HoldInv, Alive, C2SStart \/ C2SStanza \/ C2SEnd
  PROVE  WrapStep
<1>1. MaxOut \in Nat /\ out \in 0 .. MaxOut
  BY BoshAssumption DEF SessionInv
<1>2. Start \in Elements /\ End \in Elements
  BY <1>1 DEF Elements, Start, End
<1>3. \E e \in Elements : \E next : c2s \in {"start", "open"} /\ Send(e, next)
  <2>1. CASE C2SStart
    BY <1>2, <2>1 DEF C2SStart
  <2>2. CASE C2SStanza
    <3> DEFINE e == out + 1
    <3>1. e \in Elements /\ c2s \in {"start", "open"} /\ Send(e, "open")
      BY <1>1, <2>2 DEF C2SStanza, Elements, End
    <3> HIDE DEF e
    <3> QED
      BY <3>1
  <2>3. CASE C2SEnd
    BY <1>2, <2>3 DEF C2SEnd
  <2> QED
    BY <2>1, <2>2, <2>3
<1> QED
  BY <1>3, SendWraps

\* Two stream events, of which at most the last is an end, have a start.
LEMMA StartIsThere ==
  ASSUME NEW q \in Seq(Elements), EndLast(q), NoBody(q)
  PROVE  Has(q, Start)
<1>1. PICK i, j \in DOMAIN q : i # j /\ {q[i], q[j]} \subseteq {Start, End}
  BY DEF NoBody
<1>2. DOMAIN q = 1 .. Len(q)
  OBVIOUS
<1>3. q[i] # End \/ q[j] # End
  BY <1>1, <1>2 DEF EndLast
<1> QED
  BY <1>1, <1>3 DEF Has

\* The process fails in bosh_wrap only over the start of a stream and another
\* stream event that were pending before the step: send_or_store puts nothing
\* to what is pending when a request can take it, and what it leaves behind is a
\* single stream end.
THEOREM BoshWrapFails == Spec => WrapFails
<1>1. ASSUME SessionInv, HoldInv, Next, Alive
      PROVE  WrapStep
  <2>1. ASSUME s' = s \/ s' = [s EXCEPT !.idle = FALSE]
        PROVE  WrapStep
    <3>1. s \in State
      BY <1>1 DEF SessionInv, Good
    <3>2. s'.stop = s.stop
      BY <2>1, <3>1 DEF State
    <3> QED
      BY <3>2, Zenon DEF WrapStep, Unwrapped
  <2>2. ASSUME NEW c \in DOMAIN conns, OnConnection(c) \/ Break(c)
        PROVE  WrapStep
    <3>1. CASE NoSession(c) \/ WaitFires(c) \/ Receive(c) \/ Break(c)
      <4>1. s' = s
        BY <3>1 DEF NoSession, WaitFires, Receive, Break
      <4> QED
        BY <2>1, <4>1
    <3>2. CASE Arrive(c) \/ WaitTimeout(c)
      BY <1>1, <3>2, ArriveWraps, WaitTimeoutWraps
    <3> QED
      BY <2>2, <3>1, <3>2 DEF OnConnection
  <2>3. CASE InactivityFires
    <3>1. s' = [s EXCEPT !.idle = FALSE]
      BY <2>3 DEF InactivityFires
    <3> QED
      BY <2>1, <3>1
  <2>4. CASE InactivityTimeout \/ C2SClose \/ AccOff
    BY <1>1, <2>4, EndWraps, AccOffWraps
  <2>5. CASE C2SStart \/ C2SStanza \/ C2SEnd
    BY <1>1, <2>5, C2SWraps
  <2>6. CASE (\E type \in Types : Request(type)) \/ (\E r \in DOMAIN req : Repeat(r))
    <3>1. s' = s
      BY <2>6 DEF Request, Repeat, Transmit
    <3> QED
      BY <2>1, <3>1
  <2> QED
    BY <1>1, <2>2, <2>3, <2>4, <2>5, <2>6 DEF Next
<1>2. ASSUME SessionInv, HoldInv, [Next]_vars
      PROVE  [Alive /\ s'.stop = "no body" => Has(s.pending, Start) /\ NoBody(s.pending)]_vars
  <2> SUFFICES ASSUME Next, Alive, Unwrapped(s')
               PROVE  Has(s.pending, Start) /\ NoBody(s.pending)
    BY <1>2, Zenon DEF Unwrapped
  <2>1. s.stop = "no" /\ s.pending \in Seq(Elements) /\ EndLast(s.pending)
    BY <1>2, StateIs DEF SessionInv, Good
  <2>2. ~ Unwrapped(s)
    BY <2>1, OtherStop DEF OtherStops
  <2>3. NoBody(s.pending)
    BY <1>1, <1>2, <2>2 DEF WrapStep
  <2> QED
    BY <2>1, <2>3, StartIsThere
<1> QED
  BY <1>2, SessionAlways, HoldAlways, PTL DEF Spec, WrapFails

-------------------------------------------------------------------------------
(***************************************************************************)
(* The cached responses                                                    *)
(***************************************************************************)

\* The cache has a response for each of its rids, lower ones first.
Rising(q) == \A i, j \in 1 .. Len(q) : i < j => q[i].rid < q[j].rid

IsCached(q, r, els) == r \in SentRids(q) /\ CachedResponse(q, r) = els

LEMMA CachedIs ==
  ASSUME NEW q \in Seq(CacheEntry), Rising(q), NEW i \in 1 .. Len(q)
  PROVE  IsCached(q, q[i].rid, q[i].els)
<1> DEFINE r == q[i].rid
<1>1. Len(q) \in Nat /\ \A j \in 1 .. Len(q) : q[j].rid \in Nat
  <2>1. \A j \in 1 .. Len(q) : q[j] \in CacheEntry
    OBVIOUS
  <2>2. \A e \in CacheEntry : e.rid \in Nat
    BY ONLY DEF CacheEntry
  <2>3. Len(q) \in Nat
    BY ONLY q \in Seq(CacheEntry)
  <2> QED
    BY ONLY <2>1, <2>2, <2>3
<1>2. HasRid(q, r)
  BY DEF HasRid
<1> HIDE DEF r
<1>3. First(q, r) \in 1 .. Len(q) /\ q[First(q, r)].rid = r
  BY <1>2, FirstIs
<1>4. First(q, r) = i
  BY <1>1, <1>3 DEF Rising, r
<1> QED
  BY <1>4 DEF IsCached, CachedResponse, SentRids, r

\* A response is merged in where it belongs.
LEMMA MergedIs ==
  ASSUME NEW q \in Seq(CacheEntry), Rising(q), NEW r \in Nat, r \notin SentRids(q),
         NEW els \in Seq(Elements), NEW m, m = Merged(q, r, els)
  PROVE  /\ m \in Seq(CacheEntry) /\ Len(m) = Len(q) + 1 /\ Rising(m)
         /\ SentRids(m) = SentRids(q) \cup {r} /\ IsCached(m, r, els)
         /\ \A x \in SentRids(q) : CachedResponse(m, x) = CachedResponse(q, x)
<1> DEFINE e == [rid |-> r, els |-> els]
           k == Lower(q, r) + 1
<1>1. Len(q) \in Nat /\ \A j \in 1 .. Len(q) : q[j].rid \in Nat
  <2>1. \A j \in 1 .. Len(q) : q[j] \in CacheEntry
    OBVIOUS
  <2> QED
    BY <2>1 DEF CacheEntry
<1>2. e \in CacheEntry /\ e.rid = r /\ e.els = els
  BY DEF CacheEntry
<1>3. /\ Lower(q, r) \in 0 .. Len(q)
      /\ \A i \in 1 .. Lower(q, r) : q[i].rid < r
      /\ Lower(q, r) < Len(q) => q[Lower(q, r) + 1].rid >= r
  BY LowerIs
<1>4. k \in 1 .. Len(q) + 1 /\ (\A i \in 1 .. k - 1 : q[i].rid < r)
      /\ (k <= Len(q) => q[k].rid >= r)
  BY <1>1, <1>3
<1>5. m = InsertAt(q, k, e)
  BY DEF Merged
<1> HIDE DEF e, k
<1>6. m \in Seq(CacheEntry) /\ Len(m) = Len(q) + 1
      /\ \A j \in 1 .. Len(q) + 1 :
           m[j] = IF j < k THEN q[j] ELSE IF j = k THEN e ELSE q[j - 1]
  <2>1. /\ InsertAt(q, k, e) \in Seq(CacheEntry) /\ Len(InsertAt(q, k, e)) = Len(q) + 1
        /\ \A j \in 1 .. Len(q) + 1 :
             InsertAt(q, k, e)[j] = IF j < k THEN q[j] ELSE IF j = k THEN e ELSE q[j - 1]
    BY ONLY q \in Seq(CacheEntry), <1>2, <1>4, InsertAtSeq
  <2> QED
    BY ONLY <1>5, <2>1
<1>7. \A i \in 1 .. Len(q) : i >= k => q[i].rid > r
  <2> SUFFICES ASSUME NEW i \in 1 .. Len(q), i >= k
               PROVE  q[i].rid > r
    OBVIOUS
  <2>1. k \in 1 .. Len(q) /\ q[k].rid >= r /\ q[k].rid # r
    BY <1>1, <1>4 DEF SentRids
  <2>2. i = k \/ q[k].rid < q[i].rid
    BY <1>1, <2>1 DEF Rising
  <2> QED
    BY <1>1, <2>1, <2>2
<1>8. Rising(m)
  <2> SUFFICES ASSUME NEW i \in 1 .. Len(q) + 1, NEW j \in 1 .. Len(q) + 1, i < j
               PROVE  m[i].rid < m[j].rid
    BY <1>6 DEF Rising
  <2>1. CASE j < k
    <3>1. m[i] = q[i] /\ m[j] = q[j] /\ i \in 1 .. Len(q) /\ j \in 1 .. Len(q)
      BY <1>1, <1>4, <1>6, <2>1
    <3> QED
      BY <3>1 DEF Rising
  <2>2. CASE j = k
    <3>1. m[i] = q[i] /\ m[j] = e /\ i \in 1 .. k - 1
      BY <1>1, <1>4, <1>6, <2>2
    <3> QED
      BY <1>2, <1>4, <3>1
  <2>3. CASE j > k
    <3>1. m[j] = q[j - 1] /\ j - 1 \in 1 .. Len(q) /\ j - 1 >= k
      BY <1>1, <1>4, <1>6, <2>3
    <3>2. q[j - 1].rid > r /\ q[j - 1].rid \in Nat
      BY <1>1, <1>7, <3>1
    <3>3. CASE i < k
      <4>1. m[i] = q[i] /\ i \in 1 .. k - 1 /\ i \in 1 .. Len(q)
        BY <1>1, <1>4, <1>6, <3>3
      <4> QED
        BY <1>1, <1>4, <3>1, <3>2, <4>1
    <3>4. CASE i = k
      BY <1>2, <1>6, <3>1, <3>2, <3>4
    <3>5. CASE i > k
      <4>1. m[i] = q[i - 1] /\ i - 1 \in 1 .. Len(q) /\ i - 1 < j - 1
        BY <1>1, <1>4, <1>6, <3>5
      <4> QED
        BY <3>1, <4>1 DEF Rising
    <3> QED
      BY <1>4, <3>3, <3>4, <3>5
  <2> QED
    BY <1>4, <2>1, <2>2, <2>3
<1>9. k \in 1 .. Len(m) /\ m[k].rid = r /\ m[k].els = els
  BY <1>2, <1>4, <1>6
<1>10. IsCached(m, r, els)
  BY <1>6, <1>8, <1>9, CachedIs
<1>11. ASSUME NEW i \in 1 .. Len(q)
       PROVE  IsCached(m, q[i].rid, q[i].els)
  <2>1. CASE i < k
    <3>1. i \in 1 .. Len(m) /\ m[i] = q[i]
      BY <1>1, <1>6, <2>1
    <3> QED
      BY <1>6, <1>8, <3>1, CachedIs
  <2>2. CASE ~ (i < k)
    <3>1. i + 1 \in 1 .. Len(m) /\ m[i + 1] = q[i]
      <4>1. i + 1 \in 1 .. Len(q) + 1 /\ ~ (i + 1 < k) /\ i + 1 # k /\ (i + 1) - 1 = i
        BY <1>1, <1>4, <2>2
      <4> QED
        BY <1>6, <4>1
    <3>2. IsCached(m, m[i + 1].rid, m[i + 1].els)
      BY <1>6, <1>8, <3>1, CachedIs
    <3> QED
      BY <3>1, <3>2
  <2> QED
    BY <2>1, <2>2
<1>12. \A x \in SentRids(q) : x \in SentRids(m) /\ CachedResponse(m, x) = CachedResponse(q, x)
  <2> SUFFICES ASSUME NEW i \in 1 .. Len(q)
               PROVE  /\ q[i].rid \in SentRids(m)
                      /\ CachedResponse(m, q[i].rid) = CachedResponse(q, q[i].rid)
    BY DEF SentRids
  <2>1. IsCached(q, q[i].rid, q[i].els)
    BY CachedIs
  <2> QED
    BY <1>11, <2>1 DEF IsCached
<1>13. SentRids(m) \subseteq SentRids(q) \cup {r}
  <2> SUFFICES ASSUME NEW j \in 1 .. Len(q) + 1, m[j].rid # r
               PROVE  m[j].rid \in SentRids(q)
    BY <1>6 DEF SentRids
  <2>1. j # k
    BY <1>2, <1>6
  <2>2. \E i \in 1 .. Len(q) : m[j] = q[i]
    <3>1. CASE j < k
      BY <1>1, <1>4, <1>6, <3>1
    <3>2. CASE ~ (j < k)
      <4>1. j - 1 \in 1 .. Len(q) /\ m[j] = q[j - 1]
        BY <1>1, <1>4, <1>6, <2>1, <3>2
      <4> QED
        BY <4>1
    <3> QED
      BY <3>1, <3>2
  <2> QED
    BY <2>2 DEF SentRids
<1>14. SentRids(m) = SentRids(q) \cup {r}
  BY <1>10, <1>12, <1>13 DEF IsCached
<1> QED
  BY <1>6, <1>8, <1>10, <1>12, <1>14

\* What cache_up_to drops is below the last two requests n and n - 1.
LEMMA UpToIs ==
  ASSUME NEW m \in Seq(CacheEntry), Rising(m), Len(m) <= ConcurrentRequests + 1,
         NEW n \in Nat, SentRids(m) \subseteq 1 .. n, NEW p, p = CacheUpTo(m)
  PROVE  /\ p \in Seq(CacheEntry) /\ Rising(p) /\ SentRids(p) \subseteq SentRids(m)
         /\ \A x \in SentRids(p) : CachedResponse(p, x) = CachedResponse(m, x)
         /\ \A x \in SentRids(m) : n <= x + 1 => x \in SentRids(p)
<1>1. Len(m) \in Nat /\ \A j \in 1 .. Len(m) : m[j].rid \in 1 .. n
  BY DEF SentRids
<1>2. CASE ~ (Len(m) > ConcurrentRequests)
  BY <1>2 DEF CacheUpTo
<1>3. CASE Len(m) > ConcurrentRequests
  <2>1. Len(m) = 3 /\ m # <<>> /\ p = Tail(m)
    <3>1. p = Tail(m)
      BY <1>3 DEF CacheUpTo
    <3>2. Len(m) = 3
      <4> DEFINE l == Len(m)
      <4>1. l \in Nat /\ l <= 2 + 1 /\ l > 2
        BY <1>1, <1>3 DEF ConcurrentRequests
      <4> HIDE DEF l
      <4>2. l = 3
        BY ONLY <4>1
      <4> QED
        BY <4>2 DEF l
    <3>3. m # <<>>
      BY ONLY <3>2, Len(<<>>) = 0
    <3> QED
      BY <3>1, <3>2, <3>3
  <2>2. p \in Seq(CacheEntry) /\ Len(p) = 2 /\ \A j \in 1 .. 2 : p[j] = m[j + 1]
    <3>1. /\ Tail(m) \in Seq(CacheEntry) /\ Len(Tail(m)) = Len(m) - 1
          /\ \A j \in 1 .. Len(m) - 1 : Tail(m)[j] = m[j + 1]
      BY ONLY <2>1, m \in Seq(CacheEntry), TailSeq
    <3> QED
      BY ONLY <2>1, <3>1
  <2>3. p[1] = m[2] /\ p[2] = m[3]
    BY <2>2
  <2>4. m[1].rid < m[2].rid /\ m[2].rid < m[3].rid
    BY <2>1 DEF Rising
  <2>5. Rising(p)
    BY <1>1, <2>1, <2>2, <2>3, <2>4 DEF Rising
  <2>6. /\ IsCached(p, m[2].rid, m[2].els) /\ IsCached(p, m[3].rid, m[3].els)
        /\ IsCached(m, m[2].rid, m[2].els) /\ IsCached(m, m[3].rid, m[3].els)
    <3>0. Len(p) = 2 /\ Len(m) = 3
      BY <2>1, <2>2
    <3>1. 1 \in 1 .. Len(p) /\ 2 \in 1 .. Len(p) /\ 2 \in 1 .. Len(m) /\ 3 \in 1 .. Len(m)
      BY ONLY <3>0
    <3>2. \A i \in 1 .. Len(p) : IsCached(p, p[i].rid, p[i].els)
      BY <2>2, <2>5, CachedIs
    <3>3. IsCached(m, m[2].rid, m[2].els) /\ IsCached(m, m[3].rid, m[3].els)
      BY <3>1, CachedIs
    <3> QED
      BY <2>3, <3>1, <3>2, <3>3
  <2>7. SentRids(p) = {m[2].rid, m[3].rid}
    BY <2>2, <2>3 DEF SentRids
  <2>8. SentRids(m) = {m[1].rid, m[2].rid, m[3].rid}
    BY <2>1 DEF SentRids
  <2>9. m[1].rid \in Nat /\ m[2].rid \in Nat /\ m[3].rid \in Nat /\ m[3].rid <= n
    BY <1>1, <2>1
  <2>10. ~ (n <= m[1].rid + 1)
    <3> DEFINE a == m[1].rid
               b == m[2].rid
               c == m[3].rid
    <3>1. a \in Nat /\ b \in Nat /\ c \in Nat /\ c <= n /\ a < b /\ b < c
      BY <2>4, <2>9
    <3> HIDE DEF a, b, c
    <3>2. ~ (n <= a + 1)
      BY ONLY <3>1, n \in Nat
    <3> QED
      BY <3>2 DEF a
  <2> QED
    BY <2>2, <2>5, <2>6, <2>7, <2>8, <2>10 DEF IsCached
<1> QED
  BY <1>2, <1>3

\* The client's window: a request without an answer is one of its last two.
Window(g) == \A r \in 1 .. Len(g) : g[r] = NoAnswer => Len(g) <= r + 1

\* The responses of the client.
Responses == Seq(Bodies \cup {NoAnswer})

\* cache_response keeps the responses to the requests of the window.
LEMMA CacheKeeps ==
  ASSUME NEW q \in Seq(CacheEntry), Len(q) <= ConcurrentRequests, Rising(q),
         NEW n \in Nat, SentRids(q) \subseteq 1 .. n, NEW r \in 1 .. n, r \notin SentRids(q),
         NEW els \in Seq(Elements), NEW p, p = CacheResponse(q, r, els)
  PROVE  /\ Rising(p) /\ SentRids(p) \subseteq SentRids(q) \cup {r}
         /\ n <= r + 1 => IsCached(p, r, els)
         /\ \A x \in SentRids(q) : n <= x + 1 => x \in SentRids(p)
         /\ \A x \in SentRids(q) : x \in SentRids(p) => CachedResponse(p, x) = CachedResponse(q, x)
<1> DEFINE m == Merged(q, r, els)
<1>1. r \in Nat /\ Len(q) \in Nat
  OBVIOUS
<1>2. p = CacheUpTo(m)
  BY DEF CacheResponse
<1>3. /\ m \in Seq(CacheEntry) /\ Len(m) = Len(q) + 1 /\ Rising(m)
      /\ SentRids(m) = SentRids(q) \cup {r} /\ IsCached(m, r, els)
      /\ \A x \in SentRids(q) : CachedResponse(m, x) = CachedResponse(q, x)
  BY <1>1, MergedIs
<1> HIDE DEF m
<1>4. Len(m) <= ConcurrentRequests + 1 /\ SentRids(m) \subseteq 1 .. n
  <2>1. Len(m) <= ConcurrentRequests + 1
    BY ONLY <1>1, <1>3, Len(q) <= ConcurrentRequests DEF ConcurrentRequests
  <2> QED
    BY <1>3, <2>1
<1>5. /\ p \in Seq(CacheEntry) /\ Rising(p) /\ SentRids(p) \subseteq SentRids(m)
      /\ \A x \in SentRids(p) : CachedResponse(p, x) = CachedResponse(m, x)
      /\ \A x \in SentRids(m) : n <= x + 1 => x \in SentRids(p)
  BY ONLY <1>2, <1>3, <1>4, UpToIs, n \in Nat, SMTT(30)
<1> QED
  BY <1>3, <1>5 DEF IsCached

\* What the client has as the response to r, or gets when it repeats r.
Told(q, g, r) ==
    IF g[r] # NoAnswer THEN g[r]
    ELSE IF r \in SentRids(q) THEN CachedResponse(q, r) ELSE <<>>

\* The cache tells the client one response more.
LEMMA ToldAfter ==
  ASSUME NEW q \in Seq(CacheEntry), Len(q) <= ConcurrentRequests, Rising(q),
         NEW g \in Responses, Window(g), SentRids(q) \subseteq 1 .. Len(g),
         NEW r \in 1 .. Len(g), r \notin SentRids(q), g[r] = NoAnswer,
         NEW els \in Seq(Elements), NEW p, p = CacheResponse(q, r, els)
  PROVE  /\ IsCached(p, r, els)
         /\ \A x \in 1 .. Len(g) : Told(p, g, x) = IF x = r THEN els ELSE Told(q, g, x)
<1> DEFINE n == Len(g)
<1>1. n \in Nat
  BY DEF Responses
<1>2. \A x \in 1 .. n : g[x] = NoAnswer => n <= x + 1
  BY DEF Window
<1> SUFFICES /\ IsCached(p, r, els)
             /\ \A x \in 1 .. n : Told(p, g, x) = IF x = r THEN els ELSE Told(q, g, x)
  OBVIOUS
<1>3. SentRids(q) \subseteq 1 .. n /\ r \in 1 .. n
  OBVIOUS
<1> HIDE DEF n
<1>4. /\ Rising(p) /\ SentRids(p) \subseteq SentRids(q) \cup {r}
      /\ n <= r + 1 => IsCached(p, r, els)
      /\ \A x \in SentRids(q) : n <= x + 1 => x \in SentRids(p)
      /\ \A x \in SentRids(q) : x \in SentRids(p) => CachedResponse(p, x) = CachedResponse(q, x)
  BY <1>1, <1>3, CacheKeeps
<1>5. IsCached(p, r, els)
  BY <1>2, <1>3, <1>4
<1>6. ASSUME NEW x \in 1 .. n, x # r
      PROVE  Told(p, g, x) = Told(q, g, x)
  <2>1. CASE g[x] # NoAnswer
    BY <2>1 DEF Told
  <2>2. CASE g[x] = NoAnswer
    <3>1. x \in SentRids(p) <=> x \in SentRids(q)
      BY <1>2, <1>4, <1>6, <2>2
    <3>2. x \in SentRids(q) => CachedResponse(p, x) = CachedResponse(q, x)
      BY <1>4, <3>1
    <3> QED
      BY <2>2, <3>1, <3>2 DEF Told
  <2> QED
    BY <2>1, <2>2
<1>7. Told(p, g, r) = els
  BY <1>5 DEF Told, IsCached
<1> QED
  BY <1>5, <1>6, <1>7

(***************************************************************************)
(* The stanzas of c2s, in the parts that the client was told and one that  *)
(* is pending                                                              *)
(***************************************************************************)

\* The parts hold the stanzas 1 to n, in order.
Line(P, n) ==
    /\ \A e \in 1 .. n : \E x \in DOMAIN P : Has(P[x], e)
    /\ \A x \in DOMAIN P : \A k \in DOMAIN P[x] : P[x][k] <= n
    /\ \A x, y \in DOMAIN P : \A j \in DOMAIN P[x], k \in DOMAIN P[y] :
         (x < y \/ (x = y /\ j < k)) /\ P[x][j] > 0 /\ P[y][k] > 0 => P[x][j] < P[y][k]

\* The stanzas of the last part move to an empty one, behind which all are empty.
LEMMA LineMoves ==
  ASSUME NEW m \in Nat, NEW P \in [1 .. m -> Seq(Int)], NEW Q \in [1 .. m -> Seq(Int)],
         NEW f \in 1 .. m, f # m, NEW n \in Nat, Line(P, n),
         \A x \in 1 .. m : x >= f /\ x # m => P[x] = <<>>,
         \A x \in 1 .. m : x # f /\ x # m => Q[x] = P[x],
         \A j \in DOMAIN Q[f] : j \in DOMAIN P[m] /\ Q[f][j] = P[m][j],
         \A j \in DOMAIN P[m] : j \in DOMAIN Q[f] \/ P[m][j] <= 0,
         \A j \in DOMAIN Q[m] : Q[m][j] <= 0
  PROVE  Line(Q, n)
<1>1. \A x \in 1 .. m : \A j \in DOMAIN P[x] : P[x][j] \in Int /\ j \in Int
  <2>1. \A x \in 1 .. m : P[x] \in Seq(Int)
    OBVIOUS
  <2> QED
    BY <2>1
<1>2. \A x \in 1 .. m : \A j \in DOMAIN Q[x] : Q[x][j] \in Int /\ j \in Int
  <2>1. \A x \in 1 .. m : Q[x] \in Seq(Int)
    OBVIOUS
  <2> QED
    BY <2>1
<1>3. DOMAIN P = 1 .. m /\ DOMAIN Q = 1 .. m
  OBVIOUS
<1>4. \A x \in 1 .. m : x >= f /\ x # m => \A j \in DOMAIN P[x] : FALSE
  OBVIOUS
<1> DEFINE at(x) == IF x = f THEN m ELSE x
<1>5. ASSUME NEW x \in 1 .. m, NEW j \in DOMAIN Q[x], Q[x][j] > 0
      PROVE  /\ x <= f /\ at(x) \in 1 .. m /\ j \in DOMAIN P[at(x)]
             /\ P[at(x)][j] = Q[x][j]
  <2>1. x # m
    BY <1>2, <1>5
  <2>2. CASE x = f
    BY <2>2
  <2>3. CASE x # f
    <3>1. Q[x] = P[x]
      BY <2>1, <2>3
    <3>2. ~ (x >= f)
      BY <1>4, <2>1, <3>1
    <3> QED
      BY <2>3, <3>1, <3>2
  <2> QED
    BY <2>2, <2>3
<1>6. ASSUME NEW e \in 1 .. n
      PROVE  \E x \in 1 .. m : Has(Q[x], e)
  <2>1. PICK x \in 1 .. m : Has(P[x], e)
    BY <1>3 DEF Line
  <2>2. PICK j \in DOMAIN P[x] : P[x][j] = e
    BY <2>1 DEF Has
  <2>3. CASE x = m
    <3>1. j \in DOMAIN Q[f] /\ Q[f][j] = e
      BY <1>1, <2>2, <2>3
    <3> QED
      BY <3>1 DEF Has
  <2>4. CASE x # m
    <3>1. Q[x] = P[x]
      BY <1>4, <2>2, <2>4
    <3> QED
      BY <2>1, <3>1
  <2> QED
    BY <2>3, <2>4
<1>7. ASSUME NEW x \in 1 .. m, NEW k \in DOMAIN Q[x]
      PROVE  Q[x][k] <= n
  <2>1. CASE Q[x][k] > 0
    <3>1. at(x) \in 1 .. m /\ k \in DOMAIN P[at(x)] /\ P[at(x)][k] = Q[x][k]
      BY <1>5, <2>1
    <3> HIDE DEF at
    <3> QED
      BY <1>3, <3>1 DEF Line
  <2>2. CASE ~ (Q[x][k] > 0)
    BY <1>2, <2>2
  <2> QED
    BY <2>1, <2>2
<1>8. ASSUME NEW x \in 1 .. m, NEW y \in 1 .. m, NEW j \in DOMAIN Q[x], NEW k \in DOMAIN Q[y],
             x < y \/ (x = y /\ j < k), Q[x][j] > 0, Q[y][k] > 0
      PROVE  Q[x][j] < Q[y][k]
  <2>1. /\ x <= f /\ at(x) \in 1 .. m /\ j \in DOMAIN P[at(x)] /\ P[at(x)][j] = Q[x][j]
        /\ y <= f /\ at(y) \in 1 .. m /\ k \in DOMAIN P[at(y)] /\ P[at(y)][k] = Q[y][k]
    BY <1>5, <1>8
  <2>2. at(x) < at(y) \/ (at(x) = at(y) /\ j < k)
    <3>1. x <= f /\ y <= f /\ (x < y \/ (x = y /\ j < k))
      BY <1>8, <2>1
    <3>2. /\ m \in Nat /\ f \in Nat /\ f < m
          /\ x \in Nat /\ x <= f /\ y \in Nat /\ y <= f
      BY ONLY <3>1, m \in Nat, f \in 1 .. m, f # m, x \in 1 .. m, y \in 1 .. m
    <3>3. CASE x = f
      BY ONLY <3>1, <3>2, <3>3
    <3>4. CASE x # f /\ y = f
      BY ONLY <3>1, <3>2, <3>4
    <3>5. CASE x # f /\ y # f
      BY ONLY <3>1, <3>5
    <3> QED
      BY ONLY <3>3, <3>4, <3>5
  <2> HIDE DEF at
  <2>3. P[at(x)][j] > 0 /\ P[at(y)][k] > 0
    BY <1>8, <2>1
  <2>4. P[at(x)][j] < P[at(y)][k]
    BY <1>3, <2>1, <2>2, <2>3 DEF Line
  <2> QED
    BY <2>1, <2>4
<1> QED
  BY ONLY <1>3, <1>6, <1>7, <1>8 DEF Line

\* An element is added to the last part: the next stanza, or no stanza.
Appends(P, Q, m, e) ==
    (\A x \in 1 .. m : x # m => Q[x] = P[x]) /\ Q[m] = Append(P[m], e)

Counts(e, n, o) == (e <= 0 /\ o = n) \/ (e = n + 1 /\ o = n + 1)

LEMMA LineAppend ==
  ASSUME NEW m \in Nat, m > 0, NEW P \in [1 .. m -> Seq(Int)], NEW Q \in [1 .. m -> Seq(Int)],
         NEW n \in Nat, Line(P, n), NEW e \in Int, NEW o \in Nat, Counts(e, n, o),
         Appends(P, Q, m, e)
  PROVE  Line(Q, o)
<1>a. (e <= 0 /\ o = n) \/ (e = n + 1 /\ o = n + 1)
  BY DEF Counts
<1>b. \A x \in 1 .. m : x # m => Q[x] = P[x]
  BY DEF Appends
<1>c. Q[m] = Append(P[m], e)
  BY DEF Appends
<1> USE <1>a, <1>b
<1> DEFINE l == Len(P[m])
<1>1. \A x \in 1 .. m : \A j \in DOMAIN P[x] : P[x][j] \in Int /\ j \in Int
  <2>1. \A x \in 1 .. m : P[x] \in Seq(Int)
    OBVIOUS
  <2> QED
    BY <2>1
<1>2. DOMAIN P = 1 .. m /\ DOMAIN Q = 1 .. m /\ m \in 1 .. m
  OBVIOUS
<1>3. /\ l \in Nat /\ DOMAIN P[m] = 1 .. l /\ DOMAIN Q[m] = 1 .. l + 1 /\ Q[m][l + 1] = e
      /\ \A j \in 1 .. l : Q[m][j] = P[m][j]
  <2>1. P[m] \in Seq(Int)
    OBVIOUS
  <2> QED
    BY ONLY <1>c, <2>1, e \in Int
<1> HIDE DEF l
<1>4. ASSUME NEW x \in 1 .. m, NEW j \in DOMAIN Q[x]
      PROVE  \/ x = m /\ j = l + 1 /\ Q[x][j] = e
             \/ j \in DOMAIN P[x] /\ Q[x][j] = P[x][j]
  <2>1. CASE x = m
    <3>1. j \in 1 .. l + 1
      BY <1>3, <2>1
    <3>2. CASE j = l + 1
      BY <1>3, <2>1, <3>2
    <3>3. CASE j # l + 1
      <4>1. j \in 1 .. l
        BY ONLY <1>3, <3>1, <3>3
      <4> QED
        BY <1>3, <2>1, <4>1
    <3> QED
      BY <3>2, <3>3
  <2>2. CASE x # m
    BY <2>2
  <2> QED
    BY <2>1, <2>2
<1>5. ASSUME NEW x \in 1 .. m, NEW j \in DOMAIN P[x]
      PROVE  j \in DOMAIN Q[x] /\ Q[x][j] = P[x][j]
  <2>1. CASE x = m
    BY <1>3, <2>1
  <2>2. CASE x # m
    BY <2>2
  <2> QED
    BY <2>1, <2>2
<1>6. ASSUME NEW i \in 1 .. o
      PROVE  \E x \in 1 .. m : Has(Q[x], i)
  <2>1. CASE i = e
    BY <1>2, <1>3, <2>1, SMTT(30) DEF Has
  <2>2. CASE i # e
    <3>1. i \in 1 .. n
      BY ONLY <1>a, <2>2, i \in 1 .. o, n \in Nat, o \in Nat
    <3>2. PICK x \in 1 .. m : Has(P[x], i)
      BY <1>2, <3>1 DEF Line
    <3> QED
      BY <1>5, <3>2 DEF Has
  <2> QED
    BY <2>1, <2>2
<1>7. ASSUME NEW x \in 1 .. m, NEW j \in DOMAIN P[x]
      PROVE  P[x][j] <= n
  BY <1>2 DEF Line
<1>8. ASSUME NEW x \in 1 .. m, NEW k \in DOMAIN Q[x]
      PROVE  Q[x][k] <= o
  <2>1. CASE Q[x][k] = e
    BY <2>1
  <2>2. CASE k \in DOMAIN P[x] /\ Q[x][k] = P[x][k]
    <3>1. P[x][k] <= n /\ P[x][k] \in Int
      BY <1>1, <1>7, <2>2
    <3> QED
      BY <2>2, <3>1
  <2> QED
    BY <1>4, <2>1, <2>2
<1>9. ASSUME NEW x \in 1 .. m, NEW y \in 1 .. m, NEW j \in DOMAIN Q[x], NEW k \in DOMAIN Q[y],
             x < y \/ (x = y /\ j < k), Q[x][j] > 0, Q[y][k] > 0
      PROVE  Q[x][j] < Q[y][k]
  <2>1. ~ (x = m /\ j = l + 1)
    <3> SUFFICES ASSUME x = m, j = l + 1
                 PROVE  FALSE
      OBVIOUS
    <3>1. y = m /\ k \in 1 .. l + 1 /\ j < k
      BY <1>3, <1>9
    <3> QED
      BY <1>3, <3>1
  <2>2. j \in DOMAIN P[x] /\ Q[x][j] = P[x][j]
    BY <1>4, <2>1
  <2>3. CASE y = m /\ k = l + 1 /\ Q[y][k] = e
    BY <1>1, <1>7, <1>9, <2>2, <2>3, SMTT(30)
  <2>4. CASE k \in DOMAIN P[y] /\ Q[y][k] = P[y][k]
    <3>1. P[x][j] > 0 /\ P[y][k] > 0
      BY <1>9, <2>2, <2>4
    <3>2. P[x][j] < P[y][k]
      BY <1>2, <1>9, <2>2, <2>4, <3>1 DEF Line
    <3> QED
      BY <2>2, <2>4, <3>2
  <2> QED
    BY <1>4, <2>3, <2>4
<1> QED
  BY ONLY <1>2, <1>6, <1>8, <1>9 DEF Line

\* An empty part before the last one.
Widens(P, Q, m) ==
    (\A x \in 1 .. m : x # m => Q[x] = P[x]) /\ Q[m] = <<>> /\ Q[m + 1] = P[m]

LEMMA LineWider ==
  ASSUME NEW m \in Nat, m > 0, NEW P \in [1 .. m -> Seq(Int)],
         NEW Q \in [1 .. m + 1 -> Seq(Int)], NEW n \in Nat, Line(P, n), Widens(P, Q, m)
  PROVE  Line(Q, n)
<1>0. (\A x \in 1 .. m : x # m => Q[x] = P[x]) /\ Q[m] = <<>> /\ Q[m + 1] = P[m]
  BY DEF Widens
<1> USE <1>0
<1> DEFINE at(x) == IF x = m + 1 THEN m ELSE x
<1>1. DOMAIN P = 1 .. m /\ DOMAIN Q = 1 .. m + 1 /\ m \in 1 .. m
  OBVIOUS
<1>2. \A j \in DOMAIN Q[m] : FALSE
  OBVIOUS
<1>3. ASSUME NEW x \in 1 .. m + 1, NEW j \in DOMAIN Q[x]
      PROVE  x # m /\ at(x) \in 1 .. m /\ Q[x] = P[at(x)]
  <2>1. x # m
    BY <1>2
  <2>2. CASE x = m + 1
    BY <1>1, <2>2
  <2>3. CASE x # m + 1
    <3>1. x \in 1 .. m
      BY ONLY <2>3, m \in Nat, x \in 1 .. m + 1
    <3> QED
      BY <2>1, <2>3, <3>1
  <2> QED
    BY <2>2, <2>3
<1>4. ASSUME NEW e \in 1 .. n
      PROVE  \E x \in 1 .. m + 1 : Has(Q[x], e)
  <2>1. PICK x \in 1 .. m : Has(P[x], e)
    BY <1>1 DEF Line
  <2>2. CASE x = m
    BY <2>1, <2>2
  <2>3. CASE x # m
    BY <2>1, <2>3
  <2> QED
    BY <2>2, <2>3
<1>5. ASSUME NEW x \in 1 .. m + 1, NEW k \in DOMAIN Q[x]
      PROVE  Q[x][k] <= n
  <2>1. at(x) \in 1 .. m /\ Q[x] = P[at(x)]
    BY <1>3
  <2> HIDE DEF at
  <2> QED
    BY <1>1, <2>1 DEF Line
<1>6. ASSUME NEW x \in 1 .. m + 1, NEW y \in 1 .. m + 1,
             NEW j \in DOMAIN Q[x], NEW k \in DOMAIN Q[y],
             x < y \/ (x = y /\ j < k), Q[x][j] > 0, Q[y][k] > 0
      PROVE  Q[x][j] < Q[y][k]
  <2>1. /\ x # m /\ at(x) \in 1 .. m /\ Q[x] = P[at(x)]
        /\ y # m /\ at(y) \in 1 .. m /\ Q[y] = P[at(y)]
    BY <1>3
  <2>2. at(x) < at(y) \/ (at(x) = at(y) /\ j < k)
    <3>1. x # m /\ y # m /\ (x < y \/ (x = y /\ j < k))
      BY <1>6, <2>1
    <3>2. CASE x = m + 1
      BY ONLY <3>1, <3>2, m \in Nat, x \in 1 .. m + 1, y \in 1 .. m + 1
    <3>3. CASE x # m + 1 /\ y = m + 1
      BY ONLY <3>1, <3>3, m \in Nat, x \in 1 .. m + 1, y \in 1 .. m + 1
    <3>4. CASE x # m + 1 /\ y # m + 1
      BY <3>1, <3>4
    <3> QED
      BY ONLY <3>2, <3>3, <3>4
  <2> HIDE DEF at
  <2> QED
    BY <1>1, <1>6, <2>1, <2>2 DEF Line
<1> QED
  BY ONLY <1>1, <1>4, <1>5, <1>6 DEF Line

\* Elements are numbers.
LEMMA ElementsInt ==
  ASSUME NEW q
  PROVE  /\ q \in Seq(Elements) => q \in Seq(Int)
         /\ q \in Bodies \cup {NoAnswer} => q \in Seq(Int)
<1>1. Elements \subseteq Int
  BY BoshAssumption DEF Elements, End
<1>2. Seq(Elements) \subseteq Seq(Int)
  <2> SUFFICES ASSUME NEW p \in Seq(Elements)
               PROVE  p \in Seq(Int)
    OBVIOUS
  <2>1. Len(p) \in Nat /\ p \in [1 .. Len(p) -> Elements]
    OBVIOUS
  <2>2. p \in [1 .. Len(p) -> Int]
    BY <1>1, <2>1
  <2> QED
    BY <2>1, <2>2, SeqDef
<1>3. Gone \in Seq(Int) /\ NoAnswer \in Seq(Int)
  BY DEF Gone, NoAnswer
<1> QED
  BY <1>2, <1>3 DEF Bodies

LEMMA ToldIs ==
  ASSUME NEW q \in Seq(CacheEntry), NEW g \in Responses, NEW x \in 1 .. Len(g)
  PROVE  Told(q, g, x) \in Seq(Int)
<1>1. g[x] \in Seq(Int)
  <2>1. g[x] \in Bodies \cup {NoAnswer}
    BY DEF Responses
  <2> QED
    BY <2>1, ElementsInt
<1>2. x \in SentRids(q) => CachedResponse(q, x) \in Seq(Int)
  <2> SUFFICES ASSUME x \in SentRids(q)
               PROVE  CachedResponse(q, x) \in Seq(Int)
    OBVIOUS
  <2>1. HasRid(q, x)
    BY DEF HasRid, SentRids
  <2>2. First(q, x) \in 1 .. Len(q)
    BY <2>1, FirstIs
  <2> DEFINE i == First(q, x)
  <2>3. i \in 1 .. Len(q)
    BY <2>2
  <2> HIDE DEF i
  <2>4. q[i] \in CacheEntry
    BY <2>3
  <2>5. q[i].els \in Seq(Elements)
    BY <2>4 DEF CacheEntry
  <2>6. q[i].els \in Seq(Int)
    BY <2>5, ElementsInt
  <2> QED
    BY <2>6 DEF CachedResponse, i
<1>3. <<>> \in Seq(Int)
  OBVIOUS
<1> QED
  BY <1>1, <1>2, <1>3 DEF Told

\* What the client was told, and then what is pending.
PartsOf(t, g) ==
    [x \in 1 .. Len(g) + 1 |-> IF x <= Len(g) THEN Told(t.sent, g, x) ELSE t.pending]

LEMMA PartsIs ==
  ASSUME NEW t, t.sent \in Seq(CacheEntry), t.pending \in Seq(Elements), NEW g \in Responses
  PROVE  /\ Len(g) \in Nat /\ PartsOf(t, g) \in [1 .. Len(g) + 1 -> Seq(Int)]
         /\ \A x \in 1 .. Len(g) : PartsOf(t, g)[x] = Told(t.sent, g, x)
         /\ PartsOf(t, g)[Len(g) + 1] = t.pending
<1> DEFINE n == Len(g)
<1>1. n \in Nat
  BY DEF Responses
<1>2. \A x \in 1 .. n : Told(t.sent, g, x) \in Seq(Int)
  BY ToldIs
<1>3. t.pending \in Seq(Int)
  BY ElementsInt
<1>4. PartsOf(t, g) = [x \in 1 .. n + 1 |-> IF x <= n THEN Told(t.sent, g, x) ELSE t.pending]
  BY DEF PartsOf
<1> HIDE DEF n
<1>5. \A x \in 1 .. n + 1 : x \in 1 .. n \/ (x = n + 1 /\ ~ (x <= n))
  BY ONLY <1>1
<1>6. \A x \in 1 .. n : x \in 1 .. n + 1 /\ x <= n
  BY ONLY <1>1
<1>7. n + 1 \in 1 .. n + 1 /\ ~ (n + 1 <= n)
  BY ONLY <1>1
<1>8. /\ PartsOf(t, g) \in [1 .. n + 1 -> Seq(Int)]
      /\ \A x \in 1 .. n : PartsOf(t, g)[x] = Told(t.sent, g, x)
      /\ PartsOf(t, g)[n + 1] = t.pending
  BY ONLY <1>2, <1>3, <1>4, <1>5, <1>6, <1>7
<1> QED
  BY <1>1, <1>8 DEF n

\* The requests that wait are different ones, without an answer.
Tidy(t, g) ==
    /\ Rising(t.sent) /\ SentRids(t.sent) \subseteq 1 .. Len(g)
    /\ \A h \in HSet(t.handlers) : /\ h.rid \in 1 .. Len(g) /\ g[h.rid] = NoAnswer
                                   /\ h.rid \notin SentRids(t.sent)
    /\ \A h, k \in HSet(t.handlers) : h.rid = k.rid => h = k

\* Nothing was told to requests that were not processed, nor to those from the
\* first one on that waits.
Blank(t, g) ==
    \A x \in 1 .. Len(g) :
        x > t.rid \/ (\E h \in HSet(t.handlers) : h.rid <= x) => Told(t.sent, g, x) = <<>>

\* u is t after some of its handlers have been answered: their responses are
\* cached with the others of the window, and the stanzas are in line.
Keeps(t, u, g) ==
    /\ Tidy(u, g) /\ Blank(u, g) /\ HSet(u.handlers) \subseteq HSet(t.handlers)
    /\ \A r \in SentRids(t.sent) : Len(g) <= r + 1 =>
         r \in SentRids(u.sent) /\ CachedResponse(u.sent, r) = CachedResponse(t.sent, r)
    /\ \A h \in HSet(t.handlers) : h \in HSet(u.handlers) \/ h.rid \in SentRids(u.sent)
    /\ \A m \in u.reply : \/ m \in t.reply
                          \/ \E h \in HSet(t.handlers) :
                               m.conn = h.conn /\ IsCached(u.sent, h.rid, m.els)
    /\ \A n \in Nat : Line(PartsOf(t, g), n) => Line(PartsOf(u, g), n)

LEMMA KeepsSame ==
  ASSUME NEW t, NEW u, NEW g, Tidy(t, g), Blank(t, g),
         u.handlers = t.handlers, u.sent = t.sent, u.reply = t.reply, u.pending = t.pending,
         u.rid = t.rid
  PROVE  Keeps(t, u, g)
<1>1. PartsOf(u, g) = PartsOf(t, g)
  BY DEF PartsOf
<1>2. Tidy(u, g) /\ Blank(u, g)
  BY DEF Tidy, Blank
<1> QED
  BY <1>1, <1>2 DEF Keeps

\* The requests that wait are in the window.
LEMMA WaitInWindow ==
  ASSUME NEW t, NEW g, Window(g), Tidy(t, g)
  PROVE  \A h \in HSet(t.handlers) : Len(g) <= h.rid + 1
  BY DEF Tidy, Window

LEMMA KeepsMore ==
  ASSUME NEW t, NEW u, NEW v, NEW g, \A h \in HSet(t.handlers) : Len(g) <= h.rid + 1,
         Keeps(t, u, g), Keeps(u, v, g)
  PROVE  Keeps(t, v, g)
<1>1. Tidy(v, g) /\ Blank(v, g) /\ HSet(v.handlers) \subseteq HSet(t.handlers)
  BY DEF Keeps
<1>2. \A r \in SentRids(t.sent) : Len(g) <= r + 1 =>
         r \in SentRids(v.sent) /\ CachedResponse(v.sent, r) = CachedResponse(t.sent, r)
  BY DEF Keeps
<1>3. \A h \in HSet(t.handlers) : Len(g) <= h.rid + 1
  OBVIOUS
<1>4. \A h \in HSet(t.handlers) : h \in HSet(v.handlers) \/ h.rid \in SentRids(v.sent)
  BY <1>3 DEF Keeps
<1>5. ASSUME NEW m \in v.reply, m \notin t.reply
      PROVE  \E h \in HSet(t.handlers) : m.conn = h.conn /\ IsCached(v.sent, h.rid, m.els)
  <2>1. CASE m \in u.reply
    <3>1. PICK h \in HSet(t.handlers) : m.conn = h.conn /\ IsCached(u.sent, h.rid, m.els)
      BY <1>5, <2>1 DEF Keeps
    <3>2. IsCached(v.sent, h.rid, m.els)
      BY <1>3, <3>1 DEF Keeps, IsCached
    <3> QED
      BY <3>1, <3>2
  <2>2. CASE m \notin u.reply
    BY <2>2 DEF Keeps
  <2> QED
    BY <2>1, <2>2
<1>6. \A n \in Nat : Line(PartsOf(t, g), n) => Line(PartsOf(v, g), n)
  BY DEF Keeps
<1> QED
  BY <1>1, <1>2, <1>4, <1>5, <1>6 DEF Keeps

LEMMA SameFunction ==
  ASSUME NEW D, NEW S, NEW P \in [D -> S], NEW Q \in [D -> S], \A x \in D : Q[x] = P[x]
  PROVE  Q = P
  OBVIOUS

\* A handler is given els of what was pending, and rest stays.
Hands(pending, els, rest) ==
    /\ \A j \in DOMAIN els : j \in DOMAIN pending /\ els[j] = pending[j]
    /\ \A j \in DOMAIN pending : j \in DOMAIN els \/ pending[j] <= 0
    /\ \A j \in DOMAIN rest : rest[j] <= 0

\* Handler h is answered: with nothing, or, as the first one, with what is pending.
LEMMA KeepsOne ==
  ASSUME NEW g \in Responses, Window(g), NEW t, Good(t), Tidy(t, g), Blank(t, g),
         NEW h \in HSet(t.handlers), NEW els \in Seq(Elements), NEW u,
         u.rid = t.rid, HSet(u.handlers) = HSet(t.handlers) \ {h},
         u.sent = CacheResponse(t.sent, h.rid, els), u.pending \in Seq(Elements),
         u.reply = t.reply \cup {[conn |-> h.conn, els |-> els]},
         \/ els = <<>> /\ u.pending = t.pending
         \/ /\ Hands(t.pending, els, u.pending) /\ h.rid <= t.rid
            /\ \A k \in HSet(t.handlers) : h.rid <= k.rid
  PROVE  Keeps(t, u, g)
<1> DEFINE n == Len(g)
           r == h.rid
<1>1. n \in Nat /\ t.rid \in Nat /\ t.sent \in Seq(CacheEntry) /\ t.pending \in Seq(Elements)
      /\ Len(t.sent) <= ConcurrentRequests
  BY StateIs DEF Good, Responses
<1>2. /\ Rising(t.sent) /\ SentRids(t.sent) \subseteq 1 .. n
      /\ r \in 1 .. n /\ g[r] = NoAnswer /\ r \notin SentRids(t.sent)
  BY DEF Tidy
<1>3. \A x \in 1 .. n : g[x] = NoAnswer => n <= x + 1
  BY DEF Window
<1>4. n <= r + 1
  BY <1>2, <1>3
<1>5. r \in Nat
  BY <1>2
<1>6. /\ IsCached(u.sent, r, els)
      /\ \A x \in 1 .. n : Told(u.sent, g, x) = IF x = r THEN els ELSE Told(t.sent, g, x)
  <2> DEFINE p == CacheResponse(t.sent, r, els)
             q == t.sent
  <2>1. /\ q \in Seq(CacheEntry) /\ Len(q) <= ConcurrentRequests /\ Rising(q)
        /\ SentRids(q) \subseteq 1 .. Len(g) /\ r \in 1 .. Len(g) /\ r \notin SentRids(q)
        /\ g[r] = NoAnswer
    BY <1>1, <1>2
  <2>2. u.sent = p
    OBVIOUS
  <2> HIDE DEF p, q, r
  <2>3. /\ IsCached(p, r, els)
        /\ \A x \in 1 .. Len(g) : Told(p, g, x) = IF x = r THEN els ELSE Told(q, g, x)
    BY ONLY <2>1, ToldAfter, g \in Responses, Window(g), els \in Seq(Elements) DEF p, q
  <2> QED
    BY ONLY <2>2, <2>3 DEF n, q
<1>7. u.sent \in Seq(CacheEntry)
  <2>1. u.sent = CacheResponse(t.sent, r, els)
    OBVIOUS
  <2> HIDE DEF n, r
  <2>2. CacheResponse(t.sent, r, els) \in Seq(CacheEntry)
    BY ONLY <1>1, <1>5, CacheIs, els \in Seq(Elements)
  <2> QED
    BY ONLY <2>1, <2>2
<1>8. /\ Rising(u.sent) /\ SentRids(u.sent) \subseteq SentRids(t.sent) \cup {r}
      /\ \A x \in SentRids(t.sent) : n <= x + 1 => x \in SentRids(u.sent)
      /\ \A x \in SentRids(t.sent) : x \in SentRids(u.sent) =>
            CachedResponse(u.sent, x) = CachedResponse(t.sent, x)
  <2> DEFINE p == CacheResponse(t.sent, r, els)
             q == t.sent
  <2>1. /\ q \in Seq(CacheEntry) /\ Len(q) <= ConcurrentRequests /\ Rising(q)
        /\ SentRids(q) \subseteq 1 .. n /\ r \in 1 .. n /\ r \notin SentRids(q) /\ n \in Nat
    BY <1>1, <1>2
  <2>2. u.sent = p /\ p = CacheResponse(q, r, els)
    OBVIOUS
  <2> HIDE DEF p, q, n, r
  <2>3. /\ Rising(p) /\ SentRids(p) \subseteq SentRids(q) \cup {r}
        /\ \A x \in SentRids(q) : n <= x + 1 => x \in SentRids(p)
        /\ \A x \in SentRids(q) : x \in SentRids(p) =>
              CachedResponse(p, x) = CachedResponse(q, x)
    BY ONLY <2>1, <2>2, CacheKeeps, els \in Seq(Elements)
  <2> QED
    BY ONLY <2>2, <2>3 DEF q
<1>9. Tidy(u, g)
  <2>1. SentRids(u.sent) \subseteq 1 .. Len(g)
    BY <1>2, <1>8
  <2>2. ASSUME NEW k \in HSet(u.handlers)
        PROVE  k.rid \in 1 .. Len(g) /\ g[k.rid] = NoAnswer /\ k.rid \notin SentRids(u.sent)
    <3>1. k \in HSet(t.handlers) /\ k # h
      OBVIOUS
    <3>2. k.rid # r /\ k.rid \notin SentRids(t.sent)
      BY <3>1 DEF Tidy
    <3> QED
      BY <1>8, <3>1, <3>2 DEF Tidy
  <2>3. \A a, b \in HSet(u.handlers) : a.rid = b.rid => a = b
    BY DEF Tidy
  <2> QED
    BY <1>8, <2>1, <2>2, <2>3 DEF Tidy
<1>10. Blank(u, g)
  <2> SUFFICES ASSUME NEW x \in 1 .. Len(g),
                      x > t.rid \/ \E k \in HSet(u.handlers) : k.rid <= x
               PROVE  Told(u.sent, g, x) = <<>>
    BY DEF Blank
  <2>1. CASE x # r
    <3>1. Told(t.sent, g, x) = <<>>
      BY DEF Blank
    <3> QED
      BY <1>6, <2>1, <3>1
  <2>2. CASE x = r
    <3>1. Told(u.sent, g, x) = els
      BY <1>6, <2>2
    <3>2. CASE els = <<>>
      BY <3>1, <3>2
    <3>3. ASSUME h.rid <= t.rid, \A k \in HSet(t.handlers) : h.rid <= k.rid
          PROVE  FALSE
      <4>1. ~ (x > t.rid)
        BY <1>1, <1>5, <2>2, <3>3
      <4>2. PICK k \in HSet(u.handlers) : k.rid <= x
        BY <4>1
      <4>3. k \in HSet(t.handlers) /\ k # h /\ k.rid # r /\ k.rid \in 1 .. n
        BY DEF Tidy
      <4>4. r <= k.rid
        BY <3>3, <4>3
      <4> QED
        BY <1>5, <2>2, <4>2, <4>3, <4>4
    <3> QED
      BY <3>2, <3>3
  <2> QED
    BY <2>1, <2>2
<1>11. ASSUME NEW o \in Nat, Line(PartsOf(t, g), o)
       PROVE  Line(PartsOf(u, g), o)
  <2> DEFINE P == PartsOf(t, g)
             Q == PartsOf(u, g)
             l == n + 1
  <2>1. /\ P \in [1 .. l -> Seq(Int)] /\ P[l] = t.pending
        /\ \A x \in 1 .. n : P[x] = Told(t.sent, g, x)
    BY <1>1, PartsIs
  <2>2. /\ Q \in [1 .. l -> Seq(Int)] /\ Q[l] = u.pending
        /\ \A x \in 1 .. n : Q[x] = Told(u.sent, g, x)
    BY <1>7, PartsIs
  <2>3. \A x \in 1 .. n : x >= r => P[x] = <<>>
    <3> SUFFICES ASSUME NEW x \in 1 .. n, x >= r
                 PROVE  Told(t.sent, g, x) = <<>>
      BY <2>1
    <3>1. \E k \in HSet(t.handlers) : k.rid <= x
      BY <1>5
    <3> QED
      BY <3>1 DEF Blank
  <2>4. \A x \in 1 .. n : x # r => Q[x] = P[x]
    BY <1>6, <2>1, <2>2
  <2>5. Q[r] = els
    BY <1>2, <1>6, <2>2
  <2>6. Line(P, o)
    BY <1>11
  <2> SUFFICES Line(Q, o)
    OBVIOUS
  <2>7. CASE els = <<>> /\ u.pending = t.pending
    <3>1. P[r] = <<>>
      BY <1>2, <1>5, <2>3
    <3> HIDE DEF P, Q, n, r
    <3>2. \A x \in 1 .. l : x \in 1 .. n \/ x = l
      BY ONLY <1>1
    <3> HIDE DEF l
    <3>3. \A x \in 1 .. l : Q[x] = P[x]
      BY <2>1, <2>2, <2>4, <2>5, <2>7, <3>1, <3>2
    <3>4. P \in [1 .. l -> Seq(Int)] /\ Q \in [1 .. l -> Seq(Int)]
      BY <2>1, <2>2
    <3>5. Q = P
      <4> DEFINE D == 1 .. l
                 S == Seq(Int)
      <4>1. P \in [D -> S] /\ Q \in [D -> S] /\ \A x \in D : Q[x] = P[x]
        BY <3>3, <3>4
      <4> HIDE DEF D, S
      <4> QED
        BY ONLY <4>1, SameFunction
    <3> QED
      BY <2>6, <3>5
  <2>8. CASE Hands(t.pending, els, u.pending)
    <3> HIDE DEF P, Q, n, r
    <3>1. l \in Nat /\ r \in 1 .. l /\ r # l
      BY ONLY <1>1, <1>2
    <3>2. \A x \in 1 .. l : x # l => x \in 1 .. n
      BY ONLY <1>1
    <3> HIDE DEF l
    <3>3. /\ \A x \in 1 .. l : x >= r /\ x # l => P[x] = <<>>
          /\ \A x \in 1 .. l : x # r /\ x # l => Q[x] = P[x]
      BY <2>3, <2>4, <3>2
    <3>4. /\ \A j \in DOMAIN Q[r] : j \in DOMAIN P[l] /\ Q[r][j] = P[l][j]
          /\ \A j \in DOMAIN P[l] : j \in DOMAIN Q[r] \/ P[l][j] <= 0
          /\ \A j \in DOMAIN Q[l] : Q[l][j] <= 0
      BY <2>1, <2>2, <2>5, <2>8 DEF Hands
    <3>5. P \in [1 .. l -> Seq(Int)] /\ Q \in [1 .. l -> Seq(Int)]
      BY <2>1, <2>2
    <3> QED
      BY ONLY <2>6, <3>1, <3>3, <3>4, <3>5, o \in Nat, LineMoves
  <2> QED
    BY <2>7, <2>8
<1>12. \A m \in u.reply : \/ m \in t.reply
                          \/ \E k \in HSet(t.handlers) :
                               m.conn = k.conn /\ IsCached(u.sent, k.rid, m.els)
  <2> SUFFICES ASSUME NEW m, m = [conn |-> h.conn, els |-> els]
               PROVE  m.conn = h.conn /\ IsCached(u.sent, h.rid, m.els)
    OBVIOUS
  <2> QED
    BY <1>6
<1>13. \A k \in HSet(t.handlers) : k \in HSet(u.handlers) \/ k.rid \in SentRids(u.sent)
  BY <1>6 DEF IsCached
<1> QED
  BY <1>8, <1>9, <1>10, <1>11, <1>12, <1>13 DEF Keeps

\* A state of which handlers may be answered.
Fit(t, g) == Good(t) /\ Tidy(t, g) /\ Blank(t, g)

\* The first handler of a valid state was processed.
LEMMA FirstIsValid ==
  ASSUME NEW t, Good(t), Valid(t), NEW f, f = Sorted(t.handlers)[1]
  PROVE  /\ t.handlers # <<>> /\ f \in HSet(t.handlers) /\ f.rid <= t.rid
         /\ HSet(Tail(Sorted(t.handlers))) = HSet(t.handlers) \ {f}
         /\ \A k \in HSet(t.handlers) : f.rid <= k.rid
<1>1. t.handlers # <<>> /\ HandlerList(t.handlers)
  BY ValidHasHandler DEF Good
<1>2. /\ f \in HSet(t.handlers) /\ \A k \in HSet(t.handlers) : f.rid <= k.rid
      /\ HSet(Tail(Sorted(t.handlers))) = HSet(t.handlers) \ {f}
  BY <1>1, PickIs
<1>3. PICK k \in HSet(t.handlers) : k.rid <= t.rid
  BY ValidIs
<1>4. f.rid \in Nat /\ k.rid \in Nat /\ t.rid \in Nat
  BY <1>2, LenIs
<1>5. f.rid <= t.rid
  BY <1>2, <1>3, <1>4
<1> QED
  BY <1>1, <1>2, <1>5

LEMMA KeepsEmpty ==
  ASSUME NEW g \in Responses, Window(g), NEW t, Fit(t, g)
  PROVE  Keeps(t, Step(t), g)
<1>1. Good(t) /\ Tidy(t, g) /\ Blank(t, g)
  BY DEF Fit
<1>2. CASE ~ Valid(t)
  <2>1. Step(t) = t
    BY <1>2 DEF Step
  <2> QED
    BY <1>1, <2>1, KeepsSame
<1>3. CASE Valid(t)
  <2> DEFINE u == Step(t)
             e == <<>>
             f == Sorted(t.handlers)[1]
  <2>1. u = SendToFirst(t, e)
    BY <1>3 DEF Step
  <2>2. e \in Seq(Elements) /\ ~ NoBody(e) /\ ~ Splits(e) /\ Wrapped(e) = e
    BY EmptyIs DEF EmptyFacts
  <2>3. e = <<>>
    OBVIOUS
  <2> HIDE DEF u, e
  <2>4. /\ t.handlers # <<>> /\ f \in HSet(t.handlers)
        /\ HSet(Tail(Sorted(t.handlers))) = HSet(t.handlers) \ {f}
    BY <1>1, <1>3, FirstIsValid
  <2>5. /\ u.rid = t.rid /\ u.handlers = Tail(Sorted(t.handlers))
        /\ u.sent = CacheResponse(t.sent, Sorted(t.handlers)[1].rid, Wrapped(e))
        /\ u.pending = IF Splits(e) THEN <<End>> ELSE t.pending
        /\ u.reply = t.reply \cup {[conn |-> Sorted(t.handlers)[1].conn, els |-> Wrapped(e)]}
    BY <1>1, <2>1, <2>2, <2>4, SendToFirstIs
  <2>6. /\ u.sent = CacheResponse(t.sent, f.rid, e) /\ u.pending = t.pending
        /\ u.reply = t.reply \cup {[conn |-> f.conn, els |-> e]}
        /\ HSet(u.handlers) = HSet(t.handlers) \ {f}
    BY <2>2, <2>4, <2>5
  <2>7. t.pending \in Seq(Elements)
    BY <1>1, StateIs DEF Good
  <2> HIDE DEF f
  <2>8. Keeps(t, u, g)
    BY ONLY <1>1, <2>2, <2>3, <2>4, <2>5, <2>6, <2>7, KeepsOne, g \in Responses, Window(g)
  <2> QED
    BY <2>8 DEF u
<1> QED
  BY <1>2, <1>3

\* What bosh_wrap makes of what is pending.
LEMMA HandsWrapped ==
  ASSUME NEW data \in Seq(Elements), EndLast(data),
         NEW rest, rest = IF Splits(data) THEN <<End>> ELSE <<>>
  PROVE  /\ Hands(data, Wrapped(data), rest) /\ rest \in Seq(Elements)
<1>1. DOMAIN data = 1 .. Len(data) /\ Len(data) \in Nat
  OBVIOUS
<1>2. End \in Elements /\ End <= 0
  BY BoshAssumption DEF End, Elements
<1>3. CASE ~ Splits(data)
  BY <1>3 DEF Hands, Wrapped
<1>4. CASE Splits(data)
  <2> DEFINE n == Len(data)
             els == Front(data)
  <2>1. n \in Nat /\ n > 1 /\ Has(data, End) /\ data # <<>>
    BY <1>1, <1>4 DEF Splits
  <2>2. els \in Seq(Elements) /\ Len(els) = n - 1 /\ \A j \in 1 .. n - 1 : els[j] = data[j]
    BY <2>1, FrontSeq
  <2>3. data[n] = End
    BY <1>1, <2>1 DEF Has, EndLast
  <2>4. DOMAIN els = 1 .. n - 1 /\ DOMAIN data = 1 .. n
    <3> HIDE DEF els
    <3>1. DOMAIN els = 1 .. Len(els)
      BY <2>2
    <3> QED
      BY <1>1, <2>2, <3>1
  <2>5. rest = <<End>> /\ Wrapped(data) = els
    BY <1>4 DEF Wrapped
  <2> HIDE DEF n, els
  <2>6. \A j \in DOMAIN rest : rest[j] <= 0
    BY <1>2, <2>5
  <2>7. \A j \in 1 .. n : j \in 1 .. n - 1 \/ j = n
    BY ONLY <2>1
  <2>8. \A j \in 1 .. n - 1 : j \in 1 .. n
    BY ONLY <2>1
  <2>9. Hands(data, els, rest)
    BY <1>2, <2>2, <2>3, <2>4, <2>6, <2>7, <2>8 DEF Hands
  <2> QED
    BY <1>2, <2>5, <2>9
<1> QED
  BY <1>3, <1>4

LEMMA KeepsPending ==
  ASSUME NEW g \in Responses, Window(g), NEW t, Fit(t, g),
         NEW u, u = SendPending(t), u.stop = "no"
  PROVE  Keeps(t, u, g)
<1> DEFINE v == [t EXCEPT !.pending = <<>>]
           data == t.pending
           f == Sorted(t.handlers)[1]
<1>0. Good(t) /\ Tidy(t, g) /\ Blank(t, g)
  BY DEF Fit
<1>1. /\ Good(v) /\ v.pending = <<>>
      /\ v.handlers = t.handlers /\ v.rid = t.rid
      /\ v.sent = t.sent /\ v.reply = t.reply
      /\ data \in Seq(Elements)
      /\ u = IF Valid(t) THEN SendToFirst(v, data) ELSE t
  BY <1>0, SendPendingIs
<1> HIDE DEF v
<1>2. CASE ~ Valid(t)
  BY <1>0, <1>1, <1>2, KeepsSame
<1>3. CASE Valid(t)
  <2>1. /\ t.handlers # <<>> /\ f \in HSet(t.handlers) /\ f.rid <= t.rid
        /\ HSet(Tail(Sorted(t.handlers))) = HSet(t.handlers) \ {f}
        /\ \A k \in HSet(t.handlers) : f.rid <= k.rid
    BY <1>0, <1>3, FirstIsValid
  <2>2. u = SendToFirst(v, data)
    BY <1>1, <1>3
  <2>3. ~ NoBody(data)
    <3> SUFFICES ASSUME NoBody(data)
                 PROVE  u.stop = "no body"
      OBVIOUS
    <3> DEFINE w == Picked(v)
    <3>1. u = [w EXCEPT !.stop = "no body"]
      BY <2>2 DEF SendToFirst, SendTo
    <3>2. w \in State
      <4>1. v \in State /\ HandlerList(v.handlers) /\ v.handlers # <<>>
        BY <1>1, <2>1 DEF Good
      <4>2. Tail(Sorted(v.handlers)) \in Seq(Handler)
        BY <4>1, PickIs DEF HandlerList
      <4> QED
        BY <4>1, <4>2 DEF Picked, State
    <3> HIDE DEF w
    <3> QED
      BY <3>1, <3>2 DEF State
  <2>4. EndLast(data)
    BY <1>0 DEF Good
  <2> HIDE DEF data
  <2>5. /\ u.rid = v.rid /\ u.handlers = Tail(Sorted(v.handlers))
        /\ u.sent = CacheResponse(v.sent, Sorted(v.handlers)[1].rid, Wrapped(data))
        /\ u.pending = IF Splits(data) THEN <<End>> ELSE v.pending
        /\ u.reply = v.reply \cup {[conn |-> Sorted(v.handlers)[1].conn, els |-> Wrapped(data)]}
    BY <1>1, <2>1, <2>2, <2>3, SendToFirstIs
  <2>6. /\ u.rid = t.rid /\ u.handlers = Tail(Sorted(t.handlers))
        /\ u.sent = CacheResponse(t.sent, f.rid, Wrapped(data))
        /\ u.pending = IF Splits(data) THEN <<End>> ELSE <<>>
        /\ u.reply = t.reply \cup {[conn |-> f.conn, els |-> Wrapped(data)]}
    BY <1>1, <2>5
  <2>7. Hands(data, Wrapped(data), u.pending) /\ u.pending \in Seq(Elements)
    BY ONLY <1>1, <2>4, <2>6, HandsWrapped
  <2> DEFINE els == Wrapped(data)
  <2>8. els \in Seq(Elements)
    BY <1>1, WrappedIs
  <2>9. /\ u.sent = CacheResponse(t.sent, f.rid, els)
        /\ u.reply = t.reply \cup {[conn |-> f.conn, els |-> els]}
        /\ HSet(u.handlers) = HSet(t.handlers) \ {f}
        /\ Hands(t.pending, els, u.pending)
    BY <2>1, <2>6, <2>7 DEF data
  <2> HIDE DEF f, els
  <2> QED
    BY ONLY <1>0, <2>1, <2>6, <2>7, <2>8, <2>9, KeepsOne, g \in Responses, Window(g)
<1> QED
  BY <1>2, <1>3

LEMMA KeepsReturned ==
  ASSUME NEW g \in Responses, Window(g), NEW t, Fit(t, g), NEW n0 \in Nat
  PROVE  Keeps(t, Returned(t, n0), g)
<1> DEFINE P(n) == Keeps(t, Returned(t, n), g)
           S == {n \in Nat : ~ P(n)}
<1> SUFFICES ASSUME ~ P(n0)
             PROVE  FALSE
  OBVIOUS
<1>0. Good(t) /\ Tidy(t, g) /\ Blank(t, g)
  BY DEF Fit
<1>1. S \subseteq Nat /\ n0 \in S
  OBVIOUS
<1>2. PICK n \in S : \A m \in S : n <= m
  <2> HIDE DEF S
  <2> QED
    BY <1>1, Smallest
<1>3. n \in Nat /\ ~ P(n)
  BY <1>2
<1>4. n # 0
  <2>1. Returned(t, 0) = t
    BY ReturnedIs
  <2>2. P(0)
    BY <1>0, <2>1, KeepsSame
  <2> HIDE DEF P
  <2> QED
    BY <1>3, <2>2
<1>5. n - 1 \in Nat /\ n - 1 \notin S
  <2> HIDE DEF S
  <2> QED
    BY <1>2, <1>3, <1>4
<1> DEFINE u == Returned(t, n - 1)
           v == Returned(t, n)
<1>6. Keeps(t, u, g)
  BY <1>5
<1>7. v = Step(u)
  <2>1. (n - 1) + 1 = n
    BY <1>3
  <2>2. \A k \in Nat : Returned(t, k + 1) = Step(Returned(t, k))
    BY ReturnedIs
  <2>3. Returned(t, (n - 1) + 1) = Step(u)
    BY <1>5, <2>2
  <2> QED
    BY <2>1, <2>3
<1>8. Good(u)
  <2>1. Returns(t, u)
    BY <1>0, <1>5, ReturnsSome
  <2> QED
    BY <2>1 DEF Returns, Sends, Answers
<1>9. ~ Keeps(t, v, g)
  BY <1>3
<1> HIDE DEF u, v
<1>10. Fit(u, g)
  BY <1>6, <1>8 DEF Fit, Keeps
<1>11. Keeps(u, v, g)
  BY <1>7, <1>10, KeepsEmpty
<1>12. Keeps(t, v, g)
  BY <1>0, <1>6, <1>11, KeepsMore, WaitInWindow
<1> QED
  BY <1>9, <1>12

LEMMA KeepsSurplus ==
  ASSUME NEW g \in Responses, Window(g), NEW t, Fit(t, g),
         NEW u, u = ReturnSurplusHandlers(t), u.stop = "no"
  PROVE  Keeps(t, u, g)
<1>0. Good(t) /\ Tidy(t, g) /\ Blank(t, g)
  BY DEF Fit
<1>1. Len(t.handlers) \in Nat /\ (t.handlers # <<>> => Len(t.handlers) - 1 \in Nat)
  BY <1>0 DEF Good, HandlerList
<1>2. CASE t.stop # "no" \/ t.handlers = <<>>
  BY <1>0, <1>2, KeepsSame DEF ReturnSurplusHandlers
<1>3. CASE ~ (t.stop # "no" \/ t.handlers = <<>>) /\ t.name = "accumulate"
  <2>1. u = Returned(t, Len(t.handlers) - 1)
    BY <1>3 DEF ReturnSurplusHandlers
  <2> QED
    BY <1>1, <1>3, <2>1, KeepsReturned
<1>4. CASE ~ (t.stop # "no" \/ t.handlers = <<>>) /\ t.name # "accumulate"
  <2>1. u = t \/ u = SendPending(t)
    BY <1>4 DEF ReturnSurplusHandlers
  <2> QED
    BY <1>0, <2>1, KeepsSame, KeepsPending
<1> QED
  BY <1>2, <1>3, <1>4

\* Pause answers all handlers, when all of them were processed.
LEMMA KeepsPause ==
  ASSUME NEW g \in Responses, Window(g), NEW t, Fit(t, g), t.stop = "no",
         \A h \in HSet(t.handlers) : h.rid <= t.rid, NEW u, u = Pause(t)
  PROVE  Keeps(t, u, g) /\ u.stop = "no" /\ u.handlers = <<>>
<1> DEFINE v == Returned(t, Len(t.handlers))
<1>0. Good(t)
  BY DEF Fit
<1>1. Len(t.handlers) \in Nat
  BY <1>0, LenIs
<1>2. Keeps(t, v, g)
  BY <1>1, KeepsReturned
<1>3. Returns(t, v) /\ (~ Valid(v) \/ Len(v.handlers) = Len(t.handlers) - Len(t.handlers))
  BY <1>0, <1>1, ReturnsSome
<1>4. u = IF v.handlers = <<>> THEN v ELSE Crash(v)
  BY DEF Pause
<1> HIDE DEF v
<1>5. Good(v) /\ v.rid = t.rid /\ v.stop = "no"
  BY <1>3 DEF Returns, Sends, Answers
<1>6. Len(v.handlers) \in Nat /\ (v.handlers = <<>> <=> Len(v.handlers) = 0)
  BY <1>5, LenIs
<1>7. v.handlers = <<>>
  <2> SUFFICES ASSUME v.handlers # <<>>
               PROVE  FALSE
    OBVIOUS
  <2>1. Len(v.handlers) >= 1 /\ ~ Valid(v)
    BY <1>1, <1>3, <1>6
  <2>2. HSet(v.handlers) # {}
    BY <1>5, <2>1, TwoHandlers DEF Good
  <2>3. \A h \in HSet(v.handlers) : h.rid <= v.rid
    BY <1>2, <1>5 DEF Keeps
  <2> QED
    BY <1>5, <2>1, <2>2, <2>3, ValidIs
<1> QED
  BY <1>2, <1>4, <1>5, <1>7

\* A request is processed; before a pause, all that wait are older.
LEMMA KeepsProcessed ==
  ASSUME NEW g \in Responses, Window(g), NEW t, Fit(t, g), t.stop = "no",
         NEW r \in Nat, t.rid <= r, NEW type \in Types,
         type = "pause" => \A h \in HSet(t.handlers) : h.rid <= r,
         NEW v, v = ProcessOne(t, type, r)
  PROVE  /\ v.stop \in {"no", "policy_violation"} /\ (v.stop = "no" => Keeps(t, v, g))
         /\ Good(v)
<1> DEFINE f == Append(t.fwd, [rid |-> r, type |-> type])
           u == [t EXCEPT !.rid = r, !.fwd = f]
<1>0. Good(t) /\ Tidy(t, g) /\ Blank(t, g)
  BY DEF Fit
<1>1. t \in State /\ t.fwd \in Seq([rid : Nat, type : Types]) /\ t.rid \in Nat
  BY <1>0, StateIs DEF Good
<1>2. f \in Seq([rid : Nat, type : Types])
  BY <1>1
<1>3. v = CASE type = "pause" -> Pause(u)
            [] type = "long pause" -> StopAll(u, "policy_violation")
            [] OTHER -> u
  BY DEF ProcessOne
<1> HIDE DEF f
<1>4. /\ u \in State /\ u.handlers = t.handlers /\ u.reply = t.reply /\ u.stop = "no"
      /\ u.pending = t.pending /\ u.rid = r /\ u.sent = t.sent
  BY <1>1, <1>2 DEF State
<1> HIDE DEF u
<1>5. Good(u) /\ ~ Crashed(u)
  BY <1>0, <1>4 DEF Good, Crashed
<1>6. Tidy(u, g) /\ Blank(u, g)
  <2>1. Tidy(u, g)
    BY <1>0, <1>4 DEF Tidy
  <2>2. \A x \in 1 .. Len(g) : x > r => x > t.rid
    BY <1>1
  <2> QED
    BY <1>0, <1>4, <2>1, <2>2 DEF Blank
<1>7. Keeps(t, u, g)
  <2>1. PartsOf(u, g) = PartsOf(t, g)
    BY <1>4 DEF PartsOf
  <2> QED
    BY <1>4, <1>6, <2>1 DEF Keeps
<1>8. Fit(u, g)
  BY <1>5, <1>6 DEF Fit
<1>9. CASE type = "pause"
  <2>1. v = Pause(u) /\ \A h \in HSet(u.handlers) : h.rid <= u.rid
    BY <1>3, <1>4, <1>9
  <2>2. Keeps(u, v, g) /\ v.stop = "no"
    BY <1>4, <1>8, <2>1, KeepsPause
  <2>3. Keeps(t, v, g)
    BY <1>0, <1>7, <2>2, KeepsMore, WaitInWindow
  <2>4. Good(v)
    BY <1>5, <2>1, HandlesPause DEF Handles
  <2> QED
    BY <2>2, <2>3, <2>4
<1>10. CASE type = "long pause"
  <2> DEFINE why == "policy_violation"
  <2>1. v = StopAll(u, why) /\ why \in {"policy_violation", "invalid_rid"}
    BY <1>3, <1>10
  <2>2. why = "policy_violation"
    OBVIOUS
  <2> HIDE DEF why
  <2>3. Handles(u, v) /\ v.stop = why
    BY <1>5, <2>1, HandlesStopAll
  <2>4. Good(v)
    BY <2>3 DEF Handles
  <2> QED
    BY <2>2, <2>3, <2>4
<1>11. CASE type \notin {"pause", "long pause"}
  <2>1. v = u
    BY <1>3, <1>11
  <2> QED
    BY <1>4, <1>5, <1>7, <2>1
<1> QED
  BY <1>9, <1>10, <1>11

\* The deferred request is processed after the one before it.
LEMMA KeepsDeferred ==
  ASSUME NEW g \in Responses, Window(g), NEW t, Fit(t, g), t.stop = "no", Len(t.deferred) <= 1,
         t.deferred # <<>> => \A h \in HSet(t.handlers) : h.rid <= t.rid + 1,
         NEW w, w = ProcessDeferred(t)
  PROVE  /\ w.stop \in {"no", "policy_violation", "no body"}
         /\ w.stop = "no" => Keeps(t, w, g)
<1>0. Good(t) /\ Tidy(t, g) /\ Blank(t, g)
  BY DEF Fit
<1>1. CASE t.deferred = <<>>
  <2>1. w = t
    BY <1>1 DEF ProcessDeferred
  <2> QED
    BY <1>0, <2>1, KeepsSame
<1>2. CASE t.deferred # <<>>
  <2> DEFINE r == t.rid + 1
             type == t.deferred[1]
             u == [t EXCEPT !.deferred = <<>>]
             x == ProcessOne(u, type, r)
             v == ReturnSurplusHandlers(x)
  <2>1. t \in State /\ t.rid \in Nat /\ t.deferred \in Seq(Types)
    BY <1>0, StateIs DEF Good
  <2>2. r \in Nat /\ type \in Types /\ <<>> \in Seq(Types) /\ t.rid <= r
    BY <1>2, <2>1
  <2>3. w = v
    <3>1. w = IF Len(t.deferred) > 1 /\ v.stop = "no" THEN StopAll(v, "invalid_rid") ELSE v
      BY <1>2 DEF ProcessDeferred
    <3>2. ~ (Len(t.deferred) > 1)
      <4> DEFINE l == Len(t.deferred)
      <4>1. l \in Nat /\ l <= 1
        BY <2>1
      <4> HIDE DEF l
      <4>2. ~ (l > 1)
        BY ONLY <4>1
      <4> QED
        BY <4>2 DEF l
    <3> HIDE DEF v
    <3> QED
      BY ONLY <3>1, <3>2
  <2>4. /\ u \in State /\ u.handlers = t.handlers /\ u.reply = t.reply /\ u.stop = "no"
        /\ u.pending = t.pending /\ u.rid = t.rid /\ u.sent = t.sent
    BY <2>1, <2>2 DEF State
  <2>5. \A h \in HSet(u.handlers) : h.rid <= r
    BY <1>2, <2>4
  <2> HIDE DEF r, type, u, x, v
  <2>6. Fit(u, g)
    BY <1>0, <2>4 DEF Fit, Good, Tidy, Blank
  <2>7. x = ProcessOne(u, type, r) /\ v = ReturnSurplusHandlers(x) /\ u.rid <= r
    BY <2>2, <2>4 DEF x, v
  <2>8. /\ x.stop \in {"no", "policy_violation"} /\ (x.stop = "no" => Keeps(u, x, g))
        /\ Good(x)
    BY ONLY <2>2, <2>4, <2>5, <2>6, <2>7, KeepsProcessed, g \in Responses, Window(g)
  <2>9. v.stop \in {x.stop, "no body"}
    <3>1. Sends(x, v)
      BY <2>7, <2>8, SendsSurplus
    <3> QED
      BY <3>1 DEF Sends, Answers
  <2>10. ASSUME v.stop = "no"
         PROVE  Keeps(t, v, g)
    <3>1. x.stop = "no" /\ Keeps(u, x, g)
      BY <2>8, <2>9, <2>10
    <3>2. Fit(x, g)
      BY <2>8, <3>1 DEF Fit, Keeps
    <3>3. Keeps(x, v, g)
      BY <2>7, <2>10, <3>2, KeepsSurplus
    <3>4. Keeps(t, u, g)
      BY <1>0, <2>4, KeepsSame
    <3>5. Keeps(t, x, g)
      BY <1>0, <3>1, <3>4, KeepsMore, WaitInWindow
    <3> QED
      BY <1>0, <3>3, <3>5, KeepsMore, WaitInWindow
  <2> QED
    BY <2>3, <2>8, <2>9, <2>10
<1> QED
  BY <1>1, <1>2

-------------------------------------------------------------------------------
(***************************************************************************)
(* The requests of a client that keeps its window                          *)
(***************************************************************************)

\* Request r was processed or deferred.
Seen(t, r) == r <= t.rid \/ (r = t.rid + 2 /\ t.deferred # <<>>)

\* A request of the window that was seen waits or has its response in the
\* cache; one that was not seen has no response.
Cover(t, g) ==
    /\ \A r \in 1 .. Len(g) : Len(g) <= r + 1 /\ Seen(t, r) => r \in Rids(t)
    /\ \A r \in 1 .. Len(g) : ~ Seen(t, r) => g[r] = NoAnswer

\* Doubles(r), for any state.
Repeats(t, r) ==
    \/ \E k \in HSet(t.handlers) : k.rid = r
    \/ r > t.rid + 1 /\ (r \in SentRids(t.sent) \/ t.deferred # <<>>)
    \/ r \in SentRids(t.sent) /\ \E k \in HSet(t.handlers) : k.rid < r

\* The request of h arrives, without an answer, and not while it is open.
Comes(t, h, g) ==
    /\ Fit(t, g) /\ t.stop = "no" /\ AheadIn(t) /\ Len(t.deferred) <= 1 /\ Cover(t, g)
    /\ NewHandler(t, h) /\ ~ Repeats(t, h.rid)
    /\ h.rid \in 1 .. Len(g) /\ g[h.rid] = NoAnswer /\ t.rid <= Len(g)
    /\ t.deferred # <<>> => t.rid + 2 <= Len(g)

\* The request was answered, it is the next one, or the one after that.
LEMMA ComesInTurn ==
  ASSUME NEW g \in Responses, Window(g), NEW t, NEW h, Comes(t, h, g)
  PROVE  \/ h.rid \in SentRids(t.sent) /\ h.rid <= t.rid
         \/ h.rid \notin SentRids(t.sent) /\ h.rid = t.rid + 1
         \/ h.rid \notin SentRids(t.sent) /\ h.rid = t.rid + 2 /\ t.deferred = <<>>
<1> DEFINE r == h.rid
           n == Len(g)
<1>1. Good(t) /\ AheadIn(t) /\ Cover(t, g) /\ ~ Repeats(t, r)
  BY DEF Comes, Fit
<1>2. n \in Nat /\ r \in 1 .. n /\ t.rid \in Nat /\ n <= r + 1
  BY <1>1, LenIs DEF Comes, Responses, Window
<1>3. CASE r \in SentRids(t.sent)
  <2>1. r \in Rids(t)
    BY <1>3 DEF Rids
  <2>2. r <= t.rid \/ (r = t.rid + 2 /\ t.deferred # <<>>)
    BY <1>1, <2>1 DEF AheadIn
  <2>3. ~ (r > t.rid + 1)
    BY <1>1, <1>3 DEF Repeats
  <2> QED
    BY <1>2, <1>3, <2>2, <2>3
<1>4. CASE r \notin SentRids(t.sent)
  <2>1. r \notin Rids(t)
    BY <1>1, <1>4 DEF Rids, Repeats
  <2>2. ~ Seen(t, r)
    BY <1>1, <1>2, <2>1 DEF Cover
  <2>3. r > t.rid
    BY <1>2, <2>2 DEF Seen
  <2>4. ~ (r > t.rid + 2)
    <3> SUFFICES ASSUME r > t.rid + 2
                 PROVE  FALSE
      OBVIOUS
    <3>1. t.rid + 1 \in 1 .. n /\ ~ (t.rid + 1 <= t.rid) /\ t.rid + 1 # t.rid + 2
      BY <1>2
    <3>2. g[t.rid + 1] = NoAnswer
      BY <1>1, <3>1 DEF Cover, Seen
    <3>3. n <= (t.rid + 1) + 1
      BY <3>1, <3>2 DEF Window
    <3> QED
      BY <1>2, <3>3
  <2>5. CASE r = t.rid + 1
    BY <1>4, <2>5
  <2>6. CASE r = t.rid + 2
    <3>1. r > t.rid + 1
      BY <1>2, <2>6
    <3>2. t.deferred = <<>>
      BY <1>1, <3>1 DEF Repeats
    <3> QED
      BY <1>4, <2>6, <3>2
  <2> QED
    BY <1>2, <2>3, <2>4, <2>5, <2>6
<1> QED
  BY <1>3, <1>4

\* The handler of a new request is added.
LEMMA ComesFit ==
  ASSUME NEW g \in Responses, Window(g), NEW t, NEW h, Comes(t, h, g),
         h.rid \notin SentRids(t.sent), h.rid > t.rid, NEW u, u = Added(t, h)
  PROVE  Fit(u, g)
<1>1. Good(t) /\ Tidy(t, g) /\ Blank(t, g) /\ NewHandler(t, h)
      /\ \A k \in HSet(t.handlers) : k.rid # h.rid
  BY DEF Comes, Fit, Repeats
<1>2. Good(u) /\ AddedTo(t.handlers, h, u.handlers) /\ u.rid = t.rid /\ u.sent = t.sent
  BY <1>1, AddedIs
<1>3. HSet(u.handlers) = HSet(t.handlers) \cup {h}
  BY <1>2 DEF AddedTo
<1>4. Tidy(u, g)
  <2>1. /\ Rising(u.sent) /\ SentRids(u.sent) \subseteq 1 .. Len(g)
        /\ \A k \in HSet(u.handlers) : /\ k.rid \in 1 .. Len(g) /\ g[k.rid] = NoAnswer
                                       /\ k.rid \notin SentRids(u.sent)
    BY <1>1, <1>2, <1>3 DEF Tidy, Comes
  <2>2. \A a, b \in HSet(u.handlers) : a.rid = b.rid => a = b
    BY <1>1, <1>3 DEF Tidy
  <2> QED
    BY <2>1, <2>2 DEF Tidy
<1>5. Blank(u, g)
  <2> SUFFICES ASSUME NEW x \in 1 .. Len(g), x > t.rid \/ \E k \in HSet(u.handlers) : k.rid <= x
               PROVE  x > t.rid \/ \E k \in HSet(t.handlers) : k.rid <= x
    BY <1>1, <1>2 DEF Blank
  <2>1. h.rid \in Nat /\ t.rid \in Nat
    BY <1>1, LenIs DEF Comes
  <2>2. h.rid <= x => x > t.rid
    BY <2>1
  <2> QED
    BY <1>3, <2>2
<1> QED
  BY <1>2, <1>4, <1>5 DEF Fit

\* What an event leaves: the requests that were there and the new one are kept.
Arrived(t, h, u, w, g) ==
    /\ Keeps(u, w, g) /\ Len(w.deferred) <= 1
    /\ \A x \in Nat : Seen(w, x) <=> Seen(t, x) \/ x = h.rid
    /\ h \in HSet(w.handlers) => ~ Seen(t, h.rid)

\* A repeated request takes the response that it had.
LEMMA ComesAgain ==
  ASSUME NEW g \in Responses, Window(g), NEW t, NEW h, Comes(t, h, g),
         h.rid \in SentRids(t.sent), h.rid <= t.rid,
         NEW u, u = Added(t, h), NEW v, v = ResendCached(u, h.rid)
  PROVE  v.stop = "no" /\ Good(v) /\ Arrived(t, h, u, v, g)
<1> DEFINE r == h.rid
           f == Sorted(u.handlers)[1]
<1>1. Good(t) /\ Tidy(t, g) /\ Blank(t, g) /\ NewHandler(t, h) /\ t.stop = "no"
  BY DEF Comes, Fit
<1>2. /\ Good(u) /\ AddedTo(t.handlers, h, u.handlers) /\ u.rid = t.rid /\ u.sent = t.sent
      /\ u.pending = t.pending /\ u.deferred = t.deferred /\ u.stop = "no" /\ u.reply = {}
  <2>1. /\ Good(u) /\ AddedTo(t.handlers, h, u.handlers) /\ u.rid = t.rid /\ u.sent = t.sent
        /\ u.pending = t.pending /\ u.deferred = t.deferred /\ u.stop = t.stop
        /\ u.reply = t.reply
    BY <1>1, AddedIs
  <2> QED
    BY <1>1, <2>1 DEF NewHandler
<1>3. HSet(u.handlers) = HSet(t.handlers) \cup {h}
  BY <1>2 DEF AddedTo
<1>4. HasRid(u.sent, r)
  <2>1. t.sent \in Seq(CacheEntry)
    BY <1>1, StateIs DEF Good
  <2>2. DOMAIN t.sent = 1 .. Len(t.sent)
    BY <2>1
  <2> QED
    BY <1>2, <2>2 DEF HasRid, SentRids
<1>5. Valid(u)
  BY <1>2, <1>3, ValidIs
<1>6. f \in HSet(u.handlers) /\ (\A k \in HSet(u.handlers) : f.rid <= k.rid)
      /\ HSet(Tail(Sorted(u.handlers))) = HSet(u.handlers) \ {f}
  BY <1>2, <1>5, FirstIsValid
<1>7. f = h
  <2> SUFFICES ASSUME f # h
               PROVE  FALSE
    OBVIOUS
  <2>1. f \in HSet(t.handlers) /\ f.rid <= r
    BY <1>3, <1>6
  <2>2. f.rid \in Nat /\ r \in Nat
    BY <1>1, <2>1, LenIs DEF Comes
  <2>3. f.rid = r \/ f.rid < r
    BY <2>1, <2>2
  <2> QED
    BY <2>1, <2>3 DEF Comes, Repeats
<1>8. /\ v.rid = u.rid /\ v.deferred = u.deferred /\ v.stop = u.stop
      /\ v.handlers = Tail(Sorted(u.handlers)) /\ v.sent = u.sent /\ v.pending = u.pending
      /\ v.reply = u.reply \cup {[conn |-> Sorted(u.handlers)[1].conn,
                                  els |-> CachedResponse(u.sent, r)]}
      /\ Good(v)
  BY <1>2, <1>4, <1>5, ResendIs
<1>9. h \notin HSet(t.handlers)
  BY DEF Comes, Repeats
<1>10. HSet(v.handlers) = HSet(t.handlers)
  <2> DEFINE A == HSet(t.handlers)
             B == HSet(u.handlers)
             C == HSet(v.handlers)
  <2>1. C = B \ {h} /\ B = A \cup {h} /\ h \notin A
    BY <1>3, <1>6, <1>7, <1>8, <1>9
  <2> HIDE DEF A, B, C
  <2>2. C = A
    BY ONLY <2>1
  <2> QED
    BY <2>2 DEF A, C
<1>11. /\ v.sent = t.sent /\ v.rid = t.rid /\ v.deferred = t.deferred /\ v.pending = t.pending
       /\ v.reply = {[conn |-> h.conn, els |-> CachedResponse(t.sent, r)]}
  BY <1>2, <1>7, <1>8
<1>12. Tidy(v, g) /\ Blank(v, g)
  BY <1>1, <1>10, <1>11 DEF Tidy, Blank
<1>13. \A m \in v.reply : m.conn = h.conn /\ IsCached(v.sent, h.rid, m.els)
  BY <1>11 DEF IsCached
<1>14. PartsOf(v, g) = PartsOf(u, g)
  BY <1>2, <1>11 DEF PartsOf
<1>15. Keeps(u, v, g)
  <2>1. \A k \in HSet(u.handlers) : k \in HSet(v.handlers) \/ k.rid \in SentRids(v.sent)
    BY <1>3, <1>10, <1>11
  <2> QED
    BY <1>2, <1>3, <1>8, <1>10, <1>12, <1>13, <1>14, <2>1 DEF Keeps
<1>16. \A x \in Nat : Seen(v, x) <=> Seen(t, x) \/ x = r
  BY <1>11 DEF Seen
<1>17. Len(v.deferred) <= 1
  BY <1>11 DEF Comes
<1> QED
  BY <1>1, <1>2, <1>8, <1>9, <1>10, <1>15, <1>16, <1>17 DEF Arrived

\* A request whose turn it is is processed, and the deferred one with it.
LEMMA ComesExpected ==
  ASSUME NEW g \in Responses, Window(g), NEW t, NEW h, Comes(t, h, g),
         h.rid \notin SentRids(t.sent), h.rid = t.rid + 1,
         NEW type \in Types, type = "pause" => h.rid = Len(g),
         NEW u, u = Added(t, h), NEW p, p = ProcessOne(u, type, h.rid),
         NEW v, v = ProcessDeferred(p)
  PROVE  /\ v.stop \in {"no", "policy_violation", "no body"} /\ Good(v)
         /\ v.stop = "no" => Arrived(t, h, u, v, g)
<1> DEFINE r == h.rid
<1>1. Good(t) /\ NewHandler(t, h) /\ t.stop = "no" /\ AheadIn(t)
  BY DEF Comes, Fit
<1>2. /\ t.rid \in Nat /\ r \in Nat /\ r = t.rid + 1 /\ r > t.rid /\ t.rid <= r
      /\ t.deferred \in Seq(Types)
  BY <1>1, LenIs
<1>3. Fit(u, g)
  BY <1>2, ComesFit
<1>4. /\ Good(u) /\ AddedTo(t.handlers, h, u.handlers) /\ u.rid = t.rid /\ u.sent = t.sent
      /\ u.deferred = t.deferred /\ u.stop = "no"
  <2>1. /\ Good(u) /\ AddedTo(t.handlers, h, u.handlers) /\ u.rid = t.rid /\ u.sent = t.sent
        /\ u.deferred = t.deferred /\ u.stop = t.stop
    BY <1>1, AddedIs
  <2> QED
    BY <1>1, <2>1
<1>5. HSet(u.handlers) = HSet(t.handlers) \cup {h}
  BY <1>4 DEF AddedTo
<1>6. ASSUME NEW k \in HSet(u.handlers)
      PROVE  k.rid <= r \/ (k.rid = r + 1 /\ t.deferred # <<>>)
  <2>1. CASE k = h
    BY <1>2, <2>1
  <2>2. CASE k \in HSet(t.handlers)
    <3>1. k.rid \in Rids(t) /\ k.rid \in Nat
      BY <1>1, <2>2, LenIs DEF Rids
    <3>2. k.rid <= t.rid \/ (k.rid = t.rid + 2 /\ t.deferred # <<>>)
      BY <1>1, <3>1 DEF AheadIn
    <3> QED
      BY <1>2, <3>1, <3>2
  <2> QED
    BY <1>5, <2>1, <2>2
<1>7. type = "pause" => \A k \in HSet(u.handlers) : k.rid <= r
  <2> SUFFICES ASSUME type = "pause", t.deferred # <<>>
               PROVE  FALSE
    BY <1>6
  <2>1. t.rid + 2 <= Len(g) /\ r = Len(g)
    BY DEF Comes
  <2> QED
    BY <1>2, <2>1
<1>8. p = ProcessOne(u, type, r) /\ ~ Crashed(u)
  BY <1>4 DEF Crashed
<1> HIDE DEF r
<1>9. /\ p.stop \in {"no", "policy_violation"} /\ (p.stop = "no" => Keeps(u, p, g))
      /\ Good(p)
  BY ONLY <1>2, <1>3, <1>4, <1>7, <1>8, KeepsProcessed, type \in Types, g \in Responses, Window(g)
<1>10. p.rid = r /\ p.deferred = t.deferred
  <2>1. p.rid = r /\ p.deferred = u.deferred
    <3> DEFINE x == ProcessOne(u, type, r)
    <3>1. /\ Handles(u, x) /\ x.rid = r /\ x.deferred = u.deferred
          /\ x.fwd = Append(u.fwd, [rid |-> r, type |-> type])
      BY ONLY <1>2, <1>4, <1>8, type \in Types, HandlesOne
    <3>2. x = p
      BY <1>8
    <3> HIDE DEF x
    <3> QED
      BY ONLY <3>1, <3>2
  <2> QED
    BY <1>4, <2>1
<1>11. ~ Crashed(p)
  BY <1>9 DEF Crashed
<1>12. /\ Handles(p, v)
       /\ p.stop # "no" \/ p.deferred = <<>> => v = p
       /\ p.stop = "no" /\ p.deferred # <<>> => v.rid = p.rid + 1 /\ v.deferred = <<>>
  BY <1>9, <1>11, HandlesDeferred
<1>13. Good(v)
  BY <1>12 DEF Handles
<1>14. CASE p.stop # "no"
  BY <1>9, <1>12, <1>13, <1>14
<1>15. CASE p.stop = "no"
  <2>1. Fit(p, g) /\ Keeps(u, p, g)
    BY <1>9, <1>15 DEF Fit, Keeps
  <2>2. Len(p.deferred) <= 1
    BY <1>10 DEF Comes
  <2>3. p.deferred # <<>> => \A k \in HSet(p.handlers) : k.rid <= p.rid + 1
    <3> SUFFICES ASSUME NEW k \in HSet(p.handlers)
                 PROVE  k.rid <= r + 1
      BY <1>10
    <3>1. k \in HSet(u.handlers)
      BY <2>1 DEF Keeps
    <3>2. k.rid \in Nat
      BY <1>4, <3>1, LenIs
    <3> QED
      BY <1>2, <1>6, <3>1, <3>2
  <2>4. /\ v.stop \in {"no", "policy_violation", "no body"}
        /\ v.stop = "no" => Keeps(p, v, g)
    BY <1>15, <2>1, <2>2, <2>3, KeepsDeferred
  <2>5. ASSUME v.stop = "no"
        PROVE  Arrived(t, h, u, v, g)
    <3>1. Keeps(u, v, g)
      <4>1. \A k \in HSet(u.handlers) : Len(g) <= k.rid + 1
        BY <1>3, WaitInWindow DEF Fit
      <4> QED
        BY <2>1, <2>4, <2>5, <4>1, KeepsMore
    <3>2. CASE t.deferred = <<>>
      <4>1. v.rid = r /\ v.deferred = <<>>
        BY <1>10, <1>12, <3>2
      <4>2. \A x \in Nat : Seen(v, x) <=> Seen(t, x) \/ x = r
        BY <1>2, <3>2, <4>1 DEF Seen
      <4>3. ~ Seen(t, r) /\ Len(v.deferred) <= 1
        BY <1>2, <4>1 DEF Seen
      <4> QED
        BY <3>1, <4>2, <4>3 DEF Arrived, r
    <3>3. CASE t.deferred # <<>>
      <4>1. v.rid = r + 1 /\ v.deferred = <<>>
        BY <1>10, <1>12, <1>15, <3>3
      <4>2. \A x \in Nat : Seen(v, x) <=> Seen(t, x) \/ x = r
        BY <1>2, <3>3, <4>1 DEF Seen
      <4>3. ~ Seen(t, r) /\ Len(v.deferred) <= 1
        BY <1>2, <4>1 DEF Seen
      <4> QED
        BY <3>1, <4>2, <4>3 DEF Arrived, r
    <3> QED
      BY <3>2, <3>3
  <2> QED
    BY <1>13, <2>4, <2>5
<1> QED
  BY <1>14, <1>15

\* A request that is one ahead of its turn waits for it.
LEMMA ComesDeferred ==
  ASSUME NEW g \in Responses, Window(g), NEW t, NEW h, Comes(t, h, g),
         h.rid \notin SentRids(t.sent), h.rid = t.rid + 2, Len(t.deferred) = 0,
         NEW u, u = Added(t, h), NEW v \in State, v.handlers = u.handlers, v.reply = u.reply,
         v.stop = u.stop, v.pending = u.pending, v.rid = u.rid, v.sent = u.sent,
         Len(v.deferred) = 1
  PROVE  v.stop = "no" /\ Good(v) /\ Arrived(t, h, u, v, g)
<1> DEFINE r == h.rid
<1>1. Good(t) /\ NewHandler(t, h) /\ t.stop = "no"
  BY DEF Comes, Fit
<1>2. /\ t.rid \in Nat /\ r \in Nat /\ r = t.rid + 2 /\ r > t.rid
  BY <1>1, LenIs
<1>3. Fit(u, g)
  BY <1>2, ComesFit
<1>4. u.rid = t.rid /\ u.stop = "no" /\ Good(u)
  <2>1. Good(u) /\ u.rid = t.rid /\ u.stop = t.stop
    BY <1>1, AddedIs
  <2> QED
    BY <1>1, <2>1
<1> HIDE DEF r
<1>7. /\ v \in State /\ v.handlers = u.handlers /\ v.reply = u.reply /\ v.stop = "no"
      /\ v.pending = u.pending /\ v.rid = t.rid /\ v.sent = u.sent
  BY <1>4
<1>8. Good(v)
  BY <1>4, <1>7 DEF Good
<1>9. Keeps(u, v, g)
  BY <1>3, <1>4, <1>7, KeepsSame DEF Fit
<1>10. t.deferred = <<>> /\ v.deferred # <<>> /\ Len(v.deferred) <= 1
  <2> DEFINE a == Len(t.deferred)
             b == Len(v.deferred)
  <2>1. a = 0 /\ b = 1 /\ (t.deferred = <<>> <=> a = 0) /\ (v.deferred = <<>> <=> b = 0)
    BY <1>1, <1>8, LenIs
  <2> HIDE DEF a, b
  <2>2. t.deferred = <<>> /\ v.deferred # <<>> /\ b <= 1
    BY ONLY <2>1
  <2> QED
    BY <2>2 DEF b
<1>11. \A x \in Nat : Seen(v, x) <=> Seen(t, x) \/ x = r
  BY <1>2, <1>7, <1>10 DEF Seen
<1>12. ~ Seen(t, r)
  BY <1>2, <1>10 DEF Seen
<1> QED
  BY <1>7, <1>8, <1>9, <1>10, <1>11, <1>12 DEF Arrived, r

\* Whichever of these it is, handle_stream_event keeps the requests.
LEMMA ComesEvent ==
  ASSUME NEW g \in Responses, Window(g), NEW t, NEW h, Comes(t, h, g),
         NEW type \in Types, type = "pause" => h.rid = Len(g),
         NEW u, u = Added(t, h), NEW w, w = HandleStreamEvent(t, type, h)
  PROVE  /\ w.stop \notin {"invalid_rid", "crash"}
         /\ w.stop = "no" => Arrived(t, h, u, w, g)
<1> DEFINE r == h.rid
           p == ProcessOne(u, type, r)
           x == ResendCached(u, r)
           y == ProcessDeferred(p)
           z == [u EXCEPT !.deferred = <<type>> \o @]
           v == IF IsRetransmission(t, r) THEN IF HasRid(t.sent, r) THEN x ELSE u
                ELSE IF IsExpectedRid(t, r) THEN y
                ELSE IF IsAcceptableRid(t, r) THEN z
                ELSE StopAll(u, "invalid_rid")
<1>1. w = ReturnSurplusHandlers(v)
  BY DEF HandleStreamEvent, Added
<1>2. Good(t) /\ NewHandler(t, h)
  BY DEF Comes, Fit
<1>3. t.rid \in Nat /\ r \in Nat
  BY <1>2, LenIs DEF NewHandler, Handler
<1>4. HasRid(t.sent, r) <=> r \in SentRids(t.sent)
  <2>1. t.sent \in Seq(CacheEntry)
    BY <1>2, StateIs DEF Good
  <2>2. DOMAIN t.sent = 1 .. Len(t.sent)
    BY <2>1
  <2> QED
    BY <2>2 DEF HasRid, SentRids
<1>5. /\ v.stop \in {"no", "policy_violation", "no body"} /\ Good(v)
      /\ v.stop = "no" => Arrived(t, h, u, v, g)
  <2>1. CASE r \in SentRids(t.sent) /\ r <= t.rid
    <3>1. v = x
      BY <1>4, <2>1 DEF IsRetransmission
    <3> HIDE DEF v
    <3>2. x.stop = "no" /\ Good(x) /\ Arrived(t, h, u, x, g)
      <4> HIDE DEF x
      <4>1. x = ResendCached(u, h.rid) /\ h.rid \in SentRids(t.sent) /\ h.rid <= t.rid
        BY <2>1 DEF x
      <4> QED
        BY <4>1, ComesAgain
    <3> HIDE DEF x
    <3> QED
      BY <3>1, <3>2
  <2>2. CASE r \notin SentRids(t.sent) /\ r = t.rid + 1
    <3>1. ~ IsRetransmission(t, r) /\ IsExpectedRid(t, r)
      BY <1>3, <1>4, <2>2 DEF IsRetransmission, IsExpectedRid
    <3>2. v = y
      BY <3>1
    <3>3. p = ProcessOne(u, type, h.rid) /\ y = ProcessDeferred(p)
      OBVIOUS
    <3>4. h.rid \notin SentRids(t.sent) /\ h.rid = t.rid + 1
      BY <2>2
    <3> HIDE DEF v, y, p
    <3>5. /\ y.stop \in {"no", "policy_violation", "no body"} /\ Good(y)
          /\ y.stop = "no" => Arrived(t, h, u, y, g)
      BY <3>3, <3>4, ComesExpected
    <3> QED
      BY <3>2, <3>5
  <2>3. CASE r \notin SentRids(t.sent) /\ r = t.rid + 2 /\ t.deferred = <<>>
    <3>1. ~ IsRetransmission(t, r) /\ ~ IsExpectedRid(t, r) /\ IsAcceptableRid(t, r)
      BY <1>3, <1>4, <2>3
      DEF IsRetransmission, IsExpectedRid, IsAcceptableRid, ConcurrentRequests
    <3>2. v = z
      BY <3>1
    <3> DEFINE d == <<type>> \o u.deferred
    <3>3. z = [u EXCEPT !.deferred = d]
      OBVIOUS
    <3>4. h.rid \notin SentRids(t.sent) /\ h.rid = t.rid + 2 /\ Len(t.deferred) = 0
      BY <1>2, <2>3, LenIs
    <3>5. d \in Seq(Types) /\ Len(d) = 1 /\ u \in State
      <4>1. Good(u) /\ u.deferred = t.deferred
        BY <1>2, AddedIs
      <4>2. u.deferred = <<>>
        BY <2>3, <4>1
      <4> QED
        BY <4>1, <4>2 DEF Good
    <3> HIDE DEF v, z, d
    <3>6. /\ z \in State /\ z.handlers = u.handlers /\ z.reply = u.reply /\ z.stop = u.stop
          /\ z.pending = u.pending /\ z.rid = u.rid /\ z.sent = u.sent
          /\ Len(z.deferred) = 1
      BY <3>3, <3>5 DEF State
    <3>7. z.stop = "no" /\ Good(z) /\ Arrived(t, h, u, z, g)
      BY <3>4, <3>6, ComesDeferred
    <3> QED
      BY <3>2, <3>7
  <2> QED
    BY <2>1, <2>2, <2>3, ComesInTurn
<1> HIDE DEF v
<1>6. /\ w.rid = v.rid /\ w.deferred = v.deferred /\ w.stop \in {v.stop, "no body"}
      /\ HSet(w.handlers) \subseteq HSet(v.handlers)
  <2>1. Sends(v, w)
    BY <1>1, <1>5, SendsSurplus
  <2> QED
    BY <2>1 DEF Sends, Answers
<1>7. ASSUME w.stop = "no"
      PROVE  Arrived(t, h, u, w, g)
  <2>1. v.stop = "no" /\ Arrived(t, h, u, v, g)
    BY <1>5, <1>6, <1>7
  <2>2. Keeps(u, v, g)
    BY <2>1 DEF Arrived
  <2>3. Fit(v, g)
    BY <1>5, <2>2 DEF Fit, Keeps
  <2>4. Keeps(v, w, g)
    BY <1>1, <1>7, <2>3, KeepsSurplus
  <2>5. \A k \in HSet(u.handlers) : Len(g) <= k.rid + 1
    <3>1. AddedTo(t.handlers, h, u.handlers)
      BY <1>2, AddedIs
    <3>2. HSet(u.handlers) = HSet(t.handlers) \cup {h}
      BY <3>1 DEF AddedTo
    <3>3. Len(g) <= h.rid + 1
      <4>1. h.rid \in 1 .. Len(g) /\ g[h.rid] = NoAnswer
        BY DEF Comes
      <4> QED
        BY <4>1 DEF Window
    <3>4. \A k \in HSet(t.handlers) : Len(g) <= k.rid + 1
      <4>1. Tidy(t, g)
        BY DEF Comes, Fit
      <4> QED
        BY <4>1, WaitInWindow
    <3> QED
      BY <3>2, <3>3, <3>4
  <2>6. Keeps(u, w, g)
    BY <2>2, <2>4, <2>5, KeepsMore
  <2>7. \A k \in Nat : Seen(w, k) <=> Seen(v, k)
    BY <1>6 DEF Seen
  <2> QED
    BY <1>6, <2>1, <2>6, <2>7 DEF Arrived
<1> QED
  BY <1>5, <1>6, <1>7

-------------------------------------------------------------------------------
(***************************************************************************)
(* The process and the connections                                         *)
(***************************************************************************)

\* A response on its way is the cached one, and a wait_timeout in the mailbox
\* finds the handler whose timer it was, or none.
Linked(t, cs, waits) ==
    /\ \A m \in t.reply : m.conn \in 1 .. Len(cs) /\ IsCached(t.sent, cs[m.conn].rid, m.els)
    /\ \A c \in 1 .. Len(cs) : cs[c].st = "answered" => IsCached(t.sent, cs[c].rid, cs[c].els)
    /\ \A c \in waits : /\ Seen(t, cs[c].rid)
                        /\ \A h \in HSet(t.handlers) : h.rid = cs[c].rid => h.conn = c

\* What holds as long as no repeated request met an open one (Doubles).
Fine(t, cs, waits, n, g) ==
    /\ Len(t.deferred) <= 1 /\ Tidy(t, g) /\ Blank(t, g) /\ Line(PartsOf(t, g), n)
    /\ Cover(t, g) /\ Linked(t, cs, waits)

\* From t, a step of the process adds to what waits, which makes it u, and then
\* answers some of the handlers.
Serving(t, u, w, g) ==
    /\ Keeps(u, w, g) /\ u.reply = {} /\ u.sent = t.sent
    /\ HSet(t.handlers) \subseteq HSet(u.handlers) /\ Len(w.deferred) <= 1
    /\ \A x \in Nat : Seen(t, x) => Seen(w, x)
    /\ \A x \in Nat : Seen(w, x) => Seen(t, x) \/ \E k \in HSet(u.handlers) : k.rid = x
    /\ \A k \in HSet(w.handlers) : k \in HSet(t.handlers) \/ ~ Seen(t, k.rid)

\* cs is like ds, whose responses on their way go to requests without an answer.
Carries(ds, cs, g) ==
    /\ Len(cs) = Len(ds)
    /\ \A c \in 1 .. Len(cs) :
         /\ cs[c].rid = ds[c].rid /\ cs[c].rid \in 1 .. Len(g)
         /\ cs[c].st = "answered" => cs[c] = ds[c] /\ g[cs[c].rid] = NoAnswer

LEMMA ServingCovers ==
  ASSUME NEW g \in Responses, NEW t, NEW u, NEW w, Cover(t, g), Serving(t, u, w, g)
  PROVE  Cover(w, g)
<1>1. Len(g) \in Nat /\ \A r \in 1 .. Len(g) : r \in Nat
  BY DEF Responses
<1>2. ASSUME NEW r \in 1 .. Len(g), Len(g) <= r + 1, Seen(w, r)
      PROVE  r \in Rids(w)
  <2>1. Seen(t, r) \/ \E k \in HSet(u.handlers) : k.rid = r
    BY <1>1, <1>2 DEF Serving
  <2>2. CASE \E k \in HSet(u.handlers) : k.rid = r
    BY <2>2 DEF Serving, Keeps, Rids
  <2>3. CASE Seen(t, r)
    <3>1. r \in Rids(t)
      BY <1>2, <2>3 DEF Cover
    <3>2. CASE r \in SentRids(t.sent)
      BY <1>2, <3>2 DEF Serving, Keeps, Rids
    <3>3. CASE \E k \in HSet(t.handlers) : k.rid = r
      BY <3>3 DEF Serving, Keeps, Rids
    <3> QED
      BY <3>1, <3>2, <3>3 DEF Rids
  <2> QED
    BY <2>1, <2>2, <2>3
<1>3. \A r \in 1 .. Len(g) : ~ Seen(w, r) => g[r] = NoAnswer
  BY <1>1 DEF Serving, Cover
<1> QED
  BY <1>2, <1>3 DEF Cover

LEMMA ServingLinks ==
  ASSUME NEW g \in Responses, Window(g), NEW t, NEW u, NEW w, Serving(t, u, w, g),
         NEW ds, NEW cs, Carries(ds, cs, g), NEW waits, NEW rest, rest \subseteq waits,
         waits \subseteq 1 .. Len(cs), Linked(t, ds, waits),
         \A k \in HSet(u.handlers) : k.conn \in 1 .. Len(cs) /\ cs[k.conn].rid = k.rid
  PROVE  Linked(w, cs, rest)
<1>1. \A m \in w.reply : m.conn \in 1 .. Len(cs) /\ IsCached(w.sent, cs[m.conn].rid, m.els)
  <2> SUFFICES ASSUME NEW m \in w.reply
               PROVE  m.conn \in 1 .. Len(cs) /\ IsCached(w.sent, cs[m.conn].rid, m.els)
    OBVIOUS
  <2>1. PICK k \in HSet(u.handlers) : m.conn = k.conn /\ IsCached(w.sent, k.rid, m.els)
    BY DEF Serving, Keeps
  <2> QED
    BY <2>1
<1>2. ASSUME NEW c \in 1 .. Len(cs), cs[c].st = "answered"
      PROVE  IsCached(w.sent, cs[c].rid, cs[c].els)
  <2>1. cs[c] = ds[c] /\ cs[c].rid \in 1 .. Len(g) /\ g[cs[c].rid] = NoAnswer /\ c \in 1 .. Len(ds)
    BY <1>2 DEF Carries
  <2>2. Len(g) <= cs[c].rid + 1
    BY <2>1 DEF Window
  <2>3. IsCached(t.sent, cs[c].rid, cs[c].els)
    BY <1>2, <2>1 DEF Linked
  <2> QED
    BY <2>2, <2>3 DEF IsCached, Serving, Keeps
<1>3. ASSUME NEW c \in rest
      PROVE  /\ Seen(w, cs[c].rid)
             /\ \A h \in HSet(w.handlers) : h.rid = cs[c].rid => h.conn = c
  <2>1. c \in waits /\ cs[c].rid = ds[c].rid /\ cs[c].rid \in Nat
    <3>1. c \in waits /\ c \in 1 .. Len(cs)
      OBVIOUS
    <3>2. cs[c].rid \in 1 .. Len(g)
      BY <3>1 DEF Carries
    <3> QED
      BY <3>1, <3>2 DEF Carries
  <2>2. /\ Seen(t, cs[c].rid)
        /\ \A h \in HSet(t.handlers) : h.rid = cs[c].rid => h.conn = c
    BY <2>1 DEF Linked
  <2>3. Seen(w, cs[c].rid)
    BY <2>1, <2>2 DEF Serving
  <2>4. ASSUME NEW h \in HSet(w.handlers), h.rid = cs[c].rid
        PROVE  h.conn = c
    <3>1. h \in HSet(t.handlers)
      BY <2>2, <2>4 DEF Serving
    <3> QED
      BY <2>2, <2>4, <3>1
  <2> QED
    BY <2>3, <2>4
<1> QED
  BY <1>1, <1>2, <1>3 DEF Linked

LEMMA ServingFine ==
  ASSUME NEW g \in Responses, Window(g), NEW t, NEW u, NEW w, Serving(t, u, w, g),
         NEW ds, NEW cs, Carries(ds, cs, g), NEW waits, NEW rest, rest \subseteq waits,
         waits \subseteq 1 .. Len(cs), NEW o, Fine(t, ds, waits, o, g),
         \A k \in HSet(u.handlers) : k.conn \in 1 .. Len(cs) /\ cs[k.conn].rid = k.rid,
         NEW n \in Nat, Line(PartsOf(u, g), n)
  PROVE  Fine(w, cs, rest, n, g)
<1>1. Cover(t, g) /\ Linked(t, ds, waits)
  BY DEF Fine
<1>2. Cover(w, g)
  BY <1>1, ServingCovers
<1>3. Linked(w, cs, rest)
  BY <1>1, ServingLinks
<1>4. Len(w.deferred) <= 1 /\ Tidy(w, g) /\ Blank(w, g) /\ Line(PartsOf(w, g), n)
  BY DEF Serving, Keeps
<1> QED
  BY <1>2, <1>3, <1>4 DEF Fine

\* The responses of the step go to the connections.
LEMMA AnsweredFine ==
  ASSUME NEW t \in State, NEW cs, NEW as, AnsweredAs(cs, t.reply, {}, as), NEW waits,
         waits \subseteq 1 .. Len(cs), NEW n, NEW g, Fine(t, cs, waits, n, g),
         NEW u, u = [t EXCEPT !.reply = {}]
  PROVE  Fine(u, as, waits, n, g)
<1>1. /\ u.handlers = t.handlers /\ u.rid = t.rid /\ u.deferred = t.deferred /\ u.sent = t.sent
      /\ u.pending = t.pending /\ u.reply = {}
  BY DEF State
<1>2. Len(u.deferred) <= 1 /\ Tidy(u, g) /\ Blank(u, g) /\ Cover(u, g)
  BY <1>1 DEF Fine, Tidy, Blank, Cover, Seen, Rids
<1>3. PartsOf(u, g) = PartsOf(t, g)
  BY <1>1 DEF PartsOf
<1>4. Line(PartsOf(u, g), n)
  BY <1>3 DEF Fine
<1>5. Len(as) = Len(cs) /\ \A c \in 1 .. Len(cs) : as[c].rid = cs[c].rid
  BY DEF AnsweredAs
<1>6. ASSUME NEW c \in 1 .. Len(as), as[c].st = "answered"
      PROVE  IsCached(t.sent, as[c].rid, as[c].els)
  <2>1. c \in 1 .. Len(cs)
    BY <1>5
  <2>2. Linked(t, cs, waits)
    BY DEF Fine
  <2>3. CASE cs[c].st = "held" /\ Replied(c, t.reply)
    <3>1. PICK m \in t.reply : m.conn = c /\ as[c].els = m.els
      BY <2>1, <2>3 DEF AnsweredAs
    <3> QED
      BY <1>5, <2>1, <2>2, <3>1 DEF Linked
  <2>4. CASE ~ (cs[c].st = "held" /\ Replied(c, t.reply))
    <3>1. as[c] = cs[c]
      BY <2>1, <2>4 DEF AnsweredAs
    <3> QED
      BY <1>6, <2>1, <2>2, <3>1 DEF Linked
  <2> QED
    BY <2>3, <2>4
<1>7. ASSUME NEW c \in waits
      PROVE  /\ Seen(u, as[c].rid)
             /\ \A h \in HSet(u.handlers) : h.rid = as[c].rid => h.conn = c
  <2>1. c \in 1 .. Len(cs) /\ Linked(t, cs, waits)
    BY DEF Fine
  <2>2. /\ Seen(t, as[c].rid)
        /\ \A h \in HSet(t.handlers) : h.rid = as[c].rid => h.conn = c
    BY <1>5, <2>1 DEF Linked
  <2> QED
    BY <1>1, <2>2 DEF Seen
<1>8. Linked(u, as, waits)
  BY <1>1, <1>6, <1>7 DEF Linked
<1> QED
  BY <1>2, <1>4, <1>8 DEF Fine

(***************************************************************************)
(* The client                                                              *)
(***************************************************************************)

\* The client keeps its window, has nothing but normal requests open behind
\* its last one, and has one transmission at most of a request under way; c2s
\* sends nothing more to a process that is closing.
WindowInv ==
    /\ Window(got)
    /\ \A r \in 1 .. Len(got) : got[r] = NoAnswer => req[r] = "normal" \/ r = Len(got)
    /\ \A c \in 1 .. Len(conns) : conns[c].st # "done" => got[conns[c].rid] = NoAnswer
    /\ \A c, d \in 1 .. Len(conns) :
         conns[c].st # "done" /\ conns[d].st # "done" /\ conns[c].rid = conns[d].rid => c = d
    /\ s.name = "closing" => c2s = "closed"

\* The connections stay, or end.
LEMMA WindowStays ==
  ASSUME WindowInv, req' = req, got' = got, Len(conns') = Len(conns),
         \A c \in 1 .. Len(conns) : /\ conns'[c].rid = conns[c].rid
                                    /\ conns'[c].st # "done" => conns[c].st # "done",
         s'.name = "closing" => c2s' = "closed"
  PROVE  WindowInv'
<1>1. Window(got') /\ \A r \in 1 .. Len(got') : got'[r] = NoAnswer => req'[r] = "normal" \/ r = Len(got')
  BY DEF WindowInv
<1>2. ASSUME NEW c \in 1 .. Len(conns'), conns'[c].st # "done"
      PROVE  got'[conns'[c].rid] = NoAnswer
  BY <1>2 DEF WindowInv
<1>3. ASSUME NEW c \in 1 .. Len(conns'), NEW d \in 1 .. Len(conns'),
             conns'[c].st # "done", conns'[d].st # "done", conns'[c].rid = conns'[d].rid
      PROVE  c = d
  BY <1>3 DEF WindowInv
<1> QED
  BY <1>1, <1>2, <1>3 DEF WindowInv

LEMMA WindowFinish ==
  ASSUME SessionInv, WindowInv, NEW t \in State, NEW cs \in Seq(Conn), NEW waits, NEW idle,
         NEW accs, NEW next, Finish(t, cs, waits, idle, accs, next), req' = req, got' = got,
         Len(cs) = Len(conns),
         \A c \in 1 .. Len(conns) : /\ cs[c].rid = conns[c].rid
                                    /\ cs[c].st # "done" => conns[c].st # "done",
         t.stop = "no" /\ t.name = "closing" => next = "closed"
  PROVE  WindowInv'
<1> DEFINE closes == IF t.stop = "no" THEN {} ELSE Closed(t)
<1>1. conns' = Answered(cs, t.reply, closes)
  BY DEF Finish
<1>2. t.reply \in SUBSET [conn : Nat, els : Bodies]
  BY StateIs
<1> HIDE DEF closes
<1>3. AnsweredAs(cs, t.reply, closes, conns')
  BY <1>1, <1>2, AnsweredIs
<1>4. Len(conns') = Len(conns)
  BY <1>3 DEF AnsweredAs
<1>5. ASSUME NEW c \in 1 .. Len(conns)
      PROVE  conns'[c].rid = conns[c].rid /\ (conns'[c].st # "done" => conns[c].st # "done")
  <2>1. c \in 1 .. Len(cs)
    OBVIOUS
  <2>2. conns'[c].rid = cs[c].rid /\ (cs[c].st # "held" => conns'[c] = cs[c])
    BY <1>3, <2>1 DEF AnsweredAs
  <2> QED
    BY <2>2
<1>6. s'.name = "closing" => c2s' = "closed"
  <2>1. CASE t.stop = "no"
    <3>1. s' = [t EXCEPT !.reply = {}] /\ c2s' = next
      BY <2>1 DEF Finish
    <3>2. s'.name = t.name
      BY <3>1 DEF State
    <3> QED
      BY <2>1, <3>1, <3>2
  <2>2. CASE t.stop # "no"
    BY <2>2 DEF Finish
  <2> QED
    BY <2>1, <2>2
<1> QED
  BY <1>4, <1>5, <1>6, WindowStays

\* A step of the process that keeps the connections.
LEMMA WindowPlain ==
  ASSUME SessionInv, WindowInv, NEW t \in State, NEW waits, NEW idle,
         NEW accs, NEW next, Finish(t, conns, waits, idle, accs, next), req' = req, got' = got,
         t.stop = "no" /\ t.name = "closing" => next = "closed"
  PROVE  WindowInv'
<1>1. conns \in Seq(Conn)
  BY DEF SessionInv
<1> DEFINE cs == conns
<1>2. /\ cs \in Seq(Conn) /\ Len(cs) = Len(conns) /\ Finish(t, cs, waits, idle, accs, next)
      /\ \A c \in 1 .. Len(conns) : /\ cs[c].rid = conns[c].rid
                                    /\ cs[c].st # "done" => conns[c].st # "done"
  BY <1>1
<1> HIDE DEF cs
<1> QED
  BY ONLY <1>2, WindowFinish, SessionInv, WindowInv, t \in State, req' = req, got' = got,
          t.stop = "no" /\ t.name = "closing" => next = "closed"

(***************************************************************************)
(* The inductive invariant                                                 *)
(***************************************************************************)

FineInv ==
    ~ doubled => /\ s.stop \notin {"invalid_rid", "crash"}
                 /\ Alive => Fine(s, conns, waitMsgs, out, got)

LEMMA FineFinish ==
  ASSUME NEW t \in State, NEW cs \in Seq(Conn), NEW waits, NEW idle, NEW accs, NEW next,
         Finish(t, cs, waits, idle, accs, next), waits \subseteq 1 .. Len(cs), got' = got,
         ~ doubled' => /\ t.stop \notin {"invalid_rid", "crash"}
                       /\ t.stop = "no" => Fine(t, cs, waits, out', got)
  PROVE  FineInv'
<1> SUFFICES ASSUME ~ doubled'
             PROVE  /\ s'.stop \notin {"invalid_rid", "crash"}
                    /\ Alive' => Fine(s', conns', waitMsgs', out', got')
  BY DEF FineInv
<1>1. t.reply \in SUBSET [conn : Nat, els : Bodies]
  BY StateIs
<1>2. CASE t.stop = "no"
  <2> DEFINE no == {}
  <2>1. s' = [t EXCEPT !.reply = {}] /\ conns' = Answered(cs, t.reply, no) /\ waitMsgs' = waits
    BY <1>2 DEF Finish
  <2>2. s'.stop = t.stop
    BY <2>1 DEF State
  <2> HIDE DEF no
  <2>3. AnsweredAs(cs, t.reply, no, conns')
    BY <1>1, <2>1, AnsweredIs
  <2>4. AnsweredAs(cs, t.reply, {}, conns')
    BY <2>3 DEF no
  <2>5. Fine(t, cs, waits, out', got)
    BY <1>2
  <2>6. Fine(s', conns', waits, out', got)
    BY <2>1, <2>4, <2>5, AnsweredFine
  <2> QED
    BY <1>2, <2>1, <2>2, <2>6
<1>3. CASE t.stop # "no"
  <2>1. s'.name = "stopped" /\ s'.stop = t.stop
    BY <1>3 DEF Finish, Fresh
  <2> QED
    BY <2>1 DEF Alive
<1> QED
  BY <1>2, <1>3

\* What is known of a running process.
LEMMA FineIs ==
  ASSUME SessionInv, HoldInv, WindowInv, FineInv, Alive
  PROVE  /\ got \in Responses /\ Window(got) /\ Len(got) \in Nat /\ Len(got) = Len(req)
         /\ Good(s) /\ s.stop = "no" /\ s.reply = {} /\ conns \in Seq(Conn)
         /\ waitMsgs \subseteq 1 .. Len(conns) /\ out \in Nat /\ AheadIn(s) /\ Held(s)
         /\ Carries(conns, conns, got)
         /\ \A h \in HSet(s.handlers) : h.conn \in 1 .. Len(conns) /\ conns[h.conn].rid = h.rid
         /\ ~ doubled => Fit(s, got) /\ Fine(s, conns, waitMsgs, out, got)
<1>1. /\ got \in Responses /\ Window(got) /\ Len(got) = Len(req)
      /\ Good(s) /\ s.stop = "no" /\ s.reply = {} /\ conns \in Seq(Conn)
      /\ waitMsgs \subseteq 1 .. Len(conns) /\ out \in Nat /\ AheadIn(s) /\ Held(s)
      /\ req \in Seq(Types)
  BY BoshAssumption DEF SessionInv, HoldInv, WindowInv, Responses
<1>2. Len(got) \in Nat
  BY <1>1 DEF Responses
<1>3. Carries(conns, conns, got)
  <2> SUFFICES ASSUME NEW c \in 1 .. Len(conns)
               PROVE  /\ conns[c].rid \in 1 .. Len(got)
                      /\ conns[c].st = "answered" => got[conns[c].rid] = NoAnswer
    BY DEF Carries
  <2>1. conns[c] \in Conn /\ DOMAIN req = 1 .. Len(req)
    BY <1>1
  <2>2. conns[c].rid \in 1 .. Len(got)
    BY <1>1, <2>1 DEF Conn
  <2> QED
    BY <2>2 DEF WindowInv
<1>4. \A h \in HSet(s.handlers) : h.conn \in 1 .. Len(conns) /\ conns[h.conn].rid = h.rid
  BY DEF SessionInv, ListedIn
<1>5. ~ doubled => Fit(s, got) /\ Fine(s, conns, waitMsgs, out, got)
  BY <1>1 DEF FineInv, Fine, Fit
<1> QED
  BY <1>1, <1>2, <1>3, <1>4, <1>5

\* A step of the process that keeps the connections, and all that it has seen.
LEMMA FinePlain ==
  ASSUME SessionInv, HoldInv, WindowInv, FineInv, Alive,
         NEW t \in State, NEW waits, NEW idle, NEW accs, NEW next,
         Finish(t, conns, waits, idle, accs, next), waits \subseteq waitMsgs, got' = got,
         doubled' = doubled, out' \in Nat, t.rid = s.rid, t.deferred = s.deferred,
         ~ doubled => /\ t.stop \notin {"invalid_rid", "crash"}
                      /\ t.stop = "no" =>
                           \E u : /\ Keeps(u, t, got) /\ u.reply = {} /\ u.sent = s.sent
                                  /\ u.handlers = s.handlers /\ Line(PartsOf(u, got), out')
  PROVE  FineInv'
<1> DEFINE cs == conns
           ws == waitMsgs
           g == got
           n == out'
<1>1. /\ g \in Responses /\ Window(g) /\ cs \in Seq(Conn) /\ ws \subseteq 1 .. Len(cs)
      /\ waits \subseteq ws /\ Carries(cs, cs, g) /\ n \in Nat
      /\ \A h \in HSet(s.handlers) : h.conn \in 1 .. Len(cs) /\ cs[h.conn].rid = h.rid
      /\ ~ doubled => Fine(s, cs, ws, out, g)
      /\ Finish(t, cs, waits, idle, accs, next)
  BY FineIs
<1>2. ASSUME ~ doubled, t.stop = "no"
      PROVE  Fine(t, cs, waits, n, g)
  <2>1. PICK u : /\ Keeps(u, t, g) /\ u.reply = {} /\ u.sent = s.sent
                 /\ u.handlers = s.handlers /\ Line(PartsOf(u, g), n)
    BY <1>2
  <2>2. \A x \in Nat : Seen(t, x) <=> Seen(s, x)
    BY DEF Seen
  <2>3. Len(t.deferred) <= 1
    BY <1>1, <1>2 DEF Fine
  <2>4. HSet(t.handlers) \subseteq HSet(s.handlers)
    BY <2>1 DEF Keeps
  <2>5. Serving(s, u, t, g)
    BY <2>1, <2>2, <2>3, <2>4 DEF Serving
  <2> DEFINE o == out
  <2>6. Fine(s, cs, ws, o, g)
    BY <1>1, <1>2
  <2> HIDE DEF cs, ws, g, n, o
  <2>7. \A k \in HSet(u.handlers) : k.conn \in 1 .. Len(cs) /\ cs[k.conn].rid = k.rid
    BY <1>1, <2>1
  <2> QED
    BY ONLY <1>1, <2>1, <2>5, <2>6, <2>7, ServingFine
<1>3. ~ doubled' => /\ t.stop \notin {"invalid_rid", "crash"}
                    /\ t.stop = "no" => Fine(t, cs, waits, out', got)
  BY <1>2
<1>4. waits \subseteq 1 .. Len(cs)
  BY <1>1
<1> HIDE DEF cs, ws, g, n
<1> QED
  BY ONLY <1>1, <1>3, <1>4, FineFinish, t \in State, got' = got

LEMMA WaitTimeoutFine ==
  ASSUME SessionInv, HoldInv, WindowInv, FineInv, NEW c \in DOMAIN conns, WaitTimeout(c)
  PROVE  WindowInv' /\ FineInv'
<1> DEFINE i == First(s.handlers, conns[c].rid)
           t == IF ~ HasRid(s.handlers, conns[c].rid) THEN s
                ELSE IF s.handlers[i].conn = c THEN TakeHandler(s, i)
                ELSE Crash(s)
           waits == waitMsgs \ {c}
<1>1. /\ Finish(t, conns, waits, idleMsg, accOff, c2s) /\ c \in waitMsgs
      /\ got' = got /\ req' = req /\ doubled' = doubled /\ out' = out
  BY DEF WaitTimeout
<1>2. Alive /\ waits \subseteq waitMsgs
  BY <1>1 DEF SessionInv, Stopped
<1>3. /\ got \in Responses /\ Window(got)
      /\ Good(s) /\ s.stop = "no" /\ s.reply = {} /\ out \in Nat
      /\ ~ doubled => Fit(s, got) /\ Fine(s, conns, waitMsgs, out, got)
  BY <1>2, FineIs
<1>4. s \in State /\ s.handlers \in Seq(Handler) /\ (s.name = "closing" => c2s = "closed")
  BY <1>3 DEF Good, HandlerList, WindowInv
<1>5. /\ t \in State /\ t.rid = s.rid /\ t.deferred = s.deferred /\ t.name = s.name
      /\ ~ doubled => /\ t.stop \notin {"invalid_rid", "crash"}
                      /\ t.stop = "no" => Keeps(s, t, got)
  <2>1. CASE ~ HasRid(s.handlers, conns[c].rid)
    <3>1. t = s
      BY <2>1
    <3>2. ~ doubled => Keeps(s, s, got)
      BY <1>3, KeepsSame DEF Fit
    <3> QED
      BY <1>3, <1>4, <3>1, <3>2
  <2>2. CASE HasRid(s.handlers, conns[c].rid) /\ s.handlers[i].conn = c
    <3>1. t = TakeHandler(s, i)
      BY <2>2
    <3>2. i \in 1 .. Len(s.handlers)
      BY <1>4, <2>2, FirstIs
    <3> DEFINE h == s.handlers[i]
               e == <<>>
    <3>3. e \in Seq(Elements) /\ e = <<>>
      OBVIOUS
    <3> HIDE DEF t, i
    <3>4. Taken(s, i, t)
      BY <1>3, <3>1, <3>2, TakeHandlerIs
    <3>5. /\ t.name = s.name /\ t.pending = s.pending /\ Good(t) /\ t.rid = s.rid
          /\ t.deferred = s.deferred /\ t.stop = s.stop
          /\ HSet(t.handlers) = HSet(s.handlers) \ {h}
          /\ t.sent = CacheResponse(s.sent, h.rid, e)
          /\ t.reply = s.reply \cup {[conn |-> h.conn, els |-> e]}
          /\ h \in HSet(s.handlers)
      BY <3>2, <3>4 DEF Taken, HSet
    <3> HIDE DEF h, e
    <3>6. ~ doubled => Keeps(s, t, got)
      <4> SUFFICES ASSUME ~ doubled
                   PROVE  Keeps(s, t, got)
        OBVIOUS
      <4>1. Tidy(s, got) /\ Blank(s, got)
        BY <1>3 DEF Fit
      <4>2. t.pending \in Seq(Elements)
        BY <3>5, StateIs DEF Good
      <4> QED
        BY ONLY <1>3, <3>3, <3>5, <4>1, <4>2, KeepsOne
    <3> QED
      BY <1>3, <3>5, <3>6 DEF Good
  <2>3. CASE HasRid(s.handlers, conns[c].rid) /\ s.handlers[i].conn # c
    <3>1. t = [s EXCEPT !.stop = "crash"] /\ "crash" \in Stops
      BY <2>3 DEF Crash, Stops
    <3>2. i \in 1 .. Len(s.handlers) /\ s.handlers[i].rid = conns[c].rid
      BY <1>4, <2>3, FirstIs
    <3>3. s.handlers[i] \in HSet(s.handlers)
      BY <3>2 DEF HSet
    <3>4. ~ doubled => s.handlers[i].conn = c
      BY <1>1, <1>3, <3>2, <3>3 DEF Fine, Linked
    <3> HIDE DEF t, i
    <3>5. t \in State /\ t.rid = s.rid /\ t.deferred = s.deferred /\ t.name = s.name
      BY <1>4, <3>1 DEF State
    <3> QED
      BY <2>3, <3>4, <3>5
  <2> QED
    BY <2>1, <2>2, <2>3
<1> HIDE DEF t, waits
<1>6. WindowInv'
  BY ONLY <1>1, <1>4, <1>5, WindowPlain, SessionInv, WindowInv
<1>7. ~ doubled => /\ t.stop \notin {"invalid_rid", "crash"}
                   /\ t.stop = "no" =>
                        \E u : /\ Keeps(u, t, got) /\ u.reply = {} /\ u.sent = s.sent
                               /\ u.handlers = s.handlers /\ Line(PartsOf(u, got), out')
  BY <1>1, <1>3, <1>5 DEF Fine
<1>8. out' \in Nat
  BY <1>1, <1>3
<1>9. FineInv'
  BY ONLY <1>1, <1>2, <1>5, <1>7, <1>8, FinePlain, SessionInv, HoldInv, WindowInv, FineInv
<1> QED
  BY <1>6, <1>9

LEMMA AccOffFine ==
  ASSUME SessionInv, HoldInv, WindowInv, FineInv, AccOff
  PROVE  WindowInv' /\ FineInv'
<1> DEFINE w == SendPending(s)
           t == IF s.name = "accumulate" THEN [w EXCEPT !.name = "normal"] ELSE s
           a == accOff - 1
<1>1. /\ Finish(t, conns, waitMsgs, idleMsg, a, c2s) /\ accOff > 0
      /\ got' = got /\ req' = req /\ doubled' = doubled /\ out' = out
  BY DEF AccOff
<1>2. Alive
  BY <1>1 DEF SessionInv, Stopped
<1>3. /\ got \in Responses /\ Window(got)
      /\ Good(s) /\ s.stop = "no" /\ s.reply = {} /\ out \in Nat
      /\ ~ doubled => Fit(s, got) /\ Fine(s, conns, waitMsgs, out, got)
  BY <1>2, FineIs
<1>4. s \in State /\ (s.name = "closing" => c2s = "closed")
  BY <1>3 DEF Good, WindowInv
<1>5. /\ t \in State /\ t.rid = s.rid /\ t.deferred = s.deferred
      /\ t.name \in {s.name, "normal"}
      /\ ~ doubled => /\ t.stop \notin {"invalid_rid", "crash"}
                      /\ t.stop = "no" => Keeps(s, t, got)
  <2>1. CASE s.name # "accumulate"
    <3>1. t = s
      BY <2>1
    <3>2. ~ doubled => Keeps(s, s, got)
      BY <1>3, KeepsSame DEF Fit
    <3> QED
      BY <1>3, <1>4, <3>1, <3>2
  <2>2. CASE s.name = "accumulate"
    <3>1. t = [w EXCEPT !.name = "normal"] /\ "normal" \in Names
      BY <2>2 DEF Names
    <3>2. Sends(s, w)
      BY <1>3, SendsPending
    <3> HIDE DEF t, w
    <3>3. /\ w.rid = s.rid /\ w.deferred = s.deferred /\ w \in State
          /\ w.stop \in {s.stop, "no body"}
      BY <3>2 DEF Sends, Answers, Good
    <3>4. ~ doubled /\ w.stop = "no" => Keeps(s, w, got)
      BY <1>3, KeepsPending DEF w
    <3>5. /\ t \in State /\ t.rid = w.rid /\ t.deferred = w.deferred /\ t.handlers = w.handlers
          /\ t.sent = w.sent /\ t.stop = w.stop /\ t.name = "normal" /\ t.reply = w.reply
          /\ t.pending = w.pending
      BY <3>1, <3>3 DEF State
    <3>6. ASSUME ~ doubled, t.stop = "no"
          PROVE  Keeps(s, t, got)
      <4>1. Keeps(s, w, got)
        BY <3>4, <3>5, <3>6
      <4>2. Tidy(w, got) /\ Blank(w, got)
        BY <4>1 DEF Keeps
      <4>3. Keeps(w, t, got)
        BY <3>5, <4>2, KeepsSame
      <4>4. \A h \in HSet(s.handlers) : Len(got) <= h.rid + 1
        BY <1>3, <3>6, WaitInWindow DEF Fit
      <4> QED
        BY <4>1, <4>3, <4>4, KeepsMore
    <3> QED
      BY <1>3, <3>3, <3>5, <3>6
  <2> QED
    BY <2>1, <2>2
<1> HIDE DEF t, w, a
<1>6. t.stop = "no" /\ t.name = "closing" => c2s = "closed"
  BY <1>4, <1>5
<1>7. WindowInv'
  BY ONLY <1>1, <1>5, <1>6, WindowPlain, SessionInv, WindowInv
<1>8. ~ doubled => /\ t.stop \notin {"invalid_rid", "crash"}
                   /\ t.stop = "no" =>
                        \E u : /\ Keeps(u, t, got) /\ u.reply = {} /\ u.sent = s.sent
                               /\ u.handlers = s.handlers /\ Line(PartsOf(u, got), out')
  BY <1>1, <1>3, <1>5 DEF Fine
<1>9. out' \in Nat /\ waitMsgs \subseteq waitMsgs
  BY <1>1, <1>3
<1>10. FineInv'
  BY ONLY <1>1, <1>2, <1>5, <1>8, <1>9, FinePlain, SessionInv, HoldInv, WindowInv, FineInv
<1> QED
  BY <1>7, <1>10

LEMMA EndFine ==
  ASSUME SessionInv, HoldInv, WindowInv, FineInv, InactivityTimeout \/ C2SClose
  PROVE  WindowInv' /\ FineInv'
<1>1. Alive
  BY DEF SessionInv, Stopped, InactivityTimeout, C2SClose
<1>2. /\ Good(s) /\ s.stop = "no" /\ s.reply = {} /\ out \in Nat
      /\ ~ doubled => Fit(s, got) /\ Fine(s, conns, waitMsgs, out, got)
  BY <1>1, FineIs
<1>3. s \in State /\ "inactivity_timeout" \in Stops /\ "normal" \in Stops /\ "closing" \in Names
  BY <1>2 DEF Good, Stops, Names
<1>4. got' = got /\ req' = req /\ doubled' = doubled /\ out' = out /\ out' \in Nat
      /\ waitMsgs \subseteq waitMsgs
  BY <1>2 DEF InactivityTimeout, C2SClose
<1>5. CASE InactivityTimeout
  <2> DEFINE t == [s EXCEPT !.stop = "inactivity_timeout"]
             no == FALSE
  <2>1. Finish(t, conns, waitMsgs, no, accOff, c2s)
    BY <1>5 DEF InactivityTimeout
  <2>2. /\ t \in State /\ t.rid = s.rid /\ t.deferred = s.deferred
        /\ t.stop = "inactivity_timeout"
    BY <1>3 DEF State
  <2> HIDE DEF t, no
  <2>3. t.stop # "no" /\ t.stop \notin {"invalid_rid", "crash"}
    BY <2>2
  <2>4. WindowInv'
    BY ONLY <1>4, <2>1, <2>2, <2>3, WindowPlain, SessionInv, WindowInv
  <2>5. FineInv'
    BY ONLY <1>1, <1>4, <2>1, <2>2, <2>3, FinePlain, SessionInv, HoldInv, WindowInv, FineInv
  <2> QED
    BY <2>4, <2>5
<1>6. CASE C2SClose
  <2> DEFINE t == IF s.pending = <<>> THEN [s EXCEPT !.stop = "normal"]
                  ELSE [s EXCEPT !.name = "closing"]
             next == "closed"
  <2>1. Finish(t, conns, waitMsgs, idleMsg, accOff, next)
    BY <1>6 DEF C2SClose
  <2>2. /\ t \in State /\ t.rid = s.rid /\ t.deferred = s.deferred /\ t.handlers = s.handlers
        /\ t.sent = s.sent /\ t.reply = s.reply /\ t.pending = s.pending
        /\ t.stop \in {"no", "normal"}
    BY <1>2, <1>3 DEF State
  <2>3. next = "closed"
    OBVIOUS
  <2> HIDE DEF t, next
  <2>4. WindowInv'
    BY ONLY <1>4, <2>1, <2>2, <2>3, WindowPlain, SessionInv, WindowInv
  <2>5. ASSUME ~ doubled
        PROVE  \E u : /\ Keeps(u, t, got) /\ u.reply = {} /\ u.sent = s.sent
                      /\ u.handlers = s.handlers /\ Line(PartsOf(u, got), out')
    <3>1. Keeps(s, t, got)
      BY <1>2, <2>2, <2>5, KeepsSame DEF Fit
    <3>2. Line(PartsOf(s, got), out')
      BY <1>2, <1>4, <2>5 DEF Fine
    <3> QED
      BY <1>2, <3>1, <3>2
  <2>6. t.stop \notin {"invalid_rid", "crash"}
    BY <2>2
  <2>7. FineInv'
    BY ONLY <1>1, <1>4, <2>1, <2>2, <2>5, <2>6, FinePlain, SessionInv, HoldInv, WindowInv, FineInv
  <2> QED
    BY <2>4, <2>7
<1> QED
  BY <1>5, <1>6

\* What c2s sends is added to what is pending, and this may be sent.
LEMMA SendIs ==
  ASSUME NEW t, Good(t), Held(t), t.name # "closing", t.name # "stopped", NEW e \in Elements,
         ~ Has(t.pending, End), NEW u, u = [t EXCEPT !.pending = Append(t.pending, e)],
         NEW w, w = HandleSend(t, e)
  PROVE  w = u \/ w = SendPending(u)
<1>1. /\ Good(u) /\ u.pending = Append(t.pending, e)
      /\ u.handlers = t.handlers /\ u.rid = t.rid
  BY AppendedIs
<1>2. t \in State /\ t.pending \in Seq(Elements)
  BY StateIs DEF Good
<1>3. Valid(u) <=> Valid(t)
  BY <1>1 DEF Valid
<1> DEFINE v == [u EXCEPT !.pending = <<>>]
<1>4. v = [t EXCEPT !.pending = <<>>]
  BY <1>2 DEF State
<1>5. SendPending(u) = SendOrStore(v, u.pending)
  BY DEF SendPending
<1>6. CASE t.name = "accumulate"
  BY <1>6 DEF HandleSend
<1>7. CASE t.name = "normal" /\ e = End
  <2>1. w = SendOrStore([t EXCEPT !.pending = <<>>], Append(t.pending, e))
    BY <1>7 DEF HandleSend
  <2> QED
    BY <1>1, <1>4, <1>5, <2>1
<1>8. CASE t.name = "normal" /\ e # End
  <2> DEFINE q == <<e>>
  <2>1. w = SendOrStore(t, q)
    BY <1>8 DEF HandleSend
  <2>2. Append(t.pending, e) = t.pending \o q
    BY <1>2
  <2>3. CASE Valid(t)
    <3>1. t.pending = <<>>
      BY <1>8, <2>3 DEF Held
    <3>2. v = t
      BY <1>2, <1>4, <3>1 DEF State
    <3>3. u.pending = q
      BY <1>1, <3>1
    <3> HIDE DEF v, q
    <3> QED
      BY <1>5, <2>1, <3>2, <3>3
  <2>4. CASE ~ Valid(t)
    BY <2>1, <2>2, <2>4 DEF SendOrStore
  <2> QED
    BY <2>3, <2>4
<1>9. t.name \in Names
  BY <1>2, StateIs
<1> QED
  BY <1>6, <1>7, <1>8, <1>9 DEF Names

\* The stanzas stay in line when one more is pending.
LEMMA AppendedFine ==
  ASSUME NEW g \in Responses, NEW t, Fit(t, g), ~ Has(t.pending, End), NEW e \in Elements,
         NEW u, u = [t EXCEPT !.pending = Append(t.pending, e)], NEW n \in Nat, NEW o \in Nat,
         Counts(e, n, o), Line(PartsOf(t, g), n)
  PROVE  Fit(u, g) /\ Line(PartsOf(u, g), o)
<1>1. Good(t) /\ Tidy(t, g) /\ Blank(t, g)
  BY DEF Fit
<1>2. /\ Good(u) /\ u.pending = Append(t.pending, e) /\ u.handlers = t.handlers
      /\ u.rid = t.rid /\ u.sent = t.sent
  BY <1>1, AppendedIs
<1>3. Fit(u, g)
  BY <1>1, <1>2 DEF Fit, Tidy, Blank
<1>4. /\ t.sent \in Seq(CacheEntry) /\ t.pending \in Seq(Elements) /\ u.sent \in Seq(CacheEntry)
      /\ u.pending \in Seq(Elements)
  BY <1>1, <1>2, StateIs DEF Good
<1> DEFINE l == Len(g)
           m == l + 1
           P == PartsOf(t, g)
           Q == PartsOf(u, g)
<1>a. /\ l \in Nat /\ P \in [1 .. m -> Seq(Int)] /\ P[m] = t.pending
      /\ \A x \in 1 .. l : P[x] = Told(t.sent, g, x)
  BY ONLY <1>4, PartsIs, g \in Responses
<1>b. /\ Q \in [1 .. m -> Seq(Int)] /\ Q[m] = u.pending
      /\ \A x \in 1 .. l : Q[x] = Told(u.sent, g, x)
  BY ONLY <1>4, PartsIs, g \in Responses
<1> HIDE DEF P, Q, l
<1>5. m \in Nat /\ m > 0
  BY ONLY <1>a
<1>6. \A x \in 1 .. m : x # m => x \in 1 .. l
  BY ONLY <1>a
<1> HIDE DEF m
<1>7. \A x \in 1 .. m : x # m => Q[x] = P[x]
  BY <1>2, <1>a, <1>b, <1>6
<1>8. e \in Int /\ Q[m] = Append(P[m], e)
  <2>1. e \in Int
    BY BoshAssumption DEF Elements, End
  <2> QED
    BY <1>2, <1>a, <1>b, <2>1
<1>9. Line(P, n)
  BY DEF P
<1>10. Line(Q, o)
  <2>1. P \in [1 .. m -> Seq(Int)] /\ Q \in [1 .. m -> Seq(Int)] /\ m \in Nat /\ m > 0
    BY <1>a, <1>b, <1>5
  <2>2. Appends(P, Q, m, e)
    BY <1>7, <1>8 DEF Appends
  <2> QED
    BY ONLY <2>1, <2>2, <1>8, <1>9, LineAppend, n \in Nat, o \in Nat, Counts(e, n, o)
<1> QED
  BY <1>3, <1>10 DEF Q

LEMMA SendFine ==
  ASSUME SessionInv, HoldInv, WindowInv, FineInv, c2s \in {"start", "open"},
         NEW e \in Elements, NEW next, Send(e, next), out' \in Nat, Counts(e, out, out')
  PROVE  WindowInv' /\ FineInv'
<1> DEFINE w == HandleSend(s, e)
           u == [s EXCEPT !.pending = Append(s.pending, e)]
           g == got
           n == out'
<1>1. /\ Finish(w, conns, waitMsgs, idleMsg, accOff, next)
      /\ got' = got /\ req' = req /\ doubled' = doubled
  BY DEF Send
<1>2. Alive /\ ~ Has(s.pending, End) /\ s.name # "closing" /\ s.name # "stopped"
  BY DEF SessionInv, Stopped, WindowInv, Alive
<1>3. /\ g \in Responses /\ Window(g) /\ Held(s)
      /\ Good(s) /\ s.stop = "no" /\ s.reply = {} /\ out \in Nat
      /\ ~ doubled => Fit(s, g) /\ Fine(s, conns, waitMsgs, out, g)
  BY <1>2, FineIs
<1>4. n \in Nat /\ Counts(e, out, n)
  OBVIOUS
<1>5. w = HandleSend(s, e) /\ u = [s EXCEPT !.pending = Append(s.pending, e)]
  OBVIOUS
<1> HIDE DEF w, u, g, n
<1>6. /\ Good(u) /\ u.name = s.name /\ u.handlers = s.handlers /\ u.rid = s.rid
      /\ u.deferred = s.deferred /\ u.sent = s.sent /\ u.reply = {} /\ u.stop = "no"
  <2>1. /\ Good(u) /\ u.name = s.name /\ u.handlers = s.handlers /\ u.rid = s.rid
        /\ u.deferred = s.deferred /\ u.sent = s.sent /\ u.reply = s.reply /\ u.stop = s.stop
    BY <1>2, <1>3, <1>5, AppendedIs
  <2> QED
    BY <1>3, <2>1
<1>7. w = u \/ w = SendPending(u)
  BY <1>2, <1>3, <1>5, SendIs
<1>8. Sends(u, w)
  BY <1>6, <1>7, SendsNothing, SendsPending
<1>9. /\ w \in State /\ w.rid = s.rid /\ w.deferred = s.deferred /\ w.name = s.name
      /\ w.stop \in {"no", "no body"}
  BY <1>6, <1>8 DEF Sends, Answers, Good
<1>10. ASSUME ~ doubled, w.stop = "no"
       PROVE  Keeps(u, w, g) /\ Line(PartsOf(u, g), n)
  <2>1. Fit(s, g) /\ Line(PartsOf(s, g), out)
    BY <1>3, <1>10 DEF Fine
  <2> DEFINE o == out
  <2>2. o \in Nat /\ Counts(e, o, n) /\ Line(PartsOf(s, g), o)
    BY <1>3, <1>4, <2>1
  <2> HIDE DEF o
  <2>3. Fit(u, g) /\ Line(PartsOf(u, g), n)
    BY ONLY <1>2, <1>3, <1>4, <1>5, <2>1, <2>2, AppendedFine, e \in Elements
  <2>4. CASE w = u
    <3>1. Keeps(u, u, g)
      BY <2>3, KeepsSame DEF Fit
    <3> QED
      BY <2>3, <2>4, <3>1
  <2>5. CASE w = SendPending(u)
    BY <1>3, <1>10, <2>3, <2>5, KeepsPending
  <2> QED
    BY <1>7, <2>4, <2>5
<1>11. ~ doubled => /\ w.stop \notin {"invalid_rid", "crash"}
                    /\ w.stop = "no" =>
                         \E k : /\ Keeps(k, w, got) /\ k.reply = {} /\ k.sent = s.sent
                                /\ k.handlers = s.handlers /\ Line(PartsOf(k, got), out')
  BY <1>6, <1>9, <1>10 DEF g, n
<1>12. waitMsgs \subseteq waitMsgs /\ w.name # "closing" /\ out' \in Nat
  BY <1>2, <1>9
<1>13. WindowInv'
  BY ONLY <1>1, <1>9, <1>12, WindowPlain, SessionInv, WindowInv
<1>14. FineInv'
  BY ONLY <1>1, <1>2, <1>9, <1>11, <1>12, FinePlain, SessionInv, HoldInv, WindowInv, FineInv
<1> QED
  BY <1>13, <1>14

LEMMA C2SFine ==
  ASSUME SessionInv, HoldInv, WindowInv, FineInv, C2SStart \/ C2SStanza \/ C2SEnd
  PROVE  WindowInv' /\ FineInv'
<1>1. MaxOut \in Nat /\ out \in 0 .. MaxOut
  BY BoshAssumption DEF SessionInv
<1>2. Start \in Elements /\ End \in Elements
  BY <1>1 DEF Elements, Start, End
<1>3. CASE C2SStart
  <2>1. /\ c2s \in {"start", "open"} /\ Send(Start, "open") /\ out' \in Nat
        /\ Counts(Start, out, out')
    BY <1>1, <1>3 DEF C2SStart, Counts, Start
  <2> QED
    BY <1>2, <2>1, SendFine
<1>4. CASE C2SStanza
  <2> DEFINE e == out + 1
             next == "open"
  <2>1. /\ c2s \in {"start", "open"} /\ Send(e, next) /\ out' \in Nat
        /\ e \in Elements /\ Counts(e, out, out')
    BY <1>1, <1>4 DEF C2SStanza, Elements, End, Counts
  <2> HIDE DEF e, next
  <2> QED
    BY <2>1, SendFine
<1>5. CASE C2SEnd
  <2>1. /\ c2s \in {"start", "open"} /\ Send(End, "ended") /\ out' \in Nat
        /\ Counts(End, out, out')
    BY <1>1, <1>5 DEF C2SEnd, Counts, End
  <2> QED
    BY <1>2, <2>1, SendFine
<1> QED
  BY <1>3, <1>4, <1>5

\* A request that was sent comes to a running process.
LEMMA ArrivalComes ==
  ASSUME SessionInv, HoldInv, WindowInv, FineInv, Alive, ~ doubled,
         NEW c \in 1 .. Len(conns), conns[c].st = "sent",
         NEW h, NewHandler(s, h), h.rid = conns[c].rid, ~ Doubles(h.rid)
  PROVE  Comes(s, h, got) /\ (req[h.rid] = "pause" => h.rid = Len(got))
<1> DEFINE r == h.rid
<1>1. /\ got \in Responses /\ Len(got) = Len(req) /\ Good(s) /\ s.stop = "no" /\ AheadIn(s)
      /\ Carries(conns, conns, got) /\ Fit(s, got) /\ Fine(s, conns, waitMsgs, out, got)
  BY FineIs
<1>2. r \in 1 .. Len(got) /\ got[r] = NoAnswer
  BY <1>1 DEF Carries, WindowInv
<1>3. req[r] = "pause" => r = Len(got)
  BY <1>2 DEF WindowInv
<1>4. Len(s.deferred) <= 1 /\ Cover(s, got)
  BY <1>1 DEF Fine
<1>5. s.rid <= Len(got) /\ (s.deferred # <<>> => s.rid + 2 <= Len(got))
  BY <1>1 DEF SessionInv, Forwarded, DeferredOk
<1>6. ~ Repeats(s, r)
  <2>1. s.sent \in Seq(CacheEntry) /\ s.handlers \in Seq(Handler)
    BY <1>1, StateIs DEF Good, HandlerList
  <2>2. DOMAIN s.sent = 1 .. Len(s.sent) /\ DOMAIN s.handlers = 1 .. Len(s.handlers)
    BY <2>1
  <2>3. /\ HasRid(s.sent, r) <=> r \in SentRids(s.sent)
        /\ HasRid(s.handlers, r) <=> \E k \in HSet(s.handlers) : k.rid = r
        /\ (\E i \in DOMAIN s.handlers : s.handlers[i].rid < r)
              <=> \E k \in HSet(s.handlers) : k.rid < r
    BY <2>2 DEF HasRid, SentRids, HSet
  <2> QED
    BY <2>3 DEF Doubles, Repeats
<1> QED
  BY <1>1, <1>2, <1>3, <1>4, <1>5, <1>6 DEF Comes

\* What handle_stream_event makes of it.
LEMMA ArrivalFine ==
  ASSUME SessionInv, HoldInv, WindowInv, FineInv, Alive, ~ doubled,
         NEW c \in 1 .. Len(conns), conns[c].st = "sent",
         NEW h, NEW cs, Arrival(c, h, cs), NewHandler(s, h), ~ Doubles(h.rid),
         NEW w, w = HandleStreamEvent(s, req[h.rid], h)
  PROVE  /\ w.stop \notin {"invalid_rid", "crash"}
         /\ w.stop = "no" => Fine(w, cs, waitMsgs, out, got)
<1> DEFINE u == Added(s, h)
           g == got
           type == req[h.rid]
           ws == waitMsgs
           ds == conns
           n == out
<1>1. /\ g \in Responses /\ Window(g) /\ Len(g) = Len(req) /\ Good(s) /\ s.reply = {}
      /\ ds \in Seq(Conn) /\ ws \subseteq 1 .. Len(ds) /\ n \in Nat
      /\ Carries(ds, ds, g) /\ Fine(s, ds, ws, n, g)
  BY FineIs
<1>2. Comes(s, h, g) /\ (type = "pause" => h.rid = Len(g)) /\ h.rid \in 1 .. Len(g)
  <2>1. h.rid = conns[c].rid
    BY DEF Arrival
  <2>2. Comes(s, h, g) /\ (type = "pause" => h.rid = Len(g))
    BY <2>1, ArrivalComes
  <2> QED
    BY <2>2 DEF Comes
<1>3. type \in Types
  <2>1. req \in Seq(Types)
    BY DEF SessionInv
  <2> QED
    BY <1>1, <1>2, <2>1
<1>4. Serves(u, cs)
  BY ArrivalServes
<1>5. /\ AddedTo(s.handlers, h, u.handlers) /\ u.sent = s.sent /\ u.pending = s.pending
      /\ u.reply = s.reply
  BY <1>1, AddedIs
<1>6. Carries(ds, cs, g) /\ Len(cs) = Len(ds)
  <2>1. Len(cs) = Len(ds)
    BY DEF Arrival
  <2>2. ASSUME NEW d \in 1 .. Len(cs)
        PROVE  /\ cs[d].rid = ds[d].rid /\ cs[d].rid \in 1 .. Len(g)
               /\ cs[d].st = "answered" => cs[d] = ds[d] /\ g[cs[d].rid] = NoAnswer
    <3>1. CASE d = c
      BY <1>1, <2>1, <3>1 DEF Arrival, Carries
    <3>2. CASE d # c
      BY <1>1, <2>1, <3>2 DEF Arrival, Carries
    <3> QED
      BY <3>1, <3>2
  <2> QED
    BY <2>1, <2>2 DEF Carries
<1>7. PartsOf(u, g) = PartsOf(s, g)
  BY <1>5 DEF PartsOf
<1>8. Line(PartsOf(u, g), n)
  BY <1>1, <1>7 DEF Fine
<1>9. u = Added(s, h) /\ w = HandleStreamEvent(s, type, h)
  OBVIOUS
<1>10. \A k \in HSet(u.handlers) : k.conn \in 1 .. Len(cs) /\ cs[k.conn].rid = k.rid
  BY <1>4 DEF Serves, ListedIn
<1> HIDE DEF u, g, type, ws, ds, n
<1>11. /\ w.stop \notin {"invalid_rid", "crash"}
       /\ w.stop = "no" => Arrived(s, h, u, w, g)
  BY ONLY <1>1, <1>2, <1>3, <1>9, ComesEvent
<1>12. ASSUME w.stop = "no"
       PROVE  Fine(w, cs, ws, n, g)
  <2>1. Arrived(s, h, u, w, g)
    BY <1>11, <1>12
  <2>2. HSet(u.handlers) = HSet(s.handlers) \cup {h}
    BY <1>5 DEF AddedTo
  <2>3. Keeps(u, w, g) /\ Len(w.deferred) <= 1
    BY <2>1 DEF Arrived
  <2>4. \A x \in Nat : Seen(s, x) => Seen(w, x)
    BY <2>1 DEF Arrived
  <2>5. \A x \in Nat : Seen(w, x) => Seen(s, x) \/ \E k \in HSet(u.handlers) : k.rid = x
    BY <2>1, <2>2 DEF Arrived
  <2>6. \A k \in HSet(w.handlers) : k \in HSet(s.handlers) \/ ~ Seen(s, k.rid)
    BY <2>1, <2>2, <2>3 DEF Arrived, Keeps
  <2>7. Serving(s, u, w, g)
    BY <1>1, <1>5, <2>2, <2>3, <2>4, <2>5, <2>6 DEF Serving
  <2>8. ws \subseteq ws /\ ws \subseteq 1 .. Len(cs)
    BY <1>1, <1>6
  <2> QED
    BY ONLY <1>1, <1>6, <1>8, <1>10, <2>7, <2>8, ServingFine
<1> QED
  BY <1>11, <1>12 DEF g, ws, n

LEMMA ArriveFine ==
  ASSUME SessionInv, HoldInv, WindowInv, FineInv, NEW c \in DOMAIN conns, Arrive(c)
  PROVE  WindowInv' /\ FineInv'
<1>1. conns[c].st = "sent" /\ Alive
  BY DEF Arrive
<1>2. s.stop = "no" /\ DOMAIN conns = 1 .. Len(conns) /\ Good(s) /\ req \in Seq(Types)
      /\ Forwarded(s) /\ DeferredOk(s) /\ s.reply = {} /\ c \in 1 .. Len(conns)
  BY <1>1, SessionServes DEF SessionInv
<1> DEFINE r == conns[c].rid
           held == [conns EXCEPT ![c].st = "held"]
           H(ref) == [rid |-> r, ref |-> ref, conn |-> c]
           T(ref) == DetermineNextState(HandleStreamEvent(s, req[r], H(ref)), req[r])
           acc == IF req[r] \in {"streamstart", "restart"} THEN accOff + 1 ELSE accOff
           N(ref) == IF Restarts(T(ref)) /\ c2s \in {"new", "open"} THEN "start" ELSE c2s
<1>3. PICK ref \in {c, -c} : Finish(T(ref), held, waitMsgs, idleMsg, acc, N(ref))
  BY DEF Arrive
<1> DEFINE h == H(ref)
           u == Added(s, h)
           w == HandleStreamEvent(s, req[r], h)
           t == DetermineNextState(w, req[r])
           next == N(ref)
<1>4. Finish(t, held, waitMsgs, idleMsg, acc, next)
  BY <1>3
<1>5. Arrival(c, h, held) /\ NewHandler(s, h) /\ h.rid \in 1 .. Len(req) /\ h.rid = r
  <2>1. /\ c \in 1 .. Len(conns) /\ h = [rid |-> conns[c].rid, ref |-> ref, conn |-> c]
        /\ held = [conns EXCEPT ![c].st = "held"]
    BY <1>2
  <2> HIDE DEF h, held
  <2>2. Arrival(c, h, held) /\ NewHandler(s, h) /\ h.rid \in 1 .. Len(req)
    BY <1>1, <2>1, ArrivalIs
  <2> QED
    BY <2>2 DEF Arrival
<1>6. w = HandleStreamEvent(s, req[h.rid], h) /\ u = Added(s, h)
  BY <1>5
<1>7. c2s = "closed" => next = "closed"
  OBVIOUS
<1>8. /\ req' = req /\ got' = got /\ out' = out
      /\ ~ doubled' => ~ doubled /\ ~ Doubles(h.rid)
  <2>1. doubled' = (doubled \/ Doubles(r)) /\ UNCHANGED <<out, req, got, fires>>
    BY DEF Arrive
  <2> QED
    BY <1>5, <2>1
<1> HIDE DEF acc, next, h, held, w, t, r, u
<1>9. Good(w) /\ w.name = s.name
  <2>1. Handles(u, w)
    BY <1>2, <1>5, <1>6, HandlesEvent
  <2>2. u.name = s.name
    BY <1>2, <1>5, <1>6, AddedIs
  <2> QED
    BY <2>1, <2>2 DEF Handles
<1>10. /\ Good(t) /\ t.rid = w.rid /\ t.deferred = w.deferred
       /\ t.handlers = w.handlers /\ t.reply = w.reply /\ t.pending = w.pending
       /\ t.sent = w.sent
       /\ t.stop \in {w.stop, "normal"} /\ (w.stop # "no" => t = w)
       /\ t.name \in {w.name, "accumulate"}
  BY <1>9, DeterminedIs DEF t
<1>11. t \in State /\ held \in Seq(Conn) /\ Len(held) = Len(conns)
  BY <1>5, <1>10 DEF Good, Arrival
<1>12. ~ doubled' => /\ t.stop \notin {"invalid_rid", "crash"}
                     /\ t.stop = "no" => Fine(t, held, waitMsgs, out', got)
  <2> SUFFICES ASSUME ~ doubled'
               PROVE  /\ t.stop \notin {"invalid_rid", "crash"}
                      /\ t.stop = "no" => Fine(t, held, waitMsgs, out, got)
    BY <1>8
  <2>1. /\ w.stop \notin {"invalid_rid", "crash"}
        /\ w.stop = "no" => Fine(w, held, waitMsgs, out, got)
    BY <1>1, <1>2, <1>5, <1>6, <1>8, ArrivalFine
  <2>2. t.stop \notin {"invalid_rid", "crash"} /\ (t.stop = "no" => w.stop = "no")
    BY <1>10, <2>1
  <2>3. ASSUME t.stop = "no"
        PROVE  Fine(t, held, waitMsgs, out, got)
    <3>1. Fine(w, held, waitMsgs, out, got)
      BY <2>1, <2>2, <2>3
    <3>2. PartsOf(t, got) = PartsOf(w, got)
      BY <1>10 DEF PartsOf
    <3>3. Len(t.deferred) <= 1 /\ Tidy(t, got) /\ Blank(t, got) /\ Cover(t, got)
      BY <1>10, <3>1 DEF Fine, Tidy, Blank, Cover, Seen, Rids
    <3>4. Linked(t, held, waitMsgs)
      BY <1>10, <3>1 DEF Fine, Linked, Seen
    <3> QED
      BY <3>1, <3>2, <3>3, <3>4 DEF Fine
  <2> QED
    BY <2>2, <2>3
<1>13. waitMsgs \subseteq 1 .. Len(held)
  BY <1>11 DEF SessionInv
<1> DEFINE ws == waitMsgs
           im == idleMsg
<1>14. FineInv'
  <2>1. Finish(t, held, ws, im, acc, next) /\ ws \subseteq 1 .. Len(held) /\ got' = got
        /\ (~ doubled' => /\ t.stop \notin {"invalid_rid", "crash"}
                          /\ t.stop = "no" => Fine(t, held, ws, out', got))
    BY <1>4, <1>8, <1>12, <1>13
  <2> HIDE DEF ws, im
  <2> QED
    BY ONLY <1>11, <2>1, FineFinish
<1>15. WindowInv'
  <2>1. \A d \in 1 .. Len(conns) : /\ held[d].rid = conns[d].rid
                                   /\ held[d].st # "done" => conns[d].st # "done"
    BY <1>1, <1>5 DEF Arrival
  <2>2. t.stop = "no" /\ t.name = "closing" => next = "closed"
    BY <1>7, <1>9, <1>10 DEF WindowInv
  <2>3. Finish(t, held, ws, im, acc, next)
    BY <1>4
  <2> HIDE DEF ws, im
  <2> QED
    BY ONLY <1>8, <1>11, <2>1, <2>2, <2>3, WindowFinish, SessionInv, WindowInv
<1> QED
  BY <1>14, <1>15

(***************************************************************************)
(* The client, the connections and the timers                              *)
(***************************************************************************)

\* Connections break, are read or are opened.
LEMMA LinkedAgain ==
  ASSUME NEW t, NEW ds, NEW cs, NEW waits, Linked(t, ds, waits), t.reply = {},
         waits \subseteq 1 .. Len(ds),
         \A c \in 1 .. Len(ds) : cs[c].rid = ds[c].rid,
         \A c \in 1 .. Len(cs) : cs[c].st = "answered" => c \in 1 .. Len(ds) /\ cs[c] = ds[c]
  PROVE  Linked(t, cs, waits)
<1>1. ASSUME NEW c \in 1 .. Len(cs), cs[c].st = "answered"
      PROVE  IsCached(t.sent, cs[c].rid, cs[c].els)
  BY <1>1 DEF Linked
<1>2. ASSUME NEW c \in waits
      PROVE  /\ Seen(t, cs[c].rid)
             /\ \A h \in HSet(t.handlers) : h.rid = cs[c].rid => h.conn = c
  BY <1>2 DEF Linked
<1> QED
  BY <1>1, <1>2 DEF Linked

\* A connection that is done, or has no session.
LEMMA BrokenFine ==
  ASSUME SessionInv, HoldInv, WindowInv, FineInv, NEW c \in DOMAIN conns,
         NoSession(c) \/ Break(c)
  PROVE  WindowInv' /\ FineInv'
<1>1. conns \in Seq(Conn) /\ c \in 1 .. Len(conns) /\ conns[c] \in Conn
  BY DEF SessionInv
<1>2. Gone \in Bodies /\ <<>> \in Bodies
  BY DEF Bodies
<1>3. CASE NoSession(c)
  <2> DEFINE e == [conns[c] EXCEPT !.st = "answered", !.els = Gone]
  <2>1. /\ conns' = [conns EXCEPT ![c] = e] /\ conns[c].st = "sent" /\ ~ Alive
        /\ s' = s /\ c2s' = c2s /\ req' = req /\ got' = got /\ doubled' = doubled
    BY <1>3 DEF NoSession
  <2>2. e \in Conn /\ e.rid = conns[c].rid /\ e.st = "answered"
    BY <1>1, <1>2 DEF Conn
  <2> HIDE DEF e
  <2>3. /\ Len(conns') = Len(conns) /\ conns'[c] = e
        /\ \A d \in 1 .. Len(conns) : d # c => conns'[d] = conns[d]
    BY <1>1, <2>1, <2>2, ExceptSeq
  <2>4. \A d \in 1 .. Len(conns) : /\ conns'[d].rid = conns[d].rid
                                   /\ conns'[d].st # "done" => conns[d].st # "done"
    BY <2>1, <2>2, <2>3
  <2>5. s'.name = "closing" => c2s' = "closed"
    BY <2>1 DEF WindowInv
  <2>6. WindowInv'
    BY <2>1, <2>3, <2>4, <2>5, WindowStays
  <2>7. FineInv'
    BY <2>1 DEF FineInv, Alive
  <2> QED
    BY <2>6, <2>7
<1>4. CASE Break(c)
  <2> DEFINE e == [conns[c] EXCEPT !.st = "done", !.els = <<>>]
  <2>1. /\ conns' = [conns EXCEPT ![c] = e] /\ conns[c].st # "done" /\ Alive
        /\ s' = s /\ c2s' = c2s /\ req' = req /\ got' = got /\ doubled' = doubled
        /\ waitMsgs' = waitMsgs /\ out' = out
    BY <1>4 DEF Break
  <2>2. e \in Conn /\ e.rid = conns[c].rid /\ e.st = "done"
    BY <1>1, <1>2 DEF Conn
  <2> HIDE DEF e
  <2>3. /\ Len(conns') = Len(conns) /\ conns'[c] = e
        /\ \A d \in 1 .. Len(conns) : d # c => conns'[d] = conns[d]
    BY <1>1, <2>1, <2>2, ExceptSeq
  <2>4. \A d \in 1 .. Len(conns) : /\ conns'[d].rid = conns[d].rid
                                   /\ conns'[d].st # "done" => conns[d].st # "done"
    BY <2>1, <2>2, <2>3
  <2>5. s'.name = "closing" => c2s' = "closed"
    BY <2>1 DEF WindowInv
  <2>6. WindowInv'
    BY <2>1, <2>3, <2>4, <2>5, WindowStays
  <2>7. ASSUME ~ doubled
        PROVE  Fine(s, conns', waitMsgs, out, got)
    <3>1. Fine(s, conns, waitMsgs, out, got) /\ s.reply = {} /\ waitMsgs \subseteq 1 .. Len(conns)
      BY <2>1, <2>7, FineIs
    <3>2. Linked(s, conns, waitMsgs)
      BY <3>1 DEF Fine
    <3>3. \A d \in 1 .. Len(conns') :
            conns'[d].st = "answered" => d \in 1 .. Len(conns) /\ conns'[d] = conns[d]
      BY <2>2, <2>3
    <3>4. Linked(s, conns', waitMsgs)
      BY <2>4, <3>1, <3>2, <3>3, LinkedAgain
    <3> QED
      BY <3>1, <3>4 DEF Fine
  <2>8. FineInv'
    BY <2>1, <2>7 DEF FineInv, Alive
  <2> QED
    BY <2>6, <2>8
<1> QED
  BY <1>3, <1>4

\* The wait timer of a handler fires, or the inactivity timer.
LEMMA TimersFine ==
  ASSUME SessionInv, HoldInv, WindowInv, FineInv,
         InactivityFires \/ \E c \in DOMAIN conns : WaitFires(c)
  PROVE  WindowInv' /\ FineInv'
<1>1. CASE InactivityFires
  <2>1. /\ s' = [s EXCEPT !.idle = FALSE] /\ s.idle
        /\ UNCHANGED <<waitMsgs, accOff, c2s, out, req, got, conns, fires, doubled>>
    BY <1>1 DEF InactivityFires
  <2>2. s \in State /\ Alive
    BY <2>1 DEF SessionInv, Good, Stopped
  <2>3. /\ s'.handlers = s.handlers /\ s'.reply = s.reply /\ s'.stop = s.stop
        /\ s'.name = s.name /\ s'.pending = s.pending /\ s'.rid = s.rid
        /\ s'.deferred = s.deferred /\ s'.sent = s.sent
    BY <2>1, <2>2 DEF State
  <2>4. WindowInv'
    BY <2>1, <2>3 DEF WindowInv
  <2>5. ASSUME ~ doubled
        PROVE  Fine(s', conns, waitMsgs, out, got)
    <3>1. Fine(s, conns, waitMsgs, out, got)
      BY <2>2, <2>5, FineIs
    <3>2. PartsOf(s', got) = PartsOf(s, got)
      BY <2>3 DEF PartsOf
    <3>3. Len(s'.deferred) <= 1 /\ Tidy(s', got) /\ Blank(s', got) /\ Cover(s', got)
      BY <2>3, <3>1 DEF Fine, Tidy, Blank, Cover, Seen, Rids
    <3>4. Linked(s', conns, waitMsgs)
      BY <2>3, <3>1 DEF Fine, Linked, Seen
    <3> QED
      BY <3>1, <3>2, <3>3, <3>4 DEF Fine
  <2>6. FineInv'
    BY <2>1, <2>3, <2>5 DEF FineInv, Alive
  <2> QED
    BY <2>4, <2>6
<1>2. CASE \E c \in DOMAIN conns : WaitFires(c)
  <2>1. PICK c \in DOMAIN conns : WaitFires(c)
    BY <1>2
  <2>2. /\ waitMsgs' = waitMsgs \cup {c} /\ c \in Conns(s.handlers)
        /\ UNCHANGED <<s, idleMsg, accOff, c2s, out, req, got, conns, doubled>>
    BY <2>1 DEF WaitFires
  <2>3. Alive /\ HandlerList(s.handlers)
    BY <2>2 DEF SessionInv, Stopped, Conns, Good
  <2>4. WindowInv'
    BY <2>2 DEF WindowInv
  <2>5. ASSUME ~ doubled
        PROVE  Fine(s, conns, waitMsgs \cup {c}, out, got)
    <3>1. Fine(s, conns, waitMsgs, out, got) /\ AheadIn(s)
          /\ \A h \in HSet(s.handlers) : h.conn \in 1 .. Len(conns) /\ conns[h.conn].rid = h.rid
      BY <2>3, <2>5, FineIs
    <3>2. c \in {h.conn : h \in HSet(s.handlers)}
      BY <2>2, <2>3, ConnsIs
    <3>3. PICK h \in HSet(s.handlers) : h.conn = c
      BY <3>2
    <3>4. conns[c].rid = h.rid /\ h.rid \in Rids(s)
      BY <3>1, <3>3 DEF Rids
    <3>5. Seen(s, conns[c].rid)
      BY <3>1, <3>4 DEF AheadIn, Seen
    <3>6. \A k \in HSet(s.handlers) : k.rid = conns[c].rid => k.conn = c
      BY <3>1, <3>3, <3>4 DEF Fine, Tidy
    <3>7. Linked(s, conns, waitMsgs \cup {c})
      BY <3>1, <3>5, <3>6 DEF Fine, Linked
    <3> QED
      BY <3>1, <3>7 DEF Fine
  <2>6. FineInv'
    BY <2>2, <2>5 DEF FineInv, Alive
  <2> QED
    BY <2>4, <2>6
<1> QED
  BY <1>1, <1>2

\* The client gets a response: it is the cached one.
LEMMA ToldReceived ==
  ASSUME NEW q, NEW g \in Responses, NEW r \in 1 .. Len(g), g[r] = NoAnswer, NEW b,
         IsCached(q, r, b), NEW k, k[r] = b, \A x \in 1 .. Len(g) : x # r => k[x] = g[x]
  PROVE  \A x \in 1 .. Len(g) : Told(q, k, x) = Told(q, g, x)
<1> SUFFICES ASSUME NEW x \in 1 .. Len(g)
             PROVE  Told(q, k, x) = Told(q, g, x)
  OBVIOUS
<1>1. CASE x = r
  BY <1>1 DEF Told, IsCached
<1>2. CASE x # r
  BY <1>2 DEF Told
<1> QED
  BY <1>1, <1>2

LEMMA ReceivedFine ==
  ASSUME NEW g \in Responses, NEW t, AheadIn(t), NEW ds, NEW waits, NEW n,
         Fine(t, ds, waits, n, g), NEW r \in 1 .. Len(g), g[r] = NoAnswer, NEW b,
         IsCached(t.sent, r, b), NEW k, Len(k) = Len(g), k[r] = b,
         \A x \in 1 .. Len(g) : x # r => k[x] = g[x],
         NEW cs, Linked(t, cs, waits)
  PROVE  Fine(t, cs, waits, n, k)
<1>1. Tidy(t, g) /\ Blank(t, g) /\ Cover(t, g) /\ Line(PartsOf(t, g), n) /\ Len(t.deferred) <= 1
  BY DEF Fine
<1>2. \A x \in 1 .. Len(g) : Told(t.sent, k, x) = Told(t.sent, g, x)
  <2> DEFINE q == t.sent
  <2>1. IsCached(q, r, b)
    OBVIOUS
  <2> HIDE DEF q
  <2>2. \A x \in 1 .. Len(g) : Told(q, k, x) = Told(q, g, x)
    BY <2>1, ToldReceived
  <2> QED
    BY <2>2 DEF q
<1>3. PartsOf(t, k) = PartsOf(t, g)
  <2> DEFINE m == Len(g)
             A(x) == IF x <= m THEN Told(t.sent, k, x) ELSE t.pending
             B(x) == IF x <= m THEN Told(t.sent, g, x) ELSE t.pending
  <2>1. m \in Nat
    BY DEF Responses
  <2>2. PartsOf(t, k) = [x \in 1 .. m + 1 |-> A(x)] /\ PartsOf(t, g) = [x \in 1 .. m + 1 |-> B(x)]
    BY DEF PartsOf
  <2>3. \A x \in 1 .. m + 1 : x <= m => x \in 1 .. m
    BY <2>1
  <2>4. \A x \in 1 .. m + 1 : A(x) = B(x)
    BY <1>2, <2>3
  <2> HIDE DEF A, B, m
  <2> QED
    BY ONLY <2>2, <2>4
<1>4. r \in SentRids(t.sent)
  BY DEF IsCached
<1>5. Tidy(t, k)
  BY <1>1, <1>4 DEF Tidy
<1>6. Blank(t, k)
  BY <1>1, <1>2 DEF Blank
<1>7. Cover(t, k)
  <2>1. Seen(t, r)
    BY <1>4 DEF AheadIn, Rids, Seen
  <2> QED
    BY <1>1, <2>1 DEF Cover
<1> QED
  BY <1>1, <1>3, <1>5, <1>6, <1>7 DEF Fine

LEMMA ReceiveFine ==
  ASSUME SessionInv, HoldInv, WindowInv, FineInv, NEW c \in DOMAIN conns, Receive(c)
  PROVE  WindowInv' /\ FineInv'
<1>1. conns \in Seq(Conn) /\ c \in 1 .. Len(conns) /\ conns[c] \in Conn
  BY DEF SessionInv
<1> DEFINE e == [conns[c] EXCEPT !.st = "done", !.els = <<>>]
           r == conns[c].rid
           b == conns[c].els
<1>2. /\ conns' = [conns EXCEPT ![c] = e] /\ conns[c].st = "answered" /\ Alive
      /\ got' = [got EXCEPT ![r] = b]
      /\ s' = s /\ c2s' = c2s /\ req' = req /\ doubled' = doubled
      /\ waitMsgs' = waitMsgs /\ out' = out
  BY DEF Receive
<1>3. e \in Conn /\ e.rid = conns[c].rid /\ e.st = "done"
  <2>1. <<>> \in Bodies
    BY DEF Bodies
  <2> QED
    BY <1>1, <2>1 DEF Conn
<1>4. got \in Responses /\ Len(got) = Len(req) /\ r \in 1 .. Len(got) /\ b \in Bodies \cup {NoAnswer}
      /\ got[r] = NoAnswer /\ req \in Seq(Types)
  <2>1. got \in Responses /\ Len(got) = Len(req) /\ req \in Seq(Types)
    BY DEF SessionInv, Responses
  <2>2. r \in 1 .. Len(got) /\ b \in Bodies
    BY <1>1, <2>1 DEF Conn
  <2>3. got[r] = NoAnswer
    BY <1>1, <1>2 DEF WindowInv
  <2> QED
    BY <2>1, <2>2, <2>3
<1> HIDE DEF e
<1>5. /\ Len(conns') = Len(conns) /\ conns'[c] = e
      /\ \A d \in 1 .. Len(conns) : d # c => conns'[d] = conns[d]
  BY <1>1, <1>2, <1>3, ExceptSeq
<1>6. /\ Len(got') = Len(got) /\ got'[r] = b
      /\ \A x \in 1 .. Len(got) : x # r => got'[x] = got[x]
  <2> HIDE DEF r, b
  <2> QED
    BY <1>2, <1>4, ExceptSeq DEF Responses
<1>7. \A d \in 1 .. Len(conns) : /\ conns'[d].rid = conns[d].rid
                                 /\ conns'[d].st # "done" => d # c /\ conns'[d] = conns[d]
  BY <1>3, <1>5
<1>8. \A x \in 1 .. Len(got) : got'[x] = NoAnswer => got[x] = NoAnswer
  BY <1>4, <1>6
<1>9. WindowInv'
  <2>1. Window(got')
    BY <1>6, <1>8 DEF Window, WindowInv
  <2>2. \A x \in 1 .. Len(got') : got'[x] = NoAnswer => req'[x] = "normal" \/ x = Len(got')
    BY <1>2, <1>6, <1>8 DEF WindowInv
  <2>3. ASSUME NEW d \in 1 .. Len(conns'), conns'[d].st # "done"
        PROVE  got'[conns'[d].rid] = NoAnswer
    <3>1. d \in 1 .. Len(conns) /\ d # c /\ conns'[d] = conns[d] /\ conns[d].st # "done"
      BY <1>5, <1>7, <2>3
    <3>2. conns[d].rid # r
      BY <1>1, <1>2, <3>1 DEF WindowInv
    <3>3. conns[d].rid \in 1 .. Len(got)
      <4>1. conns[d] \in Conn
        BY <1>1, <3>1
      <4> QED
        BY <1>4, <4>1 DEF Conn
    <3>4. got[conns[d].rid] = NoAnswer
      BY <3>1 DEF WindowInv
    <3> QED
      BY <1>6, <3>1, <3>2, <3>3, <3>4
  <2>4. ASSUME NEW a \in 1 .. Len(conns'), NEW d \in 1 .. Len(conns'),
               conns'[a].st # "done", conns'[d].st # "done", conns'[a].rid = conns'[d].rid
        PROVE  a = d
    <3>1. /\ a \in 1 .. Len(conns) /\ conns'[a] = conns[a]
          /\ d \in 1 .. Len(conns) /\ conns'[d] = conns[d]
      BY <1>5, <1>7, <2>4
    <3> QED
      BY <2>4, <3>1 DEF WindowInv
  <2>5. s'.name = "closing" => c2s' = "closed"
    BY <1>2 DEF WindowInv
  <2> QED
    BY <2>1, <2>2, <2>3, <2>4, <2>5 DEF WindowInv
<1>10. ASSUME ~ doubled
       PROVE  Fine(s, conns', waitMsgs, out, got')
  <2>1. /\ Fine(s, conns, waitMsgs, out, got) /\ s.reply = {} /\ AheadIn(s)
        /\ waitMsgs \subseteq 1 .. Len(conns)
    BY <1>2, <1>10, FineIs
  <2>2. Linked(s, conns, waitMsgs)
    BY <2>1 DEF Fine
  <2>3. \A d \in 1 .. Len(conns') :
          conns'[d].st = "answered" => d \in 1 .. Len(conns) /\ conns'[d] = conns[d]
    BY <1>5, <1>7
  <2>4. Linked(s, conns', waitMsgs)
    BY <1>7, <2>1, <2>2, <2>3, LinkedAgain
  <2>5. IsCached(s.sent, r, b)
    BY <1>1, <1>2, <2>2 DEF Linked
  <2> HIDE DEF r, b
  <2> QED
    BY <1>4, <1>6, <2>1, <2>4, <2>5, ReceivedFine
<1>11. FineInv'
  BY <1>2, <1>10 DEF FineInv, Alive
<1> QED
  BY <1>9, <1>11

\* A request is sent on a connection of its own.
LEMMA TransmitIs ==
  ASSUME SessionInv, NEW r, Transmit(r)
  PROVE  /\ Len(conns) \in Nat /\ Len(conns') = Len(conns) + 1
         /\ conns'[Len(conns) + 1].rid = r /\ conns'[Len(conns) + 1].st = "sent"
         /\ \A c \in 1 .. Len(conns) : conns'[c] = conns[c]
         /\ \A c \in 1 .. Len(conns') : c \in 1 .. Len(conns) \/ c = Len(conns) + 1
         /\ Alive /\ s' = s /\ c2s' = c2s /\ doubled' = doubled /\ waitMsgs' = waitMsgs /\ out' = out
<1> DEFINE e == [rid |-> r, st |-> "sent", els |-> <<>>]
           S == Conn \cup {e}
<1>1. /\ conns' = Append(conns, e) /\ Alive
      /\ s' = s /\ c2s' = c2s /\ doubled' = doubled /\ waitMsgs' = waitMsgs /\ out' = out
  BY DEF Transmit
<1>2. conns \in Seq(Conn)
  BY DEF SessionInv
<1>3. e.rid = r /\ e.st = "sent" /\ conns \in Seq(S) /\ e \in S
  BY <1>2
<1> HIDE DEF e, S
<1>4. /\ Len(conns') = Len(conns) + 1 /\ conns'[Len(conns) + 1] = e
      /\ \A c \in 1 .. Len(conns) : conns'[c] = conns[c]
  BY <1>1, <1>3, AppendProperties
<1>5. Len(conns) \in Nat
  BY <1>2
<1>6. \A c \in 1 .. Len(conns') : c \in 1 .. Len(conns) \/ c = Len(conns) + 1
  BY ONLY <1>4, <1>5
<1> QED
  BY <1>1, <1>3, <1>4, <1>5, <1>6

LEMMA TransmitLinks ==
  ASSUME SessionInv, HoldInv, WindowInv, FineInv, ~ doubled, NEW r, Transmit(r)
  PROVE  Linked(s, conns', waitMsgs)
<1>1. /\ Len(conns) \in Nat /\ Len(conns') = Len(conns) + 1
      /\ conns'[Len(conns) + 1].st = "sent"
      /\ \A c \in 1 .. Len(conns) : conns'[c] = conns[c]
      /\ \A c \in 1 .. Len(conns') : c \in 1 .. Len(conns) \/ c = Len(conns) + 1
      /\ Alive
  BY TransmitIs
<1>2. Fine(s, conns, waitMsgs, out, got) /\ s.reply = {} /\ waitMsgs \subseteq 1 .. Len(conns)
  BY <1>1, FineIs
<1>3. Linked(s, conns, waitMsgs)
  BY <1>2 DEF Fine
<1>4. \A c \in 1 .. Len(conns') :
        conns'[c].st = "answered" => c \in 1 .. Len(conns) /\ conns'[c] = conns[c]
  BY <1>1
<1>5. \A c \in 1 .. Len(conns) : conns'[c].rid = conns[c].rid
  BY <1>1
<1> QED
  BY <1>2, <1>3, <1>4, <1>5, LinkedAgain

\* The transmissions under way stay apart.
LEMMA TransmitApart ==
  ASSUME SessionInv, WindowInv, NEW r, Transmit(r),
         \A x \in 1 .. Len(got) : got'[x] = got[x], got'[r] = NoAnswer,
         \A c \in 1 .. Len(conns) : conns[c].rid = r => conns[c].st = "done"
  PROVE  /\ \A c \in 1 .. Len(conns') : conns'[c].st # "done" => got'[conns'[c].rid] = NoAnswer
         /\ \A c, d \in 1 .. Len(conns') :
              conns'[c].st # "done" /\ conns'[d].st # "done" /\ conns'[c].rid = conns'[d].rid
                => c = d
         /\ s'.name = "closing" => c2s' = "closed"
<1>1. /\ Len(conns) \in Nat /\ Len(conns') = Len(conns) + 1
      /\ conns'[Len(conns) + 1].rid = r
      /\ \A c \in 1 .. Len(conns) : conns'[c] = conns[c]
      /\ \A c \in 1 .. Len(conns') : c \in 1 .. Len(conns) \/ c = Len(conns) + 1
      /\ s' = s /\ c2s' = c2s
  BY TransmitIs
<1>2. \A c \in 1 .. Len(conns) : conns[c].rid \in 1 .. Len(got)
  <2> SUFFICES ASSUME NEW c \in 1 .. Len(conns)
               PROVE  conns[c].rid \in 1 .. Len(got)
    OBVIOUS
  <2>1. conns \in Seq(Conn) /\ Len(got) = Len(req) /\ req \in Seq(Types)
    BY DEF SessionInv
  <2>2. conns[c] \in Conn /\ DOMAIN req = 1 .. Len(got)
    BY <2>1
  <2> QED
    BY <2>2 DEF Conn
<1>3. ASSUME NEW c \in 1 .. Len(conns'), conns'[c].st # "done"
      PROVE  got'[conns'[c].rid] = NoAnswer
  <2>1. CASE c \in 1 .. Len(conns)
    BY <1>1, <1>2, <1>3, <2>1 DEF WindowInv
  <2>2. CASE c = Len(conns) + 1
    BY <1>1, <2>2
  <2> QED
    BY <1>1, <2>1, <2>2
<1>4. ASSUME NEW c \in 1 .. Len(conns'), NEW d \in 1 .. Len(conns'),
             conns'[c].st # "done", conns'[d].st # "done", conns'[c].rid = conns'[d].rid
      PROVE  c = d
  <2>1. CASE c \in 1 .. Len(conns) /\ d \in 1 .. Len(conns)
    BY <1>1, <1>4, <2>1 DEF WindowInv
  <2>2. CASE c \in 1 .. Len(conns) /\ d = Len(conns) + 1
    BY <1>1, <1>4, <2>2
  <2>3. CASE c = Len(conns) + 1 /\ d \in 1 .. Len(conns)
    BY <1>1, <1>4, <2>3
  <2> QED
    BY <1>1, <2>1, <2>2, <2>3
<1>5. s'.name = "closing" => c2s' = "closed"
  BY <1>1 DEF WindowInv
<1> QED
  BY <1>3, <1>4, <1>5

\* A request whose connections broke is repeated.
LEMMA RepeatFine ==
  ASSUME SessionInv, HoldInv, WindowInv, FineInv, NEW r \in DOMAIN req, Repeat(r)
  PROVE  WindowInv' /\ FineInv'
<1>1. Transmit(r) /\ req' = req /\ got' = got /\ ~ Live(r) /\ got[r] = NoAnswer
  BY DEF Repeat, Unanswered
<1>2. Alive /\ s' = s /\ doubled' = doubled /\ waitMsgs' = waitMsgs /\ out' = out
  BY <1>1, TransmitIs
<1>3. \A c \in 1 .. Len(conns) : conns[c].rid = r => conns[c].st = "done"
  <2> SUFFICES ASSUME NEW c \in 1 .. Len(conns), conns[c].rid = r
               PROVE  conns[c].st = "done"
    OBVIOUS
  <2>1. conns[c] \in Conn /\ c \in DOMAIN conns
    BY DEF SessionInv
  <2> QED
    BY <1>1, <2>1 DEF Live, Conn
<1>4. (\A x \in 1 .. Len(got) : got'[x] = got[x]) /\ got'[r] = NoAnswer
  BY <1>1
<1>5. WindowInv'
  <2>1. /\ \A c \in 1 .. Len(conns') : conns'[c].st # "done" => got'[conns'[c].rid] = NoAnswer
        /\ \A c, d \in 1 .. Len(conns') :
             conns'[c].st # "done" /\ conns'[d].st # "done" /\ conns'[c].rid = conns'[d].rid
               => c = d
        /\ s'.name = "closing" => c2s' = "closed"
    BY <1>1, <1>3, <1>4, TransmitApart
  <2>2. /\ Window(got')
        /\ \A x \in 1 .. Len(got') : got'[x] = NoAnswer => req'[x] = "normal" \/ x = Len(got')
    BY <1>1 DEF WindowInv
  <2> QED
    BY <2>1, <2>2 DEF WindowInv
<1>6. ASSUME ~ doubled
      PROVE  Fine(s, conns', waitMsgs, out, got)
  <2>1. Linked(s, conns', waitMsgs)
    BY <1>1, <1>6, TransmitLinks
  <2>2. Fine(s, conns, waitMsgs, out, got)
    BY <1>2, <1>6, FineIs
  <2> QED
    BY <2>1, <2>2 DEF Fine
<1>7. FineInv'
  BY <1>1, <1>2, <1>6 DEF FineInv, Alive
<1> QED
  BY <1>5, <1>7

\* g and one request more, without an answer.
Grows(g, k) ==
    /\ k \in Responses /\ Len(k) = Len(g) + 1 /\ k[Len(g) + 1] = NoAnswer
    /\ \A x \in 1 .. Len(g) : k[x] = g[x]

LEMMA GrownFine ==
  ASSUME NEW g \in Responses, NEW k, Grows(g, k), NEW t, Good(t), NEW ds, NEW waits, NEW n \in Nat,
         Fine(t, ds, waits, n, g), NEW cs, Linked(t, cs, waits),
         t.rid <= Len(g), t.deferred # <<>> => t.rid + 2 <= Len(g)
  PROVE  Fine(t, cs, waits, n, k)
<1> DEFINE m == Len(g)
<1>1. Tidy(t, g) /\ Blank(t, g) /\ Cover(t, g) /\ Line(PartsOf(t, g), n) /\ Len(t.deferred) <= 1
  BY DEF Fine
<1>2. /\ m \in Nat /\ t.rid \in Nat /\ t.sent \in Seq(CacheEntry) /\ t.pending \in Seq(Elements)
      /\ k \in Responses
  BY LenIs, StateIs DEF Responses, Good, Grows
<1>3. /\ Len(k) = m + 1 /\ k[m + 1] = NoAnswer /\ \A x \in 1 .. m : k[x] = g[x]
  BY DEF Grows
<1>4. /\ PartsOf(t, g) \in [1 .. m + 1 -> Seq(Int)]
      /\ \A x \in 1 .. m : PartsOf(t, g)[x] = Told(t.sent, g, x)
      /\ PartsOf(t, g)[m + 1] = t.pending
  BY <1>2, PartsIs
<1>5. /\ PartsOf(t, k) \in [1 .. Len(k) + 1 -> Seq(Int)]
      /\ \A x \in 1 .. Len(k) : PartsOf(t, k)[x] = Told(t.sent, k, x)
      /\ PartsOf(t, k)[Len(k) + 1] = t.pending
  BY <1>2, PartsIs
<1>6. SentRids(t.sent) \subseteq 1 .. m
  BY <1>1 DEF Tidy
<1>7. t.rid <= m /\ (t.deferred # <<>> => t.rid + 2 <= m)
  OBVIOUS
<1> HIDE DEF m
<1>8. m + 1 \notin SentRids(t.sent) /\ m + 1 \in 1 .. m + 1 /\ m + 1 \notin 1 .. m
  BY <1>2, <1>6
<1>9. \A x \in 1 .. m + 1 : x \in 1 .. m \/ x = m + 1
  BY ONLY <1>2
<1>10. \A x \in 1 .. m : Told(t.sent, k, x) = Told(t.sent, g, x)
  BY <1>3 DEF Told
<1>11. Told(t.sent, k, m + 1) = <<>>
  BY <1>3, <1>8 DEF Told
<1>12. Line(PartsOf(t, k), n)
  <2> DEFINE P == PartsOf(t, g)
             Q == PartsOf(t, k)
             j == m + 1
  <2>1. j \in Nat /\ j > 0 /\ P \in [1 .. j -> Seq(Int)] /\ Q \in [1 .. j + 1 -> Seq(Int)]
    BY <1>2, <1>3, <1>4, <1>5
  <2>2. Line(P, n)
    BY <1>1
  <2>3. Widens(P, Q, j)
    <3>1. ASSUME NEW x \in 1 .. j, x # j
          PROVE  Q[x] = P[x]
      BY <1>3, <1>4, <1>5, <1>9, <1>10, <3>1
    <3>2. Q[j] = <<>> /\ Q[j + 1] = P[j]
      BY <1>3, <1>4, <1>5, <1>8, <1>11
    <3> QED
      BY <3>1, <3>2 DEF Widens
  <2> HIDE DEF P, Q, j
  <2>4. Line(Q, n)
    BY ONLY <2>1, <2>2, <2>3, LineWider, n \in Nat
  <2> QED
    BY <2>4 DEF Q
<1>13. Tidy(t, k)
  <2>1. 1 .. m \subseteq 1 .. m + 1
    BY <1>2
  <2>2. /\ Rising(t.sent) /\ \A a, b \in HSet(t.handlers) : a.rid = b.rid => a = b
    BY <1>1 DEF Tidy
  <2>3. \A h \in HSet(t.handlers) : /\ h.rid \in 1 .. m /\ g[h.rid] = NoAnswer
                                    /\ h.rid \notin SentRids(t.sent)
    BY <1>1 DEF Tidy, m
  <2>4. \A h \in HSet(t.handlers) : h.rid \in 1 .. m + 1 /\ k[h.rid] = NoAnswer
    BY <1>3, <2>1, <2>3
  <2>5. SentRids(t.sent) \subseteq 1 .. m + 1
    BY <1>6, <2>1
  <2> QED
    BY <1>3, <2>2, <2>3, <2>4, <2>5 DEF Tidy
<1>14. Blank(t, k)
  <2> SUFFICES ASSUME NEW x \in 1 .. m + 1,
                      x > t.rid \/ \E h \in HSet(t.handlers) : h.rid <= x
               PROVE  Told(t.sent, k, x) = <<>>
    BY <1>3 DEF Blank
  <2>1. CASE x \in 1 .. m
    BY <1>1, <1>10, <2>1 DEF Blank, m
  <2>2. CASE x = m + 1
    BY <1>11, <2>2
  <2> QED
    BY <1>9, <2>1, <2>2
<1>15. Cover(t, k)
  <2>1. ~ Seen(t, m + 1)
    BY <1>2, <1>7 DEF Seen
  <2>2. ASSUME NEW x \in 1 .. m + 1, m + 1 <= x + 1, Seen(t, x)
        PROVE  x \in Rids(t)
    <3>1. x \in 1 .. m /\ m <= x + 1
      BY <1>2, <1>9, <2>1, <2>2
    <3> QED
      BY <1>1, <2>2, <3>1 DEF Cover, m
  <2>3. ASSUME NEW x \in 1 .. m + 1, ~ Seen(t, x)
        PROVE  k[x] = NoAnswer
    <3>1. CASE x \in 1 .. m
      BY <1>1, <1>3, <2>3, <3>1 DEF Cover, m
    <3> QED
      BY <1>3, <1>9, <3>1
  <2> QED
    BY <1>3, <2>2, <2>3 DEF Cover
<1> QED
  BY <1>1, <1>12, <1>13, <1>14, <1>15 DEF Fine

\* The client makes a request.
LEMMA RequestFine ==
  ASSUME SessionInv, HoldInv, WindowInv, FineInv, NEW type \in Types, Request(type)
  PROVE  WindowInv' /\ FineInv'
<1> DEFINE m == Len(got)
           r == m + 1
           no == NoAnswer
<1>1. /\ got \in Seq(Bodies \cup {NoAnswer}) /\ req \in Seq(Types) /\ Len(req) = m
      /\ DOMAIN req = 1 .. m /\ m \in Nat
  BY DEF SessionInv
<1>2. /\ req' = Append(req, type) /\ got' = Append(got, no) /\ Transmit(r)
      /\ \A x \in Unanswered : m + 1 < x + ConcurrentRequests /\ req[x] = "normal"
  BY <1>1 DEF Request, MayRequest
<1>3. /\ Len(req') = m + 1 /\ \A x \in 1 .. m : req'[x] = req[x]
  BY <1>1, <1>2, AppendProperties
<1>4. no \in Bodies \cup {NoAnswer} /\ no = NoAnswer
  OBVIOUS
<1> HIDE DEF no
<1>5. /\ got' \in Seq(Bodies \cup {NoAnswer}) /\ Len(got') = m + 1 /\ got'[m + 1] = no
      /\ \A x \in 1 .. m : got'[x] = got[x]
  BY <1>1, <1>2, <1>4, AppendProperties
<1>6. Grows(got, got')
  BY <1>4, <1>5 DEF Grows, Responses
<1>7. \A x \in 1 .. m : got[x] = NoAnswer => m + 1 <= x + 1 /\ req[x] = "normal"
  <2> SUFFICES ASSUME NEW x \in 1 .. m, got[x] = NoAnswer
               PROVE  m + 1 <= x + 1 /\ req[x] = "normal"
    OBVIOUS
  <2>1. x \in Unanswered
    BY <1>1 DEF Unanswered
  <2>2. m + 1 < x + ConcurrentRequests /\ req[x] = "normal"
    BY <1>2, <2>1
  <2> HIDE DEF m
  <2> QED
    BY <1>1, <2>2 DEF ConcurrentRequests
<1>8. /\ Alive /\ s' = s /\ doubled' = doubled /\ waitMsgs' = waitMsgs /\ out' = out
  BY <1>2, TransmitIs
<1>9. WindowInv'
  <2>1. \A c \in 1 .. Len(conns) : conns[c].rid = r => conns[c].st = "done"
    <3> SUFFICES ASSUME NEW c \in 1 .. Len(conns)
                 PROVE  conns[c].rid # r
      OBVIOUS
    <3>1. conns[c] \in Conn
      BY DEF SessionInv
    <3>2. conns[c].rid \in 1 .. m
      BY <1>1, <3>1 DEF Conn
    <3> QED
      BY <1>1, <3>2
  <2>2. (\A x \in 1 .. Len(got) : got'[x] = got[x]) /\ got'[r] = NoAnswer
    BY <1>4, <1>5
  <2>3. /\ \A c \in 1 .. Len(conns') : conns'[c].st # "done" => got'[conns'[c].rid] = NoAnswer
        /\ \A c, d \in 1 .. Len(conns') :
             conns'[c].st # "done" /\ conns'[d].st # "done" /\ conns'[c].rid = conns'[d].rid
               => c = d
        /\ s'.name = "closing" => c2s' = "closed"
    <3> HIDE DEF r, m
    <3> QED
      BY <1>2, <2>1, <2>2, TransmitApart
  <2>4. ASSUME NEW x \in 1 .. Len(got'), got'[x] = NoAnswer
        PROVE  Len(got') <= x + 1 /\ (req'[x] = "normal" \/ x = Len(got'))
    <3> HIDE DEF m
    <3>1. x \in 1 .. m \/ x = m + 1
      <4>1. x \in 1 .. m + 1
        BY <1>5
      <4> QED
        BY ONLY <1>1, <4>1
    <3>2. CASE x \in 1 .. m
      BY <1>3, <1>5, <1>7, <2>4, <3>2
    <3>3. CASE x = m + 1
      BY <1>1, <1>5, <3>3
    <3> QED
      BY <3>1, <3>2, <3>3
  <2> QED
    BY <2>3, <2>4 DEF WindowInv, Window
<1>10. ASSUME ~ doubled
       PROVE  Fine(s, conns', waitMsgs, out, got')
  <2>1. Linked(s, conns', waitMsgs)
    BY <1>2, <1>10, TransmitLinks
  <2>2. Fine(s, conns, waitMsgs, out, got) /\ Good(s) /\ got \in Responses /\ out \in Nat
    BY <1>8, <1>10, FineIs
  <2>3. s.rid <= Len(got) /\ (s.deferred # <<>> => s.rid + 2 <= Len(got))
    BY <1>1 DEF SessionInv, Forwarded, DeferredOk
  <2> QED
    BY <1>6, <2>1, <2>2, <2>3, GrownFine
<1>11. FineInv'
  BY <1>8, <1>10 DEF FineInv, Alive
<1> QED
  BY <1>9, <1>11

LEMMA FineInit ==
  ASSUME Init
  PROVE  WindowInv /\ FineInv
<1>1. /\ s = Fresh /\ waitMsgs = {} /\ out = 0 /\ req = <<>> /\ got = <<>> /\ conns = <<>>
  BY DEF Init
<1>2. /\ s.name = "accumulate" /\ s.handlers = <<>> /\ s.pending = <<>> /\ s.rid = 0
      /\ s.deferred = <<>> /\ s.sent = <<>> /\ s.reply = {} /\ s.stop = "no"
  BY <1>1 DEF Fresh
<1>3. /\ Len(got) = 0 /\ Len(conns) = 0 /\ Len(s.deferred) = 0 /\ Len(s.sent) = 0
      /\ Len(s.handlers) = 0
  BY <1>1, <1>2
<1>4. 1 .. Len(got) = {} /\ 1 .. Len(conns) = {} /\ HSet(s.handlers) = {} /\ SentRids(s.sent) = {}
  BY <1>3 DEF HSet, SentRids
<1>5. WindowInv
  BY <1>2, <1>4 DEF WindowInv, Window
<1>6. Tidy(s, got) /\ Blank(s, got) /\ Cover(s, got)
  <2>1. Rising(s.sent)
    BY <1>3 DEF Rising
  <2> QED
    BY <1>4, <2>1 DEF Tidy, Blank, Cover
<1>7. Linked(s, conns, waitMsgs)
  BY <1>1, <1>2, <1>4 DEF Linked
<1>8. Line(PartsOf(s, got), out)
  <2> DEFINE P == PartsOf(s, got)
  <2>1. P = [x \in 1 .. 1 |-> <<>>]
    BY <1>2, <1>3 DEF PartsOf
  <2> HIDE DEF P
  <2>2. DOMAIN P = 1 .. 1 /\ \A x \in DOMAIN P : DOMAIN P[x] = {}
    BY <2>1
  <2>3. Line(P, 0)
    BY <2>2 DEF Line
  <2> QED
    BY <1>1, <2>3 DEF P
<1> QED
  BY <1>2, <1>3, <1>5, <1>6, <1>7, <1>8 DEF FineInv, Fine

LEMMA FineNext ==
  ASSUME SessionInv, HoldInv, WindowInv, FineInv, [Next]_vars
  PROVE  WindowInv' /\ FineInv'
<1>1. ASSUME NEW c \in DOMAIN conns, OnConnection(c) \/ Break(c)
      PROVE  WindowInv' /\ FineInv'
  BY <1>1, ArriveFine, BrokenFine, TimersFine, WaitTimeoutFine, ReceiveFine DEF OnConnection
<1>2. CASE InactivityFires \/ InactivityTimeout \/ AccOff
  BY <1>2, TimersFine, EndFine, AccOffFine
<1>3. CASE C2SStart \/ C2SStanza \/ C2SEnd \/ C2SClose
  BY <1>3, C2SFine, EndFine
<1>4. CASE (\E type \in Types : Request(type)) \/ (\E r \in DOMAIN req : Repeat(r))
  BY <1>4, RequestFine, RepeatFine
<1>5. CASE UNCHANGED vars
  BY <1>5 DEF vars, WindowInv, FineInv, Alive
<1> QED
  BY <1>1, <1>2, <1>3, <1>4, <1>5 DEF Next

LEMMA FineAlways == Spec => [](WindowInv /\ FineInv)
<1>1. Init => WindowInv /\ FineInv
  BY FineInit
<1>2. SessionInv /\ HoldInv /\ WindowInv /\ FineInv /\ [Next]_vars => WindowInv' /\ FineInv'
  BY FineNext
<1> QED
  BY <1>1, <1>2, SessionAlways, HoldAlways, PTL DEF Spec

\* A client that keeps its window is never told that its rid is invalid, and the
\* process finds a handler wherever it needs one (resend_cached,
\* process_pause_event, wait_timeout), as long as no repeated request meets an
\* open one in one of the ways of Doubles: then whatever is repeated is the next
\* request, the one after it, or one whose response is in the cache with nothing
\* before it to take it.  BoshWrapFails is about the failure of bosh_wrap.
THEOREM BoshRepeatIsSafe == Spec => []RepeatIsSafe
<1>1. WindowInv /\ FineInv => RepeatIsSafe
  BY DEF FineInv, RepeatIsSafe
<1> QED
  BY <1>1, FineAlways, PTL

\* What the client has of a request or gets for it is what it was told.
LEMMA ResponseIs ==
  ASSUME SessionInv, HoldInv, WindowInv, FineInv, Alive, ~ doubled, NEW r \in 1 .. Len(got)
  PROVE  Response(r) = Told(s.sent, got, r)
<1> DEFINE A == {c \in DOMAIN conns : conns[c].rid = r /\ conns[c].st = "answered"}
           c == CHOOSE d \in A : TRUE
<1>1. Linked(s, conns, waitMsgs) /\ Good(s) /\ conns \in Seq(Conn)
  BY FineIs DEF Fine
<1>2. HasRid(s.sent, r) <=> r \in SentRids(s.sent)
  <2>1. s.sent \in Seq(CacheEntry)
    BY <1>1, StateIs DEF Good
  <2>2. DOMAIN s.sent = 1 .. Len(s.sent)
    BY <2>1
  <2> QED
    BY <2>2 DEF HasRid, SentRids
<1>3. Response(r) = IF got[r] # NoAnswer THEN got[r]
                    ELSE IF A # {} THEN conns[c].els
                    ELSE IF HasRid(s.sent, r) THEN CachedResponse(s.sent, r) ELSE <<>>
  BY DEF Response
<1>4. ASSUME A # {}
      PROVE  IsCached(s.sent, r, conns[c].els)
  <2>1. c \in A
    BY <1>4
  <2>2. c \in 1 .. Len(conns) /\ conns[c].rid = r /\ conns[c].st = "answered"
    BY <1>1, <2>1
  <2> HIDE DEF c
  <2> QED
    BY <1>1, <2>2 DEF Linked
<1> HIDE DEF A, c
<1> QED
  BY <1>2, <1>3, <1>4 DEF Told, IsCached

\* No stanza of c2s is lost, doubled or overtaken on its way to the client of a
\* session that is alive, as long as no repeated request meets an open one in one
\* of the ways of Doubles: every response is cached as long as the client's
\* window holds its request, and goes to the requests in the order of their rids
\* (send_or_store, cache_response, resend_cached).
THEOREM BoshNoStanzaLost == Spec => []NoStanzaLost
<1>1. ASSUME SessionInv, HoldInv, WindowInv, FineInv
      PROVE  NoStanzaLost
  <2> SUFFICES ASSUME Alive, ~ doubled
               PROVE  /\ \A n \in 1 .. out : \E r \in Parts : Has(Part(r), n)
                      /\ \A r \in Parts : \A k \in DOMAIN Part(r) : Part(r)[k] <= out
                      /\ \A q, r \in Parts : \A j \in DOMAIN Part(q), k \in DOMAIN Part(r) :
                           (q < r \/ (q = r /\ j < k)) /\ Part(q)[j] > 0 /\ Part(r)[k] > 0
                              => Part(q)[j] < Part(r)[k]
    BY DEF NoStanzaLost
  <2> DEFINE P == PartsOf(s, got)
  <2>1. /\ Len(got) \in Nat /\ Len(got) = Len(req) /\ Good(s) /\ got \in Responses /\ Line(P, out)
    BY <1>1, FineIs DEF Fine
  <2>2. s.sent \in Seq(CacheEntry) /\ s.pending \in Seq(Elements)
    BY <2>1, StateIs DEF Good
  <2>3. /\ P \in [1 .. Len(got) + 1 -> Seq(Int)] /\ P[Len(got) + 1] = s.pending
        /\ \A r \in 1 .. Len(got) : P[r] = Told(s.sent, got, r)
    BY <2>1, <2>2, PartsIs
  <2>4. DOMAIN req = 1 .. Len(got) /\ Parts = 1 .. Len(got) + 1
    <3>1. req \in Seq(Types)
      BY <1>1 DEF SessionInv
    <3> QED
      BY <2>1, <3>1 DEF Parts
  <2>5. DOMAIN P = Parts
    BY <2>3, <2>4
  <2>6. \A r \in Parts : Part(r) = P[r]
    <3> SUFFICES ASSUME NEW r \in Parts
                 PROVE  Part(r) = P[r]
      OBVIOUS
    <3>1. CASE r \in 1 .. Len(got)
      <4>1. Response(r) = Told(s.sent, got, r)
        BY <1>1, <3>1, ResponseIs
      <4> HIDE DEF P
      <4> QED
        BY <2>3, <2>4, <3>1, <4>1 DEF Part
    <3>2. CASE r \notin 1 .. Len(got)
      <4>1. r = Len(got) + 1
        BY <2>1, <2>4, <3>2
      <4> HIDE DEF P
      <4> QED
        BY <2>3, <2>4, <3>2, <4>1 DEF Part
    <3> QED
      BY <3>1, <3>2
  <2> HIDE DEF P
  <2> QED
    BY ONLY <2>1, <2>5, <2>6 DEF Line
<1> QED
  BY <1>1, SessionAlways, HoldAlways, FineAlways, PTL
===============================================================================
