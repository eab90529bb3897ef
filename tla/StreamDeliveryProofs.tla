------------------------ MODULE StreamDeliveryProofs ------------------------
(***************************************************************************)
(* Delivery over a stream for every value of the constants: what the       *)
(* client receives, what it acknowledges, what is left when the process    *)
(* ends, and that the stream implements ReliableStream.                    *)
(***************************************************************************)
EXTENDS StreamMgmtProofs, SequenceTheorems

-----------------------------------------------------------------------------
\* Stanzas on the wire.

\* An element that carries a stanza of the stream.  Stanzas sent before
\* <enable/> was handled have number 0.
Numbered(e) == e.tag = "stanza" /\ e.n # 0

\* The numbered stanzas among the elements s are a + 1 .. b, in this order.
Carries(s, a, b) ==
  /\ \A i \in 1 .. Len(s) : Numbered(s[i]) => s[i].n \in a + 1 .. b
  /\ \A i, j \in 1 .. Len(s) :
       i < j /\ Numbered(s[i]) /\ Numbered(s[j]) => s[i].n < s[j].n
  /\ \A v \in a + 1 .. b : \E i \in 1 .. Len(s) : Numbered(s[i]) /\ s[i].n = v

\* An empty wire carries nothing.
LEMMA CarriesEmpty ==
  ASSUME NEW a \in Nat
  PROVE  Carries(<<>>, a, a)
  BY DEF Carries

\* The first element is the next stanza, or none.
LEMMA CarriesTail ==
  ASSUME NEW s \in Seq(Element), s # <<>>, NEW a \in Nat, NEW b \in Nat,
         Carries(s, a, b)
  PROVE  /\ ~Numbered(Head(s)) => Carries(Tail(s), a, b)
         /\ Numbered(Head(s)) => /\ Head(s).n = a + 1 /\ a + 1 <= b
                                 /\ Carries(Tail(s), a + 1, b)
<1> DEFINE t == Tail(s)
<1>1. /\ t \in Seq(Element) /\ Len(t) = Len(s) - 1 /\ Len(s) \in Nat \ {0}
      /\ Head(s) = s[1]
      /\ \A i \in 1 .. Len(t) : t[i] = s[i + 1] /\ i + 1 \in 1 .. Len(s)
  OBVIOUS
<1> HIDE DEF t
<1>2. \A i \in 1 .. Len(s) : s[i] \in Element /\ s[i].n \in Nat
  BY SmAssumption DEF Element
<1>3. CASE ~Numbered(Head(s))
  <2>1. \A v \in a + 1 .. b : \E i \in 1 .. Len(t) : Numbered(t[i]) /\ t[i].n = v
    <3> TAKE v \in a + 1 .. b
    <3>1. PICK i \in 1 .. Len(s) : Numbered(s[i]) /\ s[i].n = v
      BY DEF Carries
    <3>2. i - 1 \in 1 .. Len(t) /\ t[i - 1] = s[i]
      BY <1>1, <1>3, <3>1
    <3> QED
      BY <3>1, <3>2
  <2> QED
    BY <1>1, <1>3, <2>1 DEF Carries, t
<1>4. CASE Numbered(Head(s))
  <2>1. s[1].n \in a + 1 .. b
    BY <1>1, <1>4 DEF Carries
  <2>2. PICK i \in 1 .. Len(s) : Numbered(s[i]) /\ s[i].n = a + 1
    BY <2>1, SMTT(30) DEF Carries
  <2>3. i = 1
    <3> SUFFICES ASSUME i # 1
                 PROVE  FALSE
      OBVIOUS
    <3>1. 1 \in 1 .. Len(s) /\ 1 < i
      BY <1>1
    <3>2. s[1].n < s[i].n
      BY <1>1, <1>4, <2>2, <3>1 DEF Carries
    <3> QED
      BY <2>1, <2>2, <3>2
  <2>4. s[1].n = a + 1 /\ a + 1 <= b
    BY <2>1, <2>2, <2>3
  <2>5. \A j \in 1 .. Len(t) : Numbered(t[j]) => t[j].n \in a + 2 .. b
    <3> SUFFICES ASSUME NEW j \in 1 .. Len(t), Numbered(t[j])
                 PROVE  t[j].n \in a + 2 .. b
      OBVIOUS
    <3>1. t[j] = s[j + 1] /\ j + 1 \in 1 .. Len(s) /\ 1 \in 1 .. Len(s) /\ 1 < j + 1
      BY <1>1
    <3>2. s[1].n < s[j + 1].n /\ s[j + 1].n \in a + 1 .. b
      BY <1>1, <1>4, <3>1 DEF Carries
    <3> QED
      BY <2>4, <3>1, <3>2, SMTT(30)
  <2>6. \A v \in a + 2 .. b : \E j \in 1 .. Len(t) : Numbered(t[j]) /\ t[j].n = v
    <3> TAKE v \in a + 2 .. b
    <3>1. PICK j \in 1 .. Len(s) : Numbered(s[j]) /\ s[j].n = v
      BY DEF Carries
    <3>2. j # 1
      BY <2>4, <3>1
    <3>3. j - 1 \in 1 .. Len(t) /\ t[j - 1] = s[j]
      BY <1>1, <3>2
    <3> QED
      BY <3>1, <3>3
  <2>7. \A j, k \in 1 .. Len(t) :
          j < k /\ Numbered(t[j]) /\ Numbered(t[k]) => t[j].n < t[k].n
    <3> TAKE j, k \in 1 .. Len(t)
    <3>1. /\ t[j] = s[j + 1] /\ j + 1 \in 1 .. Len(s)
          /\ t[k] = s[k + 1] /\ k + 1 \in 1 .. Len(s)
          /\ j < k => j + 1 < k + 1
      BY <1>1
    <3> QED
      BY <3>1 DEF Carries
  <2>8. Carries(t, a + 1, b)
    BY <2>5, <2>6, <2>7, SMTT(30) DEF Carries
  <2> QED
    BY <1>1, <1>4, <2>4, <2>8 DEF t
<1> QED
  BY <1>3, <1>4

\* An element is written behind the others.
LEMMA CarriesAppend ==
  ASSUME NEW s \in Seq(Element), NEW e \in Element, NEW a \in Nat, NEW b \in Nat,
         a <= b, Carries(s, a, b)
  PROVE  /\ ~Numbered(e) => Carries(Append(s, e), a, b)
         /\ Numbered(e) /\ e.n = b + 1 => Carries(Append(s, e), a, b + 1)
<1> DEFINE t == Append(s, e)
<1>1. /\ t \in Seq(Element) /\ Len(t) = Len(s) + 1 /\ Len(s) \in Nat
      /\ t[Len(t)] = e /\ \A i \in 1 .. Len(s) : t[i] = s[i]
  OBVIOUS
<1> HIDE DEF t
<1>2. \A i \in 1 .. Len(t) : i \in 1 .. Len(s) \/ i = Len(t)
  BY <1>1
<1>3. CASE ~Numbered(e)
  <2>1. \A v \in a + 1 .. b : \E i \in 1 .. Len(t) : Numbered(t[i]) /\ t[i].n = v
    <3> TAKE v \in a + 1 .. b
    <3>1. PICK i \in 1 .. Len(s) : Numbered(s[i]) /\ s[i].n = v
      BY DEF Carries
    <3> QED
      BY <1>1, <3>1
  <2>2. Carries(t, a, b)
    BY <1>1, <1>2, <1>3, <2>1 DEF Carries
  <2> QED
    BY <1>3, <2>2 DEF t
<1>4. CASE Numbered(e) /\ e.n = b + 1
  <2>1. \A i \in 1 .. Len(t) : Numbered(t[i]) => t[i].n \in a + 1 .. b + 1
    <3> SUFFICES ASSUME NEW i \in 1 .. Len(t), Numbered(t[i])
                 PROVE  t[i].n \in a + 1 .. b + 1
      OBVIOUS
    <3>1. CASE i \in 1 .. Len(s)
      <4>1. s[i].n \in a + 1 .. b
        BY <1>1, <3>1 DEF Carries
      <4> QED
        BY <1>1, <3>1, <4>1
    <3>2. CASE i = Len(t)
      BY <1>1, <1>4, <3>2
    <3> QED
      BY <1>2, <3>1, <3>2
  <2>2. \A i, j \in 1 .. Len(t) :
          i < j /\ Numbered(t[i]) /\ Numbered(t[j]) => t[i].n < t[j].n
    <3> SUFFICES ASSUME NEW i \in 1 .. Len(t), NEW j \in 1 .. Len(t),
                        i < j, Numbered(t[i]), Numbered(t[j])
                 PROVE  t[i].n < t[j].n
      OBVIOUS
    <3>1. i \in 1 .. Len(s)
      BY <1>1
    <3>2. t[i].n \in a + 1 .. b
      BY <1>1, <3>1 DEF Carries
    <3>3. CASE j \in 1 .. Len(s)
      BY <1>1, <3>1, <3>3 DEF Carries
    <3>4. CASE j = Len(t)
      BY <1>1, <1>4, <3>2, <3>4
    <3> QED
      BY <1>2, <3>3, <3>4
  <2>3. \A v \in a + 1 .. b + 1 : \E i \in 1 .. Len(t) : Numbered(t[i]) /\ t[i].n = v
    <3> TAKE v \in a + 1 .. b + 1
    <3>1. CASE v = b + 1
      BY <1>1, <1>4, <3>1
    <3>2. CASE v \in a + 1 .. b
      <4>1. PICK i \in 1 .. Len(s) : Numbered(s[i]) /\ s[i].n = v
        BY <3>2 DEF Carries
      <4> QED
        BY <1>1, <4>1
    <3> QED
      BY <3>1, <3>2
  <2>4. Carries(t, a, b + 1)
    BY <2>1, <2>2, <2>3 DEF Carries
  <2> QED
    BY <1>4, <2>4 DEF t
<1> QED
  BY <1>3, <1>4

\* A run of stanzas behind elements that carry none.
LEMMA CarriesRun ==
  ASSUME NEW s \in Seq(Element), NEW u \in Seq(Nat), NEW a \in Nat, NEW b \in Nat,
         a <= b, Len(u) = b - a, \A i \in 1 .. Len(u) : u[i] = a + i,
         \A i \in 1 .. Len(s) : ~Numbered(s[i])
  PROVE  Carries(s \o Stanzas(u), a, b)
<1> DEFINE w == Stanzas(u)
           t == s \o w
           l == Len(s)
<1>1. w \in Seq(Element) /\ Len(w) = b - a
  BY StanzasType
<1>2. \A i \in 1 .. b - a : w[i].tag = "stanza" /\ w[i].n = a + i
  BY DEF Stanzas, El
<1> HIDE DEF w
<1>a. Len(t) = l + (b - a) /\ l \in Nat
  <2>1. Len(t) = Len(s) + Len(w)
    BY <1>1
  <2> QED
    BY <1>1, <2>1
<1>c. \A i \in 1 .. l : t[i] = s[i]
  BY <1>1
<1>b. ASSUME NEW i \in 1 .. b - a
      PROVE  t[l + i] = w[i]
  <2>1. l + i \in 1 .. Len(s) + Len(w) /\ l + i > Len(s) /\ l + i - Len(s) = i
    BY <1>1
  <2>2. s \in Seq(Element) /\ w \in Seq(Element)
    BY <1>1
  <2>3. \A j \in 1 .. Len(s) + Len(w) : j > Len(s) => (s \o w)[j] = w[j - Len(s)]
    BY ONLY <2>2
  <2>4. (s \o w)[l + i] = w[l + i - Len(s)]
    BY ONLY <2>1, <2>3
  <2> QED
    BY <2>1, <2>4
<1>3. /\ Len(t) = l + (b - a) /\ l \in Nat
      /\ \A i \in 1 .. l : t[i] = s[i]
      /\ \A i \in 1 .. b - a : t[l + i] = w[i]
  BY <1>a, <1>b, <1>c
<1> HIDE DEF t, l
<1>4. \A i \in 1 .. Len(t) : Numbered(t[i]) => i > l /\ t[i].n = a + (i - l)
  <2> SUFFICES ASSUME NEW i \in 1 .. Len(t), Numbered(t[i])
               PROVE  i > l /\ t[i].n = a + (i - l)
    OBVIOUS
  <2>1. ~(i \in 1 .. l)
    BY <1>3 DEF l
  <2>2. i > l /\ i - l \in 1 .. b - a /\ l + (i - l) = i
    BY <1>3, <2>1
  <2> QED
    BY <1>2, <1>3, <2>2
<1>5. \A v \in a + 1 .. b : \E i \in 1 .. Len(t) : Numbered(t[i]) /\ t[i].n = v
  <2> TAKE v \in a + 1 .. b
  <2>1. v - a \in 1 .. b - a /\ l + (v - a) \in 1 .. Len(t)
    BY <1>3
  <2>2. t[l + (v - a)].n = v /\ Numbered(t[l + (v - a)])
    <3>1. t[l + (v - a)] = w[v - a]
      BY <1>3, <2>1
    <3>2. w[v - a].tag = "stanza" /\ w[v - a].n = v /\ v # 0
      BY <1>2, <2>1
    <3> QED
      BY <3>1, <3>2 DEF Numbered
  <2> QED
    BY <2>1, <2>2
<1>d. l \in Nat /\ Len(t) = l + (b - a)
  BY <1>3
<1>6. \A i \in 1 .. Len(t) : Numbered(t[i]) => t[i].n \in a + 1 .. b
  BY <1>4, <1>d
<1>7. \A i, j \in 1 .. Len(t) :
        i < j /\ Numbered(t[i]) /\ Numbered(t[j]) => t[i].n < t[j].n
  BY <1>4, <1>d
<1>8. Carries(t, a, b)
  BY <1>5, <1>6, <1>7 DEF Carries
<1> QED
  BY <1>8 DEF t, w

-----------------------------------------------------------------------------
\* Acknowledgements on the wire.

\* Each <a/> among the elements s acknowledges a number of stanzas between lo
\* and hi, later ones at least as many as earlier ones.
Acks(s, lo, hi) ==
  \E k \in [1 .. Len(s) -> lo .. hi] :
    /\ \A i, j \in 1 .. Len(s) : i <= j => k[i] <= k[j]
    /\ \A i \in 1 .. Len(s) : s[i].tag = "a" => s[i].n = k[i] % Modulus

\* There are none on an empty wire.
LEMMA AcksEmpty ==
  ASSUME NEW lo \in Nat, NEW hi \in Nat
  PROVE  Acks(<<>>, lo, hi)
<1> DEFINE k == [i \in 1 .. Len(<<>>) |-> lo]
<1>1. k \in [1 .. Len(<<>>) -> lo .. hi]
  OBVIOUS
<1>2. 1 .. Len(<<>>) = {}
  OBVIOUS
<1> HIDE DEF k
<1> QED
  BY <1>1, <1>2 DEF Acks

\* More stanzas may have been received.
LEMMA AcksWiden ==
  ASSUME NEW s \in Seq(Element), NEW lo \in Nat, NEW hi \in Nat, NEW up \in Nat,
         hi <= up, Acks(s, lo, hi)
  PROVE  Acks(s, lo, up)
<1>1. PICK k \in [1 .. Len(s) -> lo .. hi] :
        /\ \A i, j \in 1 .. Len(s) : i <= j => k[i] <= k[j]
        /\ \A i \in 1 .. Len(s) : s[i].tag = "a" => s[i].n = k[i] % Modulus
  BY DEF Acks
<1>2. k \in [1 .. Len(s) -> lo .. up]
  OBVIOUS
<1> QED
  BY <1>1, <1>2 DEF Acks

\* The first element is taken off.
LEMMA AcksTail ==
  ASSUME NEW s \in Seq(Element), s # <<>>, NEW lo \in Nat, NEW hi \in Nat,
         Acks(s, lo, hi)
  PROVE  /\ Acks(Tail(s), lo, hi)
         /\ Head(s).tag = "a" =>
              \E x \in lo .. hi : Head(s).n = x % Modulus /\ Acks(Tail(s), x, hi)
<1> DEFINE t == Tail(s)
<1>1. PICK k \in [1 .. Len(s) -> lo .. hi] :
        /\ \A i, j \in 1 .. Len(s) : i <= j => k[i] <= k[j]
        /\ \A i \in 1 .. Len(s) : s[i].tag = "a" => s[i].n = k[i] % Modulus
  BY DEF Acks
<1>2. /\ t \in Seq(Element) /\ Len(t) = Len(s) - 1 /\ Len(s) \in Nat \ {0}
      /\ Head(s) = s[1]
      /\ \A i \in 1 .. Len(t) : t[i] = s[i + 1] /\ i + 1 \in 1 .. Len(s)
  OBVIOUS
<1> HIDE DEF t
<1> DEFINE m == [i \in 1 .. Len(t) |-> k[i + 1]]
<1>3. k[1] \in lo .. hi /\ \A i \in 1 .. Len(t) : k[i + 1] \in k[1] .. hi
  <2>1. 1 \in 1 .. Len(s) /\ \A i \in 1 .. Len(s) : k[i] \in lo .. hi /\ 1 <= i
    BY <1>2
  <2>2. \A i \in 1 .. Len(s) : k[1] <= k[i]
    BY <1>1, <2>1
  <2> QED
    BY <1>2, <2>1, <2>2
<1>4. m \in [1 .. Len(t) -> k[1] .. hi] /\ m \in [1 .. Len(t) -> lo .. hi]
  BY <1>3
<1>5. \A i, j \in 1 .. Len(t) : i <= j => m[i] <= m[j]
  BY <1>1, <1>2
<1>6. \A i \in 1 .. Len(t) : t[i].tag = "a" => t[i].n = m[i] % Modulus
  BY <1>1, <1>2
<1> HIDE DEF m
<1>7. Acks(t, lo, hi) /\ Acks(t, k[1], hi)
  BY <1>4, <1>5, <1>6 DEF Acks
<1>8. Head(s).tag = "a" => Head(s).n = k[1] % Modulus
  BY <1>1, <1>2
<1> QED
  BY <1>3, <1>7, <1>8 DEF t

\* The client writes: an <a/> with its own count, or something else.
LEMMA AcksConcat ==
  ASSUME NEW s \in Seq(Element), NEW w \in Seq(Element), NEW lo \in Nat,
         NEW hi \in Nat, lo <= hi, Acks(s, lo, hi),
         \A i \in 1 .. Len(w) : w[i].tag = "a" => w[i].n = hi % Modulus
  PROVE  Acks(s \o w, lo, hi)
<1> DEFINE t == s \o w
<1>1. PICK k \in [1 .. Len(s) -> lo .. hi] :
        /\ \A i, j \in 1 .. Len(s) : i <= j => k[i] <= k[j]
        /\ \A i \in 1 .. Len(s) : s[i].tag = "a" => s[i].n = k[i] % Modulus
  BY DEF Acks
<1>2. /\ Len(t) = Len(s) + Len(w) /\ Len(s) \in Nat /\ Len(w) \in Nat
      /\ \A i \in 1 .. Len(s) : t[i] = s[i]
  OBVIOUS
<1>3. ASSUME NEW i \in 1 .. Len(t), i > Len(s)
      PROVE  i - Len(s) \in 1 .. Len(w) /\ t[i] = w[i - Len(s)]
  BY <1>2, <1>3
<1> HIDE DEF t
<1> DEFINE m == [i \in 1 .. Len(t) |-> IF i <= Len(s) THEN k[i] ELSE hi]
<1>4. m \in [1 .. Len(t) -> lo .. hi]
  BY <1>2
<1>5. \A i, j \in 1 .. Len(t) : i <= j => m[i] <= m[j]
  <2> TAKE i, j \in 1 .. Len(t)
  <2>1. CASE j <= Len(s)
    BY <1>1, <1>2, <2>1
  <2>2. CASE j > Len(s)
    <3>1. m[j] = hi /\ m[i] \in lo .. hi
      BY <1>2, <1>4, <2>2
    <3> QED
      BY <3>1
  <2> QED
    BY <1>2, <2>1, <2>2
<1>6. \A i \in 1 .. Len(t) : t[i].tag = "a" => t[i].n = m[i] % Modulus
  <2> TAKE i \in 1 .. Len(t)
  <2>1. CASE i <= Len(s)
    BY <1>1, <1>2, <2>1
  <2>2. CASE i > Len(s)
    BY <1>2, <1>3, <2>2, SMTT(30)
  <2> QED
    BY <1>2, <2>1, <2>2
<1> HIDE DEF m
<1>7. Acks(t, lo, hi)
  BY <1>4, <1>5, <1>6 DEF Acks
<1> QED
  BY <1>7 DEF t

\* Two numbers less than M apart: the distance of their remainders, going up
\* and past M if need be, is their own.
LEMMA ModDistance ==
  \A M, x, d, c, h \in Nat :
    M > 0 /\ d < M /\ c = x % M /\ h = (x + d) % M =>
      d = IF h >= c THEN h - c ELSE h + M - c
<1> TAKE M, x, d, c, h \in Nat
<1> HAVE M > 0 /\ d < M /\ c = x % M /\ h = (x + d) % M
<1> DEFINE q == x \div M
<1>0. M \in Nat \ {0}
  OBVIOUS
<1>1. q \in Int /\ x = M * q + c /\ c \in 0 .. M - 1
  BY ONLY <1>0, x \in Nat, c = x % M
<1> HIDE DEF q
<1>2. M \in Nat \ {0} /\ d \in 0 .. M - 1 /\ c \in 0 .. M - 1 /\ h \in Nat
  BY <1>1
<1>3. CASE c + d < M
  <2>1. x + d = M * q + (c + d) /\ c + d \in 0 .. M - 1
    BY <1>1, <1>2, <1>3
  <2>2. (M * q + (c + d)) % M = c + d
    BY <1>1, <1>2, <2>1, ModUnique
  <2>3. h = c + d
    BY <2>1, <2>2
  <2> QED
    BY ONLY <1>2, <2>3
<1>4. CASE c + d >= M
  <2>1. M * (q + 1) = M * q + M
    BY <1>1
  <2>2. x + d = M * (q + 1) + (c + d - M) /\ c + d - M \in 0 .. M - 1 /\ q + 1 \in Int
    BY <1>1, <1>2, <1>4, <2>1
  <2>3. (M * (q + 1) + (c + d - M)) % M = c + d - M
    BY <1>2, <2>2, ModUnique
  <2>4. h = c + d - M
    BY <2>2, <2>3
  <2> QED
    BY ONLY <1>2, <2>4
<1>5. c + d < M \/ c + d >= M
  BY ONLY <1>2
<1> QED
  BY ONLY <1>3, <1>4, <1>5

\* Counting on modulo M.
LEMMA ModSucc == \A M, x \in Nat : M > 0 => ((x % M) + 1) % M = (x + 1) % M
<1> TAKE M, x \in Nat
<1> HAVE M > 0
<1> DEFINE q == x \div M
           c == x % M
<1>1. M \in Nat \ {0} /\ q \in Int /\ x = M * q + c /\ c \in 0 .. M - 1
  OBVIOUS
<1> HIDE DEF q, c
<1>2. CASE c + 1 < M
  <2>1. x + 1 = M * q + (c + 1) /\ c + 1 \in 0 .. M - 1 /\ M * 0 + (c + 1) = c + 1
    BY <1>1, <1>2
  <2>2. (M * q + (c + 1)) % M = c + 1 /\ (M * 0 + (c + 1)) % M = c + 1
    BY <1>1, <2>1, ModUnique
  <2>3. (x + 1) % M = c + 1 /\ (c + 1) % M = c + 1
    BY <2>1, <2>2
  <2> QED
    BY <2>3 DEF c
<1>3. CASE c + 1 = M
  <2>1. M * (q + 1) = M * q + M
    BY <1>1
  <2>2. x + 1 = M * (q + 1) + 0 /\ c + 1 = M * 1 + 0 /\ q + 1 \in Int /\ 0 \in 0 .. M - 1
    BY <1>1, <1>3, <2>1
  <2>3. (M * (q + 1) + 0) % M = 0 /\ (M * 1 + 0) % M = 0
    BY <1>1, <2>2, ModUnique
  <2>4. (x + 1) % M = 0 /\ (c + 1) % M = 0
    BY <2>2, <2>3
  <2> QED
    BY <2>4 DEF c
<1> QED
  BY <1>1, <1>2, <1>3

\* No more stanzas are outstanding than h can tell apart.
Window == Outstanding <= HMax

\* calc_to_drop undoes the wrap-around: an h that stands for x stanzas takes
\* the buffer from the stanzas acknowledged so far to x.
LEMMA ToDropExact ==
  ASSUME TypeOK, Window, bufferSize <= out,
         counterOut = (out - bufferSize) % Modulus,
         NEW x \in Nat, out - bufferSize <= x, x <= out
  PROVE  /\ CalcToDrop(x % Modulus, counterOut) = x - (out - bufferSize)
         /\ AckAccepted(x % Modulus)
         /\ SizeAfterAck(x % Modulus) = out - x
         /\ x % Modulus \in 0 .. HMax
<1> DEFINE a == out - bufferSize
           d == x - a
           h == x % Modulus
<1>1. /\ HMax \in Nat /\ Modulus \in Nat \ {0} /\ Modulus = HMax + 1
      /\ out \in Nat /\ bufferSize \in Nat /\ bufferSize <= HMax /\ Len(mailbox) \in Nat
  <2>1. mailbox \in Seq({"message", "iq"}) /\ out \in Nat /\ bufferSize \in Nat
    BY DEF TypeOK, ServerTypeOK, HistoryTypeOK
  <2>2. Len(mailbox) \in Nat
    BY <2>1
  <2> QED
    BY <2>1, <2>2, SmAssumption DEF Modulus, Window, Outstanding
<1>2. a \in Nat /\ d \in 0 .. Modulus - 1 /\ a + d = x
  BY <1>1
<1>3. h \in 0 .. HMax /\ counterOut \in 0 .. HMax
  BY <1>1, <1>2
<1>4. counterOut = a % Modulus /\ h = (a + d) % Modulus
  BY <1>2
<1> HIDE DEF a, d, h
<1>5. d = IF h >= counterOut THEN h - counterOut ELSE h + Modulus - counterOut
  <2>1. /\ h \in Nat /\ counterOut \in Nat /\ a \in Nat /\ d \in Nat
        /\ Modulus \in Nat /\ Modulus > 0 /\ d < Modulus
    BY <1>1, <1>2, <1>3
  <2> QED
    BY ONLY <1>4, <2>1, ModDistance
<1>6. CalcToDrop(h, counterOut) = d
  BY <1>1, <1>3, <1>5 DEF CalcToDrop
<1>7. d <= bufferSize /\ bufferSize - d = out - x
  BY <1>1 DEF a, d
<1>8. AckAccepted(h) /\ SizeAfterAck(h) = out - x
  BY <1>6, <1>7 DEF AckAccepted, SizeAfterAck
<1> QED
  BY <1>3, <1>6, <1>8 DEF a, d, h

-----------------------------------------------------------------------------
\* The inductive invariant.

\* Nothing is in flight on a connection that is down, and a process that has
\* ended has closed its connection.
WireDown ==
  /\ link # "up" => toClient = <<>> /\ toServer = <<>>
  /\ c2s = "closed" => link = "closed"

\* <enabled/> separates the stanzas that are not counted from those that are.
Enabling ==
  /\ clientOn => sm
  /\ ~clientOn => got = <<>> /\ clientH = 0
  /\ ~sm => \A i \in 1 .. Len(toClient) :
              toClient[i].tag # "enabled" /\ ~Numbered(toClient[i])
  /\ sm /\ ~clientOn /\ link = "up" =>
       \E p \in 1 .. Len(toClient) :
         /\ toClient[p].tag = "enabled"
         /\ \A i \in 1 .. Len(toClient) :
              /\ toClient[i].tag = "enabled" => i = p
              /\ toClient[i].tag = "stanza" => (toClient[i].n # 0 <=> i > p)
  /\ clientOn => \A i \in 1 .. Len(toClient) :
       /\ toClient[i].tag # "enabled"
       /\ BufferOn /\ toClient[i].tag = "stanza" => toClient[i].n # 0

\* Where the client is in the stream: it has the first Len(got) stanzas, as its
\* h says; of the others those on the wire come next, and while the session is
\* attached they are all of them; what is acknowledged, and what the
\* acknowledgements on the wire will, is not more than it has.
Position ==
  BufferOn /\ Honest =>
    /\ Len(got) <= out /\ clientH = Len(got) % Modulus
    /\ \A i \in 1 .. Len(got) : got[i] = i
    /\ c2s = "closed" => \A id \in Len(got) + 1 .. out : id \in rerouted
    /\ c2s # "closed" =>
         /\ bufferSize <= out /\ out - bufferSize <= Len(got)
         /\ Acks(toServer, out - bufferSize, Len(got))
         /\ link = "up" =>
              \E b \in Len(got) .. out :
                /\ Carries(toClient, Len(got), b)
                /\ c2s = "session_established" => b = out

\* The whole of it.
DeliveryInv ==
  CounterInv /\ Window /\ WireDown /\ Enabling /\ Position

-----------------------------------------------------------------------------
\* The window and the connection.

\* Every step keeps the number of outstanding stanzas within the window.
LEMMA WindowStep ==
  ASSUME TypeOK, Window, Next
  PROVE  Window'
  BY OutstandingType, OutstandingNext, OutstandingStep, SmAssumption DEF Window

\* Every step keeps a connection that is down empty.
LEMMA WireStep ==
  ASSUME TypeOK, WireDown, Next
  PROVE  WireDown'
<1> USE DEF WireDown
<1>1. CASE Terminate
  BY <1>1 DEF Terminate
<1>2. CASE UNCHANGED <<c2s, wire>>
  BY <1>2 DEF wire
<1>3. CASE FromClient
  <2>1. link = "up" /\ c2s # "closed" /\ link' = link
    BY <1>3 DEF FromClient, HandleEnable, HandleEnableAgain, IgnoreEnable,
       HandleStanza, HandleR, HandleA, IgnoreA, Incoming
  <2>2. c2s' # "closed"
    BY <1>3, <2>1 DEF FromClient, HandleEnable, HandleEnableAgain, IgnoreEnable,
       HandleStanza, HandleR, HandleA, IgnoreA, EnterResume, server
  <2> QED
    BY <2>1, <2>2
<1>4. CASE HandleRoute
  BY <1>4 DEF HandleRoute, Send
<1>5. CASE SocketClosed \/ StopRequest \/ Exit \/ CheckBufferFull \/ ResumeTimeoutFires
  BY <1>1, <1>2, <1>5 DEF SocketClosed, StopRequest, Exit, CheckBufferFull,
     ResumeTimeoutFires, EnterResume, wire
<1>6. CASE ResumeHonestly \/ \E h \in 0 .. HMax + 1 : ResumeWithWrongH(h)
  BY <1>1, <1>6 DEF ResumeHonestly, ResumeWithWrongH, Resume, ResumeOk, ResumeFails
<1>7. CASE Tick \/ \E kind \in {"message", "iq"} : RouteIn(kind)
  BY <1>2, <1>7 DEF Tick, RouteIn
<1>8. CASE Cut
  BY <1>8 DEF Cut, server
<1>9. CASE \/ ClientSends \/ ClientAsks \/ ClientReceives
           \/ \E resume \in {0, 1} : ClientEnable(resume)
           \/ \E e \in {El("enable", 1)} \cup {El("a", h) : h \in 0 .. HMax + 1} :
                ClientMisbehaves(e)
  BY <1>9 DEF ClientSends, ClientAsks, ClientReceives, ClientEnable,
     ClientMisbehaves, ClientWrites, server
<1> QED
  BY <1>3, <1>4, <1>5, <1>6, <1>7, <1>8, <1>9 DEF Next, Timers

-----------------------------------------------------------------------------
\* <enabled/> and the numbering of stanzas.

\* Steps that leave the wire to the client and its counting alone.
LEMMA EnablingUntouched ==
  ASSUME Enabling, UNCHANGED <<smState, clientSm, clientH, got, toClient>>,
         link' = "up" => link = "up"
  PROVE  Enabling'
  BY DEF Enabling, clientOn, sm

\* Steps that empty it.
LEMMA EnablingCleared ==
  ASSUME Enabling, UNCHANGED <<smState, clientSm, clientH, got>>,
         toClient' = <<>>, link' # "up"
  PROVE  Enabling'
  BY DEF Enabling, clientOn, sm

\* Steps that write to it anything but <enabled/>.
LEMMA EnablingWritten ==
  ASSUME TypeOK, Enabling, UNCHANGED <<smState, clientSm, clientH, got, link>>,
         NEW w \in Seq(Element),
         toClient' = IF link = "up" THEN toClient \o w ELSE toClient,
         \A i \in 1 .. Len(w) :
           w[i].tag # "enabled" /\ (w[i].tag = "stanza" => (w[i].n # 0 <=> sm))
  PROVE  Enabling'
<1>1. CASE link # "up"
  BY <1>1, EnablingUntouched
<1>2. CASE link = "up"
  <2> DEFINE t == toClient \o w
             l == Len(toClient)
  <2>1. toClient' = t /\ toClient \in Seq(Element)
    BY <1>2 DEF TypeOK, WireTypeOK
  <2>2. Len(t) = l + Len(w) /\ l \in Nat /\ Len(w) \in Nat
        /\ \A i \in 1 .. l : t[i] = toClient[i]
    BY <2>1
  <2>3. ASSUME NEW i \in 1 .. Len(t), i > l
        PROVE  i - l \in 1 .. Len(w) /\ t[i] = w[i - l]
    BY <2>1, <2>2, <2>3
  <2> HIDE DEF t, l
  <2>4. \A i \in 1 .. Len(t) :
          i > l => t[i].tag # "enabled" /\ (t[i].tag = "stanza" => (t[i].n # 0 <=> sm))
    BY <2>2, <2>3
  <2>5. \A i \in 1 .. Len(t) : i \in 1 .. l \/ i > l
    BY <2>2
  <2>6. l = Len(toClient)
    BY DEF l
  <2>7. CASE ~sm
    <3>1. \A i \in 1 .. Len(t) : t[i].tag # "enabled" /\ ~Numbered(t[i])
      BY <2>2, <2>4, <2>5, <2>6, <2>7 DEF Enabling, Numbered
    <3> QED
      BY <2>1, <2>7, <3>1 DEF Enabling, sm, clientOn
  <2>8. CASE sm /\ clientOn
    <3>1. \A i \in 1 .. Len(t) :
            t[i].tag # "enabled" /\ (BufferOn /\ t[i].tag = "stanza" => t[i].n # 0)
      BY <2>2, <2>4, <2>5, <2>6, <2>8 DEF Enabling
    <3> QED
      BY <2>1, <2>8, <3>1 DEF Enabling, sm, clientOn
  <2>9. CASE sm /\ ~clientOn
    <3>1. PICK p \in 1 .. l :
            /\ toClient[p].tag = "enabled"
            /\ \A i \in 1 .. l :
                 /\ toClient[i].tag = "enabled" => i = p
                 /\ toClient[i].tag = "stanza" => (toClient[i].n # 0 <=> i > p)
      BY <1>2, <2>6, <2>9 DEF Enabling
    <3>2. p \in 1 .. Len(t) /\ t[p].tag = "enabled"
      BY <2>2, <3>1
    <3>3. \A i \in 1 .. Len(t) :
            /\ t[i].tag = "enabled" => i = p
            /\ t[i].tag = "stanza" => (t[i].n # 0 <=> i > p)
      <4> TAKE i \in 1 .. Len(t)
      <4>1. CASE i \in 1 .. l
        BY <2>2, <3>1, <4>1
      <4>2. CASE i > l
        BY <2>2, <2>4, <2>9, <3>1, <4>2
      <4> QED
        BY <2>5, <4>1, <4>2
    <3> QED
      BY <2>1, <2>9, <3>2, <3>3 DEF Enabling, sm, clientOn
  <2> QED
    BY <2>7, <2>8, <2>9
<1> QED
  BY <1>1, <1>2

\* What the handling of a routed stanza writes: nothing in resume_session, else
\* the stanza with its number, and behind it a request for an acknowledgement.
LEMMA RouteSends ==
  ASSUME TypeOK, HandleRoute
  PROVE  \E st, r \in Element :
           /\ st.tag = "stanza" /\ st.n = IF sm THEN out + 1 ELSE 0
           /\ r.tag = "r"
           /\ IF c2s = "resume_session" \/ link # "up" THEN toClient' = toClient
              ELSE \/ toClient' = Append(toClient, st)
                   \/ toClient' = Append(Append(toClient, st), r)
<1> DEFINE st == El("stanza", IF sm THEN out + 1 ELSE 0)
           r == El("r", 0)
           newSize == IF sm /\ BufferOn THEN bufferSize + 1 ELSE bufferSize
           req == IF sm THEN AckRequest(newSize, c2s) ELSE <<>>
           w == IF c2s = "resume_session" THEN <<>> ELSE <<st>> \o req
<1>1. Send(w)
  BY DEF HandleRoute
<1>2. /\ st \in Element /\ st.tag = "stanza" /\ st.n = IF sm THEN out + 1 ELSE 0
      /\ r \in Element /\ r.tag = "r"
  BY ElType DEF TypeOK, HistoryTypeOK, El
<1>3. req = <<>> \/ req = <<r>>
  BY DEF AckRequest
<1> HIDE DEF st, r, req
<1>4. toClient \in Seq(Element) /\ <<st>> \in Seq(Element) /\ <<r>> \in Seq(Element)
  BY <1>2 DEF TypeOK, WireTypeOK
<1>5. toClient \o <<>> = toClient /\ <<st>> \o <<>> = <<st>>
  BY <1>4, ConcatEmptySeq
<1>6. toClient \o <<st>> = Append(toClient, st)
  BY <1>2, <1>4, AppendIsConcat
<1>7. toClient \o (<<st>> \o <<r>>) = Append(Append(toClient, st), r)
  <2>1. toClient \o (<<st>> \o <<r>>) = (toClient \o <<st>>) \o <<r>>
    BY <1>4, ConcatAssociative
  <2>2. Append(toClient, st) \in Seq(Element)
    BY <1>2, <1>4
  <2> QED
    BY <1>2, <1>6, <2>1, <2>2, AppendIsConcat
<1>8. toClient' = IF link = "up" THEN toClient \o w ELSE toClient
  BY <1>1 DEF Send
<1>9. CASE c2s = "resume_session" \/ link # "up"
  BY <1>2, <1>5, <1>8, <1>9
<1>10. CASE ~(c2s = "resume_session" \/ link # "up")
  <2>1. toClient' = toClient \o (<<st>> \o req)
    BY <1>8, <1>10
  <2>2. toClient' = Append(toClient, st) \/ toClient' = Append(Append(toClient, st), r)
    BY <1>3, <1>5, <1>6, <1>7, <2>1
  <2> QED
    BY <1>2, <1>10, <2>2
<1> QED
  BY <1>9, <1>10

\* Two elements written in one go.
LEMMA TwoWritten ==
  ASSUME NEW s \in Seq(Element), NEW x \in Element, NEW y \in Element
  PROVE  \E w \in Seq(Element) :
           /\ s \o w = Append(Append(s, x), y)
           /\ \A i \in 1 .. Len(w) : w[i] = x \/ w[i] = y
<1> DEFINE w == <<x, y>>
<1>1. w \in Seq(Element) /\ Len(w) = 2 /\ w[1] = x /\ w[2] = y
  OBVIOUS
<1> HIDE DEF w
<1>2. \A i \in 1 .. Len(w) : w[i] = x \/ w[i] = y
  BY <1>1
<1>3. s \o w = Append(Append(s, x), y)
  <2> DEFINE t == s \o w
             a == Append(s, x)
             u == Append(a, y)
             l == Len(s)
  <2>1. /\ t \in Seq(Element) /\ Len(t) = l + 2 /\ l \in Nat
        /\ \A i \in 1 .. l + 2 : t[i] = IF i <= l THEN s[i] ELSE w[i - l]
    <3>1. /\ t \in Seq(Element) /\ Len(t) = Len(s) + Len(w)
          /\ \A i \in 1 .. Len(s) + Len(w) :
               t[i] = IF i <= Len(s) THEN s[i] ELSE w[i - Len(s)]
      BY <1>1, ConcatProperties
    <3>2. Len(s) \in Nat /\ Len(s) + Len(w) = l + 2
      BY <1>1
    <3> HIDE DEF t
    <3> QED
      BY <3>1, <3>2
  <2>2. t[l + 1] = x /\ t[l + 2] = y
    <3>1. l + 1 - l = 1 /\ l + 2 - l = 2 /\ l + 1 \in 1 .. l + 2 /\ l + 2 \in 1 .. l + 2
      BY <2>1
    <3> QED
      BY <1>1, <2>1, <3>1
  <2>3. /\ a \in Seq(Element) /\ Len(a) = l + 1 /\ a[l + 1] = x
        /\ \A i \in 1 .. l : a[i] = s[i]
    OBVIOUS
  <2> HIDE DEF t, a
  <2>4. /\ u \in Seq(Element) /\ Len(u) = l + 2 /\ u[l + 2] = y
        /\ \A i \in 1 .. l + 1 : u[i] = a[i]
    BY <2>3
  <2> HIDE DEF u, l
  <2>5. \A i \in 1 .. l + 2 : t[i] = u[i]
    BY <2>1, <2>2, <2>3, <2>4
  <2>6. t = u
    BY <2>1, <2>4, <2>5, SeqEqual
  <2> QED
    BY <2>6 DEF t, u, a
<1> QED
  BY <1>1, <1>2, <1>3

\* The same as a sequence of elements.
LEMMA RouteWrites ==
  ASSUME TypeOK, HandleRoute
  PROVE  \E w \in Seq(Element) :
           /\ toClient' = IF link = "up" THEN toClient \o w ELSE toClient
           /\ \A i \in 1 .. Len(w) :
                w[i].tag = "r" \/ (w[i].tag = "stanza" /\ (w[i].n # 0 <=> sm))
<1>1. PICK st, r \in Element :
        /\ st.tag = "stanza" /\ st.n = IF sm THEN out + 1 ELSE 0
        /\ r.tag = "r"
        /\ IF c2s = "resume_session" \/ link # "up" THEN toClient' = toClient
           ELSE \/ toClient' = Append(toClient, st)
                \/ toClient' = Append(Append(toClient, st), r)
  BY RouteSends
<1>2. toClient \in Seq(Element) /\ (st.n # 0 <=> sm)
  BY <1>1 DEF TypeOK, WireTypeOK, HistoryTypeOK
<1>3. PICK w \in Seq(Element) :
        /\ toClient' = IF link = "up" THEN toClient \o w ELSE toClient
        /\ \A i \in 1 .. Len(w) : w[i] = st \/ w[i] = r
  <2>1. CASE toClient' = toClient
    <3> DEFINE w == <<>>
    <3>1. toClient' = toClient \o w
      BY <1>2, <2>1, ConcatEmptySeq
    <3>2. w \in Seq(Element) /\ \A i \in 1 .. Len(w) : w[i] = st
      OBVIOUS
    <3> HIDE DEF w
    <3> QED
      BY <2>1, <3>1, <3>2
  <2>2. CASE toClient' = Append(toClient, st) /\ link = "up"
    <3> DEFINE w == <<st>>
    <3>1. toClient' = toClient \o w
      BY <1>2, <2>2, AppendIsConcat
    <3>2. w \in Seq(Element) /\ \A i \in 1 .. Len(w) : w[i] = st
      OBVIOUS
    <3> HIDE DEF w
    <3> QED
      BY <2>2, <3>1, <3>2
  <2>3. CASE toClient' = Append(Append(toClient, st), r) /\ link = "up"
    <3>1. \E w \in Seq(Element) :
            /\ toClient \o w = Append(Append(toClient, st), r)
            /\ \A i \in 1 .. Len(w) : w[i] = st \/ w[i] = r
      BY <1>2, TwoWritten, ZenonT(30)
    <3> QED
      BY <2>3, <3>1
  <2> QED
    BY <1>1, <2>1, <2>2, <2>3
<1>4. \A i \in 1 .. Len(w) :
        w[i].tag = "r" \/ (w[i].tag = "stanza" /\ (w[i].n # 0 <=> sm))
  BY <1>1, <1>2, <1>3
<1>5. toClient' = IF link = "up" THEN toClient \o w ELSE toClient
  BY <1>3
<1> QED
  BY <1>4, <1>5

\* Every step keeps it.
LEMMA EnablingStep ==
  ASSUME TypeOK, NothingBeforeEnable, BufferIsTail, WireDown, Enabling, Next
  PROVE  Enabling'
<1>1. CASE Terminate /\ UNCHANGED <<smState, client>>
  BY <1>1, EnablingCleared DEF Terminate, client
<1>2. CASE HandleEnable
  <2>1. /\ link = "up" /\ ~sm /\ smState' = "on" /\ UNCHANGED <<clientSm, link, got, clientH>>
        /\ toServer # <<>> /\ Send(<<El("enabled", Head(toServer).n)>>)
    BY <1>2 DEF HandleEnable, Incoming, WireDown, client
  <2> DEFINE e == El("enabled", Head(toServer).n)
             t == toClient \o <<e>>
             l == Len(toClient)
  <2>2. toClient' = t /\ toClient \in Seq(Element) /\ e.tag = "enabled"
    BY <2>1 DEF Send, TypeOK, WireTypeOK, El
  <2> HIDE DEF e
  <2>3. Len(t) = l + 1 /\ l \in Nat /\ t[l + 1] = e
        /\ \A i \in 1 .. l : t[i] = toClient[i]
    BY <2>2
  <2> HIDE DEF t
  <2>4. \A i \in 1 .. Len(t) : i \in 1 .. l \/ i = l + 1
    BY <2>3
  <2>5. \A i \in 1 .. l : t[i].tag # "enabled" /\ ~(t[i].tag = "stanza" /\ t[i].n # 0)
    BY <2>1, <2>3 DEF Enabling, Numbered
  <2> HIDE DEF l
  <2>6. l + 1 \in 1 .. Len(t) /\ t[l + 1].tag = "enabled"
    BY <2>2, <2>3
  <2>7. \A i \in 1 .. Len(t) :
          /\ t[i].tag = "enabled" => i = l + 1
          /\ t[i].tag = "stanza" => (t[i].n # 0 <=> i > l + 1)
    <3> TAKE i \in 1 .. Len(t)
    <3>1. CASE i \in 1 .. l
      BY <2>3, <2>5, <3>1
    <3>2. CASE i = l + 1
      BY <2>2, <2>3, <3>2
    <3> QED
      BY <2>4, <3>1, <3>2
  <2>8. ~clientOn /\ ~clientOn'
    BY <2>1 DEF Enabling, clientOn
  <2> QED
    BY <2>1, <2>2, <2>6, <2>7, <2>8 DEF Enabling, sm
<1>3. CASE HandleR
  <2> DEFINE w == IF sm /\ c2s = "session_established"
                    THEN <<El("a", counterIn)>> ELSE <<>>
  <2>1. /\ toClient' = IF link = "up" THEN toClient \o w ELSE toClient
        /\ UNCHANGED <<smState, clientSm, clientH, got, link>>
    BY <1>3 DEF HandleR, Send, server, client
  <2>2. El("a", counterIn) \in Element /\ El("a", counterIn).tag = "a"
    <3>1. counterIn \in 0 .. HMax + 1
      BY SmAssumption DEF TypeOK, ServerTypeOK
    <3> QED
      BY <3>1, ElType DEF El
  <2>3. w \in Seq(Element) /\ \A i \in 1 .. Len(w) : w[i].tag = "a"
    BY <2>2
  <2> HIDE DEF w
  <2> QED
    BY <2>1, <2>3, EnablingWritten
<1>4. CASE HandleRoute
  <2>1. PICK w \in Seq(Element) :
          /\ toClient' = IF link = "up" THEN toClient \o w ELSE toClient
          /\ \A i \in 1 .. Len(w) :
               w[i].tag = "r" \/ (w[i].tag = "stanza" /\ (w[i].n # 0 <=> sm))
    BY <1>4, RouteWrites
  <2>2. UNCHANGED <<smState, clientSm, clientH, got, link>>
    BY <1>4 DEF HandleRoute, client
  <2> QED
    BY <2>1, <2>2, EnablingWritten
<1>5. CASE \E h \in 0 .. HMax + 1 : Resume(h)
  <2> PICK h \in 0 .. HMax + 1 : Resume(h)
    BY <1>5
  <2>1. CASE ResumeFails(h)
    BY <1>1, <2>1 DEF ResumeFails, UnchangedByTerminate
  <2>2. CASE ResumeOk(h)
    <3>1. clientOn /\ sm /\ UNCHANGED <<smState, clientSm, clientH, got>>
          /\ AckAccepted(h)
          /\ toClient' = <<El("resumed", counterIn)>> \o Stanzas(buffer')
          /\ c2s' = "session_established"
      BY <2>2 DEF Resume, ResumeOk, client, resumable, NothingBeforeEnable
    <3>2. buffer' \in Seq(Nat) /\ out' \in Nat /\ bufferSize' \in Nat
      <4>1. buffer' = BufferAfterAck(h) \o Run(out + 1, out + Recovered)
            /\ bufferSize' = SizeAfterAck(h) + Recovered /\ out' = out + Recovered
        BY <2>2 DEF ResumeOk
      <4>2. AckAccepted(h)
        BY <3>1
      <4>3. BufferAfterAck(h) \o Run(out + 1, out + Recovered) \in Seq(Nat)
        BY <4>2, KeptType
      <4>4. SizeAfterAck(h) \in Nat
        BY <4>2, AckType
      <4>5. Recovered \in Nat /\ out \in Nat
        BY RecoveredNat DEF TypeOK, HistoryTypeOK
      <4> HIDE DEF TypeOK, HistoryTypeOK
      <4> QED
        BY ONLY <4>1, <4>3, <4>4, <4>5
    <3>3. BufferOn => \A i \in 1 .. Len(buffer') : buffer'[i] # 0
      <4>1. BufferIsTail'
        BY BufferStep
      <4> QED
        BY <3>1, <3>2, <4>1, SMTT(30) DEF BufferIsTail, sm
    <3> DEFINE w == Stanzas(buffer')
    <3>4. w \in Seq(Element) /\ Len(w) = Len(buffer')
          /\ \A i \in 1 .. Len(buffer') : w[i].tag = "stanza" /\ w[i].n = buffer'[i]
      BY <3>2, StanzasType DEF Stanzas, El
    <3>5. El("resumed", counterIn) \in Element /\ El("resumed", counterIn).tag = "resumed"
      BY ElType DEF TypeOK, ServerTypeOK, El
    <3> HIDE DEF w
    <3> DEFINE t == <<El("resumed", counterIn)>> \o w
    <3>6. \A i \in 1 .. Len(t) : t[i].tag = "resumed" \/
            (i - 1 \in 1 .. Len(w) /\ t[i] = w[i - 1])
      BY <3>4, <3>5
    <3>7. toClient' = t
      BY <3>1 DEF w
    <3> HIDE DEF t
    <3>8. \A i \in 1 .. Len(t) :
            t[i].tag # "enabled" /\ (BufferOn /\ t[i].tag = "stanza" => t[i].n # 0)
      BY <3>3, <3>4, <3>6
    <3> QED
      BY <3>1, <3>7, <3>8 DEF Enabling, clientOn, sm
  <2> QED
    BY <2>1, <2>2 DEF Resume
<1>6. CASE ResumeHonestly \/ \E h \in 0 .. HMax + 1 : ResumeWithWrongH(h)
  <2>1. clientH \in 0 .. HMax + 1
    BY SmAssumption DEF TypeOK, ClientTypeOK
  <2> QED
    BY <1>5, <1>6, <2>1 DEF ResumeHonestly, ResumeWithWrongH
<1>7. CASE SocketClosed \/ StopRequest \/ Exit \/ CheckBufferFull \/ ResumeTimeoutFires
  BY <1>1, <1>7, EnablingUntouched DEF SocketClosed, StopRequest, Exit,
     CheckBufferFull, ResumeTimeoutFires, UnchangedByTerminate, client, wire
<1>8. CASE HandleEnableAgain \/ IgnoreEnable \/ HandleStanza \/ HandleA \/ IgnoreA
  BY <1>8, EnablingUntouched DEF HandleEnableAgain, IgnoreEnable, HandleStanza,
     HandleA, IgnoreA, server, client
<1>9. CASE \/ \E kind \in {"message", "iq"} : RouteIn(kind)
           \/ Tick \/ ClientSends \/ ClientAsks
           \/ \E resume \in {0, 1} : ClientEnable(resume)
  BY <1>9, EnablingUntouched DEF RouteIn, Tick, ClientSends, ClientAsks,
     ClientEnable, server, client, wire
<1>10. CASE \E e \in {El("enable", 1)} \cup {El("a", h) : h \in 0 .. HMax + 1} :
              ClientMisbehaves(e)
  BY <1>10, EnablingUntouched DEF ClientMisbehaves, server, client
<1>11. CASE Cut
  BY <1>11, EnablingCleared DEF Cut, server, client
<1>12. CASE ClientReceives
  <2> DEFINE t == Tail(toClient)
             e == Head(toClient)
  <2>1. /\ link = "up" /\ toClient # <<>> /\ toClient' = t /\ smState' = smState
        /\ link' = link /\ toClient \in Seq(Element)
    BY <1>12 DEF ClientReceives, server, TypeOK, WireTypeOK
  <2>2. /\ Len(t) = Len(toClient) - 1 /\ Len(toClient) \in Nat \ {0}
        /\ e = toClient[1] /\ 1 \in 1 .. Len(toClient)
        /\ \A i \in 1 .. Len(t) : t[i] = toClient[i + 1] /\ i + 1 \in 1 .. Len(toClient)
    BY <2>1
  <2> HIDE DEF t
  <2>3. CASE ~sm
    <3>1. e.tag # "enabled" /\ ~clientOn
      BY <2>2, <2>3 DEF Enabling
    <3>2. UNCHANGED <<clientSm, clientH, got>>
      BY <1>12, <3>1 DEF ClientReceives, client
    <3>3. \A i \in 1 .. Len(t) : t[i].tag # "enabled" /\ ~Numbered(t[i])
      BY <2>2, <2>3 DEF Enabling
    <3> QED
      BY <2>1, <2>3, <3>1, <3>2, <3>3 DEF Enabling, sm, clientOn
  <2>4. CASE sm /\ clientOn
    <3>1. e.tag # "enabled"
      BY <2>2, <2>4 DEF Enabling
    <3>2. clientSm' = clientSm
      BY <1>12, <3>1 DEF ClientReceives, client
    <3>3. \A i \in 1 .. Len(t) :
            t[i].tag # "enabled" /\ (BufferOn /\ t[i].tag = "stanza" => t[i].n # 0)
      BY <2>2, <2>4 DEF Enabling
    <3> QED
      BY <2>1, <2>4, <3>2, <3>3 DEF Enabling, sm, clientOn
  <2>5. CASE sm /\ ~clientOn
    <3>1. PICK p \in 1 .. Len(toClient) :
            /\ toClient[p].tag = "enabled"
            /\ \A i \in 1 .. Len(toClient) :
                 /\ toClient[i].tag = "enabled" => i = p
                 /\ toClient[i].tag = "stanza" => (toClient[i].n # 0 <=> i > p)
      BY <2>1, <2>5 DEF Enabling
    <3>2. CASE p = 1
      <4>1. e.tag = "enabled"
        BY <2>2, <3>1, <3>2
      <4>2. clientSm' = "on"
        BY <1>12, <4>1 DEF ClientReceives
      <4>3. \A i \in 1 .. Len(t) :
              t[i].tag # "enabled" /\ (t[i].tag = "stanza" => t[i].n # 0)
        <5> TAKE i \in 1 .. Len(t)
        <5>1. t[i] = toClient[i + 1] /\ i + 1 \in 1 .. Len(toClient) /\ i + 1 > 1
          BY <2>2
        <5> QED
          BY <3>1, <3>2, <5>1
      <4> QED
        BY <2>1, <2>5, <4>2, <4>3 DEF Enabling, sm, clientOn
    <3>3. CASE p # 1
      <4>1. e.tag # "enabled"
        BY <2>2, <3>1, <3>3
      <4>2. UNCHANGED <<clientSm, clientH, got>>
        BY <1>12, <2>5, <4>1 DEF ClientReceives, client
      <4>3. p - 1 \in 1 .. Len(t) /\ t[p - 1] = toClient[p]
        BY <2>2, <3>3
      <4>4. \A i \in 1 .. Len(t) :
              /\ t[i].tag = "enabled" => i = p - 1
              /\ t[i].tag = "stanza" => (t[i].n # 0 <=> i > p - 1)
        <5> TAKE i \in 1 .. Len(t)
        <5>1. t[i] = toClient[i + 1] /\ i + 1 \in 1 .. Len(toClient)
              /\ (i + 1 = p => i = p - 1) /\ (i + 1 > p <=> i > p - 1)
          BY <2>2
        <5> QED
          BY <3>1, <5>1
      <4> QED
        BY <2>1, <2>5, <3>1, <4>2, <4>3, <4>4 DEF Enabling, sm, clientOn
    <3> QED
      BY <3>2, <3>3
  <2> QED
    BY <2>3, <2>4, <2>5
<1> QED
  BY <1>2, <1>3, <1>4, <1>6, <1>7, <1>8, <1>9, <1>10, <1>11, <1>12
     DEF Next, FromClient, Timers

-----------------------------------------------------------------------------
\* The position of the client.

\* Steps that leave the buffer and the client's counting alone, and write to
\* the wires nothing that carries a stanza or that acknowledges one.
LEMMA PositionKept ==
  ASSUME TypeOK, Position, UNCHANGED <<got, clientH, out, bufferSize, rerouted>>,
         badAcks' = 0 => badAcks = 0,
         c2s = "closed" <=> c2s' = "closed",
         c2s' = "session_established" => c2s = "session_established",
         link' = "up" => link = "up",
         \A lo, hi \in Nat :
           lo <= hi /\ Acks(toServer, lo, hi) => Acks(toServer', lo, hi),
         \A a, b \in Nat :
           link' = "up" /\ a <= b /\ Carries(toClient, a, b) => Carries(toClient', a, b)
  PROVE  Position'
<1> SUFFICES ASSUME BufferOn, Honest'
             PROVE  Position'
  BY DEF Position
<1>1. Honest
  BY DEF Honest
<1>2. out \in Nat /\ bufferSize \in Nat /\ Len(got) \in Nat
  BY DEF TypeOK, ServerTypeOK, ClientTypeOK, HistoryTypeOK
<1>3. c2s' # "closed" =>
        /\ bufferSize' <= out' /\ out' - bufferSize' <= Len(got')
        /\ Acks(toServer', out' - bufferSize', Len(got'))
  <2> SUFFICES ASSUME c2s' # "closed"
               PROVE  /\ bufferSize <= out /\ out - bufferSize <= Len(got)
                      /\ Acks(toServer', out - bufferSize, Len(got))
    OBVIOUS
  <2>1. /\ bufferSize <= out /\ out - bufferSize <= Len(got)
        /\ Acks(toServer, out - bufferSize, Len(got))
    BY <1>1 DEF Position
  <2>2. out - bufferSize \in Nat
    BY <1>2, <2>1
  <2> QED
    BY <1>2, <2>1, <2>2
<1>4. c2s' # "closed" /\ link' = "up" =>
        \E b \in Len(got') .. out' :
          Carries(toClient', Len(got'), b) /\ (c2s' = "session_established" => b = out')
  <2> SUFFICES ASSUME c2s' # "closed", link' = "up"
               PROVE  \E b \in Len(got) .. out :
                        /\ Carries(toClient', Len(got), b)
                        /\ c2s' = "session_established" => b = out
    OBVIOUS
  <2>1. PICK b \in Len(got) .. out :
          Carries(toClient, Len(got), b) /\ (c2s = "session_established" => b = out)
    BY <1>1 DEF Position
  <2>2. b \in Nat /\ Len(got) <= b
    BY <1>2
  <2> QED
    BY <1>2, <2>1, <2>2
<1> QED
  BY <1>1, <1>3, <1>4 DEF Position

\* The end of the process gives back all that the client does not have.
LEMMA PositionTerminate ==
  ASSUME TypeOK, BufferIsTail, NothingBeforeEnable, Position, Terminate,
         c2s # "closed", UNCHANGED <<got, clientH, out>>,
         badAcks' = 0 => badAcks = 0
  PROVE  Position'
<1> SUFFICES ASSUME BufferOn, Honest'
             PROVE  Position'
  BY DEF Position
<1>1. Honest
  BY DEF Honest
<1>2. out \in Nat /\ bufferSize \in Nat /\ Len(got) \in Nat
  BY DEF TypeOK, ServerTypeOK, ClientTypeOK, HistoryTypeOK
<1>3. bufferSize <= out /\ out - bufferSize <= Len(got)
  BY <1>1 DEF Position
<1>4. ASSUME NEW id \in Len(got) + 1 .. out
      PROVE  id \in rerouted'
  <2>1. sm
    BY <1>2 DEF NothingBeforeEnable
  <2>2. bufferSize = Len(buffer) /\ \A i \in 1 .. Len(buffer) : buffer[i] = out - bufferSize + i
    BY <2>1 DEF BufferIsTail
  <2> DEFINE k == id - (out - bufferSize)
  <2>3. k \in 1 .. bufferSize /\ out - bufferSize + k = id
    BY <1>2, <1>3
  <2> HIDE DEF k
  <2>4. buffer[k] = id /\ k \in 1 .. Len(buffer)
    BY <2>2, <2>3
  <2> QED
    BY <2>4 DEF Terminate
<1> QED
  BY <1>1, <1>4 DEF Position, Terminate

\* What the client acknowledges is taken off the buffer, no more and no less.
LEMMA PositionAck ==
  ASSUME TypeOK, BufferIsTail, Window, CounterOutIsAcked, Position, HandleA
  PROVE  Position'
<1> SUFFICES ASSUME BufferOn, Honest'
             PROVE  Position'
  BY DEF Position
<1>1. Honest /\ sm /\ c2s = "session_established"
  BY DEF Honest, HandleA
<1>2. out \in Nat /\ bufferSize \in Nat /\ Len(got) \in Nat /\ toServer \in Seq(Element)
  BY DEF TypeOK, ServerTypeOK, ClientTypeOK, HistoryTypeOK, WireTypeOK
<1>3. /\ Len(got) <= out /\ bufferSize <= out /\ out - bufferSize <= Len(got)
      /\ Acks(toServer, out - bufferSize, Len(got))
      /\ counterOut = (out - bufferSize) % Modulus
  BY <1>1 DEF Position, CounterOutIsAcked
<1>4. toServer # <<>> /\ Head(toServer).tag = "a" /\ toServer' = Tail(toServer)
  BY DEF HandleA, Incoming
<1> DEFINE lo == out - bufferSize
<1>5. lo \in Nat
  BY <1>2, <1>3
<1> HIDE DEF lo
<1>6. PICK x \in lo .. Len(got) : Head(toServer).n = x % Modulus
                                  /\ Acks(Tail(toServer), x, Len(got))
  <2>1. Acks(toServer, lo, Len(got))
    BY <1>3 DEF lo
  <2> QED
    BY <1>2, <1>4, <1>5, <2>1, AcksTail
<1>7. x \in Nat /\ out - bufferSize <= x /\ x <= out /\ x <= Len(got)
  <2>1. x \in Nat /\ lo <= x /\ x <= Len(got)
    BY <1>2, <1>5
  <2> QED
    BY <1>2, <1>3, <2>1 DEF lo
<1>8. AckAccepted(x % Modulus) /\ SizeAfterAck(x % Modulus) = out - x
  BY <1>3, <1>7, ToDropExact
<1>9. bufferSize' = out - x /\ c2s' = c2s
      /\ UNCHANGED <<got, clientH, out, rerouted, toClient, link>>
  BY <1>6, <1>8 DEF HandleA, client
<1>10. out - (out - x) = x
  BY <1>2, <1>7
<1>11. bufferSize' <= out' /\ out' - bufferSize' = x
  BY <1>2, <1>7, <1>9, <1>10
<1> QED
  BY <1>1, <1>4, <1>6, <1>7, <1>9, <1>11 DEF Position

\* A routed stanza takes the next number, in the buffer and on the wire.
LEMMA PositionRoute ==
  ASSUME TypeOK, Position, HandleRoute
  PROVE  Position'
<1> SUFFICES ASSUME BufferOn, Honest'
             PROVE  Position'
  BY DEF Position
<1>1. Honest /\ UNCHANGED <<c2s, link, toServer, got, clientH, rerouted, badAcks>>
      /\ c2s # "closed"
  BY DEF Honest, HandleRoute, client
<1>2. out \in Nat /\ bufferSize \in Nat /\ Len(got) \in Nat /\ toClient \in Seq(Element)
  BY DEF TypeOK, ServerTypeOK, ClientTypeOK, HistoryTypeOK, WireTypeOK
<1>3. PICK st, r \in Element :
        /\ st.tag = "stanza" /\ st.n = IF sm THEN out + 1 ELSE 0
        /\ r.tag = "r"
        /\ IF c2s = "resume_session" \/ link # "up" THEN toClient' = toClient
           ELSE \/ toClient' = Append(toClient, st)
                \/ toClient' = Append(Append(toClient, st), r)
  BY RouteSends
<1>4. ~Numbered(r) /\ (Numbered(st) <=> sm)
  BY <1>2, <1>3 DEF Numbered
<1>5. Append(toClient, st) \in Seq(Element)
  BY <1>2
<1>6. CASE ~sm
  <2>1. UNCHANGED <<out, bufferSize>>
    BY <1>6 DEF HandleRoute
  <2>2. \A a, b \in Nat :
          a <= b /\ Carries(toClient, a, b) => Carries(toClient', a, b)
    <3> TAKE a, b \in Nat
    <3> HAVE a <= b /\ Carries(toClient, a, b)
    <3>1. Carries(Append(toClient, st), a, b)
      BY <1>2, <1>4, <1>6, CarriesAppend
    <3>2. Carries(Append(Append(toClient, st), r), a, b)
      BY <1>4, <1>5, <3>1, CarriesAppend
    <3> QED
      BY <1>3, <3>1, <3>2
  <2> QED
    BY <1>1, <2>1, <2>2, PositionKept
<1>7. CASE sm
  <2>1. out' = out + 1 /\ bufferSize' = bufferSize + 1
    BY <1>7 DEF HandleRoute
  <2>2. /\ Len(got) <= out /\ bufferSize <= out /\ out - bufferSize <= Len(got)
        /\ Acks(toServer, out - bufferSize, Len(got))
    BY <1>1 DEF Position
  <2>3. /\ Len(got) <= out' /\ bufferSize' <= out'
        /\ out' - bufferSize' = out - bufferSize
    BY <1>2, <2>1, <2>2
  <2>4. link = "up" =>
          \E b \in Len(got) .. out' :
            Carries(toClient', Len(got), b) /\ (c2s = "session_established" => b = out')
    <3> SUFFICES ASSUME link = "up"
                 PROVE  \E b \in Len(got) .. out' :
                          /\ Carries(toClient', Len(got), b)
                          /\ c2s = "session_established" => b = out'
      OBVIOUS
    <3>1. PICK b \in Len(got) .. out :
            Carries(toClient, Len(got), b) /\ (c2s = "session_established" => b = out)
      BY <1>1 DEF Position
    <3>2. CASE c2s = "resume_session"
      <4>1. b \in Len(got) .. out'
        BY <1>2, <2>1
      <4> QED
        BY <1>3, <3>1, <3>2, <4>1
    <3>3. CASE c2s # "resume_session"
      <4>1. c2s = "session_established" /\ b = out
        BY <1>1, <3>1, <3>3 DEF TypeOK, ServerTypeOK
      <4>2. Carries(Append(toClient, st), Len(got), out + 1)
        <5>1. Carries(toClient, Len(got), out) /\ Len(got) <= out
          BY <2>2, <3>1, <4>1
        <5>2. Numbered(st) /\ st.n = out + 1
          BY <1>3, <1>4, <1>7
        <5> QED
          BY <1>2, <5>1, <5>2, CarriesAppend
      <4>3. Carries(Append(Append(toClient, st), r), Len(got), out + 1)
        <5>1. out + 1 \in Nat /\ Len(got) <= out + 1
          BY <1>2, <2>2
        <5> QED
          BY <1>2, <1>4, <1>5, <4>2, <5>1, CarriesAppend
      <4>4. Carries(toClient', Len(got), out')
        BY <1>3, <2>1, <3>3, <4>2, <4>3
      <4>5. out' \in Len(got) .. out'
        BY <1>2, <2>1, <2>3
      <4> QED
        BY <4>4, <4>5
    <3> QED
      BY <3>2, <3>3
  <2> QED
    BY <1>1, <2>2, <2>3, <2>4 DEF Position
<1> QED
  BY <1>6, <1>7

\* A resumption with the client's own h sends exactly what it misses.
LEMMA PositionResume ==
  ASSUME CounterInv, Window, Enabling, Position, ResumeHonestly
  PROVE  Position'
<1> SUFFICES ASSUME BufferOn, Honest'
             PROVE  Position'
  BY DEF Position
<1>1. /\ Honest /\ Resume(clientH) /\ clientOn /\ sm /\ c2s # "closed"
      /\ TypeOK /\ BufferIsTail /\ CounterOutIsAcked
  BY DEF Honest, ResumeHonestly, Resume, Enabling, CounterInv
<1>2. out \in Nat /\ bufferSize \in Nat /\ Len(got) \in Nat /\ counterIn \in Nat
  BY <1>1, SmAssumption DEF TypeOK, ServerTypeOK, ClientTypeOK, HistoryTypeOK
<1>3. /\ Len(got) <= out /\ bufferSize <= out /\ out - bufferSize <= Len(got)
      /\ clientH = Len(got) % Modulus
      /\ counterOut = (out - bufferSize) % Modulus
      /\ \A i \in 1 .. Len(got) : got[i] = i
  BY <1>1 DEF Position, CounterOutIsAcked
<1>4. AckAccepted(clientH) /\ SizeAfterAck(clientH) = out - Len(got)
  BY <1>1, <1>2, <1>3, ToDropExact
<1>5. /\ bufferSize' = out - Len(got) + Recovered /\ out' = out + Recovered
      /\ c2s' = "session_established" /\ link' = "up" /\ toServer' = <<>>
      /\ toClient' = <<El("resumed", counterIn)>> \o Stanzas(buffer')
      /\ UNCHANGED <<got, clientH, rerouted>> /\ smState' = smState
  BY <1>1, <1>4 DEF Resume, ResumeOk, ResumeFails, client
<1>6. Recovered \in Nat
  BY <1>1, RecoveredNat
<1>7. Next
  BY DEF Next
<1>8. BufferIsTail' /\ TypeOK'
  BY <1>1, <1>7, BufferStep, TypeStep
<1>9. /\ out' - bufferSize' = Len(got) /\ bufferSize' <= out' /\ Len(got) <= out'
      /\ out' \in Nat /\ bufferSize' \in Nat /\ bufferSize' = out' - Len(got)
  BY <1>2, <1>3, <1>5, <1>6
<1>10. /\ buffer' \in Seq(Nat) /\ Len(buffer') = out' - Len(got)
       /\ \A i \in 1 .. Len(buffer') : buffer'[i] = Len(got) + i
  <2>1. /\ bufferSize' = Len(buffer') /\ buffer' \in Seq(Nat)
        /\ \A i \in 1 .. Len(buffer') : buffer'[i] = out' - bufferSize' + i
    BY <1>1, <1>5, <1>8 DEF BufferIsTail, sm, TypeOK, ServerTypeOK
  <2> QED
    BY <1>9, <2>1
<1> DEFINE w == <<El("resumed", counterIn)>>
<1>11. w \in Seq(Element) /\ \A i \in 1 .. Len(w) : ~Numbered(w[i])
  BY <1>2, ElType DEF El, Numbered
<1> HIDE DEF w
<1>12. Carries(w \o Stanzas(buffer'), Len(got), out')
  BY <1>2, <1>9, <1>10, <1>11, CarriesRun
<1>13. Carries(toClient', Len(got), out')
  BY <1>5, <1>12 DEF w
<1>14. Acks(<<>>, Len(got), Len(got))
  BY <1>2, AcksEmpty
<1>15. out' \in Len(got) .. out'
  BY <1>2, <1>9
<1>16. /\ Len(got') <= out' /\ clientH' = Len(got') % Modulus
       /\ \A i \in 1 .. Len(got') : got'[i] = i
  BY <1>3, <1>5, <1>9
<1>17. /\ bufferSize' <= out' /\ out' - bufferSize' <= Len(got')
       /\ Acks(toServer', out' - bufferSize', Len(got'))
  <2>1. Len(got) <= Len(got)
    BY <1>2
  <2> QED
    BY <1>5, <1>9, <1>14, <2>1
<1>18. Carries(toClient', Len(got'), out') /\ out' \in Len(got') .. out'
  BY <1>5, <1>13, <1>15
<1> QED
  BY <1>5, <1>16, <1>17, <1>18 DEF Position

\* The client takes the first element off the wire.
LEMMA PositionReceive ==
  ASSUME TypeOK, WireDown, Enabling, Position, ClientReceives
  PROVE  Position'
<1> SUFFICES ASSUME BufferOn, Honest'
             PROVE  Position'
  BY DEF Position
<1> DEFINE e == Head(toClient)
<1>1. /\ Honest /\ link = "up" /\ c2s # "closed" /\ toClient # <<>>
      /\ toClient' = Tail(toClient)
      /\ UNCHANGED <<c2s, bufferSize, link, out, rerouted, badAcks>>
  BY DEF Honest, ClientReceives, WireDown, server, history
<1>2. /\ out \in Nat /\ bufferSize \in Nat /\ Len(got) \in Nat /\ got \in Seq(Nat)
      /\ toClient \in Seq(Element) /\ toServer \in Seq(Element) /\ clientH \in 0 .. HMax + 1
      /\ unacked \in Seq(Nat)
  BY SmAssumption DEF TypeOK, ServerTypeOK, ClientTypeOK, HistoryTypeOK, WireTypeOK
<1>3. /\ Len(got) <= out /\ bufferSize <= out /\ out - bufferSize <= Len(got)
      /\ Acks(toServer, out - bufferSize, Len(got))
      /\ clientH = Len(got) % Modulus /\ \A i \in 1 .. Len(got) : got[i] = i
  BY <1>1 DEF Position
<1>4. PICK b \in Len(got) .. out :
        Carries(toClient, Len(got), b) /\ (c2s = "session_established" => b = out)
  BY <1>1 DEF Position
<1>5. b \in Nat /\ Len(got) <= b /\ b <= out
  BY <1>2
<1>6. CASE ~(Numbered(e) /\ clientOn)
  <2>1. UNCHANGED <<got, clientH>>
    <3>1. e.tag = "stanza" /\ clientOn => Numbered(e)
      <4>1. 1 \in 1 .. Len(toClient) /\ e = toClient[1]
        BY <1>1, <1>2
      <4> QED
        BY <4>1 DEF Enabling, Numbered
    <3> QED
      BY <1>6, <3>1 DEF ClientReceives, client
  <2>2. \A lo, hi \in Nat :
          lo = out - bufferSize /\ hi = Len(got) =>
            (lo <= hi /\ Acks(toServer, lo, hi) => Acks(toServer', lo, hi))
    <3> TAKE lo, hi \in Nat
    <3> HAVE lo = out - bufferSize /\ hi = Len(got)
    <3> HAVE lo <= hi /\ Acks(toServer, lo, hi)
    <3>1. CASE toServer' = toServer
      BY <3>1
    <3>2. CASE toServer' = Append(toServer, El("a", clientH))
      <4> DEFINE x == El("a", clientH)
                 w == <<x>>
      <4>1. x \in Element /\ x.n = hi % Modulus
        BY <1>2, <1>3, ElType DEF El
      <4> HIDE DEF x
      <4>2. w \in Seq(Element) /\ \A i \in 1 .. Len(w) : w[i] = x
        BY <4>1
      <4>3. toServer' = toServer \o w
        BY <1>2, <3>2, <4>1, AppendIsConcat DEF x
      <4> HIDE DEF w
      <4>4. Acks(toServer \o w, lo, hi)
        BY <1>2, <4>1, <4>2, AcksConcat
      <4> QED
        BY <4>3, <4>4
    <3>3. CASE toServer' = toServer \o Stanzas(unacked') /\ unacked' \in Seq(Nat)
      <4> DEFINE w == Stanzas(unacked')
      <4>1. w \in Seq(Element) /\ Len(w) = Len(unacked')
        BY <3>3, StanzasType
      <4>2. \A i \in 1 .. Len(w) : w[i].tag = "stanza"
        BY <4>1 DEF Stanzas, El
      <4> HIDE DEF w
      <4>3. Acks(toServer \o w, lo, hi)
        BY <1>2, <4>1, <4>2, AcksConcat
      <4> QED
        BY <3>3, <4>3 DEF w
    <3>4. unacked' \in Seq(Nat)
      <4>1. Next
        BY DEF Next
      <4> QED
        BY <4>1, TypeStep DEF TypeOK, ClientTypeOK
    <3> QED
      BY <3>1, <3>2, <3>3, <3>4 DEF ClientReceives
  <2>3. Acks(toServer', out - bufferSize, Len(got))
    <3>1. out - bufferSize \in Nat
      BY <1>2, <1>3
    <3> QED
      BY <1>2, <1>3, <2>2, <3>1
  <2>4. Carries(toClient', Len(got), b)
    <3>1. CASE ~Numbered(e)
      BY <1>1, <1>2, <1>4, <1>5, <3>1, CarriesTail
    <3>2. CASE Numbered(e)
      <4>1. ~clientOn
        BY <1>6, <3>2
      <4>2. 1 \in 1 .. Len(toClient) /\ e = toClient[1]
        BY <1>1, <1>2
      <4>3. FALSE
        <5>1. sm
          BY <3>2, <4>2 DEF Enabling
        <5>2. PICK p \in 1 .. Len(toClient) :
                /\ toClient[p].tag = "enabled"
                /\ \A i \in 1 .. Len(toClient) :
                     toClient[i].tag = "stanza" => (toClient[i].n # 0 <=> i > p)
          BY <1>1, <4>1, <5>1 DEF Enabling
        <5>3. 1 > p
          BY <3>2, <4>2, <5>2 DEF Numbered
        <5> QED
          BY <5>3
      <4> QED
        BY <4>3
    <3> QED
      BY <3>1, <3>2
  <2> QED
    BY <1>1, <1>3, <1>4, <2>1, <2>3, <2>4 DEF Position
<1>7. CASE Numbered(e) /\ clientOn
  <2> DEFINE l == Len(got) + 1
  <2>1. e.n = l /\ l <= b /\ Carries(Tail(toClient), l, b)
    BY <1>1, <1>2, <1>4, <1>5, <1>7, CarriesTail
  <2>2. /\ got' = Append(got, e.n) /\ clientH' = (clientH + 1) % Modulus
        /\ toServer' = toServer
    BY <1>7 DEF ClientReceives, Numbered
  <2>3. Len(got') = l /\ l \in Nat /\ \A i \in 1 .. l : got'[i] = i
    <3>1. Len(got') = l /\ got'[l] = l /\ \A i \in 1 .. Len(got) : got'[i] = got[i]
      BY <1>2, <2>1, <2>2
    <3>2. \A i \in 1 .. l : i \in 1 .. Len(got) \/ i = l
      BY <1>2
    <3>3. \A i \in 1 .. Len(got) : got'[i] = i
      BY <1>3, <3>1
    <3>4. l \in Nat
      BY <1>2
    <3> HIDE DEF l
    <3> QED
      BY <3>1, <3>2, <3>3, <3>4
  <2>4. clientH' = l % Modulus
    <3>1. Len(got) \in Nat
      BY <1>2
    <3>2. Modulus \in Nat /\ Modulus > 0
      BY SmAssumption DEF Modulus
    <3>3. ((Len(got) % Modulus) + 1) % Modulus = (Len(got) + 1) % Modulus
      BY ONLY <3>1, <3>2, ModSucc
    <3> QED
      BY <1>3, <2>2, <3>3
  <2>5. Acks(toServer, out - bufferSize, l)
    <3>1. out - bufferSize \in Nat /\ Len(got) <= l /\ l \in Nat
      BY <1>2, <1>3
    <3> QED
      BY <1>2, <1>3, <3>1, AcksWiden
  <2> HIDE DEF l
  <2>6. l <= out /\ out - bufferSize <= l /\ b \in l .. out
    BY <1>2, <1>3, <1>5, <2>1, <2>3 DEF l
  <2> QED
    BY <1>1, <1>3, <1>4, <2>1, <2>2, <2>3, <2>4, <2>5, <2>6 DEF Position
<1> QED
  BY <1>6, <1>7

\* Every step keeps it.
LEMMA PositionStep ==
  ASSUME CounterInv, Window, WireDown, Enabling, Position, Next
  PROVE  Position'
<1>a. /\ TypeOK /\ BufferIsTail /\ NothingBeforeEnable /\ CounterOutIsAcked
      /\ toClient \in Seq(Element) /\ toServer \in Seq(Element)
  BY DEF CounterInv, TypeOK, WireTypeOK
<1>1. CASE /\ Terminate /\ c2s # "closed" /\ UNCHANGED client /\ out' = out
           /\ badAcks' = badAcks
  BY <1>a, <1>1, PositionTerminate DEF client
<1>2. \A lo, hi \in Nat :
        toServer # <<>> /\ Acks(toServer, lo, hi) => Acks(Tail(toServer), lo, hi)
  BY <1>a, AcksTail
<1>3. CASE HandleStanza \/ IgnoreA \/ IgnoreEnable \/ HandleEnableAgain
  <2>1. /\ toServer # <<>> /\ toServer' = Tail(toServer) /\ UNCHANGED <<toClient, link>>
        /\ c2s # "closed" /\ (c2s' = c2s \/ c2s' = "resume_session")
        /\ UNCHANGED <<got, clientH, out, bufferSize, rerouted, badAcks>>
    BY <1>3 DEF HandleStanza, IgnoreA, IgnoreEnable, HandleEnableAgain, Incoming,
       EnterResume, server, client, history
  <2> QED
    BY <1>a, <1>2, <2>1, PositionKept
<1>4. CASE HandleEnable
  <2> DEFINE e == El("enabled", Head(toServer).n)
  <2>1. /\ toServer # <<>> /\ toServer' = Tail(toServer) /\ link' = link /\ c2s' = c2s
        /\ UNCHANGED <<got, clientH, out, rerouted, badAcks>> /\ ~sm /\ c2s # "closed"
        /\ Send(<<e>>) /\ bufferSize' = 0
    BY <1>4 DEF HandleEnable, Incoming, client, history
  <2>2. e \in Element /\ ~Numbered(e)
    <3>1. Head(toServer).n \in Nat
      BY <1>4, <1>a, IncomingType DEF HandleEnable
    <3> QED
      BY <3>1, ElType DEF El, Numbered
  <2> HIDE DEF e
  <2>3. CASE bufferSize = 0
    <3>1. \A a, b \in Nat :
            a <= b /\ Carries(toClient, a, b) => Carries(toClient', a, b)
      <4> TAKE a, b \in Nat
      <4> HAVE a <= b /\ Carries(toClient, a, b)
      <4>1. toClient \o <<e>> = Append(toClient, e)
        BY <1>a, <2>2, AppendIsConcat
      <4>2. Carries(Append(toClient, e), a, b)
        BY <1>a, <2>2, CarriesAppend
      <4> QED
        BY <2>1, <4>1, <4>2 DEF Send
    <3> QED
      BY <1>a, <1>2, <2>1, <2>3, <3>1, PositionKept
  <2>4. CASE bufferSize # 0
    <3>1. out = 0 /\ bufferSize \in Nat
      BY <1>a, <2>1 DEF NothingBeforeEnable, TypeOK, ServerTypeOK
    <3>2. ~(bufferSize <= out)
      BY <2>4, <3>1
    <3>3. ~(BufferOn /\ Honest)
      BY <2>1, <3>2 DEF Position
    <3> QED
      BY <2>1, <3>3 DEF Position, Honest
  <2> QED
    BY <2>3, <2>4
<1>5. CASE HandleR
  <2>1. /\ toServer # <<>> /\ toServer' = Tail(toServer) /\ UNCHANGED <<c2s, link>>
        /\ UNCHANGED <<got, clientH, out, bufferSize, rerouted, badAcks>>
        /\ Send(IF sm /\ c2s = "session_established"
                  THEN <<El("a", counterIn)>> ELSE <<>>)
    BY <1>5 DEF HandleR, Incoming, server, client, history
  <2> DEFINE e == El("a", counterIn)
  <2>2. e \in Element /\ ~Numbered(e)
    <3>1. counterIn \in 0 .. HMax + 1
      BY <1>a, SmAssumption DEF TypeOK, ServerTypeOK
    <3> QED
      BY <3>1, ElType DEF El, Numbered
  <2> HIDE DEF e
  <2>3. toClient \o <<e>> = Append(toClient, e) /\ toClient \o <<>> = toClient
    BY <1>a, <2>2, AppendIsConcat, ConcatEmptySeq
  <2>4. toClient' = toClient \/ toClient' = Append(toClient, e)
    BY <2>1, <2>3 DEF Send, e
  <2>5. \A a, b \in Nat :
          a <= b /\ Carries(toClient, a, b) => Carries(toClient', a, b)
    <3> TAKE a, b \in Nat
    <3> HAVE a <= b /\ Carries(toClient, a, b)
    <3>1. Carries(Append(toClient, e), a, b)
      BY <1>a, <2>2, CarriesAppend
    <3> QED
      BY <2>4, <3>1
  <2> QED
    BY <1>a, <1>2, <2>1, <2>5, PositionKept
<1>6. CASE HandleA
  BY <1>a, <1>6, PositionAck
<1>7. CASE HandleRoute
  BY <1>a, <1>7, PositionRoute
<1>8. CASE ResumeHonestly
  BY <1>8, PositionResume
<1>9. CASE ClientReceives
  BY <1>a, <1>9, PositionReceive
<1>10. CASE UNCHANGED <<got, clientH, out, bufferSize, rerouted, badAcks, wire, c2s>>
  BY <1>a, <1>10, PositionKept DEF wire
<1>11. CASE EnterResume /\ c2s # "closed" /\ UNCHANGED <<wire, client, out, bufferSize,
              rerouted, badAcks>>
  BY <1>a, <1>11, PositionKept DEF wire, client, EnterResume
<1>12. CASE Tick \/ \E kind \in {"message", "iq"} : RouteIn(kind)
  BY <1>10, <1>12 DEF Tick, RouteIn, client
<1>13. CASE SocketClosed
  <2>1. CASE sm
    <3>1. /\ UNCHANGED <<toClient, toServer, client, out, bufferSize, rerouted, badAcks>>
          /\ c2s # "closed" /\ c2s' = "resume_session" /\ link' = "closed"
      BY <1>13, <2>1 DEF SocketClosed, EnterResume
    <3> QED
      BY <1>a, <3>1, PositionKept DEF client
  <2>2. CASE ~sm
    BY <1>1, <1>13, <2>2 DEF SocketClosed, UnchangedByTerminate
  <2> QED
    BY <2>1, <2>2
<1>14. CASE StopRequest \/ Exit \/ CheckBufferFull \/ ResumeTimeoutFires
  BY <1>1, <1>10, <1>11, <1>14 DEF StopRequest, Exit, CheckBufferFull,
     ResumeTimeoutFires, UnchangedByTerminate, client
<1>15. CASE \/ \E h \in 0 .. HMax + 1 : ResumeWithWrongH(h)
            \/ \E e \in {El("enable", 1)} \cup {El("a", h) : h \in 0 .. HMax + 1} :
                 ClientMisbehaves(e)
  <2>1. badAcks' = badAcks + 1 /\ badAcks \in Nat
    BY <1>a, <1>15 DEF ResumeWithWrongH, ClientMisbehaves, TypeOK, HistoryTypeOK
  <2> QED
    BY <2>1 DEF Position, Honest
<1>16. CASE \/ ClientSends \/ ClientAsks \/ \E resume \in {0, 1} : ClientEnable(resume)
  <2>1. \E e \in Element : e.tag # "a" /\ ClientWrites(<<e>>)
    <3>1. CASE ClientSends
      <4>1. sent + 1 \in Nat
        BY <1>a DEF TypeOK, ClientTypeOK
      <4>2. El("stanza", sent + 1) \in Element /\ El("stanza", sent + 1).tag = "stanza"
        BY <4>1, ElType DEF El
      <4> QED
        BY <3>1, <4>2 DEF ClientSends
    <3>2. CASE ClientAsks
      <4>1. El("r", 0) \in Element /\ El("r", 0).tag = "r"
        BY ElType DEF El
      <4> QED
        BY <3>2, <4>1 DEF ClientAsks
    <3>3. ASSUME NEW resume \in {0, 1}, ClientEnable(resume)
          PROVE  \E e \in Element : e.tag # "a" /\ ClientWrites(<<e>>)
      <4>1. El("enable", resume) \in Element /\ El("enable", resume).tag = "enable"
        BY ElType DEF El
      <4> QED
        BY <3>3, <4>1 DEF ClientEnable
    <3> QED
      BY <1>16, <3>1, <3>2, <3>3
  <2>2. PICK e \in Element : e.tag # "a" /\ ClientWrites(<<e>>)
    BY <2>1
  <2> DEFINE w == <<e>>
  <2>3. w \in Seq(Element) /\ \A i \in 1 .. Len(w) : w[i].tag # "a"
    BY <2>2
  <2>4. toServer' = toServer \o w
    BY <2>2 DEF ClientWrites
  <2> HIDE DEF w
  <2>5. \A lo, hi \in Nat :
          lo <= hi /\ Acks(toServer, lo, hi) => Acks(toServer', lo, hi)
    <3> TAKE lo, hi \in Nat
    <3> HAVE lo <= hi /\ Acks(toServer, lo, hi)
    <3> QED
      BY <1>a, <2>3, <2>4, AcksConcat
  <2>6. UNCHANGED <<c2s, link, toClient, got, clientH, out, bufferSize, rerouted, badAcks>>
    BY <1>16 DEF ClientSends, ClientAsks, ClientEnable, server, client, history
  <2> QED
    BY <1>a, <2>5, <2>6, PositionKept
<1>17. CASE Cut
  <2>1. /\ UNCHANGED <<c2s, got, clientH, out, bufferSize, rerouted, badAcks>>
        /\ link' = "cut" /\ toServer' = <<>>
    BY <1>17 DEF Cut, server, client
  <2> QED
    BY <1>a, <2>1, PositionKept, AcksEmpty
<1> QED
  BY <1>3, <1>4, <1>5, <1>6, <1>7, <1>8, <1>9, <1>12, <1>13, <1>14, <1>15, <1>16, <1>17
     DEF Next, FromClient, Timers

-----------------------------------------------------------------------------

\* DeliveryInv holds before the first stanza: nothing was sent or counted.
LEMMA DeliveryInit == Init => DeliveryInv
<1> SUFFICES ASSUME Init
             PROVE  DeliveryInv
  OBVIOUS
<1>1. TypeOK
  BY TypeInit
<1>2. CounterInv /\ Window /\ WireDown /\ Enabling
  BY <1>1, InRangeFacts, SmAssumption DEF Init, CounterInv, BufferIsTail,
     NothingBeforeEnable, AcksInRange, CounterOutIsAcked, Window, Outstanding, WireDown,
     Enabling, sm, clientOn
<1>3. 0 % Modulus = 0
  BY SmAssumption DEF Modulus
<1>4. Carries(<<>>, 0, 0) /\ Acks(<<>>, 0, 0)
  BY CarriesEmpty, AcksEmpty
<1>5. Position
  BY <1>3, <1>4 DEF Init, Position
<1> QED
  BY <1>2, <1>5 DEF DeliveryInv

\* Every step of the stream keeps the invariant.
LEMMA DeliveryStep ==
  ASSUME DeliveryInv, [Next]_vars
  PROVE  DeliveryInv'
<1>1. CASE Next
  BY <1>1, TypeStep, BufferStep, NothingStep, RangeStep, CounterStep, WindowStep,
     WireStep, EnablingStep, PositionStep DEF DeliveryInv, CounterInv
<1>2. CASE UNCHANGED vars
  BY <1>2 DEF DeliveryInv, CounterInv, TypeOK, ServerTypeOK, WireTypeOK, ClientTypeOK,
     HistoryTypeOK, BufferIsTail, NothingBeforeEnable, AcksInRange, CounterOutIsAcked,
     Window, Outstanding, WireDown, Enabling, Position, Honest, sm, clientOn, vars, server, wire,
     client, history
<1> QED
  BY <1>1, <1>2

\* DeliveryInv is an invariant of the stream.
LEMMA DeliveryAlways == Spec => []DeliveryInv
  BY DeliveryInit, DeliveryStep, PTL DEF Spec

\* A client that behaves receives the stanzas of the stream in order, each once:
\* user_send_packet's counting, the client's h and calc_to_drop agree after any
\* number of cuts, resumptions and wrap-arounds.
THEOREM DeliveredInOrderOnce == Spec => []InOrderOnce
<1>1. DeliveryInv => InOrderOnce
  BY DEF DeliveryInv, Position, InOrderOnce
<1> QED
  BY <1>1, DeliveryAlways, PTL

\* No cut, acknowledgement, resumption or termination loses a stanza that
\* entered the stream of a client that behaves: what the client does not have
\* is in the buffer, or was given back by reroute_unacked_messages.
THEOREM NothingLost == Spec => []NoSilentLoss
<1>1. ASSUME DeliveryInv
      PROVE  NoSilentLoss
  <2> SUFFICES ASSUME BufferOn, Honest, NEW id \in 1 .. out
               PROVE  id \in Ids(got) \cup Ids(buffer) \cup rerouted
    BY DEF NoSilentLoss
  <2>1. /\ out \in Nat /\ bufferSize \in Nat /\ Len(got) \in Nat
        /\ BufferIsTail /\ NothingBeforeEnable
    BY <1>1 DEF DeliveryInv, CounterInv, TypeOK, ServerTypeOK, ClientTypeOK,
       HistoryTypeOK
  <2>2. /\ \A i \in 1 .. Len(got) : got[i] = i
        /\ c2s = "closed" => \A i \in Len(got) + 1 .. out : i \in rerouted
        /\ c2s # "closed" => bufferSize <= out /\ out - bufferSize <= Len(got)
    BY <1>1 DEF DeliveryInv, Position
  <2>3. CASE id \in 1 .. Len(got)
    <3>1. id = got[id]
      BY <2>2, <2>3
    <3> QED
      BY <2>3, <3>1 DEF Ids
  <2>4. CASE id \in Len(got) + 1 .. out /\ c2s = "closed"
    BY <2>2, <2>4
  <2>5. CASE id \in Len(got) + 1 .. out /\ c2s # "closed"
    <3>1. sm
      BY <2>1 DEF NothingBeforeEnable
    <3>2. bufferSize = Len(buffer)
          /\ \A i \in 1 .. Len(buffer) : buffer[i] = out - bufferSize + i
      BY <2>1, <2>5, <3>1 DEF BufferIsTail
    <3> DEFINE k == id - (out - bufferSize)
    <3>3. k \in 1 .. bufferSize /\ out - bufferSize + k = id
      BY <2>1, <2>2, <2>5
    <3> HIDE DEF k
    <3>4. buffer[k] = id /\ k \in 1 .. Len(buffer)
      BY <3>2, <3>3
    <3> QED
      BY <3>4 DEF Ids
  <2> QED
    BY <2>1, <2>3, <2>4, <2>5
<1>2. DeliveryInv => NoSilentLoss
  BY <1>1
<1> QED
  BY <1>2, DeliveryAlways, PTL

\* What the invariant says of the acknowledgements of a client that behaves.
LEMMA DeliveryAccepts ==
  ASSUME DeliveryInv
  PROVE  HonestAckAccepted
<1> SUFFICES ASSUME BufferOn, Honest, sm, c2s # "closed"
             PROVE  /\ clientOn => AckAccepted(clientH)
                    /\ toServer # <<>> /\ Head(toServer).tag = "a"
                         => AckAccepted(Head(toServer).n)
  BY DEF HonestAckAccepted
<1>1. /\ out \in Nat /\ bufferSize \in Nat /\ Len(got) \in Nat /\ toServer \in Seq(Element)
      /\ TypeOK /\ Window
  BY DEF DeliveryInv, CounterInv, TypeOK, ServerTypeOK, ClientTypeOK,
     HistoryTypeOK, WireTypeOK
<1>2. /\ Len(got) <= out /\ bufferSize <= out /\ out - bufferSize <= Len(got)
      /\ Acks(toServer, out - bufferSize, Len(got))
      /\ clientH = Len(got) % Modulus /\ counterOut = (out - bufferSize) % Modulus
  BY DEF DeliveryInv, CounterInv, Position, CounterOutIsAcked
<1>3. AckAccepted(clientH)
  BY <1>1, <1>2, ToDropExact
<1>4. ASSUME toServer # <<>>, Head(toServer).tag = "a"
      PROVE  AckAccepted(Head(toServer).n)
  <2> DEFINE lo == out - bufferSize
  <2>1. lo \in Nat /\ Acks(toServer, lo, Len(got))
    BY <1>1, <1>2
  <2> HIDE DEF lo
  <2>2. PICK x \in lo .. Len(got) : Head(toServer).n = x % Modulus
    BY <1>1, <1>4, <2>1, AcksTail
  <2>3. x \in Nat /\ lo <= x /\ x <= Len(got)
    BY <1>1, <2>1
  <2>4. x \in Nat /\ out - bufferSize <= x /\ x <= out
    BY <1>1, <1>2, <2>3 DEF lo
  <2> QED
    BY <1>1, <1>2, <2>2, <2>4, ToDropExact
<1> QED
  BY <1>3, <1>4

\* do_handle_ack never tells a client that behaves that it acknowledged more
\* than was sent, neither for the <a/> next on the wire nor when it resumes.
THEOREM HonestNeverRejected == Spec => []HonestAckAccepted
  BY DeliveryAccepts, DeliveryAlways, PTL

-----------------------------------------------------------------------------
\* The stream implements the reliable stream of module ReliableStream.

\* Nothing is buffered before <enable/>.
Unbuffered == ~sm => buffer = <<>>

\* Steps that the abstract stream does not see.
LEMMA HiddenStep ==
  ASSUME UNCHANGED <<out, got, rerouted>>, c2s = "closed" <=> c2s' = "closed"
  PROVE  UNCHANGED Abstract!vars
  BY DEF Abstract!vars

\* The end of the process is the end of the stream: what the client does not
\* have is returned, and nothing that never entered the stream.
LEMMA EndStep ==
  ASSUME DeliveryInv, Unbuffered, BufferOn, badAcks = 0, Terminate,
         c2s # "closed", UNCHANGED <<got, out, clientH, badAcks>>
  PROVE  Abstract!End
<1>1. /\ out \in Nat /\ bufferSize \in Nat /\ Len(got) \in Nat
      /\ TypeOK /\ BufferIsTail /\ NothingBeforeEnable /\ Position
  BY DEF DeliveryInv, CounterInv, TypeOK, ServerTypeOK, ClientTypeOK, HistoryTypeOK
<1>2. Position' /\ c2s' = "closed"
  BY <1>1, PositionTerminate DEF Terminate
<1>3. Len(got) + 1 .. out \subseteq rerouted'
  BY <1>2 DEF Position, Honest
<1>4. rerouted' \subseteq 1 .. out
  <2> SUFFICES ASSUME NEW i \in 1 .. Len(buffer)
               PROVE  buffer[i] \in 1 .. out
    BY DEF Terminate
  <2>1. sm
    BY DEF Unbuffered
  <2>2. bufferSize = Len(buffer) /\ bufferSize <= out /\ buffer[i] = out - bufferSize + i
    BY <1>1, <2>1 DEF BufferIsTail
  <2> QED
    BY <1>1, <2>2
<1> QED
  BY <1>2, <1>3, <1>4 DEF Abstract!End

\* Every step of a stream with a buffer and a client that behaves is a step of
\* the reliable stream, or none.
LEMMA RefineStep ==
  ASSUME DeliveryInv, Unbuffered, BufferOn, MaxBadAcks = 0, badAcks = 0, Next
  PROVE  [Abstract!Next]_(Abstract!vars) /\ Unbuffered' /\ badAcks' = 0
<1>a. /\ TypeOK /\ Position /\ WireDown /\ Honest /\ NothingBeforeEnable
      /\ out \in Nat /\ bufferSize \in Nat /\ Len(got) \in Nat /\ got \in Seq(Nat)
      /\ toClient \in Seq(Element)
  BY DEF DeliveryInv, CounterInv, TypeOK, ServerTypeOK, ClientTypeOK, HistoryTypeOK,
     WireTypeOK, Honest
<1>1. CASE /\ Terminate /\ c2s # "closed"
           /\ UNCHANGED <<client, out, badAcks>>
  <2>1. Abstract!Next
    BY <1>1, EndStep DEF Abstract!Next, client
  <2> QED
    BY <1>1, <2>1 DEF Unbuffered, Terminate
<1>2. CASE /\ UNCHANGED <<out, got, rerouted, badAcks>> /\ (c2s = "closed" <=> c2s' = "closed")
           /\ UNCHANGED <<buffer, smState>>
  BY <1>2, HiddenStep DEF Unbuffered, sm
<1>3. CASE HandleEnable
  BY <1>3, HiddenStep DEF Unbuffered, sm, HandleEnable, client, history
<1>4. CASE HandleA
  <2>1. /\ UNCHANGED <<out, got, rerouted, badAcks, smState>> /\ sm
        /\ c2s # "closed" /\ c2s' # "closed"
    BY <1>4 DEF HandleA, client, EnterResume
  <2> QED
    BY <2>1, HiddenStep DEF Unbuffered, sm
<1>5. CASE HandleRoute
  <2>1. /\ UNCHANGED <<got, rerouted, badAcks, c2s, smState>> /\ c2s # "closed"
        /\ out' = IF sm THEN out + 1 ELSE out
        /\ ~sm => buffer' = buffer
    BY <1>5 DEF HandleRoute, client
  <2>2. CASE sm
    <3>1. Abstract!Accept
      BY <1>a, <2>1, <2>2 DEF Abstract!Accept
    <3> QED
      BY <2>1, <2>2, <3>1 DEF Abstract!Next, Unbuffered, sm
  <2>3. CASE ~sm
    BY <2>1, <2>3, HiddenStep DEF Unbuffered, sm
  <2> QED
    BY <2>2, <2>3
<1>6. CASE ResumeHonestly
  <2>1. /\ UNCHANGED <<got, smState, badAcks, client>> /\ c2s # "closed" /\ sm
        /\ (ResumeOk(clientH) \/ ResumeFails(clientH))
    BY <1>6, <1>a DEF ResumeHonestly, Resume, ResumeOk, ResumeFails,
       UnchangedByTerminate, client, resumable, NothingBeforeEnable
  <2>2. CASE ResumeFails(clientH)
    BY <1>1, <2>1, <2>2 DEF ResumeFails, UnchangedByTerminate
  <2>3. CASE ResumeOk(clientH)
    <3>1. out' = out + Recovered /\ rerouted' = rerouted /\ c2s' # "closed"
      BY <2>3 DEF ResumeOk
    <3>2. Recovered \in Nat
      BY <1>a, RecoveredNat
    <3>3. CASE Recovered = 0
      BY <1>a, <2>1, <3>1, <3>3, HiddenStep DEF Unbuffered, sm
    <3>4. CASE Recovered # 0
      <4>1. out' \in Nat /\ out' > out
        BY <1>a, <3>1, <3>2, <3>4
      <4>2. Abstract!Accept
        BY <2>1, <3>1, <4>1 DEF Abstract!Accept
      <4> QED
        BY <2>1, <4>2 DEF Abstract!Next, Unbuffered, sm
    <3> QED
      BY <3>3, <3>4
  <2> QED
    BY <2>1, <2>2, <2>3
<1>7. CASE ClientReceives
  <2>1. /\ UNCHANGED <<out, rerouted, badAcks, c2s, buffer, smState>> /\ c2s # "closed"
    BY <1>7, <1>a DEF ClientReceives, server, history, WireDown
  <2>2. CASE got' = got
    BY <2>1, <2>2, HiddenStep DEF Unbuffered, sm
  <2>3. CASE got' # got
    <3>1. got' = Append(got, Head(toClient).n)
      BY <1>7, <2>3 DEF ClientReceives, client
    <3>2. Len(got') = Len(got) + 1
      <4>1. Head(toClient).n \in Nat
        <5>1. toClient # <<>>
          BY <1>7 DEF ClientReceives
        <5>2. Head(toClient) \in Element
          BY <1>a, <5>1
        <5> QED
          BY <5>2, SmAssumption DEF Element
      <4> QED
        BY <1>a, <3>1, <4>1
    <3>3. Len(got') <= out
      <4>1. Position'
        BY <1>a, <1>7, PositionReceive DEF DeliveryInv
      <4> QED
        BY <2>1, <4>1 DEF Position, Honest
    <3>4. Abstract!Deliver
      <4>1. Len(got) < out
        BY <1>a, <3>2, <3>3
      <4> QED
        BY <2>1, <3>2, <4>1 DEF Abstract!Deliver
    <3> QED
      BY <2>1, <3>4 DEF Abstract!Next, Unbuffered, sm
  <2> QED
    BY <2>2, <2>3
<1>8. CASE HandleEnableAgain \/ IgnoreEnable \/ HandleStanza \/ HandleR \/ IgnoreA
  BY <1>2, <1>8 DEF HandleEnableAgain, IgnoreEnable, HandleStanza, HandleR, IgnoreA,
     EnterResume, Incoming, server, client, history
<1>9. CASE SocketClosed \/ StopRequest \/ Exit \/ CheckBufferFull \/ ResumeTimeoutFires
  BY <1>1, <1>2, <1>9 DEF SocketClosed, StopRequest, Exit, CheckBufferFull,
     ResumeTimeoutFires, UnchangedByTerminate, EnterResume, client
<1>10. CASE \/ Tick \/ Cut \/ ClientSends \/ ClientAsks
            \/ \E resume \in {0, 1} : ClientEnable(resume)
            \/ \E kind \in {"message", "iq"} : RouteIn(kind)
  BY <1>2, <1>10 DEF Tick, Cut, ClientSends, ClientAsks, ClientEnable, RouteIn,
     server, client, history
<1>11. CASE \/ \E h \in 0 .. HMax + 1 : ResumeWithWrongH(h)
            \/ \E e \in {El("enable", 1)} \cup {El("a", h) : h \in 0 .. HMax + 1} :
                 ClientMisbehaves(e)
  <2>1. badAcks < MaxBadAcks
    BY <1>11 DEF ResumeWithWrongH, ClientMisbehaves
  <2> QED
    BY <2>1
<1> QED
  BY <1>3, <1>4, <1>5, <1>6, <1>7, <1>8, <1>9, <1>10, <1>11 DEF Next, FromClient, Timers

\* With a buffer and a client that behaves, the stream with its counters, acks,
\* timers, cuts and resumptions implements the stream that accepts stanzas,
\* delivers them one after the other and returns the rest when it ends.
THEOREM StreamImplementsReliableStream ==
  BufferOn /\ MaxBadAcks = 0 => (Spec => ImplementsReliableStream)
<1> SUFFICES ASSUME BufferOn, MaxBadAcks = 0
             PROVE  Spec => ImplementsReliableStream
  OBVIOUS
<1> DEFINE Inv == Unbuffered /\ badAcks = 0
<1>1. Init => Inv /\ Abstract!Init
  BY DEF Init, Unbuffered, Abstract!Init
<1>2. DeliveryInv /\ Inv /\ [Next]_vars => Inv' /\ [Abstract!Next]_(Abstract!vars)
  <2>1. DeliveryInv /\ Inv /\ Next => Inv' /\ [Abstract!Next]_(Abstract!vars)
    BY RefineStep
  <2>2. Inv /\ UNCHANGED vars => Inv' /\ UNCHANGED Abstract!vars
    BY HiddenStep DEF Unbuffered, sm, vars, server, client, history
  <2> QED
    BY <2>1, <2>2
<1> QED
  BY <1>1, <1>2, DeliveryAlways, PTL DEF Spec, ImplementsReliableStream, Abstract!Spec

=============================================================================
