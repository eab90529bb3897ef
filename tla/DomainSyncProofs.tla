--------------------------- MODULE DomainSyncProofs ---------------------------
(***************************************************************************)
(* For any number of nodes, domains and transactions: the types of the     *)
(* domain tables and loaders, that a range of event ids which a loader     *)
(* has processed is final, and that a node which finds no new updates      *)
(* serves what the table says.                                             *)
(***************************************************************************)
EXTENDS DomainSync, FiniteSetTheorems, WellFoundedInduction, TLAPS

-------------------------------------------------------------------------------
(***************************************************************************)
(* The smallest and the largest id                                         *)
(***************************************************************************)

\* A set of ids that is not empty has a smallest member.
LEMMA SmallestNumber ==
  ASSUME NEW S, S \subseteq Nat, S # {}
  PROVE  \E x \in S : \A y \in S : x <= y
<1>1. PICK x \in S : \A y \in S : ~ (<<y, x>> \in OpToRel(<, Nat))
  BY NatLessThanWellFounded, WFMin
<1>2. \A y \in S : ~ (y < x)
  BY <1>1 DEF OpToRel
<1> QED
  BY <1>2

\* Min of a set of ids, as MinId uses it, is in the set and below the rest.
LEMMA MinOfIds ==
  ASSUME NEW S, S \subseteq Ids, S # {}
  PROVE  Min(S) \in S /\ \A y \in S : Min(S) <= y
<1>1. S \subseteq Nat
  BY DomainSyncAssumption DEF Ids
<1>2. \E x \in S : \A y \in S : x <= y
  BY <1>1, SmallestNumber
<1> QED
  BY <1>2 DEF Min

\* Max, as MaxId uses it, is in the set and above the rest.
LEMMA MaxOfIds ==
  ASSUME NEW S, S \subseteq Ids, S # {}
  PROVE  Max(S) \in S /\ \A y \in S : y <= Max(S)
<1> USE DomainSyncAssumption
<1> DEFINE T == {MaxEventId - x : x \in S}
<1>1. T \subseteq Nat /\ T # {}
  <2>1. \A x \in S : MaxEventId - x \in Nat
    BY DEF Ids
  <2> QED
    BY <2>1
<1>2. PICK t \in T : \A y \in T : t <= y
  BY <1>1, SmallestNumber
<1>3. PICK x \in S : t = MaxEventId - x
  BY <1>2
<1>4. \A y \in S : MaxEventId - x <= MaxEventId - y
  BY <1>2, <1>3
<1>5. S \subseteq Int
  BY DEF Ids
<1>6. \A y \in S : x >= y
  BY <1>4, <1>5
<1>7. Max(S) \in S /\ \A y \in S : Max(S) >= y
  BY <1>6 DEF Max
<1> QED
  BY <1>5, <1>7

\* {MinEventId, MaxEventId} are ids in the log, or 0 for an empty one.
LEMMA LogEnds ==
  /\ MinId \in 0..MaxEventId /\ MaxId \in 0..MaxEventId
  /\ MinId = 0 <=> EventIds = {}
  /\ MaxId = 0 <=> EventIds = {}
  /\ MaxId # 0 => MinId \in EventIds /\ MaxId \in EventIds
  /\ \A i \in EventIds : MinId <= i /\ i <= MaxId
<1> USE DomainSyncAssumption
<1>1. EventIds \subseteq Ids
  BY DEF EventIds
<1>2. CASE EventIds = {}
  BY <1>2 DEF MinId, MaxId
<1>3. CASE EventIds # {}
  <2>1. MinId \in EventIds /\ MaxId \in EventIds
    BY <1>1, <1>3, MinOfIds, MaxOfIds DEF MinId, MaxId
  <2>2. \A i \in EventIds : MinId <= i /\ i <= MaxId
    BY <1>1, <1>3, MinOfIds, MaxOfIds DEF MinId, MaxId
  <2> QED
    BY <1>1, <1>3, <2>1, <2>2 DEF Ids
<1> QED
  BY <1>2, <1>3


-------------------------------------------------------------------------------
(***************************************************************************)
(* The types, with what they need to be inductive                          *)
(***************************************************************************)

\* The transactions that will draw an event id.
Selected == {c \in Clients : tx[c].ph = "selected"}

\* Ids are left for them, and for the removals that are scheduled.
EnoughIds == nextId + Cardinality(Selected) <= MaxEventId + 1
EnoughRemovals == Cardinality(sched) + removals <= MaxRemovals

\* A transaction has a domain, and an id from its write on.
TxShape(t) ==
    /\ t.ph # "none" => t.op \in Ops /\ t.d \in Domains /\ t.ht \in HostTypes
    /\ t.ph = "written" <=> t.id # 0

\* What a loader has at each place of its program.
Fits(l) ==
    /\ l \in Loader
    /\ l.pc \in {"check", "idle", "select"} => l.st = "set"
    /\ l.pc = "gaps" /\ l.min = 0 => l.max = 0
    /\ l.pc = "select" => l.min # 0
    /\ l.pc = "fix" => l.rd # {}

DomTypes ==
    /\ TypeOK /\ EnoughIds /\ EnoughRemovals
    /\ \A c \in Clients : TxShape(tx[c])
    /\ \A n \in Nodes : Fits(ld[n])

(***************************************************************************)
(* What makes a range final                                                *)
(***************************************************************************)

\* An id that was drawn and that no transaction holds any more: nobody will
\* add an event with it, except for a dummy.
Final(i) == i < nextId /\ \A c \in Clients : tx[c].id # i

\* The log has no ids that were not drawn; the id of a transaction is its own
\* and is not in the log.
LogInv ==
    /\ \A i \in EventIds : i < nextId
    /\ \A c \in Clients : tx[c].id # 0 =>
         /\ tx[c].id < nextId /\ events[tx[c].id] = None
         /\ \A b \in Clients : tx[b].id = tx[c].id => b = c

\* The ids of a run that the loader has not found in the log.
Open(l) == CASE l.pc = "gaps" -> l.min..l.max
             [] l.pc = "select" -> l.below \cup PageIds(l)
             [] l.pc \in {"load", "fix"} -> l.gaps
             [] OTHER -> {}
InRun(l) == l.pc \in {"gaps", "load", "select", "fix"}

\* Every id of the range of a run is open or final; the range of a finished
\* run is final.
RangeOf(l) ==
    /\ l.omin < nextId /\ (InRun(l) => l.min < nextId)
    /\ \A i \in Ids : i \in Open(l) => i < nextId
    /\ l.pc = "fix" => \A i \in l.ins : i < nextId
    /\ InRun(l) => \A i \in Ids : i \in l.min..l.max => i \in Open(l) \/ Final(i)
    /\ l.st = "set" => \A i \in Ids : i \in l.omin..l.omax => Final(i)

RangeInv == DomTypes /\ LogInv /\ \A n \in Nodes : RangeOf(ld[n])


-------------------------------------------------------------------------------
(***************************************************************************)
(* Loaders                                                                 *)
(***************************************************************************)

\* An id in the log that was drawn is final: the transaction has ended.
LEMMA LoggedIsFinal ==
  ASSUME LogInv, NEW i \in Ids, i \in EventIds
  PROVE  Final(i)
<1>1. i < nextId /\ events[i] # None /\ i # 0
  BY DomainSyncAssumption DEF LogInv, EventIds, Ids
<1>2. \A c \in Clients : tx[c].id # i
  BY <1>1 DEF LogInv
<1> QED
  BY <1>1, <1>2 DEF Final

\* The step of a loader that adds nothing but dummy events to the database
\* keeps RangeInv if its new state fits.
LEMMA LoaderMovesLog ==
  ASSUME RangeInv, NEW n \in Nodes, NEW k, Fits(k), RangeOf(k),
         ld' = [ld EXCEPT ![n] = k],
         core' \in [Nodes -> [Domains -> HostTypes \cup {None}]],
         fresh' \in [Nodes -> SUBSET Domains],
         failures' \in 0..MaxFailures,
         events' \in [Ids -> Domains \cup {Dummy, None}], LogInv',
         UNCHANGED <<settings, nextId, clientVars, cleanerVars>>
  PROVE  RangeInv'
<1> USE DEF RangeInv, DomTypes
<1>1. UNCHANGED <<settings, nextId, tx, deletions, sched, removals>>
  BY DEF clientVars, cleanerVars
<1>2. k \in Loader /\ ld \in [Nodes -> Loader]
  BY DEF Fits, TypeOK
<1>3. ld' \in [Nodes -> Loader] /\ \A m \in Nodes : ld'[m] = IF m = n THEN k ELSE ld[m]
  BY <1>2
<1>4. TypeOK'
  BY <1>1, <1>3 DEF TypeOK
<1>5. EnoughIds' /\ EnoughRemovals' /\ \A c \in Clients : TxShape(tx[c])'
  BY <1>1 DEF EnoughIds, EnoughRemovals, Selected, TxShape
<1>6. \A m \in Nodes : Fits(ld[m])'
  BY <1>3 DEF Fits
<1>7. \A m \in Nodes : RangeOf(ld'[m])
  BY <1>3
<1>8. \A m \in Nodes : RangeOf(ld[m])'
  BY <1>1, <1>7 DEF RangeOf, Final, Open, InRun, PageIds
<1> QED
  BY <1>4, <1>5, <1>6, <1>8

\* The same for a step that leaves the database alone.
LEMMA LoaderMoves ==
  ASSUME RangeInv, NEW n \in Nodes, NEW k, Fits(k), RangeOf(k),
         ld' = [ld EXCEPT ![n] = k],
         core' \in [Nodes -> [Domains -> HostTypes \cup {None}]],
         fresh' \in [Nodes -> SUBSET Domains],
         failures' \in 0..MaxFailures,
         UNCHANGED <<dbVars, clientVars, cleanerVars>>
  PROVE  RangeInv'
<1>1. UNCHANGED <<settings, events, nextId, tx>>
  BY DEF dbVars, clientVars
<1>2. LogInv'
  BY <1>1 DEF RangeInv, LogInv, EventIds
<1>3. events' \in [Ids -> Domains \cup {Dummy, None}]
  BY <1>1 DEF RangeInv, DomTypes, TypeOK
<1> QED
  BY <1>1, <1>2, <1>3, LoaderMovesLog

\* The state of a process that has done nothing.
LEMMA IdleTypes ==
  Idle \in Loader /\ Idle.pc = "boot"
<1> USE DomainSyncAssumption
<1>1. 0 \in 0..MaxEventId /\ 0 \in 0..Retries
  OBVIOUS
<1>2. FALSE \in BOOLEAN /\ {} \in SUBSET Ids /\ {} \in SUBSET Domains
  OBVIOUS
<1> QED
  BY <1>1, <1>2, Zenon DEF Idle, Loader

\* A process that starts again fits, with the range of its predecessor.
LEMMA RestartedFits ==
  ASSUME NEW l, Fits(l), RangeOf(l)
  PROVE  Fits(Restarted(l)) /\ RangeOf(Restarted(l))
<1> USE DomainSyncAssumption
<1>1. l \in Loader
  BY DEF Fits
<1>2. Restarted(l) \in Loader /\ Restarted(l).pc = "boot" /\ Restarted(l).st = l.st
      /\ Restarted(l).omin = l.omin /\ Restarted(l).omax = l.omax
  BY <1>1, IdleTypes DEF Restarted, Loader
<1>3. Open(Restarted(l)) = {} /\ ~ InRun(Restarted(l))
  BY <1>2 DEF Open, InRun
<1> QED
  BY <1>2, <1>3 DEF Fits, RangeOf

\* fix_gaps: the run ends with a range that is final, or goes on with the gaps
\* that are open, or the process crashes.
LEMMA FixGapsFits ==
  ASSUME RangeInv, NEW n \in Nodes, NEW l, Fits(l), NEW G \in SUBSET Ids,
         NEW left \in 0..Retries,
         NEW C \in [Domains -> HostTypes \cup {None}], NEW F \in SUBSET Domains,
         l.min < nextId, l.omin < nextId, \A i \in G : i < nextId,
         \A i \in Ids : i \in l.min..l.max => i \in G \/ Final(i),
         l.st = "set" => \A i \in Ids : i \in l.omin..l.omax => Final(i),
         FixGaps(n, l, G, left, C, F)
  PROVE  /\ \E k : Fits(k) /\ RangeOf(k) /\ ld' = [ld EXCEPT ![n] = k]
         /\ core' \in [Nodes -> [Domains -> HostTypes \cup {None}]]
         /\ fresh' \in [Nodes -> SUBSET Domains]
<1> USE DomainSyncAssumption
<1>1. l \in Loader
  BY DEF Fits
<1>2. /\ core \in [Nodes -> [Domains -> HostTypes \cup {None}]]
      /\ fresh \in [Nodes -> SUBSET Domains]
  BY DEF RangeInv, DomTypes, TypeOK
<1>3. CASE G = {}
  <2> DEFINE k == [Idle EXCEPT !.pc = IF l.st # "set" \/ l.more THEN "check" ELSE "idle",
                               !.st = "set", !.omin = l.min, !.omax = l.max,
                               !.cast = l.cast]
  <2>1. EndRun(n, l, C, F)
    BY <1>3 DEF FixGaps
  <2>2. ld' = [ld EXCEPT ![n] = k]
    BY <2>1 DEF EndRun
  <2>3. k \in Loader /\ k.pc \in {"check", "idle"} /\ k.st = "set"
        /\ k.omin = l.min /\ k.omax = l.max
    BY <1>1, IdleTypes DEF Loader
  <2> HIDE DEF k
  <2>4. Fits(k)
    BY <2>3 DEF Fits
  <2>5. Open(k) = {} /\ ~ InRun(k)
    BY <2>3 DEF Open, InRun
  <2>6. RangeOf(k)
    BY <1>3, <2>3, <2>5 DEF RangeOf
  <2>7. [d \in Domains |-> IF l.st # "reset" \/ d \in F THEN C[d] ELSE None]
           \in [Domains -> HostTypes \cup {None}]
    OBVIOUS
  <2>8. core' \in [Nodes -> [Domains -> HostTypes \cup {None}]]
    BY <1>2, <2>1, <2>7 DEF EndRun
  <2>9. fresh' \in [Nodes -> SUBSET Domains]
    BY <1>2, <2>1 DEF EndRun
  <2> QED
    BY <2>2, <2>4, <2>6, <2>8, <2>9
<1>4. CASE G # {} /\ left = 0
  <2>1. ld' = [ld EXCEPT ![n] = Restarted(l)] /\ core' = [core EXCEPT ![n] = C]
        /\ fresh' = [fresh EXCEPT ![n] = {}]
    BY <1>4 DEF FixGaps
  <2>2. Restarted(l) \in Loader /\ Restarted(l).pc = "boot" /\ Restarted(l).st = l.st
        /\ Restarted(l).omin = l.omin /\ Restarted(l).omax = l.omax
    BY <1>1, IdleTypes DEF Restarted, Loader
  <2>3. Open(Restarted(l)) = {} /\ ~ InRun(Restarted(l))
    BY <2>2 DEF Open, InRun
  <2>4. Fits(Restarted(l)) /\ RangeOf(Restarted(l))
    BY <2>2, <2>3 DEF Fits, RangeOf
  <2>5. core' \in [Nodes -> [Domains -> HostTypes \cup {None}]]
        /\ fresh' \in [Nodes -> SUBSET Domains]
    BY <1>2, <2>1
  <2> QED
    BY <2>1, <2>4, <2>5
<1>5. CASE G # {} /\ left # 0
  <2> DEFINE k == [l EXCEPT !.pc = "fix", !.gaps = G, !.ins = G, !.rd = G,
                            !.left = left - 1, !.below = {}, !.toLoad = {}]
  <2>1. ld' = [ld EXCEPT ![n] = k] /\ core' = [core EXCEPT ![n] = C]
        /\ fresh' = [fresh EXCEPT ![n] = F]
    BY <1>5 DEF FixGaps
  <2>2. left - 1 \in 0..Retries
    BY <1>5
  <2>3. k \in Loader /\ k.pc = "fix" /\ k.gaps = G /\ k.ins = G /\ k.rd = G /\ k.st = l.st
        /\ k.min = l.min /\ k.max = l.max /\ k.omin = l.omin /\ k.omax = l.omax
    BY <1>1, <2>2 DEF Loader
  <2> HIDE DEF k
  <2>4. Fits(k)
    BY <1>5, <2>3 DEF Fits
  <2>5. Open(k) = G
    BY <2>3 DEF Open
  <2>6. RangeOf(k)
    BY <2>3, <2>5 DEF RangeOf
  <2>7. core' \in [Nodes -> [Domains -> HostTypes \cup {None}]]
        /\ fresh' \in [Nodes -> SUBSET Domains]
    BY <1>2, <2>1
  <2> QED
    BY <2>1, <2>4, <2>6, <2>7
<1> QED
  BY <1>3, <1>4, <1>5

\* What apply_change leaves in the core has the types of the core.
LEMMA AppliedTypes ==
  ASSUME TypeOK, NEW n \in Nodes, NEW D
  PROVE  /\ Applied(n, D) \in [Domains -> HostTypes \cup {None}]
         /\ Inserted(n, D \cap Domains) \in SUBSET Domains
<1>1. \A d \in Domains : HostType(d) \in HostTypes \cup {None}
  BY DEF TypeOK, HostType, Row
<1>2. core[n] \in [Domains -> HostTypes \cup {None}] /\ fresh[n] \in SUBSET Domains
  BY DEF TypeOK
<1> QED
  BY <1>1, <1>2 DEF Applied, Inserted


\* The cold load keeps RangeInv: every id of its range is in the log or a gap.
LEMMA RangeColdLoad ==
  ASSUME RangeInv, NEW n \in Nodes, InitialLoad(n) \/ ColdGaps(n) \/ LoadRow(n)
  PROVE  RangeInv'
<1> USE DomainSyncAssumption
<1> DEFINE l == ld[n]
<1>1. /\ l \in Loader /\ Fits(l) /\ RangeOf(l) /\ LogInv /\ TypeOK
      /\ core \in [Nodes -> [Domains -> HostTypes \cup {None}]]
      /\ fresh \in [Nodes -> SUBSET Domains] /\ failures \in 0..MaxFailures
  BY DEF RangeInv, DomTypes, TypeOK
<1>2. UNCHANGED <<dbVars, clientVars, cleanerVars, failures>>
  BY DEF InitialLoad, ColdGaps, LoadRow, LoaderOnly
<1>3. CASE InitialLoad(n)
  <2> DEFINE k == IF l.st = "set" THEN [l EXCEPT !.pc = "check"]
                  ELSE [l EXCEPT !.pc = "gaps", !.min = MinId, !.max = MaxId]
  <2>1. l.pc = "boot" /\ ld' = [ld EXCEPT ![n] = k] /\ UNCHANGED <<core, fresh>>
    BY <1>3 DEF InitialLoad
  <2>2. k \in Loader /\ k.omin = l.omin /\ k.omax = l.omax /\ k.st = l.st
    BY <1>1, LogEnds DEF Loader
  <2>3. \/ k.pc = "check" /\ k.st = "set"
        \/ k.pc = "gaps" /\ k.min = MinId /\ k.max = MaxId
    BY <1>1 DEF Loader
  <2> HIDE DEF k, l
  <2>4. Fits(k)
    BY <2>2, <2>3, LogEnds DEF Fits
  <2>5. MaxId < nextId /\ MinId < nextId
    BY <1>1, LogEnds DEF LogInv, TypeOK
  <2>6. RangeOf(k)
    <3>1. CASE k.pc = "check"
      BY <1>1, <2>2, <3>1 DEF RangeOf, Open, InRun
    <3>2. CASE k.pc = "gaps" /\ k.min = MinId /\ k.max = MaxId
      <4>1. Open(k) = MinId..MaxId
        BY <3>2 DEF Open
      <4>2. \A i \in Ids : i \in MinId..MaxId => i < nextId
        BY <1>1, <2>5, LogEnds DEF TypeOK
      <4> QED
        BY <1>1, <2>2, <2>5, <3>2, <4>1, <4>2 DEF RangeOf
    <3> QED
      BY <2>3, <3>1, <3>2
  <2> QED
    BY <1>1, <1>2, <2>1, <2>4, <2>6, LoaderMoves DEF l
<1>4. CASE ColdGaps(n)
  <2> DEFINE G == IF l.min = 0 THEN {} ELSE (l.min..l.max) \ EventIds
             k == [l EXCEPT !.pc = "load", !.toLoad = Domains, !.gaps = G]
  <2>1. l.pc = "gaps" /\ ld' = [ld EXCEPT ![n] = k] /\ UNCHANGED <<core, fresh>>
    BY <1>4 DEF ColdGaps
  <2>2. G \in SUBSET Ids
    BY <1>1 DEF Loader, Ids
  <2> HIDE DEF G
  <2>4. k \in Loader /\ k.pc = "load" /\ k.gaps = G /\ k.min = l.min /\ k.max = l.max
        /\ k.omin = l.omin /\ k.omax = l.omax /\ k.st = l.st
    BY <1>1, <2>2 DEF Loader
  <2> HIDE DEF k, l
  <2>5. Fits(k)
    BY <2>4 DEF Fits
  <2>6. Open(k) = G /\ Open(l) = l.min..l.max
    BY <2>1, <2>4 DEF Open
  <2>7. \A i \in Ids : i \in G => i \in l.min..l.max
    BY DEF G
  <2>8. \A i \in Ids : i \in l.min..l.max => i \in G \/ Final(i)
    <3> SUFFICES ASSUME NEW i \in Ids, i \in l.min..l.max
                 PROVE  i \in G \/ Final(i)
      OBVIOUS
    <3>1. CASE l.min # 0
      BY <1>1, <3>1, LoggedIsFinal DEF G
    <3>2. CASE l.min = 0
      BY <1>1, <2>1, <3>2 DEF Fits, Ids
    <3> QED
      BY <3>1, <3>2
  <2>9. InRun(k) /\ InRun(l)
    BY <2>1, <2>4 DEF InRun
  <2>10. RangeOf(k)
    BY <1>1, <2>4, <2>6, <2>7, <2>8, <2>9 DEF RangeOf
  <2> QED
    BY <1>1, <1>2, <2>1, <2>5, <2>10, LoaderMoves DEF l
<1>5. CASE LoadRow(n)
  <2>1. PICK d \in Domains :
           /\ ld' = [ld EXCEPT ![n].toLoad = @ \ {d}]
           /\ IF HostType(d) = None THEN UNCHANGED <<core, fresh>>
              ELSE /\ core' = [core EXCEPT ![n] = Applied(n, {d})]
                   /\ fresh' = [fresh EXCEPT ![n] = Inserted(n, {d})]
    BY <1>5 DEF LoadRow
  <2> DEFINE k == [l EXCEPT !.toLoad = @ \ {d}]
  <2>2. l.pc = "load" /\ ld' = [ld EXCEPT ![n] = k]
    BY <1>1, <1>5, <2>1 DEF LoadRow
  <2>3. k \in Loader /\ k.pc = l.pc /\ k.gaps = l.gaps /\ k.min = l.min /\ k.max = l.max
        /\ k.omin = l.omin /\ k.omax = l.omax /\ k.st = l.st /\ k.rd = l.rd
    BY <1>1 DEF Loader
  <2> HIDE DEF k, l
  <2>4. Fits(k)
    BY <1>1, <2>2, <2>3 DEF Fits
  <2>5. Open(k) = Open(l) /\ InRun(k) = InRun(l)
    BY <2>2, <2>3 DEF Open, InRun
  <2>6. RangeOf(k)
    BY <1>1, <2>2, <2>3, <2>5 DEF RangeOf, InRun
  <2>7. /\ core' \in [Nodes -> [Domains -> HostTypes \cup {None}]]
        /\ fresh' \in [Nodes -> SUBSET Domains]
    <3>1. {d} \cap Domains = {d}
      OBVIOUS
    <3>2. Applied(n, {d}) \in [Domains -> HostTypes \cup {None}]
          /\ Inserted(n, {d}) \in SUBSET Domains
      BY <1>1, <3>1, AppliedTypes
    <3>3. core \in [Nodes -> [Domains -> HostTypes \cup {None}]]
          /\ fresh \in [Nodes -> SUBSET Domains]
      BY <1>1
    <3>4. CASE UNCHANGED <<core, fresh>>
      BY <3>3, <3>4
    <3>5. CASE /\ core' = [core EXCEPT ![n] = Applied(n, {d})]
               /\ fresh' = [fresh EXCEPT ![n] = Inserted(n, {d})]
      BY <3>2, <3>3, <3>5
    <3> QED
      BY <2>1, <3>4, <3>5
  <2> QED
    BY <1>1, <1>2, <2>2, <2>4, <2>6, <2>7, LoaderMoves
<1> QED
  BY <1>3, <1>4, <1>5


\* The end of a cold load, complete or after a failed query, keeps RangeInv.
LEMMA RangeLoadEnds ==
  ASSUME RangeInv, NEW n \in Nodes, LoadDone(n) \/ LoadFails(n)
  PROVE  RangeInv'
<1> USE DomainSyncAssumption
<1> DEFINE l == IF LoadDone(n) THEN ld[n] ELSE [ld[n] EXCEPT !.cast = TRUE]
<1>1. /\ ld[n] \in Loader /\ Fits(ld[n]) /\ RangeOf(ld[n])
      /\ core[n] \in [Domains -> HostTypes \cup {None}]
      /\ fresh[n] \in SUBSET Domains /\ failures \in 0..MaxFailures
  BY DEF RangeInv, DomTypes, TypeOK
<1>2. /\ ld[n].pc = "load" /\ FixGaps(n, l, ld[n].gaps, Retries, core[n], fresh[n])
      /\ UNCHANGED <<dbVars, clientVars, cleanerVars>>
      /\ failures' \in 0..MaxFailures
  BY <1>1 DEF LoadDone, LoadFails, LoaderOnly
<1>3. l \in Loader /\ l.pc = "load" /\ l.min = ld[n].min /\ l.max = ld[n].max
      /\ l.st = ld[n].st /\ l.omin = ld[n].omin /\ l.omax = ld[n].omax
  BY <1>1, <1>2 DEF Loader
<1> HIDE DEF l
<1>4. Fits(l)
  BY <1>3 DEF Fits
<1>5. ld[n].gaps \in SUBSET Ids /\ Open(ld[n]) = ld[n].gaps /\ InRun(ld[n])
  BY <1>1, <1>2 DEF Loader, Open, InRun
<1>6. /\ l.min < nextId /\ l.omin < nextId /\ \A i \in ld[n].gaps : i < nextId
      /\ \A i \in Ids : i \in l.min..l.max => i \in ld[n].gaps \/ Final(i)
      /\ l.st = "set" => \A i \in Ids : i \in l.omin..l.omax => Final(i)
  BY <1>1, <1>3, <1>5 DEF RangeOf
<1>7. Retries \in 0..Retries
  OBVIOUS
<1>8. /\ \E k : Fits(k) /\ RangeOf(k) /\ ld' = [ld EXCEPT ![n] = k]
      /\ core' \in [Nodes -> [Domains -> HostTypes \cup {None}]]
      /\ fresh' \in [Nodes -> SUBSET Domains]
  BY <1>1, <1>2, <1>4, <1>5, <1>6, <1>7, FixGapsFits
<1> QED
  BY <1>2, <1>8, LoaderMoves

\* check_for_updates keeps RangeInv: the range it is going to read, with the
\* gaps from below, leaves out only ids of the range it has read.
LEMMA RangeCheck ==
  ASSUME RangeInv, NEW n \in Nodes, CheckForUpdates(n)
  PROVE  RangeInv'
<1> USE DomainSyncAssumption
<1> DEFINE l == ld[n]
           max == LimitMaxId(l.omax, MinId, MaxId)
           k1 == [l EXCEPT !.pc = "idle"]
           k2 == [l EXCEPT !.pc = "select", !.min = MinId, !.max = max,
                           !.more = max < MaxId, !.below = GapsBelow(l, MinId),
                           !.cast = @ \/ (l.omax # 0 /\ l.omax < MinId)]
           k == IF MaxId = 0 \/ (MinId = l.omin /\ MaxId = l.omax) THEN k1 ELSE k2
<1>1. /\ l \in Loader /\ Fits(l) /\ RangeOf(l) /\ LogInv /\ TypeOK
      /\ core \in [Nodes -> [Domains -> HostTypes \cup {None}]]
      /\ fresh \in [Nodes -> SUBSET Domains] /\ failures \in 0..MaxFailures
  BY DEF RangeInv, DomTypes, TypeOK
<1>2. /\ l.pc \in {"check", "idle"} /\ ld' = [ld EXCEPT ![n] = k]
      /\ UNCHANGED <<core, fresh, dbVars, clientVars, cleanerVars, failures>>
  BY DEF CheckForUpdates, LoaderOnly
<1>3. l.st = "set"
  BY <1>1, <1>2 DEF Fits
<1>4. l.omin \in 0..MaxEventId /\ l.omax \in 0..MaxEventId
  BY <1>1 DEF Loader
<1>5. Fits(k1) /\ RangeOf(k1)
  <2>1. k1 \in Loader /\ k1.pc = "idle" /\ k1.st = l.st /\ k1.omin = l.omin
        /\ k1.omax = l.omax
    BY <1>1 DEF Loader
  <2> HIDE DEF k1, l
  <2>2. Open(k1) = {} /\ ~ InRun(k1)
    BY <2>1 DEF Open, InRun
  <2> QED
    BY <1>1, <1>3, <2>1, <2>2 DEF Fits, RangeOf
<1>6. ASSUME MaxId # 0
      PROVE  Fits(k2) /\ RangeOf(k2)
  <2>1. MinId \in 1..MaxEventId /\ MaxId \in 1..MaxEventId /\ MaxId < nextId
        /\ nextId \in Nat /\ MinId <= MaxId
    BY <1>1, <1>6, LogEnds DEF LogInv, TypeOK
  <2>2. max \in 0..MaxEventId /\ max <= MaxId
    BY <1>4, <2>1 DEF LimitMaxId
  <2>3. GapsBelow(l, MinId) \in SUBSET Ids
    BY <1>4, <2>1 DEF GapsBelow, Ids
  <2>4. (max < MaxId) \in BOOLEAN
        /\ (l.cast \/ (l.omax # 0 /\ l.omax < MinId)) \in BOOLEAN
    OBVIOUS
  <2>5. PICK more \in BOOLEAN, cast \in BOOLEAN :
          k2 = [l EXCEPT !.pc = "select", !.min = MinId, !.max = max,
                         !.more = more, !.below = GapsBelow(l, MinId), !.cast = cast]
    BY <2>4, Zenon
  <2> HIDE DEF l, max, k2
  <2>6. k2 \in Loader
        /\ k2.pc = "select" /\ k2.min = MinId /\ k2.max = max /\ k2.below = GapsBelow(l, MinId)
        /\ k2.st = l.st /\ k2.omin = l.omin /\ k2.omax = l.omax
    <3>1. l \in Loader /\ MinId \in 0..MaxEventId /\ max \in 0..MaxEventId
      BY <1>1, <2>1, <2>2
    <3> QED
      BY <2>3, <2>5, <3>1 DEF Loader
  <2>7. MinId < nextId
    BY <2>1
  <2>8. Fits(k2)
    BY <1>3, <2>1, <2>6 DEF Fits
  <2>9. Open(k2) = GapsBelow(l, MinId) \cup
                   ((IF l.omax = 0 THEN MinId ELSE l.omax + 1)..max)
    BY <2>6 DEF Open, PageIds
  <2>10. \A i \in Ids : i \in l.omin..l.omax => Final(i)
    BY <1>1, <1>3 DEF RangeOf
  <2>11. ASSUME NEW i \in Ids, i \in Open(k2)
         PROVE  i < nextId
    <3>1. CASE i \in GapsBelow(l, MinId)
      <4>1. l.omax # 0 /\ MinId < l.omin /\ i \in MinId..l.omin
        BY <1>4, <2>1, <3>1 DEF GapsBelow
      <4>2. l.omin < nextId
        BY <1>1 DEF RangeOf
      <4> QED
        BY <1>4, <2>1, <4>1, <4>2 DEF Ids
    <3>2. CASE i \notin GapsBelow(l, MinId)
      BY <2>1, <2>2, <2>9, <2>11, <3>2 DEF Ids
    <3> QED
      BY <3>1, <3>2
  <2>12. ASSUME NEW i \in Ids, i \in MinId..max
         PROVE  i \in Open(k2) \/ Final(i)
    BY <1>4, <2>1, <2>2, <2>9, <2>10, <2>12 DEF Ids, GapsBelow
  <2> QED
    BY <1>1, <1>3, <2>6, <2>7, <2>8, <2>10, <2>11, <2>12 DEF RangeOf
<1>7. Fits(k) /\ RangeOf(k)
  BY <1>5, <1>6
<1> HIDE DEF k
<1> QED
  BY <1>1, <1>2, <1>7, LoaderMoves


\* A page of the log keeps RangeInv: what it does not contain becomes a gap.
LEMMA RangePage ==
  ASSUME RangeInv, NEW n \in Nodes, FetchPage(n)
  PROVE  RangeInv'
<1> USE DomainSyncAssumption
<1> DEFINE l == ld[n]
           D == {events[i] : i \in PageIds(l) \cap EventIds}
           G == l.below \cup (PageIds(l) \ EventIds)
<1>1. /\ l \in Loader /\ Fits(l) /\ RangeOf(l) /\ LogInv /\ TypeOK
      /\ failures \in 0..MaxFailures
  BY DEF RangeInv, DomTypes, TypeOK
<1>2. /\ l.pc = "select"
      /\ FixGaps(n, l, G, Retries, Applied(n, D), Inserted(n, D \cap Domains))
      /\ UNCHANGED <<dbVars, clientVars, cleanerVars, failures>>
  BY DEF FetchPage, LoaderOnly
<1>3. G \in SUBSET Ids
  <2>1. l.min # 0 /\ l.below \in SUBSET Ids /\ l.min \in 0..MaxEventId
        /\ l.max \in 0..MaxEventId /\ l.omax \in 0..MaxEventId
    BY <1>1, <1>2 DEF Fits, Loader
  <2> QED
    BY <2>1 DEF PageIds, Ids
<1>4. Applied(n, D) \in [Domains -> HostTypes \cup {None}]
      /\ Inserted(n, D \cap Domains) \in SUBSET Domains
  BY <1>1, AppliedTypes
<1>5. Open(l) = l.below \cup PageIds(l) /\ InRun(l)
  BY <1>2 DEF Open, InRun
<1>6. \A i \in G : i < nextId
  BY <1>1, <1>3, <1>5 DEF RangeOf
<1>7. \A i \in Ids : i \in l.min..l.max => i \in G \/ Final(i)
  BY <1>1, <1>5, LoggedIsFinal DEF RangeOf
<1>8. /\ l.min < nextId /\ l.omin < nextId
      /\ l.st = "set" => \A i \in Ids : i \in l.omin..l.omax => Final(i)
  BY <1>1, <1>5 DEF RangeOf
<1>9. Retries \in 0..Retries
  OBVIOUS
<1> HIDE DEF l, D, G
<1>10. /\ \E k : Fits(k) /\ RangeOf(k) /\ ld' = [ld EXCEPT ![n] = k]
       /\ core' \in [Nodes -> [Domains -> HostTypes \cup {None}]]
       /\ fresh' \in [Nodes -> SUBSET Domains]
  BY <1>1, <1>2, <1>3, <1>4, <1>6, <1>7, <1>8, <1>9, FixGapsFits
<1> QED
  BY <1>1, <1>2, <1>10, LoaderMoves

\* Reading a gap keeps RangeInv: it is closed by an event that is in the log,
\* of which the transaction has ended.
LEMMA RangeReadGap ==
  ASSUME RangeInv, NEW n \in Nodes, ReadGap(n)
  PROVE  RangeInv'
<1> USE DomainSyncAssumption
<1> DEFINE l == ld[n]
           g == Min(l.rd)
           G == l.gaps \ ({g} \cap EventIds)
           D == {events[g]}
           C == Applied(n, D)
           F == Inserted(n, D \cap Domains)
<1>1. /\ l \in Loader /\ Fits(l) /\ RangeOf(l) /\ LogInv /\ TypeOK
      /\ core \in [Nodes -> [Domains -> HostTypes \cup {None}]]
      /\ fresh \in [Nodes -> SUBSET Domains] /\ failures \in 0..MaxFailures
  BY DEF RangeInv, DomTypes, TypeOK
<1>2. /\ l.pc = "fix"
      /\ IF l.rd = {g} THEN FixGaps(n, l, G, l.left, C, F)
         ELSE /\ ld' = [ld EXCEPT ![n].rd = @ \ {g}, ![n].gaps = G]
              /\ core' = [core EXCEPT ![n] = C]
              /\ fresh' = [fresh EXCEPT ![n] = F]
      /\ UNCHANGED <<dbVars, clientVars, cleanerVars, failures>>
  BY DEF ReadGap, LoaderOnly
<1>3. l.rd \in SUBSET Ids /\ l.rd # {} /\ l.gaps \in SUBSET Ids /\ l.left \in 0..Retries
  BY <1>1, <1>2 DEF Fits, Loader
<1>4. g \in l.rd /\ g \in Ids
  BY <1>3, MinOfIds
<1>5. G \in SUBSET Ids
  BY <1>3
<1>6. C \in [Domains -> HostTypes \cup {None}] /\ F \in SUBSET Domains
  BY <1>1, AppliedTypes
<1>7. Open(l) = l.gaps /\ InRun(l)
  BY <1>2 DEF Open, InRun
<1>8. \A i \in G : i < nextId
  BY <1>1, <1>3, <1>7 DEF RangeOf
<1>9. \A i \in Ids : i \in l.min..l.max => i \in G \/ Final(i)
  BY <1>1, <1>7, LoggedIsFinal DEF RangeOf
<1>10. /\ l.min < nextId /\ l.omin < nextId /\ \A i \in l.ins : i < nextId
       /\ l.st = "set" => \A i \in Ids : i \in l.omin..l.omax => Final(i)
  BY <1>1, <1>2, <1>7 DEF RangeOf
<1> HIDE DEF G, C, F, D
<1>11. CASE l.rd = {g}
  <2> HIDE DEF l, g
  <2>1. /\ \E k : Fits(k) /\ RangeOf(k) /\ ld' = [ld EXCEPT ![n] = k]
        /\ core' \in [Nodes -> [Domains -> HostTypes \cup {None}]]
        /\ fresh' \in [Nodes -> SUBSET Domains]
    BY <1>1, <1>2, <1>3, <1>5, <1>6, <1>8, <1>9, <1>10, <1>11, FixGapsFits
  <2> QED
    BY <1>1, <1>2, <2>1, LoaderMoves
<1>12. CASE l.rd # {g}
  <2> DEFINE k == [l EXCEPT !.rd = l.rd \ {g}, !.gaps = G]
  <2>1. ld \in [Nodes -> Loader]
    BY <1>1 DEF TypeOK
  <2>2. ld' = [ld EXCEPT ![n] = k]
    BY <1>2, <1>12, <2>1 DEF Loader
  <2>3. k \in Loader /\ k.pc = "fix" /\ k.gaps = G /\ k.rd = l.rd \ {g} /\ k.st = l.st
        /\ k.min = l.min /\ k.max = l.max /\ k.omin = l.omin /\ k.omax = l.omax
        /\ k.ins = l.ins
    BY <1>1, <1>2, <1>3, <1>5 DEF Loader
  <2>4. l.rd \ {g} # {}
    BY <1>4, <1>12
  <2>5. /\ core' \in [Nodes -> [Domains -> HostTypes \cup {None}]]
        /\ fresh' \in [Nodes -> SUBSET Domains]
    BY <1>1, <1>2, <1>6, <1>12
  <2> HIDE DEF k, l, g
  <2>6. Fits(k)
    BY <2>3, <2>4 DEF Fits
  <2>7. Open(k) = G
    BY <2>3 DEF Open
  <2>8. RangeOf(k)
    BY <1>8, <1>9, <1>10, <2>3, <2>7 DEF RangeOf
  <2> QED
    BY <1>1, <1>2, <2>2, <2>5, <2>6, <2>8, LoaderMoves
<1> QED
  BY <1>11, <1>12

\* A dummy event keeps RangeInv: it is inserted with an id that was drawn and
\* that no transaction holds.
LEMMA RangeDummy ==
  ASSUME RangeInv, NEW n \in Nodes, InsertDummy(n) \/ InsertDummyFails(n)
  PROVE  RangeInv'
<1> USE DomainSyncAssumption
<1> DEFINE l == ld[n]
           g == Min(l.ins)
           k == [l EXCEPT !.ins = l.ins \ {g}]
<1>1. /\ l \in Loader /\ Fits(l) /\ RangeOf(l) /\ LogInv /\ TypeOK
      /\ core \in [Nodes -> [Domains -> HostTypes \cup {None}]]
      /\ fresh \in [Nodes -> SUBSET Domains] /\ failures \in 0..MaxFailures
      /\ ld \in [Nodes -> Loader]
  BY DEF RangeInv, DomTypes, TypeOK
<1>2. /\ l.pc = "fix" /\ l.ins # {} /\ ld' = [ld EXCEPT ![n].ins = @ \ {g}]
      /\ failures' \in 0..MaxFailures
      /\ UNCHANGED <<settings, nextId, clientVars, cleanerVars, core, fresh>>
  BY <1>1 DEF InsertDummy, InsertDummyFails, dbVars
<1>3. ld' = [ld EXCEPT ![n] = k]
  BY <1>1, <1>2 DEF Loader
<1>4. l.ins \in SUBSET Ids
  BY <1>1 DEF Loader
<1>5. g \in l.ins /\ g \in Ids
  BY <1>2, <1>4, MinOfIds
<1>6. k \in Loader /\ k.pc = "fix" /\ k.gaps = l.gaps /\ k.rd = l.rd /\ k.st = l.st
      /\ k.min = l.min /\ k.max = l.max /\ k.omin = l.omin /\ k.omax = l.omax
      /\ k.ins = l.ins \ {g}
  BY <1>1, <1>2, <1>4 DEF Loader
<1> HIDE DEF k
<1>7. Fits(k)
  BY <1>1, <1>2, <1>6 DEF Fits
<1>8. Open(k) = Open(l) /\ InRun(k) /\ InRun(l)
  BY <1>2, <1>6 DEF Open, InRun
<1>9. RangeOf(k)
  BY <1>1, <1>2, <1>6, <1>8 DEF RangeOf
<1>10. g < nextId
  BY <1>1, <1>2, <1>5 DEF RangeOf
<1>11. CASE InsertDummyFails(n)
  <2>1. UNCHANGED <<dbVars, clientVars, cleanerVars>>
    BY <1>11 DEF InsertDummyFails
  <2> QED
    BY <1>1, <1>2, <1>3, <1>7, <1>9, <2>1, LoaderMoves
<1>12. CASE InsertDummy(n)
  <2>1. /\ \A c \in Clients : tx[c].id # g
        /\ events' = [events EXCEPT ![g] = IF @ = None THEN Dummy ELSE @]
    BY <1>12 DEF InsertDummy
  <2>2. events \in [Ids -> Domains \cup {Dummy, None}]
    BY <1>1 DEF TypeOK
  <2>3. events' \in [Ids -> Domains \cup {Dummy, None}]
        /\ \A i \in Ids : i # g => events'[i] = events[i]
    BY <1>5, <2>1, <2>2
  <2>4. tx' = tx /\ nextId' = nextId
    BY <1>2 DEF clientVars
  <2>5. \A i \in EventIds' : i < nextId
    BY <1>1, <1>10, <2>3 DEF EventIds, LogInv
  <2>6. \A c \in Clients : tx[c].id # 0 => tx[c].id \in Ids
    BY <1>1 DEF TypeOK, Transactions, Ids
  <2>7. \A c \in Clients : tx[c].id # 0 => events'[tx[c].id] = None
    BY <1>1, <2>1, <2>3, <2>6 DEF LogInv
  <2>8. LogInv'
    BY <1>1, <2>4, <2>5, <2>7 DEF LogInv
  <2> QED
    BY <1>1, <1>2, <1>3, <1>7, <1>9, <2>3, <2>8, LoaderMovesLog
<1> QED
  BY <1>11, <1>12

\* Crashes and restarts keep RangeInv: the range in the loader state is that
\* of an earlier run.
LEMMA RangeRestart ==
  ASSUME RangeInv, NEW n \in Nodes, ResetAndShutdown(n) \/ QueryFails(n)
  PROVE  RangeInv'
<1> USE DomainSyncAssumption
<1>1. /\ ld[n] \in Loader /\ Fits(ld[n]) /\ RangeOf(ld[n]) /\ nextId \in Nat \ {0}
      /\ core \in [Nodes -> [Domains -> HostTypes \cup {None}]]
      /\ fresh \in [Nodes -> SUBSET Domains] /\ failures \in 0..MaxFailures
  BY DEF RangeInv, DomTypes, TypeOK
<1> DEFINE reset == [Idle EXCEPT !.st = "reset"]
<1>2. Fits(reset) /\ RangeOf(reset)
  <2>1. reset \in Loader /\ reset.pc = "boot" /\ reset.st = "reset" /\ reset.omin = 0
    <3>1. Idle.omin = 0
      BY DEF Idle
    <3> QED
      BY <3>1, IdleTypes DEF Loader
  <2> HIDE DEF reset
  <2>2. Open(reset) = {} /\ ~ InRun(reset)
    BY <2>1 DEF Open, InRun
  <2> QED
    BY <1>1, <2>1, <2>2 DEF Fits, RangeOf
<1>3. Fits(Restarted(ld[n])) /\ RangeOf(Restarted(ld[n]))
  BY <1>1, RestartedFits
<1>4. /\ \/ ld' = [ld EXCEPT ![n] = reset]
         \/ ld' = [ld EXCEPT ![n] = Restarted(ld[n])]
      /\ fresh' = [fresh EXCEPT ![n] = {}] /\ UNCHANGED core
      /\ failures' \in 0..MaxFailures
      /\ UNCHANGED <<dbVars, clientVars, cleanerVars>>
  BY <1>1 DEF ResetAndShutdown, QueryFails, LoaderOnly
<1>5. /\ core' \in [Nodes -> [Domains -> HostTypes \cup {None}]]
      /\ fresh' \in [Nodes -> SUBSET Domains]
  BY <1>1, <1>4
<1> HIDE DEF reset
<1> QED
  BY <1>2, <1>3, <1>4, <1>5, LoaderMoves


-------------------------------------------------------------------------------
(***************************************************************************)
(* Transactions and the cleaner                                            *)
(***************************************************************************)

\* An id that is final stays so: transactions draw new ids only.
LEMMA FinalStays ==
  ASSUME RangeInv, nextId <= nextId', nextId' \in Nat,
         \A c \in Clients : tx'[c].id \in {tx[c].id, 0, nextId},
         NEW i \in Ids, Final(i)
  PROVE  Final(i)'
<1>1. i \in Nat \ {0} /\ nextId \in Nat
  BY DomainSyncAssumption DEF Ids, RangeInv, DomTypes, TypeOK
<1>2. i < nextId /\ \A c \in Clients : tx[c].id # i
  BY DEF Final
<1>3. \A c \in Clients : tx'[c].id # i
  BY <1>1, <1>2
<1> QED
  BY <1>1, <1>2, <1>3 DEF Final

\* Steps that leave the loaders alone keep what is said of them.
LEMMA RangesStay ==
  ASSUME RangeInv, nextId <= nextId', nextId' \in Nat,
         \A c \in Clients : tx'[c].id \in {tx[c].id, 0, nextId},
         UNCHANGED ld
  PROVE  \A n \in Nodes : Fits(ld[n])' /\ RangeOf(ld[n])'
<1> SUFFICES ASSUME NEW n \in Nodes
             PROVE  Fits(ld[n])' /\ RangeOf(ld[n])'
  OBVIOUS
<1> DEFINE l == ld[n]
<1>1. Fits(l) /\ RangeOf(l) /\ l \in Loader /\ nextId \in Nat
  BY DEF RangeInv, DomTypes, Fits, TypeOK
<1>2. \A i \in Ids : Final(i) => Final(i)'
  BY FinalStays
<1>3. l.min \in Nat /\ l.omin \in Nat /\ l.ins \subseteq Ids /\ Ids \subseteq Nat
  BY <1>1, DomainSyncAssumption DEF Loader, Ids
<1>4. Open(l)' = Open(l) /\ InRun(l)' = InRun(l) /\ l' = l
  BY DEF Open, InRun, PageIds
<1>5. l.omin < nextId' /\ (InRun(l) => l.min < nextId')
  BY <1>1, <1>3 DEF RangeOf
<1>6. \A i \in Ids : i \in Open(l) => i < nextId'
  BY <1>1, <1>3 DEF RangeOf
<1>7. l.pc = "fix" => \A i \in l.ins : i < nextId'
  <2> SUFFICES ASSUME l.pc = "fix", NEW i \in l.ins
               PROVE  i < nextId'
    OBVIOUS
  <2>1. i < nextId /\ i \in Nat
    BY <1>1, <1>3 DEF RangeOf
  <2> QED
    BY <1>1, <2>1
<1>8. InRun(l) => \A i \in Ids : i \in l.min..l.max => i \in Open(l) \/ Final(i)'
  BY <1>1, <1>2 DEF RangeOf
<1>9. l.st = "set" => \A i \in Ids : i \in l.omin..l.omax => Final(i)'
  BY <1>1, <1>2 DEF RangeOf
<1>10. RangeOf(l)'
  BY <1>4, <1>5, <1>6, <1>7, <1>8, <1>9 DEF RangeOf
<1>11. Fits(l)'
  BY <1>1, <1>4 DEF Fits
<1> QED
  BY <1>10, <1>11

\* The place of a client without a transaction.
LEMMA NoTxTypes ==
  NoTx \in Transactions /\ TxShape(NoTx) /\ NoTx.ph = "none" /\ NoTx.id = 0
BY DomainSyncAssumption DEF NoTx, Transactions, TxShape

\* select_domain keeps RangeInv: an id is left for the transaction.
LEMMA RangeSelect ==
  ASSUME RangeInv, NEW c \in Clients, Select(c)
  PROVE  RangeInv'
<1> USE DomainSyncAssumption DEF RangeInv, DomTypes
<1>1. PICK op \in Ops, d \in Domains, ht \in HostTypes :
        tx' = [tx EXCEPT ![c] = [NoTx EXCEPT !.ph = "selected", !.op = op,
                                             !.d = d, !.ht = ht]]
  BY DEF Select
<1>2. /\ tx[c].ph = "none" /\ nextId + Cardinality(Selected) <= MaxEventId
      /\ UNCHANGED <<settings, events, nextId, deletions, sched, removals, ld, core,
                     fresh, failures>>
  BY DEF Select, Selected, dbVars, cleanerVars, nodeVars
<1> DEFINE t == [NoTx EXCEPT !.ph = "selected", !.op = op, !.d = d, !.ht = ht]
<1>3. t \in Transactions /\ TxShape(t) /\ t.ph = "selected" /\ t.id = 0
  <2>1. t \in Transactions /\ t.ph = "selected" /\ t.id = 0 /\ t.op = op /\ t.d = d
        /\ t.ht = ht
    BY NoTxTypes DEF Transactions
  <2> HIDE DEF t
  <2> QED
    BY <2>1 DEF TxShape
<1> HIDE DEF t
<1>4. tx \in [Clients -> Transactions]
  BY DEF TypeOK
<1>5. tx' \in [Clients -> Transactions] /\ \A b \in Clients : tx'[b] = IF b = c THEN t ELSE tx[b]
  BY <1>1, <1>3, <1>4 DEF t
<1>6. TypeOK'
  BY <1>2, <1>5 DEF TypeOK
<1>7. EnoughIds'
  <2>1. Selected' = Selected \cup {c} /\ c \notin Selected
    BY <1>2, <1>3, <1>5 DEF Selected
  <2>2. IsFiniteSet(Selected)
    BY FS_Subset DEF Selected
  <2>3. Cardinality(Selected') = Cardinality(Selected) + 1 /\ Cardinality(Selected) \in Nat
    BY <2>1, <2>2, FS_AddElement, FS_CardinalityType
  <2> QED
    BY <1>2, <2>3 DEF EnoughIds, TypeOK
<1>8. EnoughRemovals' /\ \A b \in Clients : TxShape(tx[b])'
  BY <1>2, <1>3, <1>5 DEF EnoughRemovals, TxShape
<1>9. LogInv'
  BY <1>2, <1>3, <1>5 DEF LogInv, EventIds
<1>10. \A n \in Nodes : Fits(ld[n])' /\ RangeOf(ld[n])'
  <2>1. nextId \in Nat /\ nextId <= nextId'
    BY <1>2 DEF TypeOK
  <2>2. \A b \in Clients : tx'[b].id \in {tx[b].id, 0, nextId}
    BY <1>3, <1>5
  <2> QED
    BY <1>2, <2>1, <2>2, RangesStay
<1> QED
  BY <1>6, <1>7, <1>8, <1>9, <1>10

\* The write of a transaction draws an id that nobody has had; a failed write,
\* or a rollback, ends the transaction.
LEMMA RangeWrite ==
  ASSUME RangeInv, NEW c \in Clients, Write(c) \/ Abort(c)
  PROVE  RangeInv'
<1> USE DomainSyncAssumption DEF RangeInv, DomTypes
<1> DEFINE w == [tx[c] EXCEPT !.ph = "written", !.id = nextId]
<1>1. UNCHANGED <<settings, events, deletions, sched, removals, ld, core, fresh, failures>>
  BY DEF Write, Abort, dbVars, cleanerVars, nodeVars
<1>2. tx \in [Clients -> Transactions] /\ nextId \in 1..(MaxEventId + 1) /\ TxShape(tx[c])
      /\ tx[c] \in Transactions
  BY DEF TypeOK
<1>3. \/ tx' = [tx EXCEPT ![c] = NoTx] /\ nextId' = nextId
      \/ /\ tx' = [tx EXCEPT ![c] = w] /\ nextId' = nextId + 1
         /\ tx[c].ph = "selected"
  <2>1. CASE Abort(c)
    BY <2>1 DEF Abort, dbVars
  <2>2. CASE Write(c)
    BY <1>2, <2>2 DEF Write, Transactions
  <2> QED
    BY <2>1, <2>2
<1>4. NoTx \in Transactions /\ TxShape(NoTx) /\ NoTx.ph = "none" /\ NoTx.id = 0
  BY NoTxTypes
<1>5. IsFiniteSet(Selected) /\ Cardinality(Selected) \in Nat
  BY FS_Subset, FS_CardinalityType DEF Selected
<1>6. IsFiniteSet(Selected \ {c})
      /\ Cardinality(Selected \ {c}) =
           IF c \in Selected THEN Cardinality(Selected) - 1 ELSE Cardinality(Selected)
  BY <1>5, FS_RemoveElement
<1>7. nextId + Cardinality(Selected) <= MaxEventId + 1
  BY DEF EnoughIds
<1>8. CASE tx' = [tx EXCEPT ![c] = NoTx] /\ nextId' = nextId
  <2>1. tx' \in [Clients -> Transactions]
        /\ \A b \in Clients : tx'[b] = IF b = c THEN NoTx ELSE tx[b]
    BY <1>2, <1>4, <1>8
  <2>2. TypeOK'
    BY <1>1, <1>8, <2>1 DEF TypeOK
  <2>3. Selected' = Selected \ {c}
    BY <1>4, <2>1 DEF Selected
  <2>4. EnoughIds'
    BY <1>2, <1>5, <1>6, <1>7, <1>8, <2>3 DEF EnoughIds
  <2>5. EnoughRemovals' /\ \A b \in Clients : TxShape(tx[b])'
    BY <1>1, <1>4, <2>1 DEF EnoughRemovals, TxShape
  <2>6. LogInv'
    BY <1>1, <1>4, <1>8, <2>1 DEF LogInv, EventIds
  <2>7. \A n \in Nodes : Fits(ld[n])' /\ RangeOf(ld[n])'
    <3>1. nextId' \in Nat /\ nextId <= nextId'
      BY <1>2, <1>8
    <3>2. \A b \in Clients : tx'[b].id \in {tx[b].id, 0, nextId}
      BY <1>4, <2>1
    <3> QED
      BY <1>1, <3>1, <3>2, RangesStay
  <2> QED
    BY <2>2, <2>4, <2>5, <2>6, <2>7
<1>9. CASE /\ tx' = [tx EXCEPT ![c] = w] /\ nextId' = nextId + 1
           /\ tx[c].ph = "selected"
  <2>1. c \in Selected
    BY <1>9 DEF Selected
  <2>2. Cardinality(Selected) # 0
    BY <1>5, <2>1, FS_EmptySet
  <2>3. nextId \in 1..MaxEventId
    BY <1>2, <1>5, <1>7, <2>2
  <2>4. w \in Transactions /\ w.ph = "written" /\ w.id = nextId /\ w.op = tx[c].op
        /\ w.d = tx[c].d /\ w.ht = tx[c].ht
    <3>1. nextId \in 0..MaxEventId
      BY <2>3
    <3> QED
      BY <1>2, <3>1 DEF Transactions
  <2>5. TxShape(w)
    BY <1>2, <1>9, <2>3, <2>4 DEF TxShape
  <2> HIDE DEF w
  <2>6. tx' \in [Clients -> Transactions]
        /\ \A b \in Clients : tx'[b] = IF b = c THEN w ELSE tx[b]
    BY <1>2, <1>9, <2>4
  <2>7. TypeOK'
    <3>1. nextId' \in 1..(MaxEventId + 1)
      BY <1>9, <2>3
    <3> QED
      BY <1>1, <2>6, <3>1 DEF TypeOK
  <2>8. Selected' = Selected \ {c}
    BY <2>4, <2>6 DEF Selected
  <2>9. EnoughIds'
    BY <1>2, <1>5, <1>6, <1>7, <1>9, <2>1, <2>8 DEF EnoughIds
  <2>10. EnoughRemovals' /\ \A b \in Clients : TxShape(tx[b])'
    BY <1>1, <2>5, <2>6 DEF EnoughRemovals, TxShape
  <2>11. LogInv'
    <3>1. nextId \in Ids /\ events[nextId] = None /\ nextId' > nextId /\ nextId' \in Nat
      BY <1>2, <1>9, <2>3 DEF LogInv, EventIds, Ids
    <3>2. \A i \in EventIds' : i < nextId'
      BY <1>1, <1>2, <1>9 DEF LogInv, EventIds, Ids
    <3>3. \A b \in Clients : tx[b].id \in Nat
      BY <1>2 DEF Transactions
    <3>4. \A b \in Clients : tx[b].id # 0 => tx[b].id < nextId
      BY DEF LogInv
    <3>5. \A b \in Clients : tx'[b].id # 0 => tx'[b].id < nextId' /\ events'[tx'[b].id] = None
      BY <1>1, <1>2, <1>9, <2>4, <2>6, <3>1, <3>3 DEF LogInv
    <3>6. \A a, b \in Clients : tx'[b].id # 0 /\ tx'[a].id = tx'[b].id => a = b
      BY <1>2, <2>3, <2>4, <2>6, <3>3, <3>4 DEF LogInv
    <3> QED
      BY <3>2, <3>5, <3>6 DEF LogInv
  <2>12. \A n \in Nodes : Fits(ld[n])' /\ RangeOf(ld[n])'
    <3>1. nextId' \in Nat /\ nextId <= nextId'
      BY <1>2, <1>9
    <3>2. \A b \in Clients : tx'[b].id \in {tx[b].id, 0, nextId}
      BY <2>4, <2>6
    <3> QED
      BY <1>1, <3>1, <3>2, RangesStay
  <2> QED
    BY <2>7, <2>9, <2>10, <2>11, <2>12
<1> HIDE DEF w
<1> QED
  BY <1>3, <1>8, <1>9


\* A commit keeps RangeInv: it adds the event with the id it holds.
LEMMA RangeCommit ==
  ASSUME RangeInv, NEW c \in Clients, Commit(c)
  PROVE  RangeInv'
<1> USE DomainSyncAssumption DEF RangeInv, DomTypes
<1> DEFINE t == tx[c]
<1>1. /\ t.ph = "written" /\ settings' = [settings EXCEPT ![t.d] = Written(t)]
      /\ events' = [events EXCEPT ![t.id] = t.d]
      /\ deletions' \subseteq deletions \cup {<<t.d, t.ht>>}
      /\ tx' = [tx EXCEPT ![c] = NoTx]
      /\ UNCHANGED <<nextId, sched, removals, ld, core, fresh, failures>>
  BY DEF Commit, cleanerVars, nodeVars
<1>2. tx \in [Clients -> Transactions] /\ t \in Transactions /\ nextId \in Nat /\ TxShape(t)
  BY DEF TypeOK
<1>3. t.d \in Domains /\ t.ht \in HostTypes /\ t.op \in Ops /\ t.id \in Ids /\ t.id # 0
  BY <1>1, <1>2 DEF TxShape, Transactions, Ids
<1>4. tx' \in [Clients -> Transactions]
      /\ \A b \in Clients : tx'[b] = IF b = c THEN NoTx ELSE tx[b]
  BY <1>1, <1>2, NoTxTypes
<1>5. Written(t) \in Row
  <2>1. settings[t.d] \in Row
    BY <1>3 DEF TypeOK
  <2>2. absent \in Row
    BY DEF absent, Row, Statuses
  <2>3. [st |-> "enabled", ht |-> t.ht] \in Row
    BY <1>3 DEF Row, Statuses
  <2>4. \A st \in Statuses : [settings[t.d] EXCEPT !.st = st] \in Row
    BY <2>1 DEF Row
  <2> HIDE DEF t
  <2>5. CASE t.op = "insert"
    BY <2>3, <2>5 DEF Written
  <2>6. CASE t.op = "delete"
    BY <2>2, <2>6 DEF Written
  <2>7. CASE t.op = "mark"
    BY <2>4, <2>7 DEF Written, Statuses
  <2>8. CASE t.op \in {"enabled", "disabled"}
    BY <2>2, <2>4, <2>8 DEF Written, Statuses
  <2> QED
    BY <1>3, <2>5, <2>6, <2>7, <2>8 DEF Ops
<1> HIDE DEF t
<1>6. events \in [Ids -> Domains \cup {Dummy, None}]
  BY DEF TypeOK
<1>7. events' \in [Ids -> Domains \cup {Dummy, None}]
      /\ \A i \in Ids : i # t.id => events'[i] = events[i]
  BY <1>1, <1>3, <1>6
<1>8. TypeOK'
  <2>1. settings' \in [Domains -> Row]
    BY <1>1, <1>5 DEF TypeOK
  <2>2. deletions' \subseteq Domains \X HostTypes
    BY <1>1, <1>3 DEF TypeOK
  <2> QED
    BY <1>1, <1>4, <1>7, <2>1, <2>2 DEF TypeOK
<1>9. EnoughIds'
  <2>1. Selected' = Selected
    BY <1>1, <1>4, NoTxTypes DEF Selected, t
  <2> QED
    BY <1>1, <2>1 DEF EnoughIds
<1>10. EnoughRemovals' /\ \A b \in Clients : TxShape(tx[b])'
  BY <1>1, <1>4, NoTxTypes DEF EnoughRemovals, TxShape
<1>11. LogInv'
  <2>1. t.id < nextId /\ \A b \in Clients : tx[b].id = t.id => b = c
    BY <1>3 DEF LogInv, t
  <2>2. \A i \in EventIds' : i < nextId'
    BY <1>1, <1>7, <2>1 DEF LogInv, EventIds
  <2>3. \A b \in Clients : tx[b].id # 0 => tx[b].id \in Ids
    BY <1>2 DEF Transactions, Ids
  <2>4. \A b \in Clients : tx'[b].id # 0 => b # c /\ tx'[b] = tx[b] /\ tx[b].id # t.id
    BY <1>4, <2>1, NoTxTypes
  <2>5. \A b \in Clients : tx'[b].id # 0 => tx'[b].id < nextId' /\ events'[tx'[b].id] = None
    BY <1>1, <1>7, <2>3, <2>4 DEF LogInv
  <2>6. \A a, b \in Clients : tx'[b].id # 0 /\ tx'[a].id = tx'[b].id => a = b
    BY <2>4 DEF LogInv
  <2> QED
    BY <2>2, <2>5, <2>6 DEF LogInv
<1>12. \A n \in Nodes : Fits(ld[n])' /\ RangeOf(ld[n])'
  <2>1. \A b \in Clients : tx'[b].id \in {tx[b].id, 0, nextId}
    BY <1>4, NoTxTypes
  <2> QED
    BY <1>1, <1>2, <2>1, RangesStay
<1> QED
  BY <1>8, <1>9, <1>10, <1>11, <1>12

\* Steps that neither draw ids nor add events keep RangeInv.
LEMMA RangeQuiet ==
  ASSUME RangeInv, UNCHANGED <<settings, nextId, tx, ld, core, fresh, failures>>,
         deletions' \subseteq deletions, sched' \subseteq Ids,
         events' \in [Ids -> Domains \cup {Dummy, None}],
         \A i \in Ids : events'[i] \in {events[i], None},
         removals' \in 0..MaxRemovals, EnoughRemovals'
  PROVE  RangeInv'
<1> USE DomainSyncAssumption DEF RangeInv, DomTypes
<1>1. TypeOK'
  BY DEF TypeOK
<1>2. EnoughIds' /\ \A b \in Clients : TxShape(tx[b])'
  BY DEF EnoughIds, Selected, TxShape
<1>3. LogInv'
  <2>1. \A b \in Clients : tx[b].id # 0 => tx[b].id \in Ids
    BY DEF TypeOK, Transactions, Ids
  <2> QED
    BY <2>1 DEF LogInv, EventIds
<1>4. \A n \in Nodes : Fits(ld[n])' /\ RangeOf(ld[n])'
  BY RangesStay DEF TypeOK
<1> QED
  BY <1>1, <1>2, <1>3, <1>4

\* The cleaner keeps RangeInv, whenever it removes events: what is final does
\* not depend on the events that are left.
LEMMA RangeCleaner ==
  ASSUME RangeInv, Cleaner
  PROVE  RangeInv'
<1> USE DomainSyncAssumption
<1>1. /\ sched \subseteq Ids /\ removals \in 0..MaxRemovals
      /\ events \in [Ids -> Domains \cup {Dummy, None}]
      /\ Cardinality(sched) + removals <= MaxRemovals
  BY DEF RangeInv, DomTypes, TypeOK, EnoughRemovals
<1>2. IsFiniteSet(sched) /\ Cardinality(sched) \in Nat
  <2>1. IsFiniteSet(Ids)
    BY FS_Interval DEF Ids
  <2> QED
    BY <1>1, <2>1, FS_Subset, FS_CardinalityType
<1>3. CASE ScheduleRemoval
  <2>1. /\ MaxId # 0 /\ sched' = sched \cup {MaxId}
        /\ Cardinality(sched) + removals < MaxRemovals
        /\ UNCHANGED <<settings, events, nextId, tx, deletions, ld, core, fresh,
                       failures, removals>>
    BY <1>3 DEF ScheduleRemoval, dbVars, clientVars, nodeVars
  <2>2. MaxId \in Ids
    BY <2>1, LogEnds DEF Ids
  <2>3. Cardinality(sched') <= Cardinality(sched) + 1 /\ Cardinality(sched') \in Nat
    <3>1. Cardinality(sched \cup {MaxId}) \in {Cardinality(sched), Cardinality(sched) + 1}
      BY <1>2, FS_AddElement
    <3> QED
      BY <1>2, <2>1, <3>1
  <2>4. EnoughRemovals'
    BY <1>1, <1>2, <2>1, <2>3 DEF EnoughRemovals
  <2> QED
    BY <1>1, <2>1, <2>2, <2>4, RangeQuiet
<1>4. ASSUME NEW x \in Ids, DoRemoval(x)
      PROVE  RangeInv'
  <2>1. /\ x \in sched /\ sched' = sched \ {x} /\ removals' = removals + 1
        /\ events' = [i \in Ids |-> IF i < x THEN None ELSE events[i]]
        /\ UNCHANGED <<settings, nextId, tx, deletions, ld, core, fresh, failures>>
    BY <1>4 DEF DoRemoval, clientVars, nodeVars
  <2>2. Cardinality(sched') = Cardinality(sched) - 1 /\ Cardinality(sched) # 0
    <3>1. Cardinality(sched) # 0
      BY <1>2, <2>1, FS_EmptySet
    <3>2. Cardinality(sched \ {x}) = Cardinality(sched) - 1
      BY <1>2, <2>1, FS_RemoveElement
    <3> QED
      BY <2>1, <3>1, <3>2
  <2>3. EnoughRemovals' /\ removals' \in 0..MaxRemovals
    BY <1>1, <1>2, <2>1, <2>2 DEF EnoughRemovals
  <2>4. /\ events' \in [Ids -> Domains \cup {Dummy, None}]
        /\ \A i \in Ids : events'[i] \in {events[i], None}
    BY <1>1, <2>1
  <2> QED
    BY <1>1, <2>1, <2>3, <2>4, RangeQuiet
<1> QED
  BY <1>3, <1>4 DEF Cleaner

-------------------------------------------------------------------------------
\* RangeInv holds before any loader has started.
LEMMA RangeInit ==
  ASSUME Init
  PROVE  RangeInv
<1> USE DomainSyncAssumption
<1> DEFINE ht == CHOOSE h \in HostTypes : TRUE
<1>1. ht \in HostTypes
  OBVIOUS
<1>2. /\ tx = [c \in Clients |-> NoTx] /\ sched = {} /\ failures = 0 /\ removals = 0
      /\ ld = [n \in Nodes |-> Idle]
      /\ core = [n \in Nodes |-> [d \in Domains |-> None]]
      /\ fresh = [n \in Nodes |-> {}]
  BY DEF Init
<1>3. \/ /\ settings = [d \in Domains |-> absent] /\ events = [i \in Ids |-> None]
         /\ nextId = 1 /\ deletions = {}
      \/ \E d \in Domains, st \in {"enabled", "deleting"} :
           /\ settings = [[e \in Domains |-> absent] EXCEPT ![d] = [st |-> st, ht |-> ht]]
           /\ events = [i \in Ids |-> IF i = 1 THEN d ELSE None]
           /\ nextId = 2
           /\ deletions = IF st = "deleting" THEN {<<d, ht>>} ELSE {}
  BY DEF Init
<1> HIDE DEF ht
<1>4. absent \in Row /\ \A st \in {"enabled", "deleting"} : [st |-> st, ht |-> ht] \in Row
  BY <1>1 DEF absent, Row, Statuses
<1>5. settings \in [Domains -> Row]
  BY <1>3, <1>4
<1>6. events \in [Ids -> Domains \cup {Dummy, None}] /\ deletions \subseteq Domains \X HostTypes
  BY <1>1, <1>3
<1>7. nextId \in 1..2 /\ nextId \in 1..(MaxEventId + 1)
  BY <1>3
<1>8. TypeOK
  BY <1>2, <1>5, <1>6, <1>7, IdleTypes, NoTxTypes DEF TypeOK
<1>9. EnoughIds /\ EnoughRemovals
  <2>1. Selected = {}
    BY <1>2, NoTxTypes DEF Selected
  <2> QED
    BY <1>2, <1>7, <2>1, FS_EmptySet DEF EnoughIds, EnoughRemovals
<1>10. \A i \in EventIds : i < nextId
  BY <1>3 DEF EventIds
<1>11. LogInv /\ \A c \in Clients : TxShape(tx[c])
  BY <1>2, <1>10, NoTxTypes DEF LogInv
<1>12. Fits(Idle) /\ RangeOf(Idle)
  <2>1. Idle.st = "undefined" /\ Idle.omin = 0
    BY DEF Idle
  <2>2. Open(Idle) = {} /\ ~ InRun(Idle)
    BY IdleTypes DEF Open, InRun
  <2> QED
    BY <1>7, <2>1, <2>2, IdleTypes DEF Fits, RangeOf
<1> QED
  BY <1>2, <1>8, <1>9, <1>11, <1>12 DEF RangeInv, DomTypes

\* RangeInv is inductive: one case per kind of step.
LEMMA RangeStep ==
  ASSUME RangeInv, [Next]_vars
  PROVE  RangeInv'
<1>1. CASE UNCHANGED vars
  <2>1. UNCHANGED <<settings, events, nextId, tx, deletions, sched, removals, ld, core,
                    fresh, failures>>
    BY <1>1 DEF vars, dbVars, clientVars, cleanerVars, nodeVars
  <2>2. /\ sched \subseteq Ids /\ events \in [Ids -> Domains \cup {Dummy, None}]
        /\ removals \in 0..MaxRemovals /\ EnoughRemovals
    BY DEF RangeInv, DomTypes, TypeOK
  <2>3. EnoughRemovals'
    BY <2>1, <2>2 DEF EnoughRemovals
  <2> QED
    BY <2>1, <2>2, <2>3, RangeQuiet
<1>2. ASSUME NEW c \in Clients, Transaction(c)
      PROVE  RangeInv'
  BY <1>2, RangeSelect, RangeWrite, RangeCommit DEF Transaction, EndTx
<1>3. ASSUME NEW d \in Domains, NEW ht \in HostTypes, EndDeletion(d, ht)
      PROVE  RangeInv'
  <2>1. UNCHANGED <<settings, events, nextId, tx, sched, removals, ld, core, fresh, failures>>
        /\ deletions' \subseteq deletions
    BY <1>3 DEF EndDeletion, dbVars, cleanerVars, nodeVars
  <2>2. /\ sched \subseteq Ids /\ events \in [Ids -> Domains \cup {Dummy, None}]
        /\ removals \in 0..MaxRemovals /\ EnoughRemovals
    BY DEF RangeInv, DomTypes, TypeOK
  <2>3. EnoughRemovals'
    BY <2>1, <2>2 DEF EnoughRemovals
  <2> QED
    BY <2>1, <2>2, <2>3, RangeQuiet
<1>4. ASSUME NEW n \in Nodes, LoaderStep(n) \/ ResetAndShutdown(n) \/ LoaderFault(n)
      PROVE  RangeInv'
  BY <1>4, RangeColdLoad, RangeLoadEnds, RangeCheck, RangePage, RangeReadGap,
     RangeDummy, RangeRestart DEF LoaderStep, LoaderFault
<1>5. CASE Cleaner
  BY <1>5, RangeCleaner
<1> QED
  BY <1>1, <1>2, <1>3, <1>4, <1>5 DEF Next

\* TypeOK holds in every state, for any number of nodes, domains and clients.
THEOREM DomainTypes == Spec => []TypeOK
<1>1. RangeInv => TypeOK
  BY DEF RangeInv, DomTypes
<1> QED
  BY <1>1, RangeInit, RangeStep, PTL DEF Spec

\* Once service_domain_db has stored {MinEventId, MaxEventId}, no transaction
\* can add an event to that range: whatever the size of a page, the number of
\* rounds of fix_gaps, the failures, restarts and removals from the log.
THEOREM RangesAreFinal == Spec => []RangeIsFinal
<1>1. RangeInv => RangeIsFinal
  <2> SUFFICES ASSUME RangeInv, NEW n \in Nodes, NEW c \in Clients,
                      tx[c].id # 0, ld[n].st = "set"
               PROVE  tx[c].id \notin ld[n].omin..ld[n].omax
    BY DEF RangeIsFinal
  <2>1. tx[c].id \in Ids
    BY DEF RangeInv, DomTypes, TypeOK, Transactions, Ids
  <2> QED
    BY <2>1 DEF RangeInv, RangeOf, Final
<1> QED
  BY <1>1, RangeInit, RangeStep, PTL DEF Spec

-------------------------------------------------------------------------------
(***************************************************************************)
(* Nodes in sync                                                           *)
(***************************************************************************)

\* The entry of a domain that the run of loader l leaves, if it ends now: after
\* a reset, the entries that the process did not insert go.
Entry(l, C, F, d) == IF l.st = "reset" /\ d \notin F THEN None ELSE C[d]

\* The domains that a cold load has not looked at.
Unloaded(l) == IF l.st = "set" THEN {}
               ELSE IF l.pc \in {"boot", "gaps"} THEN Domains ELSE l.toLoad

\* The ids whose events a loader has applied, or the rows they are about.
RunIds(l) == (l.min..l.max) \ l.gaps
SeenIds(l) == (IF l.st = "set" THEN l.omin..l.omax ELSE {})
                  \cup (IF l.st # "set" \/ l.pc = "fix" THEN RunIds(l) ELSE {})

\* An event of the domain waits for the loader.
Waits(l, d) == \E i \in Ids : events[i] = d /\ i \notin SeenIds(l)

\* A loader neither has to do with ids up to x, nor will it.
AheadOf(k, x) ==
    /\ k.st = "set" => k.omax > x
    /\ InRun(k) => k.max > x
    /\ \A i \in Ids : i \in Open(k) => i > x

\* Events that node n has not read were removed, and it will find out: the log
\* begins after the last id it has read, and nobody adds an event below.
Behind(n, l) ==
    /\ l.st = "set" /\ l.pc \in {"boot", "check", "idle"} /\ l.omax # 0
    /\ EventIds # {} /\ \A i \in EventIds : i > l.omax
    /\ \A c \in Clients : tx[c].id = 0 \/ tx[c].id > l.omax
    /\ \A m \in Nodes \ {n} : AheadOf(ld[m], l.omax)

\* The ranges of a loader, and its gaps; where it does not recover from a
\* failure, no insert has failed and it closes every gap in the first round.
Shape(l) ==
    /\ l.st = "set" => l.omax <= MaxId /\ l.pc \notin {"gaps", "load"}
    /\ InRun(l) => l.max <= MaxId /\ (l.st = "set" => l.omax <= l.max)
    /\ l.pc = "select" => l.below = GapsBelow(l, l.min)
    /\ l.pc = "fix" => l.ins \subseteq l.gaps /\ l.rd \subseteq l.gaps /\ l.toLoad = {}
    /\ l.pc = "fix" /\ Fragile(l) => l.gaps = l.rd /\ l.gaps \subseteq l.ins \cup EventIds

\* The loader l of node n, with core C and the entries F of its process: an entry
\* is what the table says, or an event or a restart is on its way to set it right.
Synced(n, l, C, F) ==
    /\ Shape(l)
    /\ \A d \in Domains : d \in Unloaded(l) => Entry(l, C, F, d) = None
    /\ \A d \in Domains : d \notin Unloaded(l) =>
          Entry(l, C, F, d) = HostType(d) \/ l.cast \/ Waits(l, d) \/ Behind(n, l)

SyncOf(n) == Synced(n, ld[n], core[n], fresh[n])

\* The ids of removals are not beyond the log: it keeps an event.
Kept == \A x \in sched : \E y \in EventIds : y >= x

SyncInv == Kept /\ \A n \in Nodes : SyncOf(n)

LEMMA LoaderIs ==
  ASSUME NEW l \in Loader
  PROVE  /\ l.omin \in Nat /\ l.omax \in Nat /\ l.min \in Nat /\ l.max \in Nat
         /\ l.below \subseteq Ids /\ l.gaps \subseteq Ids /\ l.ins \subseteq Ids
         /\ l.rd \subseteq Ids /\ l.toLoad \subseteq Domains /\ l.left \in Nat
         /\ l.cast \in BOOLEAN
  BY DomainSyncAssumption DEF Loader

\* The last id of the log does not go down when events are added.
LEMMA MaxIdGrows ==
  ASSUME MaxId # 0 => MaxId \in EventIds'
  PROVE  MaxId <= MaxId'
<1>1. EventIds' \subseteq Ids
  BY DEF EventIds
<1>2. MaxId \in Nat /\ Ids \subseteq Nat
  BY LogEnds, DomainSyncAssumption DEF Ids
<1>3. CASE MaxId = 0
  <2>1. CASE EventIds' = {}
    BY <1>3, <2>1 DEF MaxId
  <2>2. CASE EventIds' # {}
    <3>1. Max(EventIds') \in EventIds'
      BY <1>1, <2>2, MaxOfIds
    <3>2. MaxId' = Max(EventIds')
      BY <2>2 DEF MaxId
    <3>3. MaxId' \in Nat
      BY <1>1, <1>2, <3>1, <3>2
    <3> QED
      BY ONLY <1>3, <3>3
  <2> QED
    BY <2>1, <2>2
<1>4. CASE MaxId # 0
  <2>1. EventIds' # {} /\ MaxId \in EventIds'
    BY <1>4
  <2>2. MaxId <= Max(EventIds')
    BY <1>1, <2>1, MaxOfIds
  <2>3. MaxId' = Max(EventIds')
    BY <2>1 DEF MaxId
  <2> QED
    BY <2>2, <2>3
<1> QED
  BY <1>3, <1>4

\* What was said of a loader stays true as the log grows, and as the table
\* changes with an event for the change.
LEMMA SyncStays ==
  ASSUME NEW n \in Nodes, NEW k \in Loader, NEW C, NEW F, Synced(n, k, C, F),
         ld'[n] = k, core'[n] = C, fresh'[n] = F,
         \A i \in Ids : events[i] # None => events'[i] = events[i],
         \A d \in Domains : d \notin Unloaded(k) =>
            \/ HostType(d)' = HostType(d)
            \/ \E i \in Ids : events'[i] = d /\ i \notin SeenIds(k),
         Behind(n, k) => Behind(n, ld[n])'
  PROVE  SyncOf(n)'
<1>1. EventIds \subseteq EventIds'
  BY DEF EventIds
<1>2. MaxId <= MaxId'
  BY <1>1, LogEnds, MaxIdGrows
<1>3. MaxId \in Nat /\ MaxId' \in Nat
  <2>1. EventIds' \subseteq Ids /\ Ids \subseteq Nat
    BY DomainSyncAssumption DEF EventIds, Ids
  <2>2. EventIds' # {} => Max(EventIds') \in EventIds'
    BY <2>1, MaxOfIds
  <2>3. MaxId \in Nat
    BY LogEnds, DomainSyncAssumption
  <2>4. MaxId' = IF EventIds' = {} THEN 0 ELSE Max(EventIds')
    BY DEF MaxId
  <2> QED
    BY ONLY <2>1, <2>2, <2>3, <2>4
<1>4. Shape(ld[n])'
  <2>1. Shape(k) /\ k.omax \in Nat /\ k.max \in Nat
    BY LoaderIs DEF Synced
  <2>2. k.st = "set" => k.omax <= MaxId' /\ k.pc \notin {"gaps", "load"}
    BY <1>2, <1>3, <2>1 DEF Shape
  <2>3. InRun(k) => k.max <= MaxId' /\ (k.st = "set" => k.omax <= k.max)
    BY <1>2, <1>3, <2>1 DEF Shape
  <2>4. /\ k.pc = "select" => k.below = GapsBelow(k, k.min)
        /\ k.pc = "fix" => k.ins \subseteq k.gaps /\ k.rd \subseteq k.gaps /\ k.toLoad = {}
        /\ k.pc = "fix" /\ Fragile(k) => k.gaps = k.rd /\ k.gaps \subseteq k.ins \cup EventIds'
    BY <1>1, <2>1 DEF Shape
  <2>5. ld[n]' = k
    OBVIOUS
  <2> QED
    BY <2>2, <2>3, <2>4, <2>5 DEF Shape, InRun, GapsBelow, Fragile
<1>5. ASSUME NEW d \in Domains, d \in Unloaded(k)
      PROVE  Entry(k, C, F, d) = None
  BY <1>5 DEF Synced
<1>6. ASSUME NEW d \in Domains, d \notin Unloaded(k)
      PROVE  Entry(k, C, F, d) = HostType(d)' \/ k.cast \/ Waits(k, d)' \/ Behind(n, ld[n])'
  <2>1. Entry(k, C, F, d) = HostType(d) \/ k.cast \/ Waits(k, d) \/ Behind(n, k)
    BY <1>6 DEF Synced
  <2>2. CASE Waits(k, d)
    <3>1. PICK i \in Ids : events[i] = d /\ i \notin SeenIds(k)
      BY <2>2 DEF Waits
    <3>2. events'[i] = d
      BY <3>1, DomainSyncAssumption
    <3> QED
      BY <3>1, <3>2 DEF Waits
  <2>3. CASE \E i \in Ids : events'[i] = d /\ i \notin SeenIds(k)
    BY <2>3 DEF Waits
  <2>4. CASE HostType(d)' = HostType(d)
    BY <2>1, <2>2, <2>4
  <2> QED
    BY <1>6, <2>3, <2>4
<1>7. \A d \in Domains : d \notin Unloaded(k) =>
          Entry(k, C, F, d) = HostType(d)' \/ k.cast \/ Waits(ld[n], d)' \/ Behind(n, ld[n])'
  <2>1. \A d \in Domains : Waits(k, d)' => Waits(ld[n], d)'
    BY DEF Waits
  <2> QED
    BY <1>6, <2>1
<1> QED
  BY <1>4, <1>5, <1>7 DEF SyncOf, Synced

\* A step of a loader that adds nothing but dummy events, for its gaps, to the
\* database keeps SyncInv if it is in sync with its new state.
LEMMA LoaderSyncsLog ==
  ASSUME RangeInv, SyncInv, NEW n \in Nodes, NEW k \in Loader, NEW C, NEW F,
         ld' = [ld EXCEPT ![n] = k], SyncOf(n)',
         core' = [core EXCEPT ![n] = C], fresh' = [fresh EXCEPT ![n] = F],
         UNCHANGED <<settings, tx, sched>>,
         \A i \in Ids : events[i] # None => events'[i] = events[i],
         \A i \in EventIds' : i \in EventIds \/ (k.pc = "fix" /\ i \in Open(k)),
         \A m \in Nodes : m # n /\ Behind(m, ld[m]) => AheadOf(k, ld[m].omax)
  PROVE  SyncInv'
<1>1. ld \in [Nodes -> Loader] /\ core \in [Nodes -> [Domains -> HostTypes \cup {None}]]
      /\ fresh \in [Nodes -> SUBSET Domains]
  BY DEF RangeInv, DomTypes, TypeOK
<1>2. /\ \A m \in Nodes : ld'[m] = IF m = n THEN k ELSE ld[m]
      /\ \A m \in Nodes : core'[m] = IF m = n THEN C ELSE core[m]
      /\ \A m \in Nodes : fresh'[m] = IF m = n THEN F ELSE fresh[m]
  BY <1>1
<1>3. EventIds \subseteq EventIds' /\ EventIds' \subseteq Ids
  BY DEF EventIds
<1>4. Kept'
  BY <1>3 DEF SyncInv, Kept
<1>5. \A d \in Domains : HostType(d)' = HostType(d)
  BY DEF HostType
<1>6. ASSUME NEW m \in Nodes, m # n
      PROVE  SyncOf(m)'
  <2> DEFINE l == ld[m]
             A == core[m]
             B == fresh[m]
  <2>1. Synced(m, l, A, B) /\ l \in Loader /\ ld'[m] = l /\ core'[m] = A /\ fresh'[m] = B
    BY <1>1, <1>2, <1>6 DEF SyncInv, SyncOf
  <2>2. ASSUME Behind(m, l)
        PROVE  Behind(m, ld[m])'
    <3>1. AheadOf(k, l.omax)
      BY <1>6, <2>2
    <3>2. \A i \in EventIds' : i > l.omax
      BY <1>3, <2>2, <3>1 DEF Behind, AheadOf
    <3>3. \A j \in Nodes \ {m} : AheadOf(ld'[j], l.omax)
      BY <1>2, <2>2, <3>1 DEF Behind
    <3>4. /\ l.st = "set" /\ l.pc \in {"boot", "check", "idle"} /\ l.omax # 0
          /\ EventIds' # {} /\ \A c \in Clients : tx'[c].id = 0 \/ tx'[c].id > l.omax
      BY <1>3, <2>2 DEF Behind
    <3> HIDE DEF l
    <3> QED
      BY <2>1, <3>2, <3>3, <3>4 DEF Behind
  <2> HIDE DEF l, A, B
  <2> QED
    BY <1>5, <2>1, <2>2, SyncStays DEF l
<1> QED
  BY <1>4, <1>6 DEF SyncInv

\* The same for a step that leaves the database alone.
LEMMA LoaderSyncs ==
  ASSUME RangeInv, SyncInv, NEW n \in Nodes, NEW k \in Loader, NEW C, NEW F,
         Synced(n, k, C, F), ld' = [ld EXCEPT ![n] = k],
         core' = [core EXCEPT ![n] = C], fresh' = [fresh EXCEPT ![n] = F],
         UNCHANGED <<dbVars, clientVars, cleanerVars>>,
         \A m \in Nodes : m # n /\ Behind(m, ld[m]) => AheadOf(k, ld[m].omax)
  PROVE  SyncInv'
<1>1. UNCHANGED <<settings, events, tx, sched>> /\ EventIds' = EventIds
  BY DEF dbVars, clientVars, cleanerVars, EventIds
<1>2. /\ \A m \in Nodes : ld'[m] = IF m = n THEN k ELSE ld[m]
      /\ core'[n] = C /\ fresh'[n] = F
  BY DEF RangeInv, DomTypes, TypeOK
<1>3. \A d \in Domains : HostType(d)' = HostType(d)
  BY <1>1 DEF HostType
<1>4. SyncOf(n)'
  <2>1. ld'[n] = k /\ core'[n] = C /\ fresh'[n] = F
    BY <1>2
  <2>2. ASSUME Behind(n, k)
        PROVE  Behind(n, ld[n])'
    <3>1. \A j \in Nodes \ {n} : AheadOf(ld'[j], k.omax)
      BY <1>2, <2>2 DEF Behind
    <3>2. /\ k.st = "set" /\ k.pc \in {"boot", "check", "idle"} /\ k.omax # 0
          /\ EventIds' # {} /\ \A c \in Clients : tx'[c].id = 0 \/ tx'[c].id > k.omax
          /\ \A i \in EventIds' : i > k.omax
      BY <1>1, <2>2 DEF Behind
    <3> QED
      BY <2>1, <3>1, <3>2 DEF Behind
  <2> QED
    BY <1>1, <1>3, <2>1, <2>2, SyncStays
<1> QED
  BY <1>1, <1>4, LoaderSyncsLog

\* The entries after a page: those of its domains are what the table says.
LEMMA AppliedEntry ==
  ASSUME TypeOK, NEW n \in Nodes, NEW l, NEW D, NEW d \in Domains
  PROVE  Entry(l, Applied(n, D), Inserted(n, D \cap Domains), d) =
            IF d \in D THEN HostType(d) ELSE Entry(l, core[n], fresh[n], d)
<1>1. Applied(n, D)[d] = IF d \in D THEN HostType(d) ELSE core[n][d]
  BY DEF Applied
<1>2. d \in Inserted(n, D \cap Domains) <=> IF d \in D THEN HostType(d) # None ELSE d \in fresh[n]
  BY DEF Inserted
<1> QED
  BY <1>1, <1>2 DEF Entry

\* The ids a run has seen when G are its gaps.
SeenWith(l, G) == (IF l.st = "set" THEN l.omin..l.omax ELSE {}) \cup ((l.min..l.max) \ G)

\* fix_gaps leaves a loader in sync, unless it crashes where it does not recover.
LEMMA FixGapsSyncs ==
  ASSUME NEW n \in Nodes, NEW l \in Loader, NEW G \in SUBSET Ids, NEW left \in 0..Retries,
         NEW C, NEW F, InRun(l), l.max <= MaxId,
         l.st = "set" => l.omax <= MaxId /\ l.omax <= l.max,
         \A d \in Domains : \/ Entry(l, C, F, d) = HostType(d) \/ l.cast
                            \/ \E i \in Ids : events[i] = d /\ i \notin SeenWith(l, G),
         left = 0 /\ (l.cast \/ l.st = "undefined") => G = {},
         FixGaps(n, l, G, left, C, F)
  PROVE  \E k \in Loader : \E A, B :
            /\ ld' = [ld EXCEPT ![n] = k]
            /\ core' = [core EXCEPT ![n] = A] /\ fresh' = [fresh EXCEPT ![n] = B]
            /\ Synced(n, k, A, B)
            /\ \A x \in Nat : AheadOf(l, x) /\ (\A i \in G : i > x) => AheadOf(k, x)
<1> USE DomainSyncAssumption
<1>1. CASE G = {}
  <2> DEFINE k == [Idle EXCEPT !.pc = IF l.st # "set" \/ l.more THEN "check" ELSE "idle",
                               !.st = "set", !.omin = l.min, !.omax = l.max,
                               !.cast = l.cast]
             A == [d \in Domains |-> IF l.st # "reset" \/ d \in F THEN C[d] ELSE None]
  <2>1. EndRun(n, l, C, F)
    BY <1>1 DEF FixGaps
  <2>2. ld' = [ld EXCEPT ![n] = k] /\ core' = [core EXCEPT ![n] = A]
        /\ fresh' = [fresh EXCEPT ![n] = F]
    BY <2>1 DEF EndRun
  <2>3. k \in Loader /\ k.pc \in {"check", "idle"} /\ k.st = "set"
        /\ k.omin = l.min /\ k.omax = l.max /\ k.cast = l.cast
    BY IdleTypes DEF Loader
  <2>4. \A d \in Domains : A[d] = Entry(l, C, F, d)
    BY DEF Entry
  <2> HIDE DEF k, A
  <2>5. Open(k) = {} /\ ~ InRun(k) /\ Unloaded(k) = {}
    BY <2>3 DEF Open, InRun, Unloaded
  <2>6. Shape(k)
    BY <2>3, <2>5 DEF Shape
  <2>7. SeenIds(k) = l.min..l.max
    BY <2>3 DEF SeenIds
  <2>8. \A i \in Ids : i \notin SeenWith(l, G) => i \notin SeenIds(k)
    BY <1>1, <2>7 DEF SeenWith
  <2>9. \A d \in Domains : Entry(k, A, F, d) = A[d]
    BY <2>3 DEF Entry
  <2>10. Synced(n, k, A, F)
    BY <2>3, <2>4, <2>5, <2>6, <2>8, <2>9 DEF Synced, Waits
  <2>11. \A x \in Nat : AheadOf(l, x) => AheadOf(k, x)
    BY <2>3, <2>5 DEF AheadOf
  <2> QED
    BY <2>2, <2>3, <2>10, <2>11
<1>2. CASE G # {} /\ left = 0
  <2> DEFINE k == Restarted(l)
             B == {}
  <2>1. ld' = [ld EXCEPT ![n] = k] /\ core' = [core EXCEPT ![n] = C]
        /\ fresh' = [fresh EXCEPT ![n] = B]
    BY <1>2 DEF FixGaps
  <2>2. k \in Loader /\ k.pc = "boot" /\ k.st = l.st
        /\ k.omin = l.omin /\ k.omax = l.omax
    BY IdleTypes DEF Restarted, Loader
  <2>3. ~ l.cast /\ l.st \in {"reset", "set"}
    BY <1>2 DEF Loader
  <2>4. B = {}
    OBVIOUS
  <2> HIDE DEF k, B
  <2>5. Open(k) = {} /\ ~ InRun(k)
    BY <2>2 DEF Open, InRun
  <2>6. Shape(k)
    BY <2>2, <2>5 DEF Shape
  <2>7. \A x \in Nat : AheadOf(l, x) => AheadOf(k, x)
    BY <2>2, <2>5 DEF AheadOf
  <2>8. Synced(n, k, C, B)
    <3>1. CASE l.st = "reset"
      <4>1. Unloaded(k) = Domains /\ \A d \in Domains : Entry(k, C, B, d) = None
        BY <2>2, <2>4, <3>1 DEF Unloaded, Entry
      <4> QED
        BY <2>6, <4>1 DEF Synced
    <3>2. CASE l.st = "set"
      <4>1. Unloaded(k) = {} /\ \A d \in Domains : Entry(k, C, B, d) = Entry(l, C, F, d)
        BY <2>2, <3>2 DEF Unloaded, Entry
      <4>2. \A i \in Ids : i \notin SeenWith(l, G) => i \notin SeenIds(k)
        BY <2>2, <3>2 DEF SeenWith, SeenIds
      <4> QED
        BY <2>3, <2>6, <4>1, <4>2 DEF Synced, Waits
    <3> QED
      BY <2>3, <3>1, <3>2
  <2> QED
    BY <2>1, <2>2, <2>7, <2>8
<1>3. CASE G # {} /\ left # 0
  <2> DEFINE k == [l EXCEPT !.pc = "fix", !.gaps = G, !.ins = G, !.rd = G,
                            !.left = left - 1, !.below = {}, !.toLoad = {}]
  <2>1. ld' = [ld EXCEPT ![n] = k] /\ core' = [core EXCEPT ![n] = C]
        /\ fresh' = [fresh EXCEPT ![n] = F]
    BY <1>3 DEF FixGaps
  <2>2. left - 1 \in 0..Retries
    BY <1>3
  <2>3. k \in Loader /\ k.pc = "fix" /\ k.gaps = G /\ k.ins = G /\ k.rd = G /\ k.st = l.st
        /\ k.min = l.min /\ k.max = l.max /\ k.omin = l.omin /\ k.omax = l.omax
        /\ k.cast = l.cast /\ k.toLoad = {}
    BY <2>2 DEF Loader
  <2> HIDE DEF k
  <2>4. Open(k) = G /\ InRun(k) /\ Unloaded(k) = {}
    BY <2>3 DEF Open, InRun, Unloaded
  <2>5. Shape(k)
    BY <2>3, <2>4 DEF Shape
  <2>6. SeenIds(k) = SeenWith(l, G)
    BY <2>3 DEF SeenIds, RunIds, SeenWith
  <2>7. \A d \in Domains : Entry(k, C, F, d) = Entry(l, C, F, d)
    BY <2>3 DEF Entry
  <2>8. Synced(n, k, C, F)
    BY <2>3, <2>4, <2>5, <2>6, <2>7 DEF Synced, Waits
  <2>9. \A x \in Nat : AheadOf(l, x) /\ (\A i \in G : i > x) => AheadOf(k, x)
    BY <2>3, <2>4 DEF AheadOf
  <2> QED
    BY <2>1, <2>3, <2>8, <2>9
<1> QED
  BY <1>1, <1>2, <1>3

\* A node that is behind knows of no id up to its last one.
LEMMA BehindOf ==
  ASSUME RangeInv, NEW n \in Nodes, NEW m \in Nodes, m # n, Behind(m, ld[m])
  PROVE  /\ AheadOf(ld[n], ld[m].omax) /\ ld[m].omax \in Nat
         /\ MinId > ld[m].omax /\ MaxId > ld[m].omax /\ EventIds # {}
         /\ \A i \in EventIds : i > ld[m].omax
<1>1. AheadOf(ld[n], ld[m].omax) /\ EventIds # {} /\ \A i \in EventIds : i > ld[m].omax
  BY DEF Behind
<1>2. ld[m].omax \in Nat
  BY LoaderIs DEF RangeInv, DomTypes, TypeOK
<1>3. MinId \in EventIds /\ MaxId \in EventIds
  BY <1>1, LogEnds
<1> QED
  BY <1>1, <1>2, <1>3

\* A step that leaves the core alone.
LEMMA SameCore ==
  ASSUME RangeInv, NEW n \in Nodes, UNCHANGED <<core, fresh>>
  PROVE  core' = [core EXCEPT ![n] = core[n]] /\ fresh' = [fresh EXCEPT ![n] = fresh[n]]
  BY DEF RangeInv, DomTypes, TypeOK

\* The cold load stays in sync: what changes after a row was read has an event
\* that is new or a gap.
LEMMA SyncInitialLoad ==
  ASSUME RangeInv, SyncInv, NEW n \in Nodes, InitialLoad(n)
  PROVE  SyncInv'
<1> DEFINE l == ld[n]
           C == core[n]
           F == fresh[n]
           k == IF l.st = "set" THEN [l EXCEPT !.pc = "check"]
                ELSE [l EXCEPT !.pc = "gaps", !.min = MinId, !.max = MaxId]
<1>1. l \in Loader /\ Synced(n, l, C, F) /\ Shape(l)
  BY DEF RangeInv, DomTypes, TypeOK, SyncInv, SyncOf, Synced
<1>2. /\ l.pc = "boot" /\ ld' = [ld EXCEPT ![n] = k]
      /\ UNCHANGED <<core, fresh>> /\ UNCHANGED <<dbVars, clientVars, cleanerVars>>
  BY DEF InitialLoad, LoaderOnly
<1>3. k \in Loader /\ k.omin = l.omin /\ k.omax = l.omax /\ k.st = l.st /\ k.cast = l.cast
      /\ (l.st = "set" => k.pc = "check")
      /\ (l.st # "set" => k.pc = "gaps" /\ k.min = MinId /\ k.max = MaxId)
  BY <1>1, LogEnds DEF Loader
<1>4. core' = [core EXCEPT ![n] = C] /\ fresh' = [fresh EXCEPT ![n] = F]
  BY <1>2, SameCore
<1> HIDE DEF k, C, F
<1>5. MaxId \in Nat /\ MinId \in Nat /\ l.omax \in Nat
  BY <1>1, LogEnds, LoaderIs, DomainSyncAssumption
<1>6. Shape(k)
  BY <1>1, <1>3, <1>5 DEF Shape, InRun
<1>7. Unloaded(k) = Unloaded(l) /\ \A d : Entry(k, C, F, d) = Entry(l, C, F, d)
  BY <1>2, <1>3 DEF Unloaded, Entry
<1>8. Synced(n, k, C, F)
  <2>1. CASE l.st = "set"
    <3>1. SeenIds(k) = SeenIds(l)
      BY <1>2, <1>3, <2>1 DEF SeenIds
    <3>2. Behind(n, l) => Behind(n, k)
      BY <1>3, <2>1 DEF Behind
    <3> QED
      BY <1>1, <1>3, <1>6, <1>7, <3>1, <3>2 DEF Synced, Waits
  <2>2. CASE l.st # "set"
    <3>1. Unloaded(k) = Domains
      BY <1>3, <2>2 DEF Unloaded
    <3> QED
      BY <1>1, <1>6, <1>7, <3>1 DEF Synced
  <2> QED
    BY <2>1, <2>2
<1>9. ASSUME NEW m \in Nodes, m # n, Behind(m, ld[m])
      PROVE  AheadOf(k, ld[m].omax)
  <2> DEFINE x == ld[m].omax
  <2>1. AheadOf(l, x) /\ x \in Nat /\ MinId > x /\ MaxId > x
    BY <1>9, BehindOf
  <2> SUFFICES AheadOf(k, x)
    OBVIOUS
  <2> HIDE DEF x
  <2>2. CASE l.st = "set"
    BY <1>3, <2>1, <2>2 DEF AheadOf, InRun, Open
  <2>3. CASE l.st # "set"
    <3>1. Open(k) = MinId..MaxId
      BY <1>3, <2>3 DEF Open
    <3>2. \A i \in Ids : i \in Open(k) => i > x
      BY <1>5, <2>1, <3>1
    <3> QED
      BY <1>3, <2>1, <2>3, <3>2 DEF AheadOf
  <2> QED
    BY <2>2, <2>3
<1> HIDE DEF l
<1> QED
  BY <1>2, <1>3, <1>4, <1>8, <1>9, LoaderSyncs

LEMMA SyncColdGaps ==
  ASSUME RangeInv, SyncInv, NEW n \in Nodes, ColdGaps(n)
  PROVE  SyncInv'
<1> DEFINE l == ld[n]
           C == core[n]
           F == fresh[n]
           G == IF l.min = 0 THEN {} ELSE (l.min..l.max) \ EventIds
           k == [l EXCEPT !.pc = "load", !.toLoad = Domains, !.gaps = G]
<1>1. l \in Loader /\ Synced(n, l, C, F) /\ Shape(l)
  BY DEF RangeInv, DomTypes, TypeOK, SyncInv, SyncOf, Synced
<1>2. /\ l.pc = "gaps" /\ ld' = [ld EXCEPT ![n] = k]
      /\ UNCHANGED <<core, fresh>> /\ UNCHANGED <<dbVars, clientVars, cleanerVars>>
  BY DEF ColdGaps, LoaderOnly
<1>3. G \in SUBSET Ids /\ G \subseteq l.min..l.max
  BY <1>1, DomainSyncAssumption DEF Loader, Ids
<1> HIDE DEF G
<1>4. k \in Loader /\ k.pc = "load" /\ k.gaps = G /\ k.min = l.min /\ k.max = l.max
      /\ k.omin = l.omin /\ k.omax = l.omax /\ k.st = l.st /\ k.toLoad = Domains
  BY <1>1, <1>3 DEF Loader
<1>5. core' = [core EXCEPT ![n] = C] /\ fresh' = [fresh EXCEPT ![n] = F]
  BY <1>2, SameCore
<1> HIDE DEF k, C, F
<1>6. l.st # "set"
  BY <1>1, <1>2 DEF Shape
<1>7. Shape(k)
  BY <1>1, <1>2, <1>4, <1>6 DEF Shape, InRun
<1>8. Unloaded(k) = Domains /\ Unloaded(l) = Domains
      /\ \A d : Entry(k, C, F, d) = Entry(l, C, F, d)
  BY <1>2, <1>4, <1>6 DEF Unloaded, Entry
<1>9. Synced(n, k, C, F)
  BY <1>1, <1>7, <1>8 DEF Synced
<1>10. ASSUME NEW m \in Nodes, m # n, Behind(m, ld[m])
       PROVE  AheadOf(k, ld[m].omax)
  <2> DEFINE x == ld[m].omax
  <2>1. AheadOf(l, x)
    BY <1>10, BehindOf
  <2>2. Open(k) = G /\ Open(l) = l.min..l.max /\ InRun(k) /\ InRun(l)
    BY <1>2, <1>4 DEF Open, InRun
  <2> HIDE DEF x, l
  <2> QED
    BY <1>3, <1>4, <2>1, <2>2 DEF AheadOf, x
<1> HIDE DEF l
<1> QED
  BY <1>2, <1>4, <1>5, <1>9, <1>10, LoaderSyncs

LEMMA SyncLoadRow ==
  ASSUME RangeInv, SyncInv, NEW n \in Nodes, LoadRow(n)
  PROVE  SyncInv'
<1> DEFINE l == ld[n]
<1>1. l \in Loader /\ Synced(n, l, core[n], fresh[n]) /\ Shape(l) /\ ld \in [Nodes -> Loader]
      /\ TypeOK
  BY DEF RangeInv, DomTypes, TypeOK, SyncInv, SyncOf, Synced
<1>2. PICK d \in Domains :
         /\ ld' = [ld EXCEPT ![n].toLoad = @ \ {d}]
         /\ IF HostType(d) = None THEN UNCHANGED <<core, fresh>>
            ELSE /\ core' = [core EXCEPT ![n] = Applied(n, {d})]
                 /\ fresh' = [fresh EXCEPT ![n] = Inserted(n, {d})]
  BY DEF LoadRow
<1> DEFINE k == [l EXCEPT !.toLoad = @ \ {d}]
           C == IF HostType(d) = None THEN core[n] ELSE Applied(n, {d})
           F == IF HostType(d) = None THEN fresh[n] ELSE Inserted(n, {d})
<1>3. l.pc = "load" /\ ld' = [ld EXCEPT ![n] = k] /\ UNCHANGED <<dbVars, clientVars, cleanerVars>>
  BY <1>1, <1>2 DEF LoadRow, LoaderOnly
<1>4. k \in Loader /\ k.pc = l.pc /\ k.gaps = l.gaps /\ k.min = l.min /\ k.max = l.max
      /\ k.omin = l.omin /\ k.omax = l.omax /\ k.st = l.st /\ k.toLoad = l.toLoad \ {d}
      /\ k.cast = l.cast
  BY <1>1 DEF Loader
<1>5. core' = [core EXCEPT ![n] = C] /\ fresh' = [fresh EXCEPT ![n] = F]
  <2>1. CASE HostType(d) = None
    BY <1>2, <2>1, SameCore
  <2>2. CASE HostType(d) # None
    BY <1>2, <2>2
  <2> QED
    BY <2>1, <2>2
<1>6. \A e \in Domains : Entry(l, C, F, e) =
         IF e = d /\ HostType(d) # None THEN HostType(d) ELSE Entry(l, core[n], fresh[n], e)
  <2>1. CASE HostType(d) = None
    BY <2>1
  <2>2. CASE HostType(d) # None
    <3> DEFINE D == {d}
    <3>1. D \cap Domains = {d} /\ \A e : e \in D <=> e = d
      OBVIOUS
    <3>2. C = Applied(n, D) /\ F = Inserted(n, D \cap Domains)
      BY <2>2, <3>1
    <3> HIDE DEF D, C, F, l
    <3>3. \A e \in Domains : Entry(l, C, F, e) =
             IF e \in D THEN HostType(e) ELSE Entry(l, core[n], fresh[n], e)
      BY <1>1, <3>2, AppliedEntry
    <3> QED
      BY <2>2, <3>1, <3>3
  <2> QED
    BY <2>1, <2>2
<1> HIDE DEF k, C, F
<1>7. l.st # "set"
  BY <1>1, <1>3 DEF Shape
<1>8. Shape(k)
  BY <1>1, <1>3, <1>4, <1>7 DEF Shape, InRun
<1>9. Unloaded(k) = Unloaded(l) \ {d}
      /\ \A e \in Domains : Entry(k, C, F, e) = Entry(l, C, F, e)
  BY <1>3, <1>4, <1>7 DEF Unloaded, Entry
<1>10. SeenIds(k) = SeenIds(l)
  BY <1>3, <1>4, <1>7 DEF SeenIds, RunIds
<1>11. ~ Behind(n, l)
  BY <1>7 DEF Behind
<1>12. ASSUME NEW e \in Domains, e \in Unloaded(k)
       PROVE  Entry(k, C, F, e) = None
  BY <1>1, <1>6, <1>9, <1>12 DEF Synced
<1>13. ASSUME NEW e \in Domains, e \notin Unloaded(k)
       PROVE  Entry(k, C, F, e) = HostType(e) \/ k.cast \/ Waits(k, e)
  <2>1. CASE e \notin Unloaded(l)
    <3>1. Entry(l, core[n], fresh[n], e) = HostType(e) \/ l.cast \/ Waits(l, e)
      BY <1>1, <1>11, <2>1 DEF Synced
    <3>2. Waits(k, e) <=> Waits(l, e)
      BY <1>10 DEF Waits
    <3> QED
      BY <1>4, <1>6, <1>9, <3>1, <3>2
  <2>2. CASE e \in Unloaded(l)
    <3>1. e = d /\ Entry(l, core[n], fresh[n], e) = None
      BY <1>1, <1>9, <1>13, <2>2 DEF Synced
    <3> QED
      BY <1>6, <1>9, <3>1
  <2> QED
    BY <2>1, <2>2
<1>14. Synced(n, k, C, F)
  BY <1>8, <1>12, <1>13 DEF Synced
<1>15. ASSUME NEW m \in Nodes, m # n, Behind(m, ld[m])
       PROVE  AheadOf(k, ld[m].omax)
  <2> DEFINE x == ld[m].omax
  <2>1. AheadOf(l, x)
    BY <1>15, BehindOf
  <2>2. Open(k) = Open(l) /\ InRun(k) /\ InRun(l)
    BY <1>3, <1>4 DEF Open, InRun
  <2> HIDE DEF x, l
  <2> QED
    BY <1>4, <2>1, <2>2 DEF AheadOf, x
<1> HIDE DEF l
<1> QED
  BY <1>3, <1>4, <1>5, <1>14, <1>15, LoaderSyncs

LEMMA SyncLoadEnds ==
  ASSUME RangeInv, SyncInv, NEW n \in Nodes, LoadDone(n) \/ LoadFails(n)
  PROVE  SyncInv'
<1> USE DomainSyncAssumption
<1> DEFINE l == ld[n]
           u == IF LoadDone(n) THEN l ELSE [l EXCEPT !.cast = TRUE]
           C == core[n]
           F == fresh[n]
           G == l.gaps
<1>1. l \in Loader /\ Synced(n, l, C, F) /\ Shape(l)
  BY DEF RangeInv, DomTypes, TypeOK, SyncInv, SyncOf, Synced
<1>2. /\ l.pc = "load" /\ FixGaps(n, u, G, Retries, C, F)
      /\ UNCHANGED <<dbVars, clientVars, cleanerVars>>
      /\ u.cast \/ l.toLoad = {}
  BY <1>1 DEF LoadDone, LoadFails, LoaderOnly, Loader
<1>3. u \in Loader /\ u.pc = "load" /\ u.min = l.min /\ u.max = l.max
      /\ u.st = l.st /\ u.omin = l.omin /\ u.omax = l.omax /\ u.gaps = l.gaps
      /\ (l.cast => u.cast)
  BY <1>1, <1>2 DEF Loader
<1> HIDE DEF u, C, F
<1>4. l.st # "set" /\ InRun(u) /\ InRun(l) /\ l.max <= MaxId
  BY <1>1, <1>2, <1>3 DEF Shape, InRun
<1>5. \A d \in Domains : \/ Entry(u, C, F, d) = HostType(d) \/ u.cast
                         \/ \E i \in Ids : events[i] = d /\ i \notin SeenWith(u, G)
  <2> SUFFICES ASSUME NEW d \in Domains, ~ u.cast
               PROVE  \/ Entry(u, C, F, d) = HostType(d)
                      \/ \E i \in Ids : events[i] = d /\ i \notin SeenWith(u, G)
    OBVIOUS
  <2>1. l.toLoad = {} /\ ~ l.cast
    BY <1>2, <1>3
  <2>2. d \notin Unloaded(l)
    BY <1>2, <1>4, <2>1 DEF Unloaded
  <2>3. ~ Behind(n, l)
    BY <1>4 DEF Behind
  <2>4. Entry(l, C, F, d) = HostType(d) \/ Waits(l, d)
    BY <1>1, <2>1, <2>2, <2>3 DEF Synced
  <2>5. SeenIds(l) = SeenWith(u, G) /\ Entry(u, C, F, d) = Entry(l, C, F, d)
    BY <1>3, <1>4 DEF SeenIds, RunIds, SeenWith, Entry
  <2> QED
    BY <2>4, <2>5 DEF Waits
<1>6. G \in SUBSET Ids /\ Retries \in 0..Retries /\ Retries # 0
  BY <1>1, LoaderIs
<1> HIDE DEF G
<1>7. PICK k \in Loader : \E A, B :
         /\ ld' = [ld EXCEPT ![n] = k]
         /\ core' = [core EXCEPT ![n] = A] /\ fresh' = [fresh EXCEPT ![n] = B]
         /\ Synced(n, k, A, B)
         /\ \A x \in Nat : AheadOf(u, x) /\ (\A i \in G : i > x) => AheadOf(k, x)
  BY <1>2, <1>3, <1>4, <1>5, <1>6, FixGapsSyncs
<1>8. PICK A, B :
         /\ ld' = [ld EXCEPT ![n] = k]
         /\ core' = [core EXCEPT ![n] = A] /\ fresh' = [fresh EXCEPT ![n] = B]
         /\ Synced(n, k, A, B)
         /\ \A x \in Nat : AheadOf(u, x) /\ (\A i \in G : i > x) => AheadOf(k, x)
  BY <1>7
<1>9. ASSUME NEW m \in Nodes, m # n, Behind(m, ld[m])
      PROVE  AheadOf(k, ld[m].omax)
  <2> DEFINE x == ld[m].omax
  <2>1. AheadOf(l, x) /\ x \in Nat
    BY <1>9, BehindOf
  <2> SUFFICES AheadOf(k, x)
    OBVIOUS
  <2> HIDE DEF x
  <2>2. Open(u) = G /\ Open(l) = G
    BY <1>2, <1>3 DEF Open, G
  <2>3. AheadOf(u, x) /\ \A i \in G : i > x
    BY <1>3, <1>4, <1>6, <2>1, <2>2 DEF AheadOf
  <2> QED
    BY <1>8, <2>1, <2>3
<1> QED
  BY <1>2, <1>8, <1>9, LoaderSyncs

\* check_for_updates finds out when the node is behind, and asks for a restart.
LEMMA SyncCheck ==
  ASSUME RangeInv, SyncInv, NEW n \in Nodes, CheckForUpdates(n)
  PROVE  SyncInv'
<1> USE DomainSyncAssumption
<1> DEFINE l == ld[n]
           C == core[n]
           F == fresh[n]
           max == LimitMaxId(l.omax, MinId, MaxId)
           late == l.omax # 0 /\ l.omax < MinId
           k1 == [l EXCEPT !.pc = "idle"]
           k2 == [l EXCEPT !.pc = "select", !.min = MinId, !.max = max,
                           !.more = max < MaxId, !.below = GapsBelow(l, MinId),
                           !.cast = @ \/ late]
           k == IF MaxId = 0 \/ (MinId = l.omin /\ MaxId = l.omax) THEN k1 ELSE k2
<1>1. l \in Loader /\ Synced(n, l, C, F) /\ Shape(l) /\ Fits(l)
  BY DEF RangeInv, DomTypes, TypeOK, SyncInv, SyncOf, Synced
<1>2. /\ l.pc \in {"check", "idle"} /\ ld' = [ld EXCEPT ![n] = k]
      /\ UNCHANGED <<core, fresh>> /\ UNCHANGED <<dbVars, clientVars, cleanerVars>>
  BY DEF CheckForUpdates, LoaderOnly
<1>3. l.st = "set" /\ l.omax <= MaxId
  BY <1>1, <1>2 DEF Fits, Shape
<1>4. l.omin \in 0..MaxEventId /\ l.omax \in 0..MaxEventId /\ MinId \in 0..MaxEventId
      /\ MaxId \in 0..MaxEventId
  BY <1>1, LogEnds DEF Loader
<1>5. core' = [core EXCEPT ![n] = C] /\ fresh' = [fresh EXCEPT ![n] = F]
  BY <1>2, SameCore
<1> HIDE DEF C, F
<1>6. Unloaded(l) = {}
  BY <1>3 DEF Unloaded
<1>7. CASE k = k1
  <2>1. k \in Loader /\ k.pc = "idle" /\ k.st = l.st /\ k.omin = l.omin /\ k.omax = l.omax
        /\ k.cast = l.cast
    BY <1>1, <1>7 DEF Loader
  <2> HIDE DEF k
  <2>2. Shape(k)
    BY <1>1, <1>3, <2>1 DEF Shape, InRun
  <2>3. Unloaded(k) = {} /\ SeenIds(k) = SeenIds(l) /\ \A d : Entry(k, C, F, d) = Entry(l, C, F, d)
    BY <1>2, <1>3, <2>1 DEF Unloaded, SeenIds, Entry
  <2>4. Behind(n, l) => Behind(n, k)
    BY <2>1 DEF Behind
  <2>5. Synced(n, k, C, F)
    BY <1>1, <1>6, <2>1, <2>2, <2>3, <2>4 DEF Synced, Waits
  <2>6. ASSUME NEW m \in Nodes, m # n, Behind(m, ld[m])
        PROVE  AheadOf(k, ld[m].omax)
    <3> DEFINE x == ld[m].omax
    <3>1. AheadOf(l, x)
      BY <2>6, BehindOf
    <3>2. Open(k) = {} /\ ~ InRun(k)
      BY <2>1 DEF Open, InRun
    <3> HIDE DEF x, l
    <3> QED
      BY <2>1, <3>1, <3>2 DEF AheadOf, x
  <2> HIDE DEF l
  <2> QED
    BY <1>2, <1>5, <2>1, <2>5, <2>6, LoaderSyncs
<1>8. CASE k = k2 /\ MaxId # 0
  <2>1. MinId \in 1..MaxEventId /\ MaxId \in 1..MaxEventId /\ MinId <= MaxId /\ EventIds # {}
    BY <1>8, LogEnds
  <2>2. max \in 0..MaxEventId /\ max <= MaxId /\ l.omax <= max /\ (max < MaxId => max > l.omax)
    BY <1>3, <1>4, <2>1 DEF LimitMaxId
  <2>3. GapsBelow(l, MinId) \in SUBSET Ids
    BY <1>4, <2>1 DEF GapsBelow, Ids
  <2>4. PICK more \in BOOLEAN, cast \in BOOLEAN :
          /\ k2 = [l EXCEPT !.pc = "select", !.min = MinId, !.max = max,
                            !.more = more, !.below = GapsBelow(l, MinId), !.cast = cast]
          /\ cast = (l.cast \/ late)
    <3>1. (max < MaxId) \in BOOLEAN /\ (l.cast \/ late) \in BOOLEAN
      OBVIOUS
    <3> QED
      BY <3>1, Zenon
  <2>5. k = k2
    BY <1>8
  <2> HIDE DEF l, max, k2, k, late
  <2>6. k \in Loader
        /\ k.pc = "select" /\ k.min = MinId /\ k.max = max /\ k.below = GapsBelow(l, MinId)
        /\ k.st = l.st /\ k.omin = l.omin /\ k.omax = l.omax /\ k.cast = cast
    <3>1. l \in Loader /\ MinId \in 0..MaxEventId /\ max \in 0..MaxEventId
      BY <1>1, <2>1, <2>2
    <3> QED
      BY <2>3, <2>4, <2>5, <3>1 DEF Loader
  <2>7. Shape(k)
    <3>1. k.below = GapsBelow(k, k.min)
      BY <2>6 DEF GapsBelow
    <3> QED
      BY <1>3, <2>2, <2>6, <3>1 DEF Shape
  <2>8. Unloaded(k) = {} /\ SeenIds(k) = SeenIds(l) /\ \A d : Entry(k, C, F, d) = Entry(l, C, F, d)
    BY <1>2, <1>3, <2>6 DEF Unloaded, SeenIds, Entry
  <2>9. Behind(n, l) => k.cast
    <3>1. Behind(n, l) => l.omax # 0 /\ \A i \in EventIds : i > l.omax
      BY DEF Behind
    <3>2. MinId \in EventIds
      BY <2>1, LogEnds
    <3>3. Behind(n, l) => late
      BY <1>4, <3>1, <3>2 DEF late
    <3> QED
      BY <2>4, <2>6, <3>3
  <2>10. l.cast => k.cast
    BY <2>4, <2>6
  <2>11. Synced(n, k, C, F)
    BY <1>1, <1>6, <2>7, <2>8, <2>9, <2>10 DEF Synced, Waits
  <2>12. ASSUME NEW m \in Nodes, m # n, Behind(m, ld[m])
         PROVE  AheadOf(k, ld[m].omax)
    <3> DEFINE x == ld[m].omax
    <3>1. AheadOf(l, x) /\ x \in Nat /\ MinId > x /\ MaxId > x
      BY <2>12, BehindOf DEF l
    <3> SUFFICES AheadOf(k, x)
      OBVIOUS
    <3> HIDE DEF x
    <3>2. l.omax > x
      BY <1>3, <3>1 DEF AheadOf
    <3>3. max > x
      BY <1>4, <2>2, <3>1, <3>2
    <3>4. Open(k) = GapsBelow(l, MinId) \cup ((IF l.omax = 0 THEN MinId ELSE l.omax + 1)..max)
      BY <2>6 DEF Open, PageIds
    <3>5. ASSUME NEW i \in Ids, i \in Open(k)
          PROVE  i > x
      <4>1. i \in Nat
        BY DEF Ids
      <4>2. CASE i \in GapsBelow(l, MinId)
        BY <1>4, <2>1, <3>1, <4>1, <4>2 DEF GapsBelow
      <4>3. CASE i \in (IF l.omax = 0 THEN MinId ELSE l.omax + 1)..max
        BY <1>4, <2>1, <2>2, <3>1, <3>2, <4>1, <4>3
      <4> QED
        BY <3>4, <3>5, <4>2, <4>3
    <3> QED
      BY <2>6, <3>2, <3>3, <3>5 DEF AheadOf
  <2> QED
    BY <1>2, <1>5, <2>6, <2>11, <2>12, LoaderSyncs
<1> QED
  BY <1>7, <1>8

\* The page and the gaps leave out no id of the new range but those that were read.
LEMMA SyncPage ==
  ASSUME RangeInv, SyncInv, NEW n \in Nodes, FetchPage(n)
  PROVE  SyncInv'
<1> USE DomainSyncAssumption
<1> DEFINE l == ld[n]
           D == {events[i] : i \in PageIds(l) \cap EventIds}
           G == l.below \cup (PageIds(l) \ EventIds)
           C == Applied(n, D)
           F == Inserted(n, D \cap Domains)
<1>1. l \in Loader /\ Synced(n, l, core[n], fresh[n]) /\ Shape(l) /\ Fits(l) /\ TypeOK
  BY DEF RangeInv, DomTypes, TypeOK, SyncInv, SyncOf, Synced
<1>2. /\ l.pc = "select" /\ FixGaps(n, l, G, Retries, C, F)
      /\ UNCHANGED <<dbVars, clientVars, cleanerVars>>
  BY DEF FetchPage, LoaderOnly
<1>3. /\ l.st = "set" /\ l.min # 0 /\ l.below = GapsBelow(l, l.min)
      /\ InRun(l) /\ l.max <= MaxId /\ l.omax <= MaxId /\ l.omax <= l.max
  BY <1>1, <1>2 DEF Fits, Shape, InRun
<1>4. /\ l.min \in 0..MaxEventId /\ l.max \in 0..MaxEventId /\ l.omax \in 0..MaxEventId
      /\ l.omin \in 0..MaxEventId /\ l.below \subseteq Ids
  BY <1>1 DEF Loader
<1>5. G \in SUBSET Ids /\ PageIds(l) = (IF l.omax = 0 THEN l.min ELSE l.omax + 1)..l.max
  BY <1>3, <1>4 DEF PageIds, Ids
<1>6. \A d \in Domains : Entry(l, C, F, d) =
            IF d \in D THEN HostType(d) ELSE Entry(l, core[n], fresh[n], d)
  <2> HIDE DEF l, D
  <2> QED
    BY <1>1, AppliedEntry
<1>7. SeenIds(l) = l.omin..l.omax /\ Unloaded(l) = {} /\ ~ Behind(n, l)
  BY <1>2, <1>3 DEF SeenIds, Unloaded, Behind
<1>8. ASSUME NEW i \in Ids, i \notin SeenIds(l), ~ (i \in PageIds(l) /\ i \in EventIds)
      PROVE  i \notin SeenWith(l, G)
  <2> SUFFICES ASSUME i \in l.min..l.max
               PROVE  i \in G
    BY <1>3, <1>7, <1>8 DEF SeenWith
  <2>1. CASE l.omax = 0
    BY <1>5, <1>8, <2>1
  <2>2. CASE l.omax # 0 /\ i > l.omax
    BY <1>4, <1>5, <1>8, <2>2
  <2>3. CASE l.omax # 0 /\ i < l.omin
    <3>1. i \in l.min..l.omin /\ l.min < l.omin
      BY <1>4, <2>3
    <3>2. l.below = l.min..l.omin
      BY <1>3, <1>4, <2>3, <3>1 DEF GapsBelow
    <3> QED
      BY <3>1, <3>2
  <2>4. i > l.omax \/ i < l.omin
    BY <1>4, <1>7, <1>8 DEF Ids
  <2> QED
    BY <2>1, <2>2, <2>3, <2>4
<1>9. \A d \in Domains : \/ Entry(l, C, F, d) = HostType(d) \/ l.cast
                         \/ \E i \in Ids : events[i] = d /\ i \notin SeenWith(l, G)
  <2> SUFFICES ASSUME NEW d \in Domains, d \notin D, ~ l.cast,
                      Entry(l, core[n], fresh[n], d) # HostType(d)
               PROVE  \E i \in Ids : events[i] = d /\ i \notin SeenWith(l, G)
    BY <1>6
  <2>1. Waits(l, d)
    BY <1>1, <1>7 DEF Synced
  <2>2. PICK i \in Ids : events[i] = d /\ i \notin SeenIds(l)
    BY <2>1 DEF Waits
  <2>3. ~ (i \in PageIds(l) /\ i \in EventIds)
    BY <2>2
  <2> QED
    BY <1>8, <2>2, <2>3
<1>10. Retries \in 0..Retries /\ (Retries = 0 /\ (l.cast \/ l.st = "undefined") => G = {})
  OBVIOUS
<1>11. \A i \in G : i \in Ids /\ i \in Open(l)
  BY <1>2, <1>5 DEF Open
<1> HIDE DEF l, G, C, F, D
<1>12. PICK k \in Loader : \E A, B :
         /\ ld' = [ld EXCEPT ![n] = k]
         /\ core' = [core EXCEPT ![n] = A] /\ fresh' = [fresh EXCEPT ![n] = B]
         /\ Synced(n, k, A, B)
         /\ \A x \in Nat : AheadOf(l, x) /\ (\A i \in G : i > x) => AheadOf(k, x)
  BY <1>1, <1>2, <1>3, <1>5, <1>9, <1>10, FixGapsSyncs
<1>13. PICK A, B :
         /\ ld' = [ld EXCEPT ![n] = k]
         /\ core' = [core EXCEPT ![n] = A] /\ fresh' = [fresh EXCEPT ![n] = B]
         /\ Synced(n, k, A, B)
         /\ \A x \in Nat : AheadOf(l, x) /\ (\A i \in G : i > x) => AheadOf(k, x)
  BY <1>12
<1>14. ASSUME NEW m \in Nodes, m # n, Behind(m, ld[m])
       PROVE  AheadOf(k, ld[m].omax)
  <2> DEFINE x == ld[m].omax
  <2>1. AheadOf(l, x) /\ x \in Nat
    BY <1>14, BehindOf DEF l
  <2> SUFFICES AheadOf(k, x)
    OBVIOUS
  <2> HIDE DEF x
  <2>2. \A i \in G : i > x
    BY <1>11, <2>1 DEF AheadOf
  <2> QED
    BY <1>13, <2>1, <2>2
<1> QED
  BY <1>2, <1>13, <1>14, LoaderSyncs

\* A gap that is closed was read with its event.
LEMMA SyncReadGap ==
  ASSUME RangeInv, SyncInv, NEW n \in Nodes, ReadGap(n)
  PROVE  SyncInv'
<1> USE DomainSyncAssumption
<1> DEFINE l == ld[n]
           g == Min(l.rd)
           G == l.gaps \ ({g} \cap EventIds)
           D == {events[g]}
           C == Applied(n, D)
           F == Inserted(n, D \cap Domains)
<1>1. l \in Loader /\ Synced(n, l, core[n], fresh[n]) /\ Shape(l) /\ Fits(l) /\ TypeOK
      /\ ld \in [Nodes -> Loader]
  BY DEF RangeInv, DomTypes, TypeOK, SyncInv, SyncOf, Synced
<1>2. /\ l.pc = "fix" /\ l.ins = {}
      /\ IF l.rd = {g} THEN FixGaps(n, l, G, l.left, C, F)
         ELSE /\ ld' = [ld EXCEPT ![n].rd = @ \ {g}, ![n].gaps = G]
              /\ core' = [core EXCEPT ![n] = C]
              /\ fresh' = [fresh EXCEPT ![n] = F]
      /\ UNCHANGED <<dbVars, clientVars, cleanerVars>>
  BY DEF ReadGap, LoaderOnly
<1>3. l.rd \in SUBSET Ids /\ l.rd # {} /\ l.gaps \in SUBSET Ids /\ l.left \in 0..Retries
      /\ l.rd \subseteq l.gaps
  BY <1>1, <1>2 DEF Fits, Loader, Shape
<1>4. g \in l.rd /\ g \in Ids
  BY <1>3, MinOfIds
<1>5. G \in SUBSET Ids /\ G \subseteq l.gaps
  BY <1>3
<1>6. /\ InRun(l) /\ l.max <= MaxId /\ (l.st = "set" => l.omax <= MaxId /\ l.omax <= l.max)
      /\ Open(l) = l.gaps /\ ~ Behind(n, l)
  BY <1>1, <1>2 DEF Shape, InRun, Open, Behind
<1>7. l.toLoad = {} /\ Unloaded(l) = {}
  BY <1>1, <1>2 DEF Shape, Unloaded
<1>8. \A d \in Domains : Entry(l, C, F, d) =
            IF d \in D THEN HostType(d) ELSE Entry(l, core[n], fresh[n], d)
  <2> HIDE DEF l, D
  <2> QED
    BY <1>1, AppliedEntry
<1>9. \A d \in Domains : \/ Entry(l, C, F, d) = HostType(d) \/ l.cast
                         \/ \E i \in Ids : events[i] = d /\ i \notin SeenWith(l, G)
  <2> SUFFICES ASSUME NEW d \in Domains, d \notin D, ~ l.cast,
                      Entry(l, core[n], fresh[n], d) # HostType(d)
               PROVE  \E i \in Ids : events[i] = d /\ i \notin SeenWith(l, G)
    BY <1>8
  <2>1. Waits(l, d)
    BY <1>1, <1>6, <1>7 DEF Synced
  <2>2. PICK i \in Ids : events[i] = d /\ i \notin SeenIds(l)
    BY <2>1 DEF Waits
  <2>3. i # g
    BY <2>2
  <2>4. SeenIds(l) = SeenWith(l, l.gaps)
    BY <1>2 DEF SeenIds, RunIds, SeenWith
  <2>5. i \notin SeenWith(l, G)
    BY <2>2, <2>3, <2>4 DEF SeenWith
  <2> QED
    BY <2>2, <2>5
<1>10. Fragile(l) => l.gaps = l.rd /\ g \in EventIds
  BY <1>1, <1>2, <1>4 DEF Shape
<1>11. l.cast \/ l.st = "undefined" => Fragile(l)
  BY <1>2 DEF Fragile
<1>12. CASE l.rd = {g}
  <2>1. l.left = 0 /\ (l.cast \/ l.st = "undefined") => G = {}
    BY <1>10, <1>11, <1>12
  <2>2. FixGaps(n, l, G, l.left, C, F)
    BY <1>2, <1>12
  <2> HIDE DEF l, g, G, C, F, D
  <2>4. PICK k \in Loader : \E A, B :
           /\ ld' = [ld EXCEPT ![n] = k]
           /\ core' = [core EXCEPT ![n] = A] /\ fresh' = [fresh EXCEPT ![n] = B]
           /\ Synced(n, k, A, B)
           /\ \A x \in Nat : AheadOf(l, x) /\ (\A i \in G : i > x) => AheadOf(k, x)
    BY <1>1, <1>3, <1>5, <1>6, <1>9, <2>1, <2>2, FixGapsSyncs
  <2>5. PICK A, B :
           /\ ld' = [ld EXCEPT ![n] = k]
           /\ core' = [core EXCEPT ![n] = A] /\ fresh' = [fresh EXCEPT ![n] = B]
           /\ Synced(n, k, A, B)
           /\ \A x \in Nat : AheadOf(l, x) /\ (\A i \in G : i > x) => AheadOf(k, x)
    BY <2>4
  <2>6. ASSUME NEW m \in Nodes, m # n, Behind(m, ld[m])
        PROVE  AheadOf(k, ld[m].omax)
    <3> DEFINE x == ld[m].omax
    <3>1. AheadOf(l, x) /\ x \in Nat
      BY <2>6, BehindOf DEF l
    <3> SUFFICES AheadOf(k, x)
      OBVIOUS
    <3> HIDE DEF x
    <3>2. \A i \in G : i > x
      BY <1>5, <1>6, <3>1 DEF AheadOf
    <3> QED
      BY <2>5, <3>1, <3>2
  <2> QED
    BY <1>2, <2>5, <2>6, LoaderSyncs
<1>13. CASE l.rd # {g}
  <2> DEFINE k == [l EXCEPT !.rd = l.rd \ {g}, !.gaps = G]
  <2>1. ld' = [ld EXCEPT ![n] = k]
    BY <1>1, <1>2, <1>13 DEF Loader
  <2>2. k \in Loader /\ k.pc = "fix" /\ k.gaps = G /\ k.rd = l.rd \ {g} /\ k.st = l.st
        /\ k.min = l.min /\ k.max = l.max /\ k.omin = l.omin /\ k.omax = l.omax
        /\ k.ins = {} /\ k.cast = l.cast /\ k.toLoad = {}
    BY <1>1, <1>2, <1>3, <1>5, <1>7 DEF Loader
  <2>3. core' = [core EXCEPT ![n] = C] /\ fresh' = [fresh EXCEPT ![n] = F]
    BY <1>2, <1>13
  <2>4. Fragile(k) <=> Fragile(l)
    BY <1>2, <2>2 DEF Fragile
  <2>5. l.rd \ {g} \subseteq G
    BY <1>3
  <2>6. Fragile(k) => k.gaps = k.rd /\ k.gaps \subseteq EventIds
    <3>1. Fragile(l) => l.gaps = l.rd /\ l.gaps \subseteq EventIds
      BY <1>1, <1>2 DEF Shape
    <3> QED
      BY <1>10, <2>2, <2>4, <3>1
  <2> HIDE DEF k, l, g, G, C, F, D
  <2>9. Shape(k)
    BY <1>6, <2>2, <2>5, <2>6 DEF Shape
  <2>10. Unloaded(k) = {} /\ SeenIds(k) = SeenWith(l, G)
         /\ \A d \in Domains : Entry(k, C, F, d) = Entry(l, C, F, d)
    BY <1>2, <2>2 DEF Unloaded, SeenIds, RunIds, SeenWith, Entry
  <2>11. ASSUME NEW m \in Nodes, m # n, Behind(m, ld[m])
         PROVE  AheadOf(k, ld[m].omax)
    <3> DEFINE x == ld[m].omax
    <3>1. AheadOf(l, x) /\ x \in Nat
      BY <2>11, BehindOf DEF l
    <3> SUFFICES AheadOf(k, x)
      OBVIOUS
    <3> HIDE DEF x
    <3>2. Open(k) = G /\ InRun(k)
      BY <2>2 DEF Open, InRun
    <3> QED
      BY <1>5, <1>6, <2>2, <3>1, <3>2 DEF AheadOf
  <2>12. Synced(n, k, C, F)
    BY <1>9, <2>2, <2>9, <2>10 DEF Synced, Waits
  <2> QED
    BY <1>2, <2>1, <2>2, <2>3, <2>11, <2>12, LoaderSyncs
<1> QED
  BY <1>12, <1>13

\* A dummy event belongs to no domain, and closes a gap.
LEMMA SyncInsertDummy ==
  ASSUME RangeInv, SyncInv, NEW n \in Nodes, InsertDummy(n)
  PROVE  SyncInv'
<1> USE DomainSyncAssumption
<1> DEFINE l == ld[n]
           g == Min(l.ins)
           k == [l EXCEPT !.ins = l.ins \ {g}]
           C == core[n]
           F == fresh[n]
<1>1. l \in Loader /\ Synced(n, l, C, F) /\ Shape(l) /\ TypeOK /\ ld \in [Nodes -> Loader]
      /\ events \in [Ids -> Domains \cup {Dummy, None}]
  BY DEF RangeInv, DomTypes, TypeOK, SyncInv, SyncOf, Synced
<1>2. /\ l.pc = "fix" /\ l.ins # {} /\ ld' = [ld EXCEPT ![n].ins = @ \ {g}]
      /\ events' = [events EXCEPT ![g] = IF @ = None THEN Dummy ELSE @]
      /\ UNCHANGED <<settings, tx, sched, core, fresh>>
  BY DEF InsertDummy, clientVars, cleanerVars
<1>3. l.ins \in SUBSET Ids /\ l.gaps \in SUBSET Ids /\ l.ins \subseteq l.gaps
      /\ l.rd \subseteq l.gaps /\ l.toLoad = {}
  BY <1>1, <1>2 DEF Loader, Shape
<1>4. g \in l.ins /\ g \in Ids
  BY <1>2, <1>3, MinOfIds
<1>5. ld' = [ld EXCEPT ![n] = k]
  BY <1>1, <1>2 DEF Loader
<1>6. k \in Loader /\ k.pc = "fix" /\ k.ins = l.ins \ {g} /\ k.rd = l.rd /\ k.gaps = l.gaps
      /\ k.st = l.st /\ k.min = l.min /\ k.max = l.max /\ k.omin = l.omin /\ k.omax = l.omax
      /\ k.cast = l.cast /\ k.toLoad = {}
  BY <1>1, <1>2, <1>3 DEF Loader
<1>7. core' = [core EXCEPT ![n] = C] /\ fresh' = [fresh EXCEPT ![n] = F]
      /\ core'[n] = C /\ fresh'[n] = F /\ ld'[n] = k
  BY <1>1, <1>2, <1>5, SameCore
<1> HIDE DEF k, C, F, l
<1>8. \A i \in Ids : events[i] # None => events'[i] = events[i]
  BY <1>1, <1>2
<1>9. EventIds' = EventIds \cup {g}
  BY <1>1, <1>2, <1>4 DEF EventIds
<1>10. MaxId <= MaxId' /\ MaxId \in Nat /\ MaxId' \in Nat
  <2>1. MaxId <= MaxId' /\ MaxId \in Nat
    BY <1>9, LogEnds, MaxIdGrows
  <2>2. EventIds' \subseteq Ids /\ EventIds' # {} /\ Ids \subseteq Nat
    BY <1>9 DEF EventIds, Ids
  <2>3. Max(EventIds') \in EventIds'
    BY <2>2, MaxOfIds
  <2>4. MaxId' = Max(EventIds')
    BY <2>2 DEF MaxId
  <2> QED
    BY <2>1, <2>2, <2>3, <2>4
<1>11. Open(k) = l.gaps /\ InRun(k) /\ InRun(l) /\ Unloaded(k) = {} /\ Unloaded(l) = {}
       /\ SeenIds(k) = SeenIds(l) /\ ~ Behind(n, l) /\ Open(l) = l.gaps
       /\ (Fragile(k) <=> Fragile(l))
  BY <1>2, <1>3, <1>6
     DEF Open, InRun, Unloaded, SeenIds, RunIds, Behind, Fragile
<1>12. Shape(ld[n])'
  <2>1. /\ k.st = "set" => k.omax <= MaxId'
        /\ k.max <= MaxId' /\ (k.st = "set" => k.omax <= k.max)
    <3>1. k.omax \in Nat /\ k.max \in Nat
      BY <1>6, LoaderIs
    <3>2. k.max <= MaxId /\ (k.st = "set" => k.omax <= MaxId /\ k.omax <= k.max)
      BY <1>1, <1>6, <1>11 DEF Shape
    <3> QED
      BY <1>10, <3>1, <3>2
  <2>2. Fragile(k) => k.gaps = k.rd /\ k.gaps \subseteq k.ins \cup EventIds'
    BY <1>1, <1>2, <1>6, <1>9, <1>11 DEF Shape
  <2> QED
    BY <1>3, <1>6, <1>7, <1>11, <2>1, <2>2 DEF Shape, InRun, Fragile
<1>13. SyncOf(n)'
  <2>1. \A d \in Domains : HostType(d)' = HostType(d)
    BY <1>2 DEF HostType
  <2>2. \A d \in Domains : Entry(k, C, F, d) = Entry(l, C, F, d)
    BY <1>6 DEF Entry
  <2>3. ASSUME NEW d \in Domains, Waits(l, d)
        PROVE  Waits(ld[n], d)'
    <3>1. PICK i \in Ids : events[i] = d /\ i \notin SeenIds(l)
      BY <2>3 DEF Waits
    <3>2. events'[i] = d
      BY <1>8, <3>1
    <3> QED
      BY <1>7, <1>11, <3>1, <3>2 DEF Waits
  <2>4. \A d \in Domains : Entry(l, C, F, d) = HostType(d) \/ l.cast \/ Waits(l, d)
    BY <1>1, <1>11 DEF Synced
  <2>5. \A d \in Domains : Entry(k, C, F, d) = HostType(d)' \/ k.cast \/ Waits(ld[n], d)'
    BY <1>6, <2>1, <2>2, <2>3, <2>4
  <2> QED
    BY <1>7, <1>11, <1>12, <2>5 DEF SyncOf, Synced
<1>14. \A i \in EventIds' : i \in EventIds \/ (k.pc = "fix" /\ i \in Open(k))
  BY <1>3, <1>4, <1>6, <1>9, <1>11
<1>15. ASSUME NEW m \in Nodes, m # n, Behind(m, ld[m])
       PROVE  AheadOf(k, ld[m].omax)
  <2> DEFINE x == ld[m].omax
  <2>1. AheadOf(l, x) /\ x \in Nat
    BY <1>15, BehindOf DEF l
  <2> SUFFICES AheadOf(k, x)
    OBVIOUS
  <2> HIDE DEF x
  <2> QED
    BY <1>6, <1>11, <2>1 DEF AheadOf
<1>16. UNCHANGED <<settings, tx, sched>> /\ k \in Loader
  BY <1>2, <1>6
<1> QED
  BY ONLY RangeInv, SyncInv, n \in Nodes, <1>5, <1>7, <1>8, <1>13, <1>14, <1>15, <1>16,
          LoaderSyncsLog

\* An insert that fails leaves a gap, where the loader recovers from that.
LEMMA SyncInsertFails ==
  ASSUME RangeInv, SyncInv, NEW n \in Nodes, ~ FaultsAnywhere, InsertDummyFails(n)
  PROVE  SyncInv'
<1> USE DomainSyncAssumption
<1> DEFINE l == ld[n]
           g == Min(l.ins)
           k == [l EXCEPT !.ins = l.ins \ {g}]
           C == core[n]
           F == fresh[n]
<1>1. l \in Loader /\ Synced(n, l, C, F) /\ Shape(l) /\ ld \in [Nodes -> Loader]
  BY DEF RangeInv, DomTypes, TypeOK, SyncInv, SyncOf, Synced
<1>2. /\ l.pc = "fix" /\ l.ins # {} /\ ld' = [ld EXCEPT ![n].ins = @ \ {Min(@)}]
      /\ UNCHANGED <<dbVars, clientVars, cleanerVars>> /\ UNCHANGED <<core, fresh>>
      /\ ~ Fragile(l)
  BY DEF InsertDummyFails
<1>3. l.ins \in SUBSET Ids /\ l.ins \subseteq l.gaps /\ l.rd \subseteq l.gaps /\ l.toLoad = {}
  BY <1>1, <1>2 DEF Loader, Shape
<1>4. ld' = [ld EXCEPT ![n] = k]
  BY <1>1, <1>2 DEF Loader
<1>5. k \in Loader /\ k.pc = "fix" /\ k.ins = l.ins \ {g} /\ k.rd = l.rd /\ k.gaps = l.gaps
      /\ k.st = l.st /\ k.min = l.min /\ k.max = l.max /\ k.omin = l.omin /\ k.omax = l.omax
      /\ k.cast = l.cast /\ k.toLoad = {}
  BY <1>1, <1>2, <1>3 DEF Loader
<1>6. core' = [core EXCEPT ![n] = C] /\ fresh' = [fresh EXCEPT ![n] = F]
  BY <1>2, SameCore
<1> HIDE DEF k, C, F, l, g
<1>7. Open(k) = Open(l) /\ InRun(k) /\ InRun(l) /\ Unloaded(k) = {} /\ Unloaded(l) = {}
       /\ SeenIds(k) = SeenIds(l) /\ ~ Behind(n, l) /\ ~ Fragile(k)
  BY <1>2, <1>3, <1>5
     DEF Open, InRun, Unloaded, SeenIds, RunIds, Behind, Fragile
<1>8. Shape(k)
  BY <1>1, <1>3, <1>5, <1>7 DEF Shape
<1>9. \A d \in Domains : Entry(k, C, F, d) = Entry(l, C, F, d)
  BY <1>5 DEF Entry
<1>10. Synced(n, k, C, F)
  BY <1>1, <1>5, <1>7, <1>8, <1>9 DEF Synced, Waits
<1>11. ASSUME NEW m \in Nodes, m # n, Behind(m, ld[m])
       PROVE  AheadOf(k, ld[m].omax)
  <2> DEFINE x == ld[m].omax
  <2>1. AheadOf(l, x) /\ x \in Nat
    BY <1>11, BehindOf DEF l
  <2> SUFFICES AheadOf(k, x)
    OBVIOUS
  <2> HIDE DEF x
  <2> QED
    BY <1>5, <1>7, <2>1 DEF AheadOf
<1> QED
  BY <1>2, <1>4, <1>5, <1>6, <1>10, <1>11, LoaderSyncs

\* After a reset, the core is what the new process inserts.
LEMMA SyncReset ==
  ASSUME RangeInv, SyncInv, NEW n \in Nodes, ResetAndShutdown(n)
  PROVE  SyncInv'
<1> USE DomainSyncAssumption
<1> DEFINE k == [Idle EXCEPT !.st = "reset"]
           C == core[n]
           F == {}
<1>1. /\ ld' = [ld EXCEPT ![n] = k] /\ fresh' = [fresh EXCEPT ![n] = F]
      /\ core' = [core EXCEPT ![n] = C] /\ UNCHANGED <<dbVars, clientVars, cleanerVars>>
  BY DEF ResetAndShutdown, LoaderOnly, RangeInv, DomTypes, TypeOK
<1>2. k \in Loader /\ k.pc = "boot" /\ k.st = "reset"
  BY IdleTypes DEF Loader
<1>3. F = {}
  OBVIOUS
<1> HIDE DEF k, C, F
<1>4. Open(k) = {} /\ ~ InRun(k) /\ Unloaded(k) = Domains
      /\ \A d \in Domains : Entry(k, C, F, d) = None
  BY <1>2, <1>3 DEF Open, InRun, Unloaded, Entry
<1>5. Shape(k)
  BY <1>2, <1>4 DEF Shape
<1>6. Synced(n, k, C, F)
  BY <1>4, <1>5 DEF Synced
<1>7. \A x : AheadOf(k, x)
  BY <1>2, <1>4 DEF AheadOf
<1>8. \A m \in Nodes : m # n /\ Behind(m, ld[m]) => AheadOf(k, ld[m].omax)
  BY <1>7
<1> QED
  BY ONLY RangeInv, SyncInv, n \in Nodes, <1>1, <1>2, <1>6, <1>8, LoaderSyncs

\* A process that crashes leaves its core and its state to the next one, which
\* reads the events that this one may have applied.
LEMMA SyncQueryFails ==
  ASSUME RangeInv, SyncInv, NEW n \in Nodes, ~ FaultsAnywhere, QueryFails(n)
  PROVE  SyncInv'
<1> USE DomainSyncAssumption
<1> DEFINE l == ld[n]
           k == Restarted(l)
           C == core[n]
           A == fresh[n]
           F == {}
<1>1. l \in Loader /\ Synced(n, l, C, A) /\ Shape(l) /\ Fits(l)
  BY DEF RangeInv, DomTypes, TypeOK, SyncInv, SyncOf, Synced
<1>2. /\ ld' = [ld EXCEPT ![n] = k] /\ fresh' = [fresh EXCEPT ![n] = F]
      /\ core' = [core EXCEPT ![n] = C] /\ UNCHANGED <<dbVars, clientVars, cleanerVars>>
  BY DEF QueryFails, RangeInv, DomTypes, TypeOK
<1>3. /\ ~ Fragile(l) /\ ~ l.cast /\ l.pc \in {"boot", "gaps", "select", "check", "idle", "fix"}
      /\ l.pc = "boot" => l.st # "set"
  BY DEF QueryFails, Fragile
<1>4. k \in Loader /\ k.pc = "boot" /\ k.st = l.st /\ k.omin = l.omin /\ k.omax = l.omax
  BY <1>1, IdleTypes DEF Restarted, Loader
<1>5. F = {}
  OBVIOUS
<1> HIDE DEF k, C, F, l, A
<1>6. Open(k) = {} /\ ~ InRun(k)
  BY <1>4 DEF Open, InRun
<1>7. Shape(k)
  BY <1>1, <1>4, <1>6 DEF Shape
<1>8. ASSUME l.st = "undefined"
      PROVE  Synced(n, k, C, F)
  <2>1. l.pc \in {"boot", "gaps"}
    BY <1>1, <1>3, <1>8 DEF Fits, Fragile
  <2>2. Unloaded(l) = Domains /\ Unloaded(k) = Domains
        /\ \A d \in Domains : Entry(k, C, F, d) = Entry(l, C, A, d)
    BY <1>4, <1>8, <2>1 DEF Unloaded, Entry
  <2> QED
    BY <1>1, <1>7, <2>2 DEF Synced
<1>9. ASSUME l.st = "reset"
      PROVE  Synced(n, k, C, F)
  <2>1. Unloaded(k) = Domains /\ \A d \in Domains : Entry(k, C, F, d) = None
    BY <1>4, <1>5, <1>9 DEF Unloaded, Entry
  <2> QED
    BY <1>7, <2>1 DEF Synced
<1>10. ASSUME l.st = "set"
       PROVE  Synced(n, k, C, F)
  <2>1. Unloaded(l) = {} /\ Unloaded(k) = {}
        /\ \A d \in Domains : Entry(k, C, F, d) = Entry(l, C, A, d)
    BY <1>4, <1>10 DEF Unloaded, Entry
  <2>2. SeenIds(k) \subseteq SeenIds(l)
    BY <1>4, <1>10 DEF SeenIds
  <2>3. \A d \in Domains : Waits(l, d) => Waits(k, d)
    BY <2>2 DEF Waits
  <2>4. Behind(n, l) => Behind(n, k)
    BY <1>4, <1>10 DEF Behind
  <2> QED
    BY <1>1, <1>3, <1>7, <2>1, <2>3, <2>4 DEF Synced
<1>11. Synced(n, k, C, F)
  <2>1. l.st \in {"undefined", "reset", "set"}
    BY <1>1 DEF Loader
  <2> QED
    BY ONLY <1>8, <1>9, <1>10, <2>1
<1>12. ASSUME NEW m \in Nodes, m # n, Behind(m, ld[m])
       PROVE  AheadOf(k, ld[m].omax)
  <2> DEFINE x == ld[m].omax
  <2>1. AheadOf(l, x) /\ x \in Nat
    BY <1>12, BehindOf DEF l
  <2> SUFFICES AheadOf(k, x)
    OBVIOUS
  <2> HIDE DEF x
  <2> QED
    BY <1>4, <1>6, <2>1 DEF AheadOf
<1> QED
  BY ONLY RangeInv, SyncInv, n \in Nodes, <1>2, <1>4, <1>11, <1>12, LoaderSyncs

\* What a loader that has begun to load has seen is final.
LEMMA SeenIsFinal ==
  ASSUME RangeInv, NEW n \in Nodes, NEW i \in Ids, i \in SeenIds(ld[n]),
         NEW d \in Domains, d \notin Unloaded(ld[n])
  PROVE  Final(i)
<1> DEFINE l == ld[n]
<1>1. RangeOf(l) /\ Fits(l) /\ l \in Loader
  BY DEF RangeInv, DomTypes, Fits
<1> HIDE DEF l
<1>2. i \in SeenIds(l) /\ d \notin Unloaded(l)
  BY DEF l
<1>3. CASE l.st = "set" /\ i \in l.omin..l.omax
  BY <1>1, <1>3 DEF RangeOf
<1>4. CASE ~ (l.st = "set" /\ i \in l.omin..l.omax)
  <2>1. i \in (l.min..l.max) \ l.gaps /\ (l.st # "set" \/ l.pc = "fix")
    BY <1>2, <1>4 DEF SeenIds, RunIds
  <2>2. l.pc \in {"load", "fix"}
    BY <1>1, <1>2, <2>1 DEF Fits, Loader, Unloaded
  <2>3. Open(l) = l.gaps /\ InRun(l)
    BY <2>2 DEF Open, InRun
  <2> QED
    BY <1>1, <2>1, <2>3 DEF RangeOf
<1> QED
  BY <1>3, <1>4

\* A step of a transaction keeps SyncInv if a change of the table has an event
\* that no loader has seen.
LEMMA SyncTransaction ==
  ASSUME RangeInv, SyncInv, UNCHANGED <<ld, core, fresh>>,
         \A i \in Ids : events[i] # None => events'[i] = events[i],
         \A n \in Nodes, d \in Domains : d \notin Unloaded(ld[n]) =>
            \/ HostType(d)' = HostType(d)
            \/ \E i \in Ids : events'[i] = d /\ i \notin SeenIds(ld[n]),
         \A i \in EventIds' : i \in EventIds \/ \E c \in Clients : tx[c].id = i,
         \A c \in Clients : tx'[c].id \in {0, tx[c].id, nextId},
         \A x \in sched' : x \in sched \/ x \in EventIds
  PROVE  SyncInv'
<1> USE DomainSyncAssumption
<1>1. EventIds \subseteq EventIds' /\ EventIds' \subseteq Ids /\ EventIds \subseteq Ids
  BY DEF EventIds
<1>2. Ids \subseteq Nat \ {0} /\ nextId \in Nat
  BY DEF Ids, RangeInv, DomTypes, TypeOK
<1>3. Kept'
  <2>1. \A x \in sched : \E y \in EventIds : y >= x
    BY DEF SyncInv, Kept
  <2>2. \A x \in EventIds : x >= x
    BY <1>1, <1>2
  <2> QED
    BY <1>1, <2>1, <2>2 DEF Kept
<1>4. ASSUME NEW n \in Nodes
      PROVE  SyncOf(n)'
  <2> DEFINE k == ld[n]
             C == core[n]
             F == fresh[n]
  <2>1. Synced(n, k, C, F) /\ k \in Loader /\ ld'[n] = k /\ core'[n] = C /\ fresh'[n] = F
    BY DEF SyncInv, SyncOf, RangeInv, DomTypes, TypeOK
  <2>2. ASSUME Behind(n, k)
        PROVE  Behind(n, ld[n])'
    <3>1. /\ k.st = "set" /\ k.pc \in {"boot", "check", "idle"} /\ k.omax # 0
          /\ EventIds # {} /\ \A i \in EventIds : i > k.omax
          /\ \A c \in Clients : tx[c].id = 0 \/ tx[c].id > k.omax
      BY <2>2 DEF Behind
    <3>2. \A m \in Nodes \ {n} : AheadOf(ld'[m], k.omax)
      BY <2>2 DEF Behind
    <3>3. k.omax \in Nat
      BY <2>1, LoaderIs
    <3>4. nextId > k.omax
      <4>1. PICK i \in EventIds : i > k.omax
        BY <3>1
      <4>2. i < nextId /\ i \in Nat
        BY <1>1, <1>2 DEF RangeInv, LogInv
      <4> QED
        BY ONLY <1>2, <3>3, <4>1, <4>2
    <3> HIDE DEF k
    <3>5. \A c \in Clients : tx'[c].id = 0 \/ tx'[c].id > k.omax
      BY <3>1, <3>4
    <3>6. \A i \in EventIds' : i > k.omax
      <4> SUFFICES ASSUME NEW i \in EventIds', i \notin EventIds
                   PROVE  i > k.omax
        BY <3>1
      <4>1. PICK c \in Clients : tx[c].id = i
        OBVIOUS
      <4> QED
        BY <1>1, <1>2, <3>1, <4>1
    <3> QED
      BY <1>1, <2>1, <3>1, <3>2, <3>5, <3>6 DEF Behind
  <2>3. \A d \in Domains : d \notin Unloaded(k) =>
            \/ HostType(d)' = HostType(d)
            \/ \E i \in Ids : events'[i] = d /\ i \notin SeenIds(k)
    OBVIOUS
  <2> HIDE DEF k, C, F
  <2> QED
    BY ONLY n \in Nodes, \A i \in Ids : events[i] # None => events'[i] = events[i],
            <2>1, <2>2, <2>3, SyncStays
<1> QED
  BY <1>3, <1>4 DEF SyncInv

\* A transaction that commits adds an event nobody has seen.
LEMMA SyncCommit ==
  ASSUME RangeInv, SyncInv, NEW c \in Clients, Commit(c)
  PROVE  SyncInv'
<1> USE DomainSyncAssumption
<1> DEFINE t == tx[c]
<1>1. /\ t.ph = "written" /\ settings' = [settings EXCEPT ![t.d] = Written(t)]
      /\ events' = [events EXCEPT ![t.id] = t.d] /\ tx' = [tx EXCEPT ![c] = NoTx]
      /\ UNCHANGED <<sched, ld, core, fresh>>
  BY DEF Commit, cleanerVars, nodeVars
<1>2. /\ events \in [Ids -> Domains \cup {Dummy, None}] /\ settings \in [Domains -> Row]
      /\ tx \in [Clients -> Transactions] /\ TxShape(t)
  BY DEF RangeInv, DomTypes, TypeOK
<1>3. t.id \in Ids /\ t.d \in Domains /\ events[t.id] = None
  BY <1>1, <1>2 DEF TxShape, Transactions, Ids, RangeInv, LogInv
<1> HIDE DEF t
<1>4. events'[t.id] = t.d /\ \A i \in Ids : i # t.id => events'[i] = events[i]
  BY <1>1, <1>2, <1>3
<1>5. \A i \in Ids : events[i] # None => events'[i] = events[i]
  BY <1>3, <1>4
<1>6. \A d \in Domains : d # t.d => HostType(d)' = HostType(d)
  BY <1>1, <1>2 DEF HostType
<1>7. ASSUME NEW n \in Nodes, t.d \notin Unloaded(ld[n])
      PROVE  t.id \notin SeenIds(ld[n])
  <2>1. ~ Final(t.id)
    BY DEF Final, t
  <2> QED
    BY <1>3, <1>7, <2>1, SeenIsFinal
<1>8. \A n \in Nodes, d \in Domains : d \notin Unloaded(ld[n]) =>
            \/ HostType(d)' = HostType(d)
            \/ \E i \in Ids : events'[i] = d /\ i \notin SeenIds(ld[n])
  BY <1>3, <1>4, <1>6, <1>7
<1>9. \A i \in EventIds' : i \in EventIds \/ \E b \in Clients : tx[b].id = i
  BY <1>4 DEF EventIds, t
<1>10. \A b \in Clients : tx'[b].id \in {0, tx[b].id, nextId}
  BY <1>1, <1>2 DEF NoTx
<1>11. UNCHANGED <<ld, core, fresh>> /\ \A x \in sched' : x \in sched \/ x \in EventIds
  BY <1>1
<1> QED
  BY ONLY RangeInv, SyncInv, <1>5, <1>8, <1>9, <1>10, <1>11, SyncTransaction

\* The other steps of a transaction leave the database alone.
LEMMA SyncOtherTx ==
  ASSUME RangeInv, SyncInv, NEW c \in Clients, Select(c) \/ Write(c) \/ Abort(c)
  PROVE  SyncInv'
<1>1. /\ UNCHANGED <<settings, events, sched, ld, core, fresh>>
      /\ tx \in [Clients -> Transactions]
  BY DEF Select, Write, Abort, dbVars, cleanerVars, nodeVars, RangeInv, DomTypes, TypeOK
<1>2. \A b \in Clients : tx'[b].id \in {0, tx[b].id, nextId}
  <2>1. CASE Select(c)
    <3>1. PICK op \in Ops, d \in Domains, ht \in HostTypes :
             tx' = [tx EXCEPT ![c] = [NoTx EXCEPT !.ph = "selected", !.op = op,
                                                  !.d = d, !.ht = ht]]
      BY <2>1 DEF Select
    <3> QED
      BY <1>1, <3>1 DEF NoTx
  <2>2. CASE Write(c)
    <3>1. CASE tx' = [tx EXCEPT ![c] = NoTx]
      BY <1>1, <3>1 DEF NoTx
    <3>2. CASE tx' = [tx EXCEPT ![c].ph = "written", ![c].id = nextId]
      BY <1>1, <3>2 DEF Transactions
    <3> QED
      BY <2>2, <3>1, <3>2 DEF Write
  <2>3. CASE Abort(c)
    BY <1>1, <2>3 DEF Abort, NoTx
  <2> QED
    BY <2>1, <2>2, <2>3
<1>3. /\ EventIds' = EventIds /\ \A d \in Domains : HostType(d)' = HostType(d)
      /\ \A i \in Ids : events'[i] = events[i]
  BY <1>1 DEF EventIds, HostType
<1> QED
  BY <1>1, <1>2, <1>3, SyncTransaction

\* Neither do the end of a deletion, a new timer of the cleaner and stuttering.
LEMMA SyncQuiet ==
  ASSUME RangeInv, SyncInv,
         \/ \E d \in Domains, ht \in HostTypes : EndDeletion(d, ht)
         \/ ScheduleRemoval
         \/ UNCHANGED vars
  PROVE  SyncInv'
<1>1. UNCHANGED <<settings, events, tx, ld, core, fresh>>
  BY DEF EndDeletion, ScheduleRemoval, vars, dbVars, clientVars, nodeVars
<1>2. \A x \in sched' : x \in sched \/ x \in EventIds
  <2>1. CASE ScheduleRemoval
    BY <2>1, LogEnds DEF ScheduleRemoval, MaxId
  <2> QED
    BY <2>1 DEF EndDeletion, vars, cleanerVars
<1>3. /\ EventIds' = EventIds /\ \A d \in Domains : HostType(d)' = HostType(d)
      /\ \A i \in Ids : events'[i] = events[i]
      /\ \A b \in Clients : tx'[b].id \in {0, tx[b].id, nextId}
  BY <1>1 DEF EventIds, HostType
<1> QED
  BY <1>1, <1>2, <1>3, SyncTransaction

\* When ids below x have aged out, a loader that has read the events below x is
\* ahead of what comes before one of them.
LEMMA ReadIsAhead ==
  ASSUME RangeInv, SyncInv, NEW x \in Ids, AgedOut(x), NEW i \in EventIds, i < x,
         NEW m \in Nodes, Unread(ld[m], x) = {}, NEW y \in Nat, y < i
  PROVE  AheadOf(ld[m], y)
<1> USE DomainSyncAssumption
<1> DEFINE k == ld[m]
<1>1. k \in Loader /\ Shape(k) /\ Fits(k) /\ Unread(k, x) = {}
      /\ \A j \in Pending(k) : j >= x
  BY DEF RangeInv, DomTypes, TypeOK, SyncInv, SyncOf, Synced, AgedOut
<1>2. /\ k.omin \in 0..MaxEventId /\ k.omax \in 0..MaxEventId /\ k.min \in 0..MaxEventId
      /\ k.max \in 0..MaxEventId /\ i \in Nat /\ x \in Nat
  BY <1>1 DEF Loader, EventIds, Ids
<1> HIDE DEF k
<1> SUFFICES AheadOf(k, y)
  BY DEF k
<1>3. k.st = "set" => k.omax > y
  <2> SUFFICES ASSUME k.st = "set"
               PROVE  k.omax > y
    OBVIOUS
  <2>1. i \in k.omin..k.omax
    BY <1>1 DEF Unread
  <2> QED
    BY <1>2, <2>1
<1>4. InRun(k) => k.max > y
  <2> SUFFICES ASSUME InRun(k)
               PROVE  k.max > y
    OBVIOUS
  <2>1. CASE k.st = "set"
    BY <1>1, <1>2, <1>3, <2>1 DEF Shape
  <2>2. CASE k.st # "set"
    <3>1. i \in k.min..k.max
      BY <1>1, <2>2 DEF Unread, InRun
    <3> QED
      BY <1>2, <3>1
  <2> QED
    BY <2>1, <2>2
<1>5. ASSUME NEW j \in Ids, j \in Open(k)
      PROVE  j > y
  <2>1. j \in Pending(k)
    <3>1. CASE k.pc = "gaps"
      <4>1. j \in k.min..k.max /\ j # 0 /\ j \in Nat
        BY <1>5, <3>1 DEF Open, Ids
      <4>2. k.min > 0
        BY <1>1, <1>2, <3>1, <4>1 DEF Fits
      <4> QED
        BY <3>1, <4>1, <4>2 DEF Pending
    <3>2. CASE k.pc # "gaps"
      BY <1>5, <3>2 DEF Open, Pending
    <3> QED
      BY <3>1, <3>2
  <2>2. j >= x /\ j \in Nat
    BY <1>1, <2>1 DEF Ids
  <2> QED
    BY ONLY y \in Nat, y < i, i < x, <1>2, <2>2
<1> QED
  BY <1>3, <1>4, <1>5 DEF AheadOf

\* An event that a loader has not seen and that ages out is past its last id, and
\* the loader is between two runs.
LEMMA MissedIsAfter ==
  ASSUME RangeInv, NEW x \in Ids, AgedOut(x), NEW n \in Nodes, NEW d \in Domains,
         d \notin Unloaded(ld[n]), NEW i \in EventIds, i < x, i \notin SeenIds(ld[n])
  PROVE  /\ ld[n].st = "set" /\ ld[n].pc \in {"boot", "check", "idle"}
         /\ ld[n].omax # 0 /\ i > ld[n].omax
         /\ \A m \in Nodes \ {n} : Unread(ld[m], x) = {}
<1> USE DomainSyncAssumption
<1> DEFINE l == ld[n]
<1>1. l \in Loader /\ Fits(l) /\ d \notin Unloaded(l) /\ i \notin SeenIds(l)
      /\ \A j \in Pending(l) : j >= x
  BY DEF RangeInv, DomTypes, TypeOK, AgedOut
<1>2. Unread(l, x) # {} =>
          /\ l.st = "set" /\ l.pc \in {"boot", "check", "idle"}
          /\ l.omax # 0 /\ \A j \in Unread(l, x) : j > l.omax
          /\ \A m \in Nodes \ {n} : Unread(ld[m], x) = {}
  BY DEF AgedOut
<1> HIDE DEF l
<1>3. i \in Unread(l, x)
  <2>1. CASE l.st = "set"
    BY <1>1, <2>1 DEF Unread, SeenIds
  <2>2. CASE l.st # "set"
    <3>1. l.pc \in {"load", "fix"}
      BY <1>1, <2>2 DEF Fits, Loader, Unloaded
    <3>2. i \notin (l.min..l.max) \ l.gaps
      BY <1>1, <2>2 DEF SeenIds, RunIds
    <3>3. i \notin l.gaps
      <4>1. Pending(l) = l.gaps \cup l.rd
        BY <3>1 DEF Pending
      <4>2. i \in Nat /\ x \in Nat
        BY DEF EventIds, Ids
      <4>3. ~ (i >= x)
        BY <4>2
      <4> QED
        BY <1>1, <4>1, <4>3
    <3> QED
      BY <2>2, <3>1, <3>2, <3>3 DEF Unread
  <2> QED
    BY <2>1, <2>2
<1> QED
  BY <1>2, <1>3 DEF l

\* The cleaner removes only what the nodes have read, or what a node will find
\* to be missing.
LEMMA SyncRemoval ==
  ASSUME RangeInv, SyncInv, NEW x \in Ids, DoRemoval(x)
  PROVE  SyncInv'
<1> USE DomainSyncAssumption
<1>1. /\ x \in sched /\ AgedOut(x) /\ sched' = sched \ {x}
      /\ events' = [i \in Ids |-> IF i < x THEN None ELSE events[i]]
      /\ UNCHANGED <<settings, tx, ld, core, fresh>>
  BY DEF DoRemoval, clientVars, nodeVars
<1>2. EventIds' = {i \in EventIds : ~ (i < x)}
  BY <1>1 DEF EventIds
<1>3. Ids \subseteq Nat \ {0} /\ EventIds \subseteq Ids /\ x \in Nat
  BY DEF Ids, EventIds
<1>4. PICK y \in EventIds : y >= x
  BY <1>1 DEF SyncInv, Kept
<1>5. MaxId \in EventIds /\ \A i \in EventIds : i <= MaxId
  BY <1>4, LogEnds
<1>6. MaxId \in EventIds' /\ MaxId \in Nat
  <2>1. MaxId \in Nat /\ y \in Nat /\ y <= MaxId
    BY <1>3, <1>4, <1>5
  <2>2. ~ (MaxId < x)
    BY ONLY <1>3, <1>4, <2>1
  <2> QED
    BY <1>2, <1>5, <2>1, <2>2
<1>7. MaxId <= MaxId' /\ MaxId' \in Nat
  <2>1. MaxId <= MaxId'
    BY <1>6, MaxIdGrows
  <2>2. EventIds' \subseteq Ids /\ EventIds' # {}
    BY <1>2, <1>3, <1>6
  <2>3. Max(EventIds') \in EventIds'
    BY <2>2, MaxOfIds
  <2>4. MaxId' = Max(EventIds')
    BY <2>2 DEF MaxId
  <2> QED
    BY <1>3, <2>1, <2>2, <2>3, <2>4
<1>8. Kept'
  <2> SUFFICES ASSUME NEW z \in sched
               PROVE  MaxId >= z
    BY <1>1, <1>6 DEF Kept
  <2>1. PICK j \in EventIds : j >= z
    BY DEF SyncInv, Kept
  <2>2. j \in Nat /\ z \in Nat /\ j <= MaxId
    BY <1>3, <1>5 DEF RangeInv, DomTypes, TypeOK
  <2> QED
    BY ONLY <1>6, <2>1, <2>2
<1>9. ASSUME NEW n \in Nodes
      PROVE  SyncOf(n)'
  <2> DEFINE l == ld[n]
             C == core[n]
             F == fresh[n]
  <2>1. /\ Synced(n, l, C, F) /\ l \in Loader /\ Shape(l) /\ \A j \in Pending(l) : j >= x
        /\ ld'[n] = l /\ core'[n] = C /\ fresh'[n] = F
    BY <1>1 DEF SyncInv, SyncOf, Synced, RangeInv, DomTypes, TypeOK, AgedOut
  <2>2. \A m \in Nodes : ld'[m] = ld[m]
    BY <1>1
  <2>3. ASSUME Behind(n, l)
        PROVE  Behind(n, ld[n])'
    BY <1>1, <1>2, <1>6, <2>3 DEF Behind
  <2>4. ASSUME NEW d \in Domains, d \notin Unloaded(l), Waits(l, d)
        PROVE  Waits(ld[n], d)' \/ Behind(n, ld[n])'
    <3>1. PICK i \in Ids : events[i] = d /\ i \notin SeenIds(l)
      BY <2>4 DEF Waits
    <3>2. CASE ~ (i < x)
      <4>1. events'[i] = d
        BY <1>1, <3>1, <3>2
      <4> QED
        BY <2>1, <3>1, <4>1 DEF Waits
    <3>3. CASE i < x
      <4>1. i \in EventIds /\ i \in Nat
        BY <1>3, <3>1 DEF EventIds
      <4>2. /\ l.st = "set" /\ l.pc \in {"boot", "check", "idle"} /\ l.omax # 0
            /\ i > l.omax /\ \A m \in Nodes \ {n} : Unread(ld[m], x) = {}
        BY <1>1, <2>4, <3>1, <3>3, <4>1, MissedIsAfter
      <4>3. l.omax \in Nat /\ l.omax < i
        BY <2>1, <4>1, <4>2, LoaderIs
      <4>4. ASSUME NEW m \in Nodes \ {n}
            PROVE  AheadOf(ld[m], l.omax)
        <5> DEFINE z == l.omax
        <5>1. z \in Nat /\ z < i /\ m \in Nodes /\ Unread(ld[m], x) = {}
          BY <4>2, <4>3
        <5> SUFFICES AheadOf(ld[m], z)
          OBVIOUS
        <5> HIDE DEF z, l
        <5> QED
          BY <1>1, <3>3, <4>1, <5>1, ReadIsAhead
      <4>5. \A j \in EventIds' : j > l.omax
        <5> SUFFICES ASSUME NEW j \in EventIds, ~ (j < x)
                     PROVE  j > l.omax
          BY <1>2
        <5>1. j \in Nat
          BY <1>3
        <5> HIDE DEF l
        <5> QED
          BY <1>3, <3>3, <4>1, <4>3, <5>1
      <4>6. \A c \in Clients : tx[c].id = 0 \/ tx[c].id > l.omax
        <5> SUFFICES ASSUME NEW c \in Clients, tx[c].id # 0
                     PROVE  tx[c].id > l.omax
          OBVIOUS
        <5>1. tx[c].id >= x /\ tx[c].id \in Nat
          BY <1>1 DEF AgedOut, RangeInv, DomTypes, TypeOK, Transactions
        <5> HIDE DEF l
        <5> QED
          BY <1>3, <3>3, <4>1, <4>3, <5>1
      <4>7. Behind(n, ld[n])'
        <5> HIDE DEF l
        <5> QED
          BY <1>1, <1>6, <2>1, <2>2, <4>2, <4>4, <4>5, <4>6 DEF Behind
      <4> QED
        BY <4>7
    <3> QED
      BY <3>2, <3>3
  <2>5. \A d \in Domains : HostType(d)' = HostType(d)
    BY <1>1 DEF HostType
  <2> HIDE DEF l, C, F
  <2>6. Shape(ld[n])'
    <3>1. l.omax \in Nat /\ l.max \in Nat
      BY <2>1, LoaderIs
    <3>2. l.st = "set" => l.omax <= MaxId' /\ l.pc \notin {"gaps", "load"}
      BY <1>6, <1>7, <2>1, <3>1 DEF Shape
    <3>3. InRun(l) => l.max <= MaxId' /\ (l.st = "set" => l.omax <= l.max)
      BY <1>6, <1>7, <2>1, <3>1 DEF Shape
    <3>4. l.pc = "fix" /\ Fragile(l) => l.gaps = l.rd /\ l.gaps \subseteq l.ins \cup EventIds'
      <4> SUFFICES ASSUME l.pc = "fix", Fragile(l)
                   PROVE  l.gaps = l.rd /\ l.gaps \subseteq l.ins \cup EventIds'
        OBVIOUS
      <4>1. l.gaps = l.rd /\ l.gaps \subseteq l.ins \cup EventIds
        BY <2>1 DEF Shape
      <4>2. Pending(l) = l.gaps \cup l.rd /\ l.gaps \subseteq Ids
        BY <2>1, LoaderIs DEF Pending
      <4>3. \A j \in l.gaps : ~ (j < x)
        BY <1>3, <2>1, <4>2
      <4> QED
        BY <1>2, <4>1, <4>3
    <3>5. /\ l.pc = "select" => l.below = GapsBelow(l, l.min)
          /\ l.pc = "fix" => l.ins \subseteq l.gaps /\ l.rd \subseteq l.gaps /\ l.toLoad = {}
      BY <2>1 DEF Shape
    <3> QED
      BY <2>1, <3>2, <3>3, <3>4, <3>5 DEF Shape, InRun, GapsBelow, Fragile
  <2>7. \A d \in Domains : d \notin Unloaded(l) =>
            Entry(l, C, F, d) = HostType(d)' \/ l.cast \/ Waits(ld[n], d)' \/ Behind(n, ld[n])'
    <3>1. \A d \in Domains : d \notin Unloaded(l) =>
            Entry(l, C, F, d) = HostType(d) \/ l.cast \/ Waits(l, d) \/ Behind(n, l)
      BY <2>1 DEF Synced
    <3> QED
      BY <2>3, <2>4, <2>5, <3>1
  <2>8. \A d \in Domains : d \in Unloaded(l) => Entry(l, C, F, d) = None
    BY <2>1 DEF Synced
  <2> QED
    BY <2>1, <2>6, <2>7, <2>8 DEF SyncOf, Synced
<1> QED
  BY <1>8, <1>9 DEF SyncInv

LEMMA SyncInit ==
  ASSUME Init
  PROVE  SyncInv
<1> USE DomainSyncAssumption
<1>1. sched = {} /\ ld = [n \in Nodes |-> Idle]
      /\ core = [n \in Nodes |-> [d \in Domains |-> None]]
  BY DEF Init
<1>2. ASSUME NEW n \in Nodes
      PROVE  SyncOf(n)
  <2> DEFINE l == Idle
             C == core[n]
             F == fresh[n]
  <2>1. ld[n] = l /\ l.pc = "boot" /\ l.st = "undefined"
    BY <1>1 DEF Idle
  <2>2. \A d \in Domains : C[d] = None
    BY <1>1
  <2> HIDE DEF l, C, F
  <2>3. Unloaded(l) = Domains /\ ~ InRun(l) /\ \A d \in Domains : Entry(l, C, F, d) = None
    BY <2>1, <2>2 DEF Unloaded, InRun, Entry
  <2>4. Shape(l)
    BY <2>1, <2>3 DEF Shape
  <2>5. Synced(n, l, C, F)
    BY <2>3, <2>4 DEF Synced
  <2> QED
    BY <2>1, <2>5 DEF SyncOf, C, F
<1> QED
  BY <1>1, <1>2 DEF SyncInv, Kept

\* Every step keeps SyncInv.
LEMMA SyncStep ==
  ASSUME RangeInv, SyncInv, ~ FaultsAnywhere, [Next]_vars
  PROVE  SyncInv'
<1>1. ASSUME NEW c \in Clients, Transaction(c)
      PROVE  SyncInv'
  BY <1>1, SyncCommit, SyncOtherTx DEF Transaction, EndTx
<1>2. ASSUME NEW n \in Nodes, LoaderStep(n)
      PROVE  SyncInv'
  BY <1>2, SyncInitialLoad, SyncColdGaps, SyncLoadRow, SyncLoadEnds, SyncCheck, SyncPage,
     SyncInsertDummy, SyncReadGap DEF LoaderStep
<1>3. ASSUME NEW n \in Nodes, LoaderFault(n)
      PROVE  SyncInv'
  BY <1>3, SyncLoadEnds, SyncInsertFails, SyncQueryFails DEF LoaderFault
<1>4. ASSUME Cleaner
      PROVE  SyncInv'
  BY <1>4, SyncRemoval, SyncQuiet DEF Cleaner
<1>5. ASSUME NEW n \in Nodes, ResetAndShutdown(n)
      PROVE  SyncInv'
  BY <1>5, SyncReset
<1> QED
  BY <1>1, <1>2, <1>3, <1>4, <1>5, SyncQuiet DEF Next

\* A node that finds no new updates is in sync: an event it has not seen would be
\* outside its range, and the range is that of the log.
LEMMA SyncedIsInSync ==
  ASSUME RangeInv, SyncInv
  PROVE  InSync
<1> USE DomainSyncAssumption
<1> SUFFICES ASSUME NEW n \in Nodes, Settled(n), NEW d \in Domains
             PROVE  core[n][d] = HostType(d)
  BY DEF InSync
<1> DEFINE l == ld[n]
           C == core[n]
           F == fresh[n]
<1>1. Synced(n, l, C, F) /\ Fits(l) /\ l \in Loader
  BY DEF SyncInv, SyncOf, RangeInv, DomTypes, TypeOK
<1>2. l.pc = "idle" /\ ~ l.cast /\ l.omin = MinId /\ l.omax = MaxId
  BY DEF Settled
<1>3. l.st = "set"
  BY <1>1, <1>2 DEF Fits
<1> HIDE DEF l, C, F
<1>4. Unloaded(l) = {} /\ Entry(l, C, F, d) = C[d]
  BY <1>3 DEF Unloaded, Entry
<1>5. ~ Waits(l, d)
  <2> SUFFICES ASSUME NEW i \in Ids, events[i] = d
               PROVE  i \in l.omin..l.omax
    BY <1>3 DEF Waits, SeenIds
  <2>1. i \in EventIds /\ i \in Nat
    BY DEF EventIds, Ids
  <2>2. MinId <= i /\ i <= MaxId
    BY <2>1, LogEnds
  <2> QED
    BY <1>2, <2>1, <2>2, LogEnds
<1>6. ~ Behind(n, l)
  BY <1>2, LogEnds DEF Behind
<1>7. C[d] = HostType(d)
  BY <1>1, <1>2, <1>4, <1>5, <1>6 DEF Synced
<1> QED
  BY <1>7 DEF C

\* A node that finds no new updates serves exactly the enabled domains, with the
\* host types of the table (check_for_updates, apply_changes, fix_gaps, the cold
\* load, reset_and_shutdown and the cleaner), for any number of nodes, clients and
\* domains.  The hypothesis is the one of the runs: a query does not fail where the
\* loader does not recover from it (Fragile).
THEOREM NodesInSync ==
  ~ FaultsAnywhere => (Spec => []InSync)
<1> SUFFICES ASSUME ~ FaultsAnywhere
             PROVE  Spec => []InSync
  OBVIOUS
<1>1. RangeInv /\ SyncInv => InSync
  BY SyncedIsInSync
<1>2. Init => RangeInv /\ SyncInv
  BY RangeInit, SyncInit
<1>3. RangeInv /\ SyncInv /\ [Next]_vars => RangeInv' /\ SyncInv'
  BY RangeStep, SyncStep
<1> QED
  BY <1>1, <1>2, <1>3, PTL DEF Spec
===============================================================================
