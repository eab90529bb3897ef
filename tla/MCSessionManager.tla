-------------------------- MODULE MCSessionManager --------------------------
(***************************************************************************)
(* TLC instances of SessionManager: two or three connections of one user   *)
(* on two nodes. The processes of one node, and the resources, are         *)
(* interchangeable.                                                        *)
(***************************************************************************)
EXTENDS SessionManager, TLC

CONSTANTS p1, p2, p3, n1, n2, r1, r2

ThreeProcs == {p1, p2, p3}
TwoProcs == {p1, p3}
BothNodes == {n1, n2}
NodeOfThree == p1 :> n1 @@ p2 :> n1 @@ p3 :> n2
NodeOfTwo == p1 :> n1 @@ p3 :> n2
TwoResources == {r1, r2}
SameNode == Permutations({p1, p2}) \cup Permutations({r1, r2})
=============================================================================
