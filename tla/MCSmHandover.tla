---------------------------- MODULE MCSmHandover ----------------------------
(***************************************************************************)
(* TLC instances of SmHandover: two or three connections for one full JID. *)
(***************************************************************************)
EXTENDS SmHandover, TLC

CONSTANT m1

TwoProcs == {1, 2}
ThreeProcs == {1, 2, 3}
OneMessage == {m1}
FirstProc == {1}
AnyOfTwo == {None, 1, 2}
OtherJid == {None}
=============================================================================
