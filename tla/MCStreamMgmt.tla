---------------------------- MODULE MCStreamMgmt ----------------------------
(***************************************************************************)
(* TLC instances of StreamMgmt: the bounds are given in the .cfg files.    *)
(***************************************************************************)
EXTENDS StreamMgmt
=============================================================================
