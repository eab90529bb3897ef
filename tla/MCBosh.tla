-------------------------------- MODULE MCBosh --------------------------------
(***************************************************************************)
(* Bosh for TLC: the bounds are in BoshSession.cfg.                        *)
(***************************************************************************)
EXTENDS Bosh
===============================================================================
