----------------------------- MODULE MCDomainSync -----------------------------
(* Instances of DomainSync for TLC: the domains, nodes and clients are model  *)
(* values and the bounds are given by the configurations.                     *)
EXTENDS DomainSync
===============================================================================
