-------------------------- MODULE MCTenantAccess ---------------------------
(* Instances of TenantAccess for TLC.  Slots, sites and instances are       *)
(* alike: the run without liveness properties takes them up to symmetry.    *)
EXTENDS TenantAccess, TLC

Symmetry == Permutations(Sites) \cup Permutations(Slots) \cup Permutations(Instances)
=============================================================================
