---------------------------- MODULE MCRecompute ----------------------------
(* Instances of Recompute for TLC. *)
EXTENDS Recompute, TLC

(* Invocation slots are interchangeable. *)
Symmetry == Permutations(Invocations)

(* The stored per-issue metrics are written and never read. *)
WithoutMetrics ==
  <<tenant, stored, math, alerts, req, reader, queue, inv, ui, spent>>

(* The second slice of the first issue begins and ends at one instant. *)
OneInstant == {<<1, 2>>}

=============================================================================
