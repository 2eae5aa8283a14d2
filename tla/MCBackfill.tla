----------------------------- MODULE MCBackfill -----------------------------
(* Instances of Backfill for TLC. *)
EXTENDS Backfill, TLC

(* Invocation slots are interchangeable. *)
Symmetry == Permutations(Invocations)

(* The counts of mails and the banner history are written and never read   *)
(* by the system: properties that do not mention them are checked on the   *)
(* state without them.                                                     *)
WithoutHistory ==
  <<pages, tenant, req, queue, inv, ui, kicks, redeliveries, crashes, pushes,
    ingested>>

=============================================================================
