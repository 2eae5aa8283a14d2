---------------------------- MODULE BackfillCycle ----------------------------
(***************************************************************************)
(* What the backfill promises the tenant's administrator (ADR-0033): a     *)
(* walk, once started, ends completed or failed; the end of a walk is      *)
(* mailed exactly once, before the next walk can start.                    *)
(***************************************************************************)
EXTENDS Integers

VARIABLES
  phase,  \* "none", "running", "completed" or "failed"
  mails   \* mails sent since the walk was started

cycleVars == <<phase, mails>>

Ended == phase \in {"completed", "failed"}

Init ==
  /\ phase = "none"
  /\ mails = 0

Start ==
  /\ Ended => mails = 1
  /\ phase' = "running"
  /\ mails' = 0

End ==
  /\ ~Ended
  /\ phase' \in {"completed", "failed"}
  /\ UNCHANGED mails

Mail ==
  /\ Ended
  /\ mails = 0
  /\ mails' = 1
  /\ UNCHANGED phase

Next == Start \/ End \/ Mail

Spec ==
  /\ Init /\ [][Next]_cycleVars
  /\ WF_cycleVars(Mail)
  /\ WF_cycleVars(phase = "running" /\ End)

=============================================================================
