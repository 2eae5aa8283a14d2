---------------------------- MODULE MCIssueSync -----------------------------
(* Instances of IssueSync for TLC. *)
EXTENDS IssueSync, TLC

=============================================================================
