------------------------------- MODULE Mirror -------------------------------
(***************************************************************************)
(* What the issue sync promises the reader of the dashboard: the copy of   *)
(* an issue only ever moves forward along the versions Jira has had, a     *)
(* deleted issue disappears for good, and, unless the news of it was lost, *)
(* every change and every deletion reaches the copy.                       *)
(***************************************************************************)
EXTENDS Integers

CONSTANT Issues

VARIABLES
  source, \* per issue: the stamp of its version in Jira, 0 if it has none
  dead,   \* issues deleted in Jira
  copy,   \* per issue: the stamp of the stored version, 0 if none is stored
  missed  \* issues of which the latest news was lost

mirrorVars == <<source, dead, copy, missed>>

Init ==
  /\ source = [i \in Issues |-> 0] /\ dead = {}
  /\ copy = [i \in Issues |-> 0] /\ missed = {}

Change(i) ==
  /\ i \notin dead
  /\ source'[i] > source[i]
  /\ source' = [source EXCEPT ![i] = source'[i]]
  /\ missed' = missed \ {i}
  /\ UNCHANGED <<dead, copy>>

Remove(i) ==
  /\ source[i] > 0 /\ i \notin dead
  /\ dead' = dead \cup {i}
  /\ missed' = missed \ {i}
  /\ UNCHANGED <<source, copy>>

(* Some issues catch up, each to a version between its copy and Jira's. *)
CatchUp ==
  /\ \A i \in Issues :
       \/ copy'[i] = copy[i]
       \/ i \notin dead /\ copy[i] < copy'[i] /\ copy'[i] <= source[i]
  /\ \A i \in missed \ missed' : copy'[i] = source[i]
  /\ missed' \subseteq missed
  /\ UNCHANGED <<source, dead>>

Erase(i) ==
  /\ i \in dead
  /\ copy' = [copy EXCEPT ![i] = 0]
  /\ missed' = missed \ {i}
  /\ UNCHANGED <<source, dead>>

Miss(i) ==
  /\ missed' = missed \cup {i}
  /\ UNCHANGED <<source, dead, copy>>

Next ==
  \/ CatchUp
  \/ \E i \in Issues : Change(i) \/ Remove(i) \/ Erase(i) \/ Miss(i)

Stale(i) == IF i \in dead THEN copy[i] # 0 ELSE copy[i] # source[i]

Spec ==
  /\ Init /\ [][Next]_mirrorVars
  /\ \A i \in Issues : Stale(i) ~> ~Stale(i) \/ i \in missed

=============================================================================
