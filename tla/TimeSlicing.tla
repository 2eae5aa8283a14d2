---------------------------- MODULE TimeSlicing -----------------------------
(***************************************************************************)
(* How the changelog of one Jira issue becomes the slices that say how     *)
(* long it stayed in which status: extract_transitions_from_payload,       *)
(* _resolve_done_at and build_time_slices.                                 *)
(*                                                                         *)
(* A status change, in Jira's changelog as in the transitions table, is    *)
(* its time and the names and stable ids of both statuses.                 *)
(***************************************************************************)
EXTENDS WorkingTime, Sequences, SequencesExt

CONSTANTS
  StatusIds,
  Names,
  Null        \* SQL NULL

Transitions ==
  [at : Nat, from_status : Names, to_status : Names,
   from_status_id : StatusIds \cup {Null}, to_status_id : StatusIds \cup {Null}]

Slices ==
  [status : Names, status_id : StatusIds \cup {Null},
   start_at : Nat, end_at : Nat, duration_seconds : Nat, is_open : BOOLEAN]

-----------------------------------------------------------------------------

ExtractTransitions_Unsorted(changelog) ==
  SelectSeq(changelog, LAMBDA t : TRUE)

(* The first of several entries with the same time and target is kept; the *)
(* sort is stable and looks at the time only.                               *)
ExtractTransitions(changelog) ==
  LET kept == {k \in DOMAIN changelog :
                 \A j \in 1..(k - 1) : \/ changelog[j].at # changelog[k].at
                                       \/ changelog[j].to_status # changelog[k].to_status}
      upTo(k) == {j \in kept : \/ changelog[j].at < changelog[k].at
                               \/ changelog[j].at = changelog[k].at /\ j <= k}
      nth(n) == CHOOSE k \in kept : Cardinality(upTo(k)) = n
  IN [n \in 1..Cardinality(kept) |-> changelog[nth(n)]]

(* Jira's resolution date, or else the last change into a done status of   *)
(* an issue that is in one.                                                 *)
ResolveDoneAt(resolution, status, changelog, doneStatuses) ==
  LET entered == {changelog[k].at : k \in {j \in DOMAIN changelog :
                                             changelog[j].to_status \in doneStatuses}}
  IN IF resolution # Null THEN resolution
     ELSE IF status \in doneStatuses /\ entered # {} THEN Max(entered)
     ELSE Null

-----------------------------------------------------------------------------

FirstSlice_NoFallback(issue, transitions) ==
  [slices |-> <<>>,
   prev_time |-> issue.created_at,
   prev_status |-> IF transitions = <<>> THEN Null ELSE Head(transitions).from_status,
   prev_status_id |-> IF transitions = <<>> THEN Null
                      ELSE Head(transitions).from_status_id]

(* The loop of build_time_slices: what it has emitted, and the time and    *)
(* the status the next slice starts with.                                   *)
FirstSlice(issue, transitions) ==
  [slices |-> <<>>,
   prev_time |-> issue.created_at,
   prev_status |-> IF transitions = <<>> THEN issue.current_status
                   ELSE Head(transitions).from_status,
   prev_status_id |-> IF transitions = <<>> THEN Null
                      ELSE Head(transitions).from_status_id]

SliceUpTo_Calendar(loop, end, open, sched) ==
  [status |-> loop.prev_status, status_id |-> loop.prev_status_id,
   start_at |-> loop.prev_time, end_at |-> end,
   duration_seconds |-> WorkingSecondsBetween(loop.prev_time, end, NoSchedule),
   is_open |-> open]

SliceUpTo(loop, end, open, sched) ==
  [status |-> loop.prev_status, status_id |-> loop.prev_status_id,
   start_at |-> loop.prev_time, end_at |-> end,
   duration_seconds |-> WorkingSecondsBetween(loop.prev_time, end, sched),
   is_open |-> open]

NextSlice(loop, t, sched) ==
  IF t.at < loop.prev_time THEN loop
  ELSE [slices |-> Append(loop.slices, SliceUpTo(loop, t.at, FALSE, sched)),
        prev_time |-> t.at,
        prev_status |-> t.to_status,
        prev_status_id |-> IF t.to_status_id # Null THEN t.to_status_id
                           ELSE loop.prev_status_id]

LastSlice_Unclamped(loop, issue, doneStatuses, now, sched) ==
  LET isDone == issue.done_at # Null \/ issue.current_status \in doneStatuses
      end == IF issue.done_at # Null THEN issue.done_at ELSE now
  IN SliceUpTo(loop, end, ~isDone, sched)

LastSlice(loop, issue, doneStatuses, now, sched) ==
  LET isDone == issue.done_at # Null \/ issue.current_status \in doneStatuses
      end == IF issue.done_at # Null THEN issue.done_at ELSE now
  IN SliceUpTo(loop, Upper(end, loop.prev_time), ~isDone, sched)

BuildTimeSlices(issue, transitions, doneStatuses, now, sched) ==
  LET loop == FoldLeft(LAMBDA l, t : NextSlice(l, t, sched),
                       FirstSlice(issue, transitions), transitions)
  IN Append(loop.slices, LastSlice(loop, issue, doneStatuses, now, sched))
=============================================================================
