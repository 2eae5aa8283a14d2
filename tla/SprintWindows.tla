--------------------------- MODULE SprintWindows ----------------------------
(***************************************************************************)
(* The windows of a report that is asked for by sprints.  A sprint is a    *)
(* record of the columns the windows are made of; a sprint that has not    *)
(* started has no start_at.                                                *)
(***************************************************************************)
EXTENDS Integers, Sequences, FiniteSetsExt, SequencesExt

CONSTANT Null

Sprints == [id : Nat, state : {"active", "closed", "future"}, project_key : STRING,
            start_at : Int \cup {Null}, end_at : Int \cup {Null},
            complete_at : Int \cup {Null}]

(* The most recent first, those that have not started last. *)
MoreRecent(r, s) ==
  \/ r.start_at # Null /\ s.start_at = Null
  \/ r.start_at = s.start_at /\ r.id > s.id
  \/ /\ Null \notin {r.start_at, s.start_at}
     /\ r.start_at > s.start_at

ListSprints(sprints, project, state) ==
  SetToSortSeq({s \in sprints : s.state = state /\ project \in {Null, s.project_key}},
               MoreRecent)

Started(s) == s.start_at # Null
ClosedSprints(sprints, project) ==
  SelectSeq(ListSprints(sprints, project, "closed"), Started)

(* The k-th of a list of sprints, Null if there are fewer. *)
Nth(list, k) == IF k <= Len(list) THEN list[k] ELSE Null

EndOr(s, fallback) ==
  IF s.complete_at # Null THEN s.complete_at
  ELSE IF s.end_at # Null THEN s.end_at ELSE fallback

(* _bounds_or: without a sprint, an empty window. *)
BoundsOr(s, fallback) ==
  IF s = Null THEN <<fallback, fallback>>
  ELSE IF s.start_at = Null THEN <<fallback, fallback>>
  ELSE <<s.start_at, EndOr(s, fallback)>>

PreviousClosedBefore(sprints, project, before) ==
  Nth(SelectSeq(ClosedSprints(sprints, project), LAMBDA s : s.start_at < before), 1)

(* A sprint that was asked for, of whatever project. *)
ChosenWindows(sprints, project, id, now) ==
  LET chosen == {s \in sprints : s.id = id /\ s.start_at # Null}
      target == CHOOSE s \in chosen : TRUE
  IN IF chosen = {} THEN Null
     ELSE [current |-> <<target.start_at, EndOr(target, now)>>,
           previous |-> BoundsOr(PreviousClosedBefore(sprints, project, target.start_at),
                                 target.start_at)]

(* The active sprint with the span - 1 closed ones before it. *)
ActiveWindows(active, closed, span, now) ==
  IF span > 1 /\ Len(closed) >= span
  THEN LET start == closed[span - 1].start_at
           earlier == SubSeq(closed, span, Min({2 * span - 1, Len(closed)}))
       IN [current |-> <<start, now>>,
           previous |-> <<Last(earlier).start_at, EndOr(Head(earlier), start)>>]
  ELSE [current |-> <<active.start_at, now>>,
        previous |-> BoundsOr(Nth(closed, 1), active.start_at)]

(* The last span closed sprints, or the last one if there are fewer; the    *)
(* previous window is one sprint in either case.                            *)
ClosedWindows(closed, span, now) ==
  LET n == IF span > 1 /\ Len(closed) >= span THEN span ELSE 1
      start == closed[n].start_at
  IN [current |-> <<start, EndOr(closed[1], now)>>,
      previous |-> BoundsOr(Nth(closed, n + 1), start)]

(* sprint_windows: id is Null if no sprint was asked for. *)
WindowsBySprint(sprints, project, id, span, now) ==
  LET active == Nth(ListSprints(sprints, project, "active"), 1)
      closed == ClosedSprints(sprints, project)
      running == IF active = Null THEN FALSE ELSE active.start_at # Null
  IN IF id # Null THEN ChosenWindows(sprints, project, id, now)
     ELSE IF running THEN ActiveWindows(active, closed, span, now)
     ELSE IF closed # <<>> THEN ClosedWindows(closed, span, now)
     ELSE Null
=============================================================================
