---------------------------- MODULE WorkingTime -----------------------------
(***************************************************************************)
(* working_seconds_between: how long an interval lasts, in calendar time   *)
(* or, for a tenant with an active work schedule, in the hours worked      *)
(* during it.  An instant is a part of a second, of which a second has     *)
(* SecondLength and a day DayLength: Jira's times have milliseconds, a      *)
(* duration has whole seconds, and int() leaves out what is over.  The      *)
(* hours of a schedule start and end on a second; its zone is a fixed       *)
(* offset from the clock of the instants.                                   *)
(***************************************************************************)
EXTENDS Integers, FiniteSets, FiniteSetsExt

CONSTANTS
  SecondLength,
  DayLength,
  WeekLength,
  NoSchedule  \* no active schedule, or one that is not enabled

ASSUME WorkingTimeAssumption ==
  /\ SecondLength \in Nat \ {0} /\ WeekLength \in Nat \ {0}
  /\ DayLength \in Nat \ {0} /\ DayLength % SecondLength = 0

TimesOfDay == {t \in 0..DayLength : t % SecondLength = 0}
Schedules == [offset : Int, working_days : SUBSET (0..(WeekLength - 1)),
              holidays : SUBSET Int, work_start : TimesOfDay,
              work_end : TimesOfDay]

(* int(delta.total_seconds()), which cuts off towards zero. *)
WholeSeconds(delta) ==
  IF delta < 0 THEN -((-delta) \div SecondLength) ELSE delta \div SecondLength

Lower(a, b) == IF a <= b THEN a ELSE b
Upper(a, b) == IF a <= b THEN b ELSE a

(* The length of the common part of [a, b] and [lo, hi]. *)
Overlap(a, b, lo, hi) == Upper(Lower(b, hi) - Upper(a, lo), 0)

DayOf(local) == local \div DayLength

IsWorkingDay(day, sched) ==
  day \notin sched.holidays /\ day % WeekLength \in sched.working_days

(* The part of the working hours of a local day within [a, b]. *)
WorkedOn(day, a, b, sched) ==
  Overlap(a, b, day * DayLength + sched.work_start,
                day * DayLength + sched.work_end)

(* Of each working day the whole seconds are added up. *)
WorkingSecondsBetween(start, end, sched) ==
  IF start >= end THEN 0
  ELSE IF sched = NoSchedule THEN WholeSeconds(end - start)
  ELSE LET localStart == start + sched.offset
           localEnd == end + sched.offset
       IN MapThenSumSet(LAMBDA day : WholeSeconds(WorkedOn(day, localStart, localEnd, sched)),
                        {day \in DayOf(localStart)..DayOf(localEnd) : IsWorkingDay(day, sched)})

-----------------------------------------------------------------------------
(* What it stands for, instant by instant. *)

IsWorked(t, sched) ==
  \/ sched = NoSchedule
  \/ LET local == t + sched.offset
         time == local - DayOf(local) * DayLength
     IN /\ IsWorkingDay(DayOf(local), sched)
        /\ sched.work_start <= time /\ time < sched.work_end

Worked(start, end, sched) == Cardinality({t \in start..(end - 1) : IsWorked(t, sched)})

(* A sum of n such durations tells the instants worked: it counts none      *)
(* twice and misses less than a second at either end of each interval; so   *)
(* for times that are whole seconds it is exact.                            *)
Tells(seconds, n, worked) ==
  worked - SecondLength * seconds \in 0..(2 * n * (SecondLength - 1))
=============================================================================
