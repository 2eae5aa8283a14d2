---------------------------- MODULE FlowInsights -----------------------------
(***************************************************************************)
(* What the reports say of two windows of a tenant's flow: percentiles,    *)
(* the windows themselves, throughput, the scatter of cycle times, the     *)
(* bottleneck and the trends.                                              *)
(*                                                                         *)
(* A quotient is kept as the pair of its numerator and its denominator,    *)
(* which is positive; thresholds are in percent.                           *)
(***************************************************************************)
EXTENDS FlowMetrics

CONSTANTS
  MonthStarts,        \* the first instants of consecutive months from a January on
  MinTimeBaseline,    \* MIN_TIME_BASELINE_SECONDS, in units of the clock
  RecentDays          \* the days wip_aging and the scatter plot look back

ASSUME FlowInsightsAssumption ==
  /\ MinTimeBaseline \in Nat \ {0} /\ RecentDays \in Nat
  /\ \A k \in DOMAIN MonthStarts : MonthStarts[k] \in Int
  /\ \A k \in 2..Len(MonthStarts) : MonthStarts[k - 1] < MonthStarts[k]

BySprint == INSTANCE SprintWindows

Zero == <<0, 1>>
AtLeast(x, percent) == 100 * x[1] >= percent * x[2]
AtMost(x, percent) == 100 * x[1] <= percent * x[2]

(* _percentile, in hundredths: the rank is interpolated between its         *)
(* neighbours in the sorted values.                                         *)
Percentile(values, percent) ==
  LET sorted == SortSeq(values, <)
      rank == percent * (Len(values) - 1)
      lo == rank \div 100 + 1
      hi == Lower(lo + 1, Len(values))
  IN IF values = <<>> THEN 0
     ELSE 100 * sorted[lo] + (sorted[hi] - sorted[lo]) * (rank % 100)

-----------------------------------------------------------------------------
(* The current window and the one before it. *)

DefaultWindows(now, days) ==
  LET start == now - days * DayLength
  IN [current |-> <<start, now>>, previous |-> <<start - days * DayLength, start>>]

(* The last of the given starts that is not after t. *)
LastStart(starts, t) == Max({s \in starts : s <= t})

PeriodStarts(period) ==
  {MonthStarts[k] : k \in {j \in DOMAIN MonthStarts : period = "mtd" \/ j % 3 = 1}}

CalendarWindows(period, now) ==
  LET start == LastStart(PeriodStarts(period), now)
  IN [current |-> <<start, now>>,
      previous |-> <<LastStart(PeriodStarts(period), start - 1), start>>]

(* The windows of a request: by sprints if it names one or asks for a span *)
(* and there are any, else by the calendar period, else by days.            *)
ReportWindows(query, sprints, now) ==
  LET bySprint == IF query.sprint_id = Null /\ query.span = 1 THEN Null
                  ELSE BySprint!WindowsBySprint(sprints, query.project_key,
                                                 query.sprint_id, query.span, now)
  IN IF bySprint # Null THEN bySprint
     ELSE IF query.period # Null THEN CalendarWindows(query.period, now)
     ELSE DefaultWindows(now, query.days)

-----------------------------------------------------------------------------

(* cycle_time_throughput; issues are rows with created_at and done_at. *)
CycleTimes(issues, from, to) ==
  LET finished == {i \in DOMAIN issues :
                 issues[i].done_at # Null /\ from <= issues[i].done_at /\ issues[i].done_at <= to}
  IN [i \in finished |-> WholeSeconds(issues[i].done_at - issues[i].created_at)]

AverageOf(f) ==
  IF DOMAIN f = {} THEN Null
  ELSE <<MapThenSumSet(LAMBDA i : f[i], DOMAIN f), Cardinality(DOMAIN f)>>

(* _window_to_out: the count of the done issues and their cycle times. *)
CycleSummary(issues, from, to) ==
  LET cycles == CycleTimes(issues, from, to)
      values == SetToSeq(DOMAIN cycles)
      ordered == [k \in DOMAIN values |-> cycles[values[k]]]
  IN [count |-> Len(ordered),
      average |-> IF ordered = <<>> THEN Zero ELSE AverageOf(cycles),
      p50 |-> Percentile(ordered, 50), p90 |-> Percentile(ordered, 90)]

(* compute_cycle_scatter: whatever the end of the window, issues done after *)
(* it are shown as well.                                                    *)
CycleScatter(issues, from) ==
  LET finished == {i \in DOMAIN issues : issues[i].done_at # Null /\ issues[i].done_at >= from}
      age(i) == Upper(issues[i].done_at - issues[i].created_at, 0)
      values == SetToSeq(finished)
      ordered == [k \in DOMAIN values |-> age(values[k])]
      overlay(p) == IF ordered = <<>> THEN Null ELSE Percentile(ordered, p)
  IN [points |-> [i \in finished |-> [completed_at |-> issues[i].done_at, cycle |-> age(i)]],
      p50 |-> overlay(50), p85 |-> overlay(85), p95 |-> overlay(95)]

(* compute_wip_aging: the tickets in flight and the boundary of the recent  *)
(* cycle times, in working time.                                            *)
WipAging(issues, now, sched) ==
  LET recent == {i \in DOMAIN issues : /\ issues[i].done_at # Null
                                       /\ issues[i].done_at >= now - RecentDays * DayLength}
      inFlight == {i \in DOMAIN issues : issues[i].done_at = Null}
      values == SetToSeq(recent)
      cycles == [k \in DOMAIN values |->
                   WorkingSecondsBetween(issues[values[k]].created_at,
                                         issues[values[k]].done_at, sched)]
  IN [tickets |-> [i \in inFlight |->
        [in_status |-> TimeInStatus(issues[i], now, sched),
         cycle |-> WorkingSecondsBetween(issues[i].created_at, now, sched)]],
      p95 |-> IF cycles = <<>> THEN Null ELSE Percentile(cycles, 95),
      sample_size |-> Len(cycles)]

-----------------------------------------------------------------------------
(* A row of a window snapshot, and the snapshot: its rows by status.       *)

StatusResults == [avg : Nat \X (Nat \ {0}), p50 : Nat, p90 : Nat,
                  wip_avg : Nat \X (Nat \ {0}), throughput : Nat, sample_size : Nat]

StatusResult(stored, group, from, to) ==
  LET w == StatusWindow(stored, group, from, to)
      sample == SetToSeq(Completing(stored, group, from, to))
      durations == [k \in DOMAIN sample |-> sample[k].row.duration_seconds]
  IN [avg |-> IF w.sample_size = 0 THEN Zero ELSE <<w.duration_sum, w.sample_size>>,
      p50 |-> Percentile(durations, 50), p90 |-> Percentile(durations, 90),
      wip_avg |-> <<w.wip_seconds, Upper(to - from, 1)>>,
      throughput |-> w.throughput, sample_size |-> w.sample_size]

WindowSnapshot(stored, groups, from, to) ==
  [n \in {g.display : g \in groups} |->
     StatusResult(stored, CHOOSE g \in groups : g.display = n, from, to)]

-----------------------------------------------------------------------------
(* detect_bottleneck *)

(* _safe_ratio and _safe_delta: nothing to compare with is no signal. *)
SafeRatio(x, y) == IF y[1] = 0 THEN Null ELSE <<x[1] * y[2], x[2] * y[1]>>
SafeDelta(x, y) == IF y = 0 THEN Null ELSE <<x - y, y>>

Confidence(score) ==
  IF score >= 5 THEN "very_high" ELSE IF score >= 4 THEN "high" ELSE "medium"

ScoreStatus(cur, prev, ctx) ==
  LET time == SafeRatio(cur.avg, prev.avg)
      wip == SafeRatio(cur.wip_avg, prev.wip_avg)
      delta == SafeDelta(cur.throughput, prev.throughput)
      points(fires, n) == IF fires THEN n ELSE 0
  IN points(IF time = Null THEN FALSE
            ELSE AtLeast(time, ctx.bottleneck_time_ratio_threshold), 2)
     + points(IF wip = Null THEN FALSE
              ELSE AtLeast(wip, ctx.bottleneck_wip_ratio_threshold), 1)
     + points(IF delta = Null THEN FALSE
              ELSE AtMost(delta, ctx.bottleneck_throughput_delta_threshold), 1)
     + points(IF time = Null THEN FALSE
              ELSE AtLeast(time, ctx.bottleneck_time_ratio_extra_threshold), 1)

Candidates(current, previous, ctx) ==
  LET excluded == Folded(ctx.terminal_statuses) \cup Folded(ctx.external_blocking_statuses)
  IN [n \in {m \in DOMAIN current \cap DOMAIN previous : CaseFold[m] \notin excluded} |->
        ScoreStatus(current[n], previous[n], ctx)]

(* The highest score that is high enough; of equal ones the first name. *)
DetectBottleneck(current, previous, ctx) ==
  LET scores == Candidates(current, previous, ctx)
      enough == {n \in DOMAIN scores : scores[n] >= ctx.bottleneck_min_score}
      worst == CHOOSE n \in enough : \A m \in enough \ {n} :
                 \/ scores[n] > scores[m]
                 \/ scores[n] = scores[m] /\ Place(n) < Place(m)
  IN IF enough = {} THEN Null
     ELSE [status |-> worst, score |-> scores[worst],
           confidence |-> Confidence(scores[worst])]

-----------------------------------------------------------------------------
(* compute_trends *)

MinCountBaseline == 2
MinPriorSample == 3

Classify(ratio, lowerIsBetter, ctx) ==
  IF AtLeast(ratio, ctx.trend_increase_threshold)
  THEN IF lowerIsBetter THEN "worsening" ELSE "improving"
  ELSE IF AtMost(ratio, ctx.trend_decrease_threshold)
  THEN IF lowerIsBetter THEN "improving" ELSE "worsening"
  ELSE "stable"

(* A change that has enough of a baseline, as a set of at most one. *)
TrendOf(metric, status, x, y, enough, ctx) ==
  IF ~enough THEN {}
  ELSE LET ratio == <<x[1] * y[2], x[2] * y[1]>>
       IN {[metric |-> metric, status |-> status, ratio |-> ratio,
            direction |-> Classify(ratio, metric # "throughput", ctx)]}

StatusTrends(n, cur, prev, ctx) ==
  IF prev.sample_size < MinPriorSample THEN {}
  ELSE TrendOf("avg_time", n, cur.avg, prev.avg,
               prev.avg[1] >= MinTimeBaseline * prev.avg[2], ctx)
       \cup TrendOf("wip", n, cur.wip_avg, prev.wip_avg,
                    prev.wip_avg[1] >= MinCountBaseline * prev.wip_avg[2], ctx)
       \cup TrendOf("throughput", n, <<cur.throughput, 1>>, <<prev.throughput, 1>>,
                    prev.throughput >= MinPriorSample, ctx)

ComputeTrends(current, previous, ctx, cycleCurrent, cyclePrevious) ==
  LET shown == {n \in DOMAIN current \cap DOMAIN previous :
                  CaseFold[n] \notin Folded(ctx.terminal_statuses)}
  IN UNION {StatusTrends(n, current[n], previous[n], ctx) : n \in shown}
     \cup (IF Null \in {cycleCurrent, cyclePrevious} THEN {}
           ELSE TrendOf("cycle_time", Null, cycleCurrent, cyclePrevious,
                        cyclePrevious[1] >= MinTimeBaseline * cyclePrevious[2], ctx))

(* get_metrics, of one of its windows: the cycle times, and every status    *)
(* with the limits on its work in progress that may be shown beside it.     *)
MetricsWindow(stored, issues, window, limits, project) ==
  LET snapshot == WindowSnapshot(stored, DashboardRows(stored), window[1], window[2])
  IN [cycles |-> CycleSummary(issues, window[1], window[2]),
      statuses |-> [n \in DOMAIN snapshot |->
        [result |-> snapshot[n],
         wip_limits |-> {l.max_in_progress : l \in WipLimitsFor(limits, project, n)}]]]

InsightReport(current, previous, ctx, cycleCurrent, cyclePrevious) ==
  [bottleneck |-> DetectBottleneck(current, previous, ctx),
   trends |-> ComputeTrends(current, previous, ctx, cycleCurrent, cyclePrevious)]

(* get_insights, of the windows it was asked for. *)
Insights(stored, issues, windows, ctx) ==
  LET rows == DashboardRows(stored)
      snapshot(w) == WindowSnapshot(stored, rows, w[1], w[2])
      cycle(w) == AverageOf(CycleTimes(issues, w[1], w[2]))
  IN InsightReport(snapshot(windows.current), snapshot(windows.previous), ctx,
                   cycle(windows.current), cycle(windows.previous))

(* get_cfd and get_cycle_scatter have one window. *)
Cfd(stored, query, sprints, ctx, now) ==
  LET w == ReportWindows(query, sprints, now).current
  IN ComputeCfd(stored, ctx.terminal_statuses, w[1], w[2])

Scatter(issues, query, sprints, now) ==
  CycleScatter(issues, ReportWindows(query, sprints, now).current[1])
=============================================================================
