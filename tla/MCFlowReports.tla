--------------------------- MODULE MCFlowReports ----------------------------
EXTENDS FlowReports, SiteReads

CONSTANTS a, b,               \* issues
          movesA, movesB,
          todo, doing, done,          \* status ids
          ToDo, Review, REVIEW, Done \* names

MCMaxMoves == [i \in Issues |-> IF i = a THEN movesA ELSE movesB]

(* doing is renamed once, in case. *)
MCNamesOf == (todo :> <<ToDo>>) @@ (doing :> <<Review, REVIEW>>) @@ (done :> <<Done>>)
MCAlphabet == <<Done, REVIEW, Review, ToDo>>
MCCaseFold == [n \in {Done, REVIEW, Review, ToDo} |-> IF n = REVIEW THEN Review ELSE n]
MCDefaultStatuses == [active_statuses |-> {Review, REVIEW}, done_statuses |-> {Done},
                      terminal_statuses |-> {Done}, external_blocking_statuses |-> {}]

(* A year and a half of months of two or three units. *)
MCMonthStarts == [k \in 1..18 |-> 2 * (k - 1) + (k - 1) \div 3 - 20]

(* The first second of every other day worked, in a zone behind the clock. *)
Office == [offset |-> -1, working_days |-> {0}, holidays |-> {1},
           work_start |-> 0, work_end |-> SecondLength]
MCSchedules == {NoSchedule, Office}

(* working_seconds_between tells the instants worked, for schedules with   *)
(* part-time days, holidays and hours that end before they start, across    *)
(* several weeks of days of two seconds.                                     *)
TwoSeconds == INSTANCE WorkingTime WITH SecondLength <- 2, DayLength <- 4

ASSUME WorkingTimeIsWorked ==
  \A sched \in {NoSchedule} \cup
       [offset : {-1, 0, 3}, working_days : SUBSET (0..(WeekLength - 1)),
        holidays : {{}, {0}, {-1, 2}}, work_start : TwoSeconds!TimesOfDay,
        work_end : TwoSeconds!TimesOfDay] :
    \A start, end \in 0..20 :
      TwoSeconds!Tells(TwoSeconds!WorkingSecondsBetween(start, end, sched), 1,
                       TwoSeconds!Worked(start, end, sched))

-----------------------------------------------------------------------------

Samples == UNION {[1..n -> 0..3] : n \in 1..4}
Percents == {0, 50, 85, 90, 95, 100}

(* _percentile stays between the extremes, which are the percentiles 0 and *)
(* 100, does not depend on the order of the values, and does not fall as   *)
(* the percentage grows.                                                    *)
ASSUME PercentileIsMonotonic ==
  \A s \in Samples :
    /\ Percentile(s, 0) = 100 * Min(ToSet(s)) /\ Percentile(s, 100) = 100 * Max(ToSet(s))
    /\ \A p \in Percents : Percentile(Reverse(s), p) = Percentile(s, p)
    /\ \A p, q \in Percents : p <= q => Percentile(s, p) <= Percentile(s, q)

(* Every kind of window abuts on the one before it; a calendar window      *)
(* starts with the month or quarter of its end, and the one before it is   *)
(* the whole month or quarter before that.                                  *)
ASSUME WindowsAbut ==
  \A t \in (MonthStarts[4] + 1)..MonthStarts[18] :
    /\ \A days \in 1..3 :
         LET w == DefaultWindows(t, days)
         IN w.previous[2] = w.current[1] /\ w.current[2] = t
            /\ w.current[2] - w.current[1] = w.previous[2] - w.previous[1]
    /\ \A period \in {"mtd", "qtd"} :
         LET w == CalendarWindows(period, t)
             step == IF period = "mtd" THEN 1 ELSE 3
         IN /\ w.previous[2] = w.current[1] /\ w.current[1] <= t
            /\ \E k \in DOMAIN MonthStarts :
                 /\ MonthStarts[k] = w.current[1] /\ MonthStarts[k - step] = w.previous[1]
                 /\ k + step \in DOMAIN MonthStarts => t < MonthStarts[k + step]

-----------------------------------------------------------------------------

(* Sprints that follow each other with or without a pause, the last active *)
(* or closed, and one that is planned; some were completed late or early.   *)
Sequential(n, last, gap, late) ==
  {[id |-> k, state |-> IF k = n THEN last ELSE "closed", project_key |-> "P",
    start_at |-> 4 * k + gap, end_at |-> 4 * k + 3,
    complete_at |-> IF k = n /\ last = "active" THEN Null
                    ELSE IF late THEN 4 * k + 4 ELSE Null] : k \in 1..n}
  \cup {[id |-> 9, state |-> "future", project_key |-> "P", start_at |-> Null,
         end_at |-> Null, complete_at |-> Null]}

(* For sprints one after the other the two windows do not overlap and are  *)
(* in order.  With a span, the current one takes in as many sprints, and   *)
(* the previous one as many while a sprint is active; between sprints it   *)
(* is a single one.  A sprint asked for by itself is its own window.       *)
ASSUME SprintWindowsAreOrdered ==
  \A n \in 1..5, last \in {"active", "closed"}, gap \in 0..1, late \in BOOLEAN, span \in 1..3 :
    LET sprints == Sequential(n, last, gap, late)
        today == 4 * n + 5
        within(w) == {s \in sprints : s.start_at # Null /\ w[1] <= s.start_at
                                      /\ s.start_at < w[2]}
        w == BySprint!WindowsBySprint(sprints, "P", Null, span, today)
        own(k) == BySprint!WindowsBySprint(sprints, "P", k, span, today)
    IN /\ w.previous[1] <= w.previous[2] /\ w.previous[2] <= w.current[1]
       /\ w.current[1] < w.current[2]
       /\ n > span => /\ Cardinality(within(w.current)) = span
                      /\ Cardinality(within(w.previous)) =
                           IF last = "active" THEN Lower(span, n - span) ELSE 1
       /\ \A k \in 1..n : /\ {s.id : s \in within(own(k).current)} =
                                IF k = n /\ last = "active" THEN {n} ELSE {k}
                          /\ {s.id : s \in within(own(k).previous)} = {k - 1} \ {0}

Queries == [sprint_id : {Null, 1}, span : 1..2, period : {Null, "mtd", "qtd"},
            project_key : {Null, "P", "Q"}, days : {1}]

(* A project without sprints gets the windows it would get without asking  *)
(* for them, and no request is without windows.                             *)
ASSUME EveryReportHasWindows ==
  \A query \in Queries, sprints \in {{}, Sequential(2, "active", 0, TRUE)} :
    LET asked == ReportWindows(query, sprints, 13)
        plain == ReportWindows([query EXCEPT !.sprint_id = Null, !.span = 1], {}, 13)
    IN /\ asked.current[1] <= asked.current[2]
       /\ sprints = {} \/ (query.sprint_id = Null /\ query.project_key = "Q") => asked = plain

-----------------------------------------------------------------------------

Results == [avg : {<<0, 1>>, <<2, 1>>, <<5, 2>>, <<3, 1>>}, wip_avg : {<<2, 1>>, <<5, 2>>},
            throughput : {3, 5}, sample_size : {3}]
Snapshots == [{ToDo, Review} -> Results]
Contexts == {Context([FreshTenant EXCEPT !.external_blocking_statuses = x,
                                         !.done_statuses = d]) :
               x \in {Unset, {ToDo}}, d \in {Unset, {REVIEW}}}

(* A bottleneck is never in a terminal or blocking status, in whatever     *)
(* case that is written; it has the highest score; and the trends agree    *)
(* with it: the time in it is worsening, unless the baseline is too small. *)
ASSUME BottleneckIsATrend ==
  \A cur, prev \in Snapshots, ctx \in Contexts :
    LET found == DetectBottleneck(cur, prev, ctx)
        n == found.status
    IN found # Null =>
         /\ CaseFold[n] \notin Folded(ctx.terminal_statuses \cup ctx.external_blocking_statuses)
         /\ \A m \in DOMAIN Candidates(cur, prev, ctx) :
              Candidates(cur, prev, ctx)[m] <= found.score
         /\ prev[n].avg[1] >= MinTimeBaseline * prev[n].avg[2] =>
              \E t \in ComputeTrends(cur, prev, ctx, Null, Null) :
                t.metric = "avg_time" /\ t.status = n /\ t.direction = "worsening"

(* Nothing worsens from one window to the other and back. *)
ASSUME TrendsHaveOneDirection ==
  \A cur, prev \in Snapshots :
    LET ctx == Context(FreshTenant)
        worse(x, y) == {[metric |-> t.metric, status |-> t.status] :
                          t \in {u \in ComputeTrends(x, y, ctx, <<4, 1>>, <<6, 1>>) :
                                   u.metric # "cycle_time" /\ u.direction = "worsening"}}
    IN worse(cur, prev) \cap worse(prev, cur) = {}

-----------------------------------------------------------------------------

Lists == {Unset, {}, {Review}, {Done, REVIEW}}
Bodies == [active_statuses : Lists, done_statuses : Lists, terminal_statuses : Lists,
           external_blocking_statuses : {Unset, {}, {ToDo}},
           independent_done_terminal_lists : {Unset, TRUE, FALSE},
           bottleneck_time_ratio_threshold : {Unset, 99, 100, 1001},
           bottleneck_wip_ratio_threshold : {Unset, 150},
           bottleneck_throughput_delta_threshold : {Unset, -101, -50}]

(* Whatever an administrator saves, there are active and done statuses     *)
(* left, the done ones are terminal unless the lists are kept apart, no    *)
(* threshold is out of reach, and saving nothing restores the defaults.    *)
ASSUME ConfigurationIsUsable ==
  /\ PutTenantSettings(FreshTenant, [f \in DOMAIN FreshTenant |-> Unset]) = FreshTenant
  /\ \A body \in Bodies :
       LET ctx == Context(PutTenantSettings(FreshTenant, body))
       IN /\ {} \notin {ctx.active_statuses, ctx.done_statuses, ctx.terminal_statuses}
          /\ \/ body.independent_done_terminal_lists = TRUE
             \/ ctx.done_statuses \subseteq ctx.terminal_statuses
          /\ \A f \in RatioThresholds : ctx[f] \in 100..1000

LimitRows == [project_key : {TenantWide, "P"}, status : {Review, REVIEW, ToDo},
              max_in_progress : 0..1, breach_minutes : 0..1]
LimitTables == {PutWipLimit(PutWipLimit({}, r), s) : r, s \in LimitRows}

(* The limit that applies is the one saved for the project, else the one   *)
(* saved for every project, and it is one, unless there are two rows whose *)
(* statuses differ in case; what one project saves, another does not see.  *)
ASSUME LimitsResolve ==
  \A table \in LimitTables, limit \in LimitRows :
    LET saved == PutWipLimit(table, limit)
        found == WipLimitsFor(saved, "P", limit.status)
        equal == {r \in saved : CaseFold[r.status] = CaseFold[limit.status]}
    IN /\ Cardinality({r.status : r \in equal}) = 1 =>
            /\ Cardinality(found) = 1
            /\ limit.project_key = "P" =>
                 found = {[max_in_progress |-> limit.max_in_progress,
                           breach_minutes |-> limit.breach_minutes, scope |-> "project"]}
       /\ WipLimitsFor(DeleteWipLimit(saved, "P", limit.status), "Q", limit.status)
          = WipLimitsFor(saved, "Q", limit.status)
       /\ ListWipLimits(saved, "P") = saved

-----------------------------------------------------------------------------

Rules == {[Configured(type, threshold) EXCEPT !.status = Review, !.project_key = project,
                                              !.threshold_pct = 20, !.enabled = on] :
            type \in RuleTypes, threshold \in {Unset, 1, 2}, project \in {Unset, "P"},
            on \in BOOLEAN}
Site == [issues |-> a :> [created_at |-> 0, updated_at |-> SecondLength,
                          done_at |-> Null, current_status |-> Review,
                          transitions |-> <<>>],
         slices |-> a :> << [status |-> Review, status_id |-> doing, start_at |-> 0,
                             end_at |-> 2 * SecondLength, duration_seconds |-> 2,
                             is_open |-> TRUE] >>,
         schedule |-> NoSchedule,
         limits |-> {[project_key |-> TenantWide, status |-> REVIEW,
                      max_in_progress |-> 1, breach_minutes |-> 1]}]
Inputs == [report |-> [bottleneck |-> Null,
                       trends |-> ComputeTrends([n \in {Review} |-> [avg |-> <<3, 1>>, wip_avg |-> <<3, 1>>,
                                                   throughput |-> 3, sample_size |-> 3]],
                                  [n \in {Review} |-> [avg |-> <<2, 1>>, wip_avg |-> <<2, 1>>,
                                                   throughput |-> 5, sample_size |-> 3]],
                                  Context(FreshTenant), Null, Null)],
           snapshot |-> [n \in {Review} |-> [avg |-> <<3, 1>>, wip_avg |-> <<3, 1>>,
                                            throughput |-> 3, sample_size |-> 3]],
           from |-> 0]

Asked == [sprint_id |-> Null, span |-> 1, period |-> Null, project_key |-> Null, days |-> 1]

(* The reports of the site of the rules: the limit that is shown beside a  *)
(* status is the one an administrator saved, in whatever case, and the one *)
(* issue is in flight every day.                                            *)
ASSUME ReportsShowTheSite ==
  LET atTwo == 2 * SecondLength
      shown == MetricsWindow(Stored(Site.slices), Site.issues, <<0, atTwo>>, Site.limits, "P")
  IN /\ shown.cycles = [count |-> 0, average |-> Zero, p50 |-> 0, p90 |-> 0]
     /\ DOMAIN shown.statuses = {Review}
     /\ shown.statuses[Review].wip_limits = {1}
     /\ shown.statuses[Review].result.wip_avg = <<atTwo, atTwo>>
     /\ Scatter(Site.issues, Asked, {}, atTwo).points = <<>>
     /\ Cfd(Stored(Site.slices), Asked, {}, Context(FreshTenant), DayLength) = <<Review :> {a}>>

(* Each enabled rule is in one of the two sweeps: together they find what  *)
(* an evaluation by hand finds; the ticket events find a part of it; and   *)
(* what is stored is not found again at the same time.                     *)
ASSUME SweepsCoverTheRules ==
  LET atThree == 3 * SecondLength
      found(tier) == EvaluateAlerts({}, Rules, tier, Site, Inputs, atThree)
      all == found(Unset)
  IN /\ found("daily") \cup found("hourly") = all /\ found("daily") \cap found("hourly") = {}
     /\ EvaluateIssueAlerts({}, Rules, {a}, Site, atThree) \subseteq all
     /\ EvaluateAlerts(all, Rules, Unset, Site, Inputs, atThree) = {}
     /\ {e.rule.type : e \in all} = RuleTypes

(* A limit of 0 on the work in progress of one status silences every rule  *)
(* of the tenant that is swept with a rule on that status.                  *)
ASSUME ZeroLimitSilences ==
  EvaluateAlerts({}, Rules, Unset,
                 [Site EXCEPT !.limits = {[l EXCEPT !.max_in_progress = 0] : l \in @}],
                 Inputs, 3 * SecondLength) = {}

-----------------------------------------------------------------------------

(* An issue that is created at 0, may start and may be finished by 2, and is *)
(* ingested later; a tenant that marks its middle status as blocking, in    *)
(* another case.                                                             *)
Move(from, to, at) == [from_status |-> from, to_status |-> to, from_status_id |-> Null,
                       to_status_id |-> Null, at |-> at]
Lives == {<<>>} \cup {<<Move(ToDo, Review, t)>> : t \in 0..2}
         \cup {<<Move(ToDo, Review, t), Move(Review, Done, u)>> : t \in 0..1, u \in 1..2}
IssueOf(life, synced) ==
  [key |-> "P-1", project_key |-> "P", created_at |-> 0, updated_at |-> synced,
   current_status |-> IF life = <<>> THEN ToDo ELSE Last(life).to_status,
   done_at |-> IF Len(life) = 2 THEN life[2].at ELSE Null, transitions |-> life]
Marked == Context([FreshTenant EXCEPT !.external_blocking_statuses = {REVIEW}])
Histories == [life : Lives, synced : 2..3, sched : MCSchedules]
Issue(h) == a :> IssueOf(h.life, h.synced)
Ended(h) == IF Len(h.life) = 2 THEN h.life[2].at ELSE h.synced
Built(h) ==
  LET status == <<ToDo>> \o [k \in DOMAIN h.life |-> h.life[k].to_status]
      time == <<0>> \o [k \in DOMAIN h.life |-> h.life[k].at] \o <<Ended(h)>>
  IN a :> [k \in DOMAIN status |->
             [status |-> status[k], status_id |-> Null, start_at |-> time[k],
              end_at |-> time[k + 1], is_open |-> k = Len(status) /\ Len(h.life) < 2,
              duration_seconds |-> WorkingSecondsBetween(time[k], time[k + 1], h.sched)]]
Csv(h, days, t) ==
  ExportCsv(Issue(h), Built(h), [project_key |-> "P", days |-> days, view |-> "bottleneck"],
            Marked, t)

(* The panel shows the issue's life without gaps, up to now only for an     *)
(* issue in flight, and its total is the time worked in it; the blocking    *)
(* status is marked in the panel and in the export, in whatever case; the   *)
(* export of a long period has the slices of the panel.                     *)
ASSUME PanelShowsTheLife ==
  \A h \in Histories :
    LET panel == CHOOSE p \in PanelData(Issue(h), Built(h), "P-1", Marked) : TRUE
        history == panel.status_history
    IN /\ Tells(panel.total_cycle_time_seconds, Len(history), Worked(0, Ended(h), h.sched))
       /\ Last(history).status = panel.current_status
       /\ (Last(history).exited_at = Null) = (Len(h.life) < 2)
       /\ \A k \in 2..Len(history) : history[k - 1].exited_at = history[k].entered_at
       /\ \A k \in DOMAIN history : history[k].is_external_blocking = (history[k].status = Review)
       /\ {<<l.slice.start_at, l.slice.status, l.slice.duration_seconds, l.external_blocking>> :
              l \in Csv(h, 9, h.synced).lines}
          = {<<e.entered_at, e.status, e.duration_seconds, e.is_external_blocking>> :
               e \in ToSet(history)}

(* An issue is in the export if it was done, or else ingested, in the       *)
(* period: one that is in flight and has not been touched is left out.      *)
ASSUME IdleLeaveTheExport ==
  \A h \in Histories, days \in 1..2, t \in 3..7 :
    (Csv(h, days, t).lines = {}) = (Ended(h) < t - days * DayLength)

(* Computing the metrics again leaves the rows of done issues; of an issue  *)
(* in flight the time since its ingest is time waited, whatever its status. *)
ASSUME MetricsAreRepeatable ==
  \A h \in Histories, t, u \in 3..5 :
    LET at(time) == RecomputeMetrics(<<>>, Issue(h), Built(h), {Review}, time)
    IN t <= u =>
         /\ RecomputeMetrics(at(t), Issue(h), Built(h), {Review}, u) = at(u)
         /\ at(u)[a].wait_seconds - at(t)[a].wait_seconds
            = IF Len(h.life) = 2 THEN 0 ELSE WholeSeconds(u) - WholeSeconds(t)
         /\ RecomputeMetricsFor(at(t), {b}, Issue(h), Built(h), {Review}, u) = at(t)

TwoIssues(x, y) == (a :> [IssueOf(<<>>, x) EXCEPT !.project_key = "P"])
                   @@ (b :> [IssueOf(<<>>, y) EXCEPT !.project_key = "Q", !.key = "Q-1"])
Listing == [project_key : {Null, "P", "Q", "R"}, status : {Null, ToDo, Done}, limit : 1..2]
Raised == {[rule_id |-> r, issue_id |-> i, triggered_at |-> t] :
             r \in {"r", "s"}, i \in {Null, a, b}, t \in 1..2}

(* A short list has the issues ingested last and never one of another       *)
(* project.  In the list of a project are its alerts and those of the whole *)
(* site; those of an issue that is gone are only in the list of all.        *)
ASSUME ListsAreScoped ==
  /\ \A x, y \in 0..1, query \in Listing :
       LET issues == TwoIssues(x, y)
       IN \A list \in ListIssues(issues, <<>>, query) :
            /\ \A i \in DOMAIN list :
                 /\ query.project_key \in {Null, issues[i].project_key}
                 /\ GetIssue(issues, (a :> <<>>) @@ (b :> <<>>), <<>>, issues[i].key)
                    = {[detail |-> list[i], time_slices |-> <<>>]}
            /\ query = [project_key |-> Null, status |-> Null, limit |-> 1] =>
                 \A i \in DOMAIN list : issues[i].updated_at = Upper(x, y)
            /\ DOMAIN list = {} <=> query.project_key = "R" \/ query.status = Done
  /\ \A project \in {Null, "P", "Q"}, since \in {Null, 2} :
       LET query == [rule_id |-> "r", issue_id |-> Null, since |-> since,
                     project_key |-> project, limit |-> 6]
           gone == ListAlerts(Raised, a :> IssueOf(<<>>, 1), query)
       IN \A list \in gone :
            /\ Cardinality({e.issue_id : e \in list})
               = CASE project = Null -> 3 [] project = "P" -> 2 [] project = "Q" -> 1
            /\ Null \in {e.issue_id : e \in list}
            /\ \A e \in list : e.rule_id = "r" /\ (since = 2 => e.triggered_at = 2)
=============================================================================
