----------------------------- MODULE AlertRules ------------------------------
(***************************************************************************)
(* Which alerts the rules of a tenant raise at an evaluation.  The config  *)
(* of a rule is a record with every key a rule can have, Unset where the   *)
(* rule has none; an event is what the alert it becomes is known by: its   *)
(* type, issue, status and bucket of time.                                 *)
(***************************************************************************)
EXTENDS FlowInsights

CONSTANT HourLength

ASSUME AlertRulesAssumption ==
  HourLength \in Nat \ {0} /\ DayLength % HourLength = 0

RuleTypes == {"status_duration", "cycle_time", "no_activity", "trend", "wip_breach"}

Configured(type, threshold) ==
  [type |-> type, enabled |-> TRUE, threshold |-> threshold, status |-> Unset,
   project_key |-> Unset, breach_minutes |-> Unset, metric |-> Unset,
   direction |-> Unset, threshold_pct |-> Unset]

Event(rule, issue, status, bucket) ==
  [type |-> rule.type, issue |-> issue, status |-> status, bucket |-> bucket]

Day(now) == now \div DayLength
Above(elapsed, rule) == rule.threshold # Unset /\ rule.threshold > 0 /\ elapsed > rule.threshold

-----------------------------------------------------------------------------
(* The rules of one issue. *)

(* Every slice counts, the closed ones of a done issue too, with the        *)
(* duration it was stored with.                                             *)
StatusDuration(rule, i, slices, now) ==
  {Event(rule, i, slices[k].status, Day(now)) :
     k \in {j \in DOMAIN slices : /\ rule.status \in {Unset, slices[j].status}
                                  /\ Above(slices[j].duration_seconds, rule)}}

CycleTime(rule, i, issue, now, sched) ==
  LET end == IF issue.done_at # Null THEN issue.done_at ELSE now
  IN IF Above(WorkingSecondsBetween(issue.created_at, end, sched), rule)
     THEN {Event(rule, i, issue.current_status, Day(now))} ELSE {}

LastActivity(issue) ==
  Max({issue.updated_at} \cup {t.at : t \in ToSet(issue.transitions)})

NoActivity(rule, i, issue, now, sched) ==
  IF /\ issue.done_at = Null
     /\ Above(WorkingSecondsBetween(LastActivity(issue), now, sched), rule)
  THEN {Event(rule, i, issue.current_status, Day(now))} ELSE {}

-----------------------------------------------------------------------------
(* The rules of the whole site.  A breach is known by the start of the      *)
(* snapshot's window, which moves with every evaluation.                    *)

(* The limits the work in progress of the rule's status is over. *)
Breached(rule, snapshot, limits) ==
  IF rule.status \notin DOMAIN snapshot THEN {}
  ELSE {l \in WipLimitsFor(limits, rule.project_key, rule.status) :
          /\ l.max_in_progress # Unset /\ l.breach_minutes > 0
          /\ LET wip == snapshot[rule.status].wip_avg
             IN wip[1] > l.max_in_progress * wip[2]}

WipBreach(rule, snapshot, from, limits) ==
  {Event(rule, Null, rule.status, from) : l \in Breached(rule, snapshot, limits)}

(* The message has the breach in percent of the limit: a limit of 0 that is *)
(* breached divides by zero.                                                *)
Raises(rule, snapshot, limits) ==
  /\ rule.type = "wip_breach"
  /\ \E l \in Breached(rule, snapshot, limits) : l.max_in_progress = 0

Trend(rule, trends, now) ==
  LET direction == IF rule.direction = Unset THEN "worsening" ELSE rule.direction
      percent == IF rule.threshold_pct = Unset THEN 30 ELSE rule.threshold_pct
      change(t) == Upper(t.ratio[1] - t.ratio[2], t.ratio[2] - t.ratio[1])
  IN {[Event(rule, Null, t.status, now \div HourLength) EXCEPT !.type = t.metric] :
        t \in {u \in trends : /\ rule.metric \in {Unset, u.metric}
                              /\ u.direction = direction
                              /\ 100 * change(u) >= percent * u.ratio[2]}}

-----------------------------------------------------------------------------

(* rule_tier: thresholds under a day are swept every hour. *)
EffectiveThreshold(rule) ==
  IF rule.type = "wip_breach"
  THEN IF rule.breach_minutes = Unset THEN 0 ELSE rule.breach_minutes
  ELSE IF rule.type = "trend" THEN Unset ELSE rule.threshold

RuleTier(rule) ==
  LET threshold == EffectiveThreshold(rule)
  IN IF threshold = Unset THEN "daily"
     ELSE IF threshold * SecondLength < DayLength THEN "hourly" ELSE "daily"

(* _evaluate_inputs: the report and the snapshot of the last days. *)
EvaluationInputs(stored, issues, ctx, now, days) ==
  LET windows == DefaultWindows(now, days)
  IN [report |-> Insights(stored, issues, windows, ctx),
      snapshot |-> WindowSnapshot(stored, DashboardRows(stored),
                                  windows.current[1], windows.current[2]),
      from |-> windows.current[1]]

RuleEvents(rule, site, inputs, now) ==
  LET perIssue(Events(_)) == UNION {Events(i) : i \in DOMAIN site.issues}
  IN CASE rule.type = "status_duration" ->
            perIssue(LAMBDA i : StatusDuration(rule, i, site.slices[i], now))
       [] rule.type = "cycle_time" ->
            perIssue(LAMBDA i : CycleTime(rule, i, site.issues[i], now, site.schedule))
       [] rule.type = "no_activity" ->
            perIssue(LAMBDA i : NoActivity(rule, i, site.issues[i], now, site.schedule))
       [] rule.type = "trend" -> Trend(rule, inputs.report.trends, now)
       [] rule.type = "wip_breach" ->
            WipBreach(rule, inputs.snapshot, inputs.from, site.limits)

(* _persist: an alert that is stored already is not found again. *)
Persist(alerts, rule, events) ==
  {[rule |-> rule, event |-> e] : e \in events} \ alerts

(* evaluate_alerts: the alerts the enabled rules of a tier find anew, none  *)
(* at all if one of the rules raises.                                       *)
EvaluateAlerts(alerts, rules, tier, site, inputs, now) ==
  LET evaluated == {r \in rules : r.enabled /\ tier \in {Unset, RuleTier(r)}}
  IN IF \E r \in evaluated : Raises(r, inputs.snapshot, site.limits) THEN {}
     ELSE UNION {Persist(alerts, r, RuleEvents(r, site, inputs, now)) : r \in evaluated}

(* evaluate_issue_alerts: of the issues just ingested, by the rules that    *)
(* can be broken by what was ingested.                                      *)
EvaluateIssueAlerts(alerts, rules, touched, site, now) ==
  UNION {Persist(alerts, r,
                 UNION {IF r.type = "status_duration"
                        THEN StatusDuration(r, i, site.slices[i], now)
                        ELSE CycleTime(r, i, site.issues[i], now, site.schedule) :
                          i \in touched \cap DOMAIN site.issues}) :
           r \in {s \in rules : s.enabled /\ s.type \in {"status_duration", "cycle_time"}}}
=============================================================================
