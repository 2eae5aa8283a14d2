------------------------------ MODULE SiteReads ------------------------------
(***************************************************************************)
(* The reads of a site that show rows as they are stored: the list of      *)
(* issues, one issue, the panel beside it, the CSV export and the list of  *)
(* alerts; and the metrics rows, which are stored to be read.               *)
(*                                                                         *)
(* issues, slices and metrics are functions of the issue's id; a query is  *)
(* a record of the request's parameters, Null where there is none.          *)
(***************************************************************************)
EXTENDS AlertRules

(* ORDER BY at[row] DESC LIMIT: the sets of rows it may return. *)
Newest(rows, at, limit) ==
  {page \in SUBSET rows : /\ Cardinality(page) = Lower(limit, Cardinality(rows))
                          /\ \A x \in page, y \in rows \ page : at[x] >= at[y]}

-----------------------------------------------------------------------------
(* Metrics rows. *)

(* persist_issue_metrics: the rows of the issues computed, new or not. *)
PersistIssueMetrics(metrics, computed) == computed @@ metrics

(* recompute_issue_metrics_for; ids without an issue are passed over. *)
RecomputeMetricsFor(metrics, ids, issues, slices, active, now) ==
  PersistIssueMetrics(metrics, [i \in ids \cap DOMAIN issues |->
                                  IssueMetrics(issues[i], slices[i], active, now)])

(* POST /metrics/recompute *)
RecomputeMetrics(metrics, issues, slices, active, now) ==
  RecomputeMetricsFor(metrics, DOMAIN issues, issues, slices, active, now)

-----------------------------------------------------------------------------
(* Issues. *)

Serialized(issues, metrics, i) ==
  [issue |-> issues[i], metric |-> IF i \in DOMAIN metrics THEN metrics[i] ELSE Null]

(* GET /issues: the lists it may answer, as sets. *)
ListIssues(issues, metrics, query) ==
  LET matching == {i \in DOMAIN issues :
                     /\ query.project_key \in {Null, issues[i].project_key}
                     /\ query.status \in {Null, issues[i].current_status}}
      updated == [i \in DOMAIN issues |-> issues[i].updated_at]
  IN {[i \in page |-> Serialized(issues, metrics, i)] :
        page \in Newest(matching, updated, query.limit)}

(* Both routes of one issue take its id or its key; none is a 404. *)
Addressed(issues, key) == {i \in DOMAIN issues : key \in {i, issues[i].key}}

GetIssue(issues, slices, metrics, key) ==
  {[detail |-> Serialized(issues, metrics, i), time_slices |-> slices[i]] :
     i \in Addressed(issues, key)}

(* GET /forge/issue/<key>/panel-data *)
PanelData(issues, slices, key, ctx) ==
  LET marked == Folded(ctx.external_blocking_statuses)
      shown(s) == [status |-> s.status, entered_at |-> s.start_at,
                   exited_at |-> IF s.is_open THEN Null ELSE s.end_at,
                   duration_seconds |-> s.duration_seconds,
                   is_external_blocking |-> CaseFold[s.status] \in marked]
  IN {[current_status |-> issues[i].current_status,
       status_history |-> [k \in DOMAIN slices[i] |-> shown(slices[i][k])],
       total_cycle_time_seconds |->
         MapThenSumSet(LAMBDA k : slices[i][k].duration_seconds, DOMAIN slices[i])] :
        i \in Addressed(issues, key)}

-----------------------------------------------------------------------------

(* An open slice has the end it had at the issue's last ingest. *)
ExportedFrom(slices, i, from) == {k \in DOMAIN slices[i] : slices[i][k].end_at >= from}

(* GET /export/csv: a view that is not implemented is refused, unless the  *)
(* project has no issues.                                                   *)
ExportCsv(issues, slices, query, ctx, now) ==
  LET mine == {i \in DOMAIN issues : issues[i].project_key = query.project_key}
      from == now - query.days * DayLength
      line(i, k) == [issue |-> i, slice |-> slices[i][k],
                     external_blocking |-> CaseFold[slices[i][k].status] \in
                                             Folded(ctx.external_blocking_statuses),
                     is_terminal |-> CaseFold[slices[i][k].status] \in
                                       Folded(ctx.terminal_statuses)]
  IN IF mine # {} /\ query.view # "bottleneck" THEN [status |-> 422, lines |-> {}]
     ELSE [status |-> 200,
           lines |-> UNION {{line(i, k) : k \in ExportedFrom(slices, i, from)} : i \in mine}]

(* GET /alerts: the lists it may answer, as sets.  An alert has a rule_id,  *)
(* the time it was triggered and the issue it is about, Null if none; an    *)
(* alert outlives its rule and its issue.                                   *)
ListAlerts(alerts, issues, query) ==
  LET inProject == {i \in DOMAIN issues : issues[i].project_key = query.project_key}
      matching == {a \in alerts :
                     /\ query.rule_id \in {Null, a.rule_id}
                     /\ query.issue_id \in {Null, a.issue_id}
                     /\ query.since # Null => a.triggered_at >= query.since
                     /\ query.project_key = Null \/ a.issue_id = Null \/ a.issue_id \in inProject}
      triggered == [a \in alerts |-> a.triggered_at]
  IN Newest(matching, triggered, query.limit)
=============================================================================
