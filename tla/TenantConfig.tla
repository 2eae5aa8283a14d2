---------------------------- MODULE TenantConfig -----------------------------
(***************************************************************************)
(* What the administrator of a tenant configures and what the services     *)
(* read of it: the overrides of the status lists and thresholds, resolved  *)
(* against the defaults of the process by TenantContext, and the limits of *)
(* the work in progress of a status.                                       *)
(*                                                                         *)
(* Ratios are in percent.                                                  *)
(***************************************************************************)
EXTENDS Integers, FiniteSets

CONSTANTS
  CaseFold,         \* status names -> the name with its case folded
  Unset,            \* None: no override, no limit
  TenantWide,       \* the project key "" of a limit for every project
  DefaultStatuses   \* the status lists of the process's settings

ASSUME TenantConfigAssumption ==
  \A list \in {"active_statuses", "done_statuses", "terminal_statuses",
               "external_blocking_statuses"} :
    DefaultStatuses[list] \subseteq DOMAIN CaseFold

Folded(names) == {CaseFold[n] : n \in names}

-----------------------------------------------------------------------------

StatusLists == {"active_statuses", "done_statuses", "terminal_statuses"}
RatioThresholds == {"bottleneck_time_ratio_threshold", "bottleneck_wip_ratio_threshold"}

Thresholds == [bottleneck_time_ratio_threshold |-> 130,
               bottleneck_time_ratio_extra_threshold |-> 150,
               bottleneck_wip_ratio_threshold |-> 120,
               bottleneck_throughput_delta_threshold |-> -20,
               bottleneck_min_score |-> 3,
               trend_increase_threshold |-> 120,
               trend_decrease_threshold |-> 80]

(* The columns of a tenant nobody has configured. *)
FreshTenant == [active_statuses |-> Unset, done_statuses |-> Unset,
                terminal_statuses |-> Unset, external_blocking_statuses |-> Unset,
                independent_done_terminal_lists |-> FALSE,
                bottleneck_time_ratio_threshold |-> Unset,
                bottleneck_wip_ratio_threshold |-> Unset,
                bottleneck_throughput_delta_threshold |-> Unset]

(* TenantContext.  An empty list of active or done statuses counts as none; *)
(* the done statuses are terminal unless the tenant keeps the lists apart.  *)
Context(tenant) ==
  LET listOr(f) == IF tenant[f] \in {Unset, {}} THEN DefaultStatuses[f] ELSE tenant[f]
      stored(f) == IF tenant[f] = Unset THEN DefaultStatuses[f] ELSE tenant[f]
      threshold(f) == IF f \in DOMAIN tenant /\ tenant[f] # Unset THEN tenant[f]
                      ELSE Thresholds[f]
      lists == [active_statuses |-> listOr("active_statuses"),
                done_statuses |-> listOr("done_statuses"),
                terminal_statuses |->
                  IF tenant.independent_done_terminal_lists THEN stored("terminal_statuses")
                  ELSE stored("terminal_statuses") \cup listOr("done_statuses"),
                external_blocking_statuses |-> stored("external_blocking_statuses")]
  IN [f \in DOMAIN lists \cup DOMAIN Thresholds |->
        IF f \in DOMAIN lists THEN lists[f] ELSE threshold(f)]

(* put_tenant_settings: an empty list is refused where it would silence     *)
(* the metrics, a threshold where it could never be reached.                *)
SettingsRefused(body) ==
  \/ \E f \in StatusLists : body[f] = {}
  \/ \E f \in RatioThresholds : body[f] # Unset /\ body[f] \notin 100..1000
  \/ LET delta == body.bottleneck_throughput_delta_threshold
     IN delta # Unset /\ delta \notin -100..100

(* Every override is replaced, by the default where the body has none. *)
PutTenantSettings(tenant, body) ==
  IF SettingsRefused(body) THEN tenant
  ELSE [body EXCEPT !.independent_done_terminal_lists = @ = TRUE]

-----------------------------------------------------------------------------
(* The table wip_limits: rows with distinct projects and statuses.         *)

IsRow(r, project, status) == r.project_key = project /\ r.status = status

UpsertWipLimit(limits, row) ==
  {r \in limits : ~IsRow(r, row.project_key, row.status)} \cup {row}

(* put_wip_limit *)
PutWipLimit(limits, row) ==
  IF row.max_in_progress < 0 \/ row.breach_minutes < 0 THEN limits
  ELSE UpsertWipLimit(limits, row)

DeleteWipLimit(limits, project, status) ==
  {r \in limits : ~IsRow(r, project, status)}

ListWipLimits(limits, project) ==
  IF project = Unset THEN limits
  ELSE {r \in limits : r.project_key \in {TenantWide, project}}

(* get_wip_limit: the rows that may be found.  The query has no order, so   *)
(* of two rows whose statuses differ in case either may come first or last. *)
WipLimitsFor(limits, project, status) ==
  LET matching == {r \in limits : CaseFold[r.status] = CaseFold[status]}
      own == {r \in matching : project # Unset /\ r.project_key = project}
      wide == {r \in matching : r.project_key = TenantWide}
      none == [max_in_progress |-> Unset, breach_minutes |-> 0, scope |-> "none"]
      resolved(r, scope) == [max_in_progress |-> r.max_in_progress,
                             breach_minutes |-> r.breach_minutes, scope |-> scope]
  IN IF own # {} THEN {resolved(r, "project") : r \in own}
     ELSE IF wide # {} THEN {resolved(r, "tenant") : r \in wide}
     ELSE {none}
=============================================================================
