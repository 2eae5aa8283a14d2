---------------------------- MODULE FlowReports -----------------------------
(***************************************************************************)
(* The flow data of a tenant while Jira's issues go through their          *)
(* workflow, statuses are renamed, and now and then an issue is ingested:  *)
(* the stored issue, its transitions, its slices and its metrics row are   *)
(* what Jira knew at the ingest; the reports read them at any later time.  *)
(*                                                                         *)
(* Stable status ids came to be stored with a later version of the         *)
(* program (ADR-0045); rows written before have none until the status-id   *)
(* backfill (ADR-0046) fills them in.                                       *)
(***************************************************************************)
EXTENDS AlertRules

CONSTANTS
  Issues,
  Existing,        \* the issues there are at the start
  FirstStatus,     \* the status issues are created in
  DoneIds,         \* statuses on entry to which Jira may set a resolution
  NamesOf,         \* StatusIds -> the names the status has one after the other
  WorkSchedules,   \* schedules a tenant may have active, NoSchedule among them
  AlertThreshold,  \* the threshold_seconds of the alert rules looked at
  MaxTime,         \* bound: the clock
  MaxMoves,        \* bound, per issue: its moves
  EditedIssues     \* bound: the issues that are edited between their moves

(* The stored issue and its transitions. *)
Rows == [created_at : Nat, updated_at : Nat, done_at : Nat \cup {Null},
         current_status : Names, transitions : Seq(Transitions)]

ASSUME FlowReportsAssumption ==
  /\ IsFiniteSet(Issues) /\ Existing \subseteq Issues
  /\ FirstStatus \in StatusIds \ DoneIds /\ DoneIds \subseteq StatusIds
  /\ \A s \in StatusIds : NamesOf[s] \in Seq(Names) \ {<<>>}
  /\ Null \notin Nat \cup StatusIds \cup Names \cup Rows /\ Unset \notin Nat
  /\ DOMAIN CaseFold = Names
  /\ AlertThreshold \in Nat \ {0}
  /\ WorkSchedules \subseteq Schedules \cup {NoSchedule}
  /\ MaxTime \in Nat /\ MaxMoves \in [Issues -> Nat] /\ EditedIssues \subseteq Issues

VARIABLES
  now,
  jira,     \* per issue: its creation and last change of any kind, status,
            \* resolution date and changelog
  era,      \* per status: which of its names it has
  withIds,  \* the version that stores status ids is deployed
  schedule, \* the active work schedule
  row,      \* per issue: the stored issue and its transitions, Null if none
  slices,   \* per issue: its stored slices in order of start_at
  metrics,  \* per issue: its metrics row
  syncedAt  \* history, per issue: the time of its last ingest

vars == <<now, jira, era, withIds, schedule, row, slices, metrics, syncedAt>>
stored == <<row, slices, metrics, syncedAt>>

-----------------------------------------------------------------------------

NameOf(s) == NamesOf[s][era[s]]

(* The tenant has configured nothing. *)
Configuration == Context(FreshTenant)
DoneStatuses == Configuration.done_statuses
ActiveStatuses == Configuration.active_statuses
TerminalStatuses == Configuration.terminal_statuses

(* No two statuses have had the same name; issues are not created done,    *)
(* and no status is renamed into a done one: for the issues in it then     *)
(* _resolve_done_at finds no time at which they were done, and their last  *)
(* slice would be closed all the same.                                      *)
ASSUME WorkflowAssumption ==
  /\ \A s, t \in StatusIds : s # t => ToSet(NamesOf[s]) \cap ToSet(NamesOf[t]) = {}
  /\ \A s \in StatusIds : \A k, l \in DOMAIN NamesOf[s] :
       k <= l /\ NamesOf[s][l] \in DoneStatuses => NamesOf[s][k] \in DoneStatuses
  /\ ToSet(NamesOf[FirstStatus]) \cap DoneStatuses = {}

(* Nor have two statuses had names that differ in case only: rows without  *)
(* an id are grouped by their names in lower case.                          *)
ASSUME NamesAssumption ==
  \A s, t \in StatusIds : \A n \in ToSet(NamesOf[s]), m \in ToSet(NamesOf[t]) :
    CaseFold[n] = CaseFold[m] => s = t

(* The ids of the changelog an ingest stores. *)
WithoutIds(t) == [t EXCEPT !.from_status_id = Null, !.to_status_id = Null]
AsStored(changelog) ==
  IF withIds THEN changelog ELSE [k \in DOMAIN changelog |-> WithoutIds(changelog[k])]

(* Jira lists changes oldest or newest first; two pages may repeat some. *)
Payloads(log) == {log, Reverse(log), log \o log}

Init ==
  /\ now = 0
  /\ jira = [i \in Issues |-> [created |-> IF i \in Existing THEN 0 ELSE Null,
                               updated |-> 0, status |-> FirstStatus,
                               resolution |-> Null, log |-> <<>>]]
  /\ era = [s \in StatusIds |-> 1]
  /\ withIds = FALSE
  /\ schedule \in WorkSchedules
  /\ row = [i \in Issues |-> Null]
  /\ slices = [i \in Issues |-> <<>>]
  /\ metrics = [i \in Issues |-> Null]
  /\ syncedAt = [i \in Issues |-> 0]

-----------------------------------------------------------------------------
(* Jira.  What can have become of an issue a unit of time later: nothing,  *)
(* it was created, it was edited or commented on, or it was moved to       *)
(* another status.  A workflow may set no resolution with a done status,   *)
(* and may not clear it on reopening.                                      *)

Created(i) ==
  IF jira[i].created = Null
  THEN {[jira[i] EXCEPT !.created = now', !.updated = now']} ELSE {}

Edited(i) ==
  IF jira[i].created = Null \/ i \notin EditedIssues THEN {}
  ELSE {[jira[i] EXCEPT !.updated = now']}

Moved(i, s) ==
  LET issue == jira[i]
      change == [at |-> now', from_status |-> NameOf(issue.status),
                 to_status |-> NameOf(s), from_status_id |-> issue.status,
                 to_status_id |-> s]
  IN IF issue.created = Null \/ s = issue.status \/ Len(issue.log) = MaxMoves[i]
     THEN {}
     ELSE {[issue EXCEPT !.updated = now', !.status = s, !.resolution = r,
                         !.log = Append(@, change)] :
             r \in {Null, IF s \in DoneIds THEN now' ELSE issue.resolution}}

(* A status may be renamed between two moments. *)
Renamed ==
  {[era EXCEPT ![s] = @ + 1] : s \in {t \in StatusIds : era[t] < Len(NamesOf[t])}}

Live ==
  /\ now < MaxTime
  /\ now' = now + 1
  /\ LET becomes == [i \in Issues |->
           {jira[i]} \cup Created(i) \cup Edited(i)
           \cup UNION {Moved(i, s) : s \in StatusIds}]
     IN jira' \in {f \in [Issues -> UNION Range(becomes)] :
                     \A i \in Issues : f[i] \in becomes[i]}
  /\ era' \in {era} \cup Renamed
  /\ UNCHANGED <<withIds, schedule, stored>>

-----------------------------------------------------------------------------

(* The deployment that brings the columns of the ids. *)
Deploy ==
  /\ ~withIds /\ withIds' = TRUE
  /\ UNCHANGED <<now, jira, era, schedule, stored>>

UpsertIssue_LastMove(i, changelog) ==
  LET status == NameOf(jira[i].status)
  IN [created_at |-> jira[i].created,
      updated_at |-> IF jira[i].log = <<>> THEN jira[i].created ELSE Last(jira[i].log).at,
      done_at |-> ResolveDoneAt(jira[i].resolution, status, changelog, DoneStatuses),
      current_status |-> status,
      transitions |-> ExtractTransitions(changelog)]

(* The issue as stored from a payload with that changelog. *)
UpsertIssue(i, changelog) ==
  LET status == NameOf(jira[i].status)
  IN [created_at |-> jira[i].created,
      updated_at |-> jira[i].updated,
      done_at |-> ResolveDoneAt(jira[i].resolution, status, changelog, DoneStatuses),
      current_status |-> status,
      transitions |-> ExtractTransitions(changelog)]

(* process_issue_payload, without sprints, and the metrics of its issue.   *)
(* Bound: an issue is ingested once in a unit of time.                     *)
Ingest(i) ==
  /\ jira[i].created # Null
  /\ row[i] = Null \/ syncedAt[i] < now
  /\ \E payload \in Payloads(jira[i].log) :
       LET issue == UpsertIssue(i, AsStored(payload))
           built == BuildTimeSlices(issue, issue.transitions, DoneStatuses, now, schedule)
       IN /\ row' = [row EXCEPT ![i] = issue]
          /\ slices' = [slices EXCEPT ![i] = built]
          /\ metrics' = [metrics EXCEPT ![i] = IssueMetrics(issue, built, ActiveStatuses, now)]
  /\ syncedAt' = [syncedAt EXCEPT ![i] = now]
  /\ UNCHANGED <<now, jira, era, withIds, schedule>>

(* backfill_legacy_status_ids with the names Jira has now: rows without an *)
(* id whose name is one of them get its id.                                *)
IdFor(n, id) ==
  IF id = Null /\ \E s \in StatusIds : NameOf(s) = n
  THEN CHOOSE s \in StatusIds : NameOf(s) = n
  ELSE id

Identified(t) ==
  [t EXCEPT !.from_status_id = IdFor(t.from_status, @),
            !.to_status_id = IdFor(t.to_status, @)]

BackfillStatusIds ==
  /\ withIds
  /\ row' = [i \in Issues |-> IF row[i] = Null THEN Null ELSE
       [row[i] EXCEPT !.transitions = [k \in DOMAIN @ |-> Identified(@[k])]]]
  /\ slices' = [i \in Issues |-> [k \in DOMAIN slices[i] |->
       [slices[i][k] EXCEPT !.status_id = IdFor(slices[i][k].status, @)]]]
  /\ UNCHANGED <<now, jira, era, withIds, schedule, metrics, syncedAt>>

Next ==
  \/ Live
  \/ Deploy
  \/ \E i \in Issues : Ingest(i)
  \/ BackfillStatusIds

Spec == Init /\ [][Next]_vars
-----------------------------------------------------------------------------
(* The references: what Jira's history says, without slices. *)

(* The status an issue was in from time t on. *)
StatusAt(i, t) ==
  LET log == jira[i].log
      past == {k \in DOMAIN log : log[k].at <= t}
  IN IF past # {} THEN log[Max(past)].to_status_id
     ELSE IF log # <<>> THEN Head(log).from_status_id
     ELSE jira[i].status

(* The end of what an ingest knows of an issue: its resolution, or a later *)
(* move of an issue that was resolved and went on, or the ingest itself.   *)
EndOf(i) ==
  IF row[i].done_at = Null THEN syncedAt[i]
  ELSE Max({row[i].done_at} \cup {c.at : c \in {e \in ToSet(jira[i].log) : e.at <= syncedAt[i]}})

EndsIn(i, s, t) == row[i].done_at # Null /\ t = EndOf(i) /\ StatusAt(i, t) = s

Left(i, s, t) == \E c \in ToSet(jira[i].log) : c.at = t /\ c.from_status_id = s

(* The site has all of the issue's moves. *)
UpToDate(i) == /\ row[i].current_status = NameOf(jira[i].status)
               /\ Len(row[i].transitions) = Len(jira[i].log)

LastMove(i) == IF jira[i].log = <<>> THEN jira[i].created ELSE Last(jira[i].log).at

(* The stays of an issue in a status as far as it has been ingested. *)
Stays(i) ==
  LET turns == {jira[i].created}
               \cup {c.at : c \in {e \in ToSet(jira[i].log) : e.at <= syncedAt[i]}}
      next(t) == {u \in turns : u > t}
  IN {[status |-> StatusAt(i, t), from |-> t,
       to |-> IF next(t) = {} THEN EndOf(i) ELSE Min(next(t))] : t \in turns}

StatusRule == Configured("status_duration", AlertThreshold)
IdleRule == Configured("no_activity", AlertThreshold)

(* Windows of one day, of two and of a part of the second, that end now. *)
WindowStarts == {now - DayLength, now - 2 * DayLength, now - DayLength - 1}

(* The status a name belongs to. *)
Owner(n) == CHOOSE s \in StatusIds : n \in ToSet(NamesOf[s])

Ingested == {i \in Issues : row[i] # Null}
InFlight == {i \in Ingested : row[i].done_at = Null}
SlicesNow == Stored(slices)

-----------------------------------------------------------------------------
(* Type invariant. *)
TypeOK ==
  /\ now \in 0..MaxTime
  /\ era \in [StatusIds -> Nat \ {0}] /\ \A s \in StatusIds : era[s] <= Len(NamesOf[s])
  /\ withIds \in BOOLEAN /\ schedule \in WorkSchedules
  /\ syncedAt \in [Issues -> 0..MaxTime]
  /\ \A i \in Issues :
       /\ jira[i].created \in Nat \cup {Null} /\ jira[i].updated \in 0..MaxTime
       /\ jira[i].status \in StatusIds
       /\ jira[i].resolution \in Nat \cup {Null}
       /\ ToSet(jira[i].log) \subseteq Transitions
       /\ ToSet(slices[i]) \subseteq Slices
       /\ row[i] \in Rows \cup {Null}

(* build_time_slices: "no gaps, no overlaps".  An issue has one slice per  *)
(* stay in a status; they follow each other from its creation to its end,  *)
(* or to the time of the ingest, and only the last one can be open.        *)
SlicesPartition ==
  \A i \in Ingested :
    LET s == slices[i]
        n == Len(row[i].transitions) + 1
    IN /\ Len(s) = n
       /\ s[1].start_at = row[i].created_at /\ s[n].end_at = EndOf(i)
       /\ \A k \in 1..n : /\ s[k].start_at <= s[k].end_at
                          /\ k < n => s[k].end_at = s[k + 1].start_at
                          /\ s[k].is_open <=> k = n /\ row[i].done_at = Null

(* Whatever the order and the repetitions of the payload, a slice covers   *)
(* an instant only if the issue was in the slice's status at that instant: *)
(* its name is one that status had, its id is that status or none.         *)
SlicesTellHistory ==
  \A i \in Ingested : \A t \in row[i].created_at..(syncedAt[i] - 1) :
    \A k \in DOMAIN slices[i] :
      slices[i][k].start_at <= t /\ t < slices[i][k].end_at =>
        /\ Owner(slices[i][k].status) = StatusAt(i, t)
        /\ slices[i][k].status_id \in {Null, StatusAt(i, t)}

(* Cutting the life of an issue into slices counts no second twice,        *)
(* whatever the schedule, and loses at most one at each cut: their          *)
(* durations tell the time worked in it, exactly if its times are whole     *)
(* seconds.  And the metrics row splits the cycle into active and waiting   *)
(* time, unless the issue went on after its resolution.                     *)
DurationsAdd ==
  \A i \in Ingested :
    LET total == MapThenSumSet(LAMBDA k : slices[i][k].duration_seconds, DOMAIN slices[i])
    IN /\ Tells(total, Len(slices[i]), Worked(row[i].created_at, EndOf(i), schedule))
       /\ WorkingSecondsBetween(row[i].created_at, EndOf(i), schedule) - total
            \in 0..(Len(slices[i]) - 1)
       /\ \/ row[i].done_at # Null /\ row[i].done_at < EndOf(i)
          \/ metrics[i].active_seconds + metrics[i].wait_seconds = metrics[i].cycle_seconds

(* discover_status_groups: every stored slice is in exactly one group, no  *)
(* two groups show the same name, and a group never mixes two statuses.    *)
GroupsPartition ==
  LET groups == DiscoverStatusGroups(SlicesNow)
  IN /\ \A n \in NamesIn(SlicesNow) : Cardinality({g \in groups : n \in g.variants}) = 1
     /\ \A g, h \in groups : g.display = h.display => g = h
     /\ \A g \in groups : \A n, m \in g.variants : Owner(n) = Owner(m)

(* ADR-0045, "status renames don't break aggregates": the slices of one    *)
(* status id are in one row of the dashboard.                              *)
RenamesKeepRows ==
  \A s, t \in SlicesNow :
    s.row.status_id = t.row.status_id /\ s.row.status_id # Null =>
      \A r \in DashboardRows(SlicesNow) :
        s.row.status \in r.variants <=> t.row.status \in r.variants

(* The metrics of a status in a window, over the groups of that status:    *)
(* the work in progress adds up to the time issues spent in the status     *)
(* during the window, and the sample has one slice per time an issue left  *)
(* it or ended in it, as far as the issues have been ingested.             *)
WindowsMatchHistory ==
  LET known == SlicesNow
      groups == DiscoverStatusGroups(known)
  IN \A from \in WindowStarts, s \in StatusIds :
       LET ofStatus == {g \in groups : Owner(g.display) = s}
           stays == UNION {{<<i, t>> : t \in {u \in from..(now - 1) :
                       /\ row[i].created_at <= u /\ u < EndOf(i)
                       /\ StatusAt(i, u) = s}} : i \in Ingested}
           departures == UNION {{<<i, t>> : t \in {u \in from..now :
                            /\ u <= syncedAt[i]
                            /\ Left(i, s, u) \/ EndsIn(i, s, u)}} : i \in Ingested}
       IN /\ MapThenSumSet(LAMBDA g : OverlapTotal(known, g, from, now), ofStatus)
             = Cardinality(stays)
          /\ MapThenSumSet(LAMBDA g : StatusWindow(known, g, from, now).sample_size, ofStatus)
             = Cardinality(departures)

(* The cumulative flow diagram at a day's end up to which an issue has     *)
(* been ingested: unless its status is terminal by one of its names, it is *)
(* in the band of its status, and in another band only if it left that     *)
(* other status at that moment.                                            *)
CfdShowsHistory ==
  \A from \in WindowStarts :
    LET days == CfdDays(from, now)
        cfd == ComputeCfd(SlicesNow, TerminalStatuses, from, now)
    IN \A k \in DOMAIN days : \A i \in Ingested :
         days[k] \in row[i].created_at..EndOf(i) =>
           LET bands == {b \in DOMAIN cfd[k] : i \in cfd[k][b]}
           IN /\ {Owner(b) : b \in bands} \subseteq
                    {s \in StatusIds : s = StatusAt(i, days[k]) \/ Left(i, s, days[k])}
              /\ \/ StatusAt(i, days[k]) \in {Owner(b) : b \in bands}
                 \/ \E n \in ToSet(NamesOf[StatusAt(i, days[k])]) :
                      CaseFold[n] \in Folded(TerminalStatuses)

(* compute_wip_aging: an issue in flight that is up to date and whose status    *)
(* has kept its name ages from the moment it entered that status last.     *)
AgeSinceEntry ==
  \A i \in InFlight :
    /\ UpToDate(i)
    /\ \A t \in ToSet(jira[i].log) : t.to_status_id = jira[i].status =>
         t.to_status = row[i].current_status
    => Tells(TimeInStatus(row[i], now, schedule), 1, Worked(LastMove(i), now, schedule))

(* The rules of one issue.  As far as an issue has been ingested, a        *)
(* status_duration rule names the statuses it stayed in for more working   *)
(* seconds than the threshold, and no others; and a no_activity rule       *)
(* raises for an issue in flight that was ingested after its last change   *)
(* just when that change, be it a move, an edit or a comment, is more      *)
(* working seconds ago than the threshold.                                 *)
AlertsTellHistory ==
  \A i \in Ingested :
    /\ {Owner(e.status) : e \in StatusDuration(StatusRule, i, slices[i], now)}
       = {s.status : s \in {stay \in Stays(i) :
            WorkingSecondsBetween(stay.from, stay.to, schedule) > AlertThreshold}}
    /\ i \in InFlight /\ jira[i].updated <= syncedAt[i] =>
         (NoActivity(IdleRule, i, row[i], now, schedule) # {}
          <=> WorkingSecondsBetween(jira[i].updated, now, schedule) > AlertThreshold)

(* ADR-0041, "a ticket that stays in the same status past threshold        *)
(* re-fires once per UTC day": an evaluation raises an alert for an issue  *)
(* in flight that has not moved for more working seconds than the          *)
(* threshold and of which the site has missed no move.                     *)
StuckTicketsAlert ==
  \A i \in InFlight :
    UpToDate(i) /\ WorkingSecondsBetween(LastMove(i), now, schedule) > AlertThreshold =>
      \E e \in StatusDuration(StatusRule, i, slices[i], now) :
        e.status = row[i].current_status
=============================================================================
