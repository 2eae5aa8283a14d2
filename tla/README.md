# TLA+ models of Jira Flow Intelligence

This directory holds TLA+ modules, TLC configurations and TLAPS proofs for the
program in `src/`: a Forge app (TypeScript resolvers, queue consumers and
triggers under `src/forge-prod`, with a React Custom UI) in front of a
multi-tenant FastAPI and PostgreSQL backend (`src/backend/app`) that turns Jira
change history into time-in-status slices, metrics and alerts.

`PROJECT.json` lists the components, the runs, the mutants each property was
tried on, the source lines every definition stands for, the hazards of the code
and the theorems.  To repeat a run: `tlc -config Recompute_resume.cfg
MCRecompute`; to repeat the proofs: `tlapm Recompute_proofs.tla`.

## 1. The system

### Where it is concurrent

* The backend's handlers are synchronous functions.  FastAPI runs them in a
  thread pool, so two requests of one tenant run at the same time.  Every
  request has one SQLAlchemy session (`db/session.py`: no autoflush), and the
  authentication middleware has a session of its own, which reads the tenant row
  at the start of the request.  PostgreSQL runs at READ COMMITTED.  A handler
  that SELECTs a row, assigns attributes and commits sends an UPDATE that names
  only the columns whose value differs from the one it loaded; `UnitOfWork` is
  that rule, and every model uses it where a handler does it.
* Forge delivers Jira events, queue events and scheduled triggers at least once.
  It kills an invocation at its time limit and may deliver its event again.
* Nothing locks: only the row locks of UPDATE, DELETE and of unique indexes order
  two transactions.

### Components

| component | state | operations | what makes it correct |
|---|---|---|---|
| Historical backfill | the tenant's `backfill_*` columns, tasks on `backfillqueue`, an invocation's page loop | install trigger, `startBackfill`, consumer, `/sync/backfill/start`, `/progress`, `/acknowledge`, terminal mail | no page is skipped whatever is delivered twice or killed; `completed` means walked; the count is exact; one mail per walk; it always ends |
| Work-schedule recompute | the tenant's `recompute_*` columns and schedule row, tasks on `recomputequeue`, the slices' durations | `/schedule/activate`, kick, consumer, `/schedule/recompute-batch` | after a completed recompute there is one math model; the cursor never skips a stale row; it resumes; it ends |
| Issue ingestion and webhooks | issues, `last_sync_at` | issue events, daily reconcile, `syncJira`, `/sync/ingest`, delete | what is stored converges to Jira's latest version; late fetches do not regress it; a deletion stays deleted |
| Children of an issue | transitions, slices, sprint memberships, metrics rows | the steps of one ingest | they belong to one version, that of the row; an answer without errors is true |
| Transition extraction and slicing | none (computed at an ingest) | `extract_transitions`, `build_time_slices` | slices of an issue are contiguous, disjoint and cover its life; the open slice is last |
| Alerts | alerts, rules, fires, destinations | sweeps, evaluation after an ingest, dispatch, pause, digest | what the rules say is found; one alert per key, delivered to the bound destinations within the cooldown, pause after five failures |
| Tenant access | the tenant row, signing keys of a process, connections and their `app.current_tenant` | verification of a token, insertion of the tenant, binding, uninstall | no statement runs under another tenant; an uninstalled site leaves no rows; known keys are accepted; every request is answered |
| Personal data | the accounts the issues name | weekly report, erase | a closed account is in no row after the cycle |
| Tenant configuration | status lists, thresholds, WIP limits | save, delete, resolve | something usable is left, the most specific limit wins |
| Sprints | sprints, memberships | upserts, list, windows | windows in order and of as many sprints as asked |
| Status-id backfill | status ids of old rows | one-off fill | ids filled without mixing statuses |
| Working time, metrics, insights | metrics rows | `working_seconds_between`, percentiles, windows, trends, bottleneck | durations that tell the time worked, boundaries of windows, agreement with Jira's history |
| Outbound | the API key of a process, the site's address | webhooks, mails, links | one retry; what is reported sent is out; links lead to the site |
| Reads | none | issue list, panel, export, alert list | rows as they are stored, of the project asked for |
| Legacy sync | none | retries, walk by offset, one commit | a stable search is walked to its end; all or nothing |
| Custom UI, resolvers, infrastructure, seeds | browser state, none | rendering, forwarding | out of reach or without behaviour of its own |

They interact through the tenant row (both background jobs, every ingest and the
middleware read and write its columns), through the slices (ingest writes what
the recompute walks and the metrics read), through the alerts (ingest and sweeps
write them, the last recompute batch deletes them) and through two Forge queues
that only carry what a continuation needs.

## 2. Plan

The order was the order of importance: the two long-running jobs, whose state
lives across requests; ingestion, which feeds everything; alerts; the protocols
around them; the algorithms.

| modules | of them abstract | run by | proved in |
|---|---|---|---|
| `UnitOfWork`, `Backfill`, `BackfillCycle` | `BackfillCycle` | `MCBackfill` | `Backfill_proofs` |
| `UnitOfWork`, `Recompute` | | `MCRecompute` | `Recompute_proofs` |
| `UnitOfWork`, `IssueSync`, `Mirror` | `Mirror` | `MCIssueSync` | `IssueSync_proofs` |
| `Alerts`; `Outbound` beside it | | `MCAlerts` | `Alerts_proofs` |
| `TenantAccess` | | `MCTenantAccess` | `TenantAccess_proofs` |
| `SiteData`; `LegacySync` beside it | | `MCSiteData` | `SiteData_proofs` |
| `WorkingTime`, `TimeSlicing`, `TenantConfig`, `FlowMetrics`, `SprintWindows`, `FlowInsights`, `AlertRules`, `FlowReports`, `SiteReads` | | `MCFlowReports` | `TimeSlicing_proofs`, `FlowReports_proofs` |

Each module of the last line extends those before it (`SprintWindows` is a named
instance in `FlowInsights`), so one run checks the whole way from a changelog to a
report or an alert.  The modules without state are checked in two ways: where the
run uses them, and by the named assumptions of the MC module, which TLC evaluates
over all inputs of a small domain.

## 3. Backfill

`Backfill.tla` models one tenant's historical backfill (ADR-0033).  The actions
follow the code: `InstallTrigger` (lifecycle.ts), `ClickStart`, `EnqueueFromUI`
and `EnqueueFails` (the two awaits of `startBackfill`), `Deliver` to `Return` (one
action per exit of the consumer's loop in backfill.ts), `LoadTenant`,
`CommitTenant` and `Answer` (the SELECT, the commit and what follows the commit
of the start and progress handlers of forge_sync.py), `Acknowledge`.  A request is
three steps because another request may commit between any two of them.

One page stands for one unit of issues: the code's counters count issues, its
tokens are Jira's page tokens, and every test the code makes is on whole pages
because a page is ingested whole.  `MaxKicks`, `MaxRedeliveries` and `MaxCrashes`
bound the environment; `Overlap`, `JiraFails` and `BackendFails` switch parts of
it on.

`BackfillCycle.tla` is what an administrator is promised: a walk that starts ends,
and its end is mailed once before the next starts.

| run | shows |
|---|---|
| backfill_redelivered | overlapping (by redelivery), killed and refused walks leave no gap, and `completed` means walked |
| backfill_cycle | without overlap, crash or refused request `Backfill` implements `BackfillCycle`, liveness included; every end is mailed once and the count is exact |

Five more statements are in the module and in no run, because the code does not
keep them; each is found violated from `Backfill_redelivered.cfg` or
`Backfill_cycle.cfg` by changing what is named here:

| statement | said at | violated with |
|---|---|---|
| `OneMailPerWalk` | forge_sync.py:157-160 | the redelivered configuration, full states: a redelivered first task starts, and mails, again |
| `CapMailMeansMore` | resend_service.py:444 | the cycle configuration, `SiteSizes = {3}`: a site of exactly the cap is told it has more |
| `CompletionIsShown` | forge_sync.py:198-200 | the cycle configuration: start does not clear the acknowledgement of the last cycle |
| `Converges` | backfill.ts:251-253 | the cycle configuration, `BackendFails = TRUE`: a refused terminal report leaves the status running, the consumer only logs it |
| `ProgressIsKept` | dashboard.ts:284-285 | `Overlap = TRUE`, two kicks: a second click sets the count back to zero |

## 4. Recompute

`Recompute.tla` models the recompute after a work schedule is saved (ADR-0043).
A slice is its issue and its place in the issue's history; its duration is the
schedule it was computed under, since whether two schedules give one number is
of no interest to any property.  `Before` is the ORDER BY of the walk: two slices
of an issue that start at one instant are not ordered, so `IsPrefix` lets the
database return either first.

A batch is three steps of the server: `LoadBatch` (the request's SELECT of the
tenant and its schedule), `SelectRows` (count, offset, rows: one step, since
nothing the properties tell apart happens between them) and `CommitBatch`,
`FailBatch` or `LoseBatch`.  `SelectRows` uses the cursor as it is stored for the
offset and the one the request loaded for the new cursor, as the code does.  An
activation is two steps, an ingest and a sweep are the schedule they read at the
start of their request (`StartReader`) and their commit.  An ingest replaces the
rows of its issue, so a batch that has selected one of them fails on flush, with
a session that can no longer record the failure (`LoseBatch`).

`Races` says what may overlap: two batches, an activation and a batch, a reader
that began before an activation, a deletion during a walk.  With `Races = {}` and
`Instant = {}` the algorithm is right, and that is what the proofs are about.

What starts the walk is not what the comments say.  `manifest.yml` binds the project
page to `dashboardResolver`, which defines `getContext`, `syncJira`, `startBackfill`
and `backfillStatusIds`; `startRecompute` is defined on a resolver no module is bound
to.  So `Kick`, the panel's `invoke("startRecompute")`, throws and is swallowed and
leaves the queue as it is.  `Push` is the function `startRecompute` itself, run by
whoever may reach it: a task comes onto the queue at any time, without fairness, at
most `MaxTasks` times.  The safety properties hold for every arrival of tasks.

| run | shows |
|---|---|
| recompute_resume | crash, redelivery, a failing schedule, an ingest in mid-walk, a schedule changed and changed back, a deletion between walks: the walk resumes, skips no stale row and ends with one math model and alerts under it, and only an activation sets its cursor back |
| recompute_ends | a violation: as shipped a saved schedule is not recomputed |

recompute_ends is the finding of this component.  Its `MaxTasks` is 0: nothing but the
panel asks for the recompute, as the manifest's comment has it ("startRecompute is
invoked from the frontend's Settings save flow to push the initial task onto the
queue").  The run assumes all the fairness of `FairSpec` and TLC still finds a tenant
that stays pending after two saves.  With a task on the queue a recompute may still
be left without an end: by an invocation that is killed, by a request that is refused,
and by a batch whose rows an ingest replaces, which fails without a status
(`LoseBatch`); its task is lost unless the queue delivers it again.

With other values recompute_resume shows what breaks
`CompletedIsUniform`, each by one race or tie: `Races = {"activation"}` (a schedule
edited while a batch is in flight: the batch overwrites the reset cursor and rows
keep the old math, against models.py:522-524), `{"batches"}` and two
invocations (a stale cursor plus the rows of a newer offset), `{"snapshot"}` (an
ingest that began before the activation), `{"deletion"}` (rows move under the
OFFSET), `Instant = {<<1, 2>>}` with `MaxSlices = 3` (two slices with one start change
places); the two larger of these without ingests, deletions and crashes.  Three
statements are in the module and in no run because the code does not keep them:
`AlertsAreKept` (recompute.ts:12-13 "safe to over-enqueue": a surplus task clears
the alerts evaluated since), `MetricsUseActiveMath` (ADR-0043 lines 76-79 and 117:
the stored per-issue metrics are not recomputed) and `FailureIsRecorded`
(forge_schedule.py:200: a batch whose rows an ingest replaced fails without a
status, because the handler's error path runs on the session it broke).

## 5. Issue sync

`IssueSync.tla` models how the stored issues of a tenant follow Jira.  A version of
an issue is the clock stamp of its update, so "older" is a comparison of stamps
and `row[i]` is the `updated_at` of the stored row.

* `TakeEvent`, `Fetch` and the post that follows are issueWebhookResolver;
  `TakeDeletion` and `Delete` are issueDeletedResolver and its endpoint;
  `StartReconcile`, `StartSync` and `StartBackfillPage` with `Search` are the daily
  trigger, the Sync button and a page of a backfill.  What a handler has fetched
  it carries to its post, however much later that happens.
* `Post`, `Check`, `Write` and `Commit` are /sync/ingest: for each payload the
  SELECT and the test of skip_if_stale, the flush of the row (`UnitOfWork`: an
  UPDATE only if the version differs from the one loaded), one commit for all.
  `Stamp` is the assignment of last_sync_at when the evaluation of alert rules has
  committed before it.  `WaitsFor` and `Deadlocked` are PostgreSQL's row locks.
* `CallFails` is any failed call of the app (`Loss`): logged, nothing retried.
  `missed` remembers of which issues the latest news was lost that way.
* `Minute` is the precision of the search's bound; `Newest` its ORDER BY and limit.

`Races` says what may overlap: two ingests (`requests`), the Sync button and
anything else (`sync`: it alone posts without skip_if_stale), a deletion in Jira
and a handler that carries the issue (`deletion`).

`Mirror.tla` is what the reader of the dashboard is promised: a copy moves forward
only and to versions Jira has had, a deleted issue stays away, and every change
reaches the copy unless the news of it was lost.

| run | shows |
|---|---|
| issuesync_serial | with late, repeated and reordered events, failing calls, a reconciliation, a sync or a backfill page beside them, but no overlap of ingests: `Mirror` is implemented, and a row that differs from Jira always has an event or a handler that will repair it |
| issuesync_missed | a lost change is not found by the reconciliation that exists to find it: the next ingest of any other issue moves the bound past it |

From the configuration of issuesync_serial, `Races = {"requests"}` violates
`NoRegress` (with `Spec`, `MaxClock = 3`, `MaxRepeats = 0`, `MaxRuns = 0` and
`Loss = FALSE`): two ingests of one issue in two requests both
test the same row, and the older payload is stored last, although
ingestion_service.py:250-252 says that skip_if_stale defends against it.  `Races = {"sync"}` violates
`NothingForgotten` (the button puts an older version back after the event of the
newer one has been handled), and so does `Races = {"deletion"}` (the row of a
deleted issue is inserted again after its deletion was handled).

## 6. Alerts

`Alerts.tla` follows one tenant's alerts from the evaluation of rules to the
messages.  Which values breach a rule is left open there: `Evaluate` finds any set of
subjects for any of the rules the caller evaluates (`Scopes`), and an alert is its
key: rule, subject (an issue in a status) and UTC day.

* `Evaluate` and `CommitAlerts` are evaluate_alerts and evaluate_issue_alerts with
  `_persist`: the query for existing alerts, the insert that may clash with another
  request's, one commit.
* `Resolve`, then `Skip`, `Deliver` or `Fail` for each bucket of one rule and one
  destination, then `CommitFires` are dispatch_alerts.  A message is out when `Deliver`
  has happened; its rows are stored only by the commit.
* `Digest` and `StampDigest` are the failure digest of the daily sweep.
* `UpsertDestination`, `DeleteDestination` and `SetRuleDestinations` are the settings a
  customer changes at any moment, also between two steps of a dispatch; `Crash` is the
  end of the process between any two.

`history` remembers what the properties compare with the rows: the messages that
were delivered, the failures in the order they were attempted, the digests mailed.

| run | shows |
|---|---|
| alerts_serial | requests one after the other: no alert is pushed twice to a destination, dropped without a row or withheld without an earlier message, messages of a rule to a destination keep the cooldown and the ceiling, pauses follow failures, digests are a day apart |

The properties name their exceptions: what dies with a process (`lost`, `excused`,
`lostStamp`), destinations a customer has changed (`edited`), and in
`PausesFollowFailures` the ties of `_maybe_pause`.  With `Overlap = TRUE`, two slots
and two requests all of `PushedOnce`, `MessagesAreSpaced`, `PausesFollowFailures` and
`DigestsApart` are violated: a request looks for deliveries, failures and the stamp
before the other has committed its own.

Two statements are in the module and in no run, because the code does not keep them;
both are violated from `Alerts_serial.cfg` with `MaxTroubles = 0`:

| statement | said at | violated by |
|---|---|---|
| `FoundIsPushed` | routers/alerts.py:182-183 | an alert stored when its rule was saved, or by a manual evaluation, is taken for handled by the next sweep of the day and never pushed |
| `CeilingPerDestination` | alert_dispatch.py:16-18 | two rules reach one destination in one sweep: the ceiling is per rule (as ADR-0037 has it) |

Not stated in the module, and to be known: a binding whose destinations are all paused
falls back to the defaults, while alert_dispatch.py:9-13 says a rule with any binding
row has those as its destinations; the status in the uniqueness of an alert lets a
cycle-time or idle rule alert twice on a day for an issue that changes its status,
while ADR-0041 says once; and the threshold of a pause counts alerts, so one failed
message for five alerts pauses.  The rows of a request are taken to be visible after
its commit; what the policies of the database do to them is in section 8.

`AlertRules.tla` says which events the rules raise: one operator for each kind of rule
(`StatusDuration`, `CycleTime`, `NoActivity`, `WipBreach`, `Trend`), the tier of a rule
(`RuleTier`), the evaluation of a sweep (`EvaluateAlerts`) and after an ingest
(`EvaluateIssueAlerts`).  It is checked with the flow reports, whose slices it reads:
`AlertsTellHistory` compares what is found with Jira's history.  Assumptions of
`MCFlowReports`: `SweepsCoverTheRules` (every rule is in one of the two sweeps, which
together find what an evaluation by hand finds; what is stored is not found again) and
`ZeroLimitSilences`: a limit of 0 that is breached divides by zero when the message is
made (alert_service.py:224), and no rule of the tenant is evaluated in that sweep.
The closed slices of an issue are compared as well, so an issue that once exceeded a
threshold is found again every day.  The key of a WIP breach has the start of the
snapshot's window, which moves with every evaluation, so it is not idempotent by the
hour as alert_service.py:183-186 says.

`Outbound.tla` is what leaves the site.  Assumptions of `MCAlerts`, over all inputs:

| assumption | says |
|---|---|
| `OneRetry` | a message counts as delivered iff the last request was accepted; a second is made iff the first had no answer or a server error; a message that was taken but not answered in 30 seconds is so posted twice |
| `MailsAreReported` | a mail reported as sent is out; a failed fetch of the API key is repeated, a key once fetched is kept: after a rotation the process has to be restarted.  A key that cannot be fetched makes the answer False, although the docstring of `_send_email` says that it propagates |
| `LinksAreFriendly` | the opaque address is never stored as the one to show; what the dashboard does not know erases nothing |
| `OneMailAtTheEnd` | a backfill that ended has one mail if there is an address, and says at the cap that it was capped |
| `PrimaryIsLargest` | the link leads to a project no other has more issues than |

## 7. Flow reports

`WorkingTime.tla` is `working_seconds_between`.  Jira's times have milliseconds and a
duration has whole seconds, so an instant is a part of a second (`SecondLength`), and
`WholeSeconds` is the `int()` that cuts off what is over: of the whole interval in
calendar time (working_time.py:43), of each working day under a schedule
(working_time.py:67).  Two durations therefore do not add up to that of both intervals:
from 0.0 to 0.6 and from 0.6 to 1.0 there is no second, from 0.0 to 1.0 there is one.
What can be said is `Tells`: n durations count no instant twice and miss less than a
second at either end of each interval.  The hours of a schedule begin and end on a
second (`TimesOfDay`).  `TimeSlicing.tla` is what an ingest makes of a changelog: `ExtractTransitions`, `ResolveDoneAt` and the loop of
`build_time_slices`, one operator for each of its parts (`FirstSlice` what it starts
with, `NextSlice` one turn, `LastSlice` what follows it).  `TenantConfig.tla` is what an
administrator saves and a request resolves: the status lists, the thresholds, the
limits of work in progress.  `FlowMetrics.tla` is what
the dashboard computes from the stored rows: `DiscoverStatusGroups`, the metrics of
a window (`StatusWindow`), `ComputeCfd`, `TimeInStatus` of the aging chart and
`IssueMetrics`.  `FlowInsights.tla` compares two windows: percentiles, the windows by
days, by calendar or by sprints (`SprintWindows.tla`), the cycle times, the scatter
plot, the bottleneck and the trends.  `SiteReads.tla` is the reads that show rows: the
list of issues, the panel, the CSV export, the list of alerts.  All of these are
operators without state; a quotient is kept as a pair of integers.

`FlowReports.tla` puts them into a tenant's life.  `Live` is a unit of time of Jira:
any issue may be created or moved, any status renamed, and an issue of `EditedIssues`
may be edited or commented on (`Edited`), which advances Jira's `fields.updated` and
leaves its changelog of statuses alone.  It is `fields.updated` that an ingest stores as
`updated_at` (ingestion_service.py:78) and that a no_activity rule reads beside the last
slice (alert_service.py:138-147).  `Ingest` is
process_issue_payload with the metrics of its issue, on a changelog that is newest
first or has a page twice; it need not happen soon or at all.  `Deploy` is the
version that stores status ids, and `BackfillStatusIds` the button that fills them in
for older rows (ADR-0046).  The reports are not actions: they read, so the
invariants evaluate them in every state.  Each property compares them with
`StatusAt`, `Left` and `Worked`, which read Jira's history and count worked instants
without making slices.

A resolution may stay set on an issue that was moved back.  Its life then ends
before its last slice starts; the code cuts that slice to no length, and `EndOf` is
that end.

`WorkflowAssumption` is about the workflow.  Two statuses share no name, since rows
without an id are told apart by it.  Issues are not created done, and no status is
renamed into a done one: an issue in it has then no move into a name that counts as
done, so `_resolve_done_at` finds no time (ingestion_service.py:38-63), while the last
slice is closed because of its status (slicing_service.py:98-124), and `SlicesPartition`
is false of the code.  `NamesAssumption` adds that the names of two statuses differ in
more than case: rows without an id are grouped by their names in lower case
(metrics_service.py:264), so two statuses "Review" and "review" from before the ids
would be one group, and `GroupsPartition` false of the code.

| run | shows |
|---|---|
| flow_follow | the slices of an issue partition its life and tell its history whatever the order of the changelog; each cut of its life loses at most one second and counts none twice; groups are disjoint and mix no two statuses through deployment, rename and backfill; window metrics and cumulative flow are those of the history as far as it has been ingested; the age of an issue in flight is the time since it entered its status, to the second at either end; a status_duration rule names the long stays and no others, and a no_activity rule raises just when the last change, edits included, is longer ago than the threshold |
| flow_stuck | a ticket that stays in its status past the threshold raises no alert: the sweep compares the duration stored at its last ingest, and nothing ingests a ticket nobody touches |

The assumptions of `MCFlowReports`, over all inputs of small domains:

| assumption | says |
|---|---|
| `WorkingTimeIsWorked` | the arithmetic of working time tells the count of worked instants (`Tells`) |
| `PercentileIsMonotonic` | a percentile lies between the extremes, grows with the percentage and does not depend on the order |
| `WindowsAbut` | a window begins where the one before it ends; a calendar window with its month or quarter |
| `SprintWindowsAreOrdered` | for sprints one after the other the two windows do not overlap and have as many sprints as asked, except that the previous one has a single sprint when none is active (sprint_service.py:169-171 says otherwise) |
| `EveryReportHasWindows` | a project without sprints gets the windows it would get without asking for them |
| `BottleneckIsATrend` | a bottleneck is in no terminal or blocking status, has the highest score, and the trends agree with it |
| `TrendsHaveOneDirection` | nothing worsens from one window to the other and back |
| `ConfigurationIsUsable` | whatever is saved, there are active and done statuses left and no threshold is out of reach; saving nothing restores the defaults |
| `LimitsResolve` | the limit of the project wins over that of all projects; two rows whose statuses differ only in case leave the winner open |
| `ReportsShowTheSite` | a limit is shown beside its status in whatever case it was saved |
| `PanelShowsTheLife` | the issue panel has no gaps, its total is the time worked, and the export has the same slices |
| `IdleLeaveTheExport` | an issue in flight that was not ingested in the period is not in the export |
| `MetricsAreRepeatable` | computing the metrics rows again changes only the waiting time of issues in flight |
| `ListsAreScoped` | a short list is of the issues touched last; a project's alerts are its own and those of the whole site; those of a deleted issue are only in the list of all |

`RenamesKeepRows` is in `FlowReports` and in no run, because the code does not keep it
(ADR-0045, "status renames don't break aggregates"): the routers name every status
themselves instead of using the groups, so a renamed status has two rows, and the old
name's throughput trend falls by all of it.  Not stated: changing the done statuses
leaves the stored `done_at`; the scatter plot has no upper bound of time.

Five conditions in these properties are where the code says less than a reader may
expect.  `CfdShowsHistory` exempts a status if any of its names is terminal: the diagram
leaves out a group by the one name the group shows.  `CfdShowsHistory` speaks of days up
to the last ingest of an issue: an open slice ends there, and on later days the issue is
in no band until something happens to it.  `AgeSinceEntry` supposes that the status has
kept its name since the entry: the entry is looked up by name (wip_aging.py:111).
`AlertsTellHistory` speaks of a no_activity rule where the issue was ingested after its
last change: before that, the site does not know of the change.  And the change of a band at the very end of a day counts the issue in both bands (`Left`).

## 8. Tenant access

`TenantAccess.tla` is a request from the token to the answer.  `Verify`,
`SelectTenant` and `InsertTenant` are ForgeAuthMiddleware.dispatch, a coroutine
without awaits: while it inserts a tenant it keeps the event loop of its instance
(`loop`).  `Bind` is current_tenant, which sets `app.current_tenant` in the
transaction of the handler's session (`guc`, per connection).  A handler is then the
sequence of its statements (`Program`), one step each, of which only what they need
is kept: a connection, the binding, the tenant row.  `Released` is what a connection
keeps when its transaction ends, `PoolTimeout` the exhausted pool, `Lookups` and
`Merge` the cache of signing keys, `Delete` the uninstall with its cascade.  `Rotate`
is a new signing key at Atlassian, `Restart` the end of a process.

| run | shows |
|---|---|
| tenancy | two sites, two instances with one connection each: no statement runs under another tenant's binding, an uninstall during the handlers of its site leaves no rows, keys in the image or the last fetch are accepted across rotations and restarts, every request is answered even when all sessions hold connections and the event loop waits for one |
| rls | after a handler's own commit the binding is gone: what it does next with the tenant's rows is cut off by the policies |

The run rls is of a role that is subject to the policies.  Under a role exempt from
them (`RoleBypasses = TRUE`) the statement holds; on SQLite, which the tests use,
there are no policies.  forge/lifecycle.py:3-10 calls the uninstall free of races, as
no further tokens arrive: a request that is late creates the tenant row again
(`InsertTenant`), and nothing deletes it until the site installs and uninstalls once
more.  Two instances that insert one tenant at once answer one of them with an error
("conflict"); the code has no handler for it.

## 9. Site data

`SiteData.tla` is the tables of one site under ingests that overlap, statement by
statement at READ COMMITTED: what a SELECT or DELETE saw when it began, what waits for
whose locks, which second insert of a key fails.  A failed statement poisons its
transaction (`Poisoned`).  A build of an issue's transitions or slices is one
*batch*; `Check`, `Load` and `Upsert` are the row, `BeginTransitions` to
`ReplaceSlices` the two tables, `FindSprints` and `InsertSprints` the sprints and
memberships, `Commit` and `Fail` the end.  Beside them goes the weekly cycle of
personal data: `FetchPage` by page, `Report` to Atlassian, `EraseBegin` and `EraseEnd`
the UPDATE with its wait for an ingest's locks.

| run | shows |
|---|---|
| sitedata | what is stored of an issue is one build, of the version of its row; after a complete cycle no closed account is left, unless an ingest wrote it since the cycle began; an answer without errors means all payloads are stored: the rows, and the memberships, or those of before where a sprint of the payload cannot be parsed |

Whatever goes wrong with a sprint is logged and swallowed, and the issue counts as
processed (ingestion_service.py:279-282).  What is left depends on what it was.  An
exception of Python, a board id that is no number (:229) or a date that is no date
(:231-233), leaves the transaction as it is: the sprints of the payload before it
(`parsed`, a part of the history, since the same payload raises each time) are
upserted, `set_issue_sprints` is never reached, and the commit stores the issue with
its old memberships.  `AnswerIsTrue` says exactly that.  An insert that clashes aborts
the transaction (`Poisoned`): nothing of the request is stored.  The comment above
the handler (:275-276, "Failures here don't break the issue ingest") is
`SprintsAreBestEffort`, which is in no run, because the code does not keep it.

The properties name their exceptions, and each is something the code does:

* `loose`: two ingests that change no column of the issue's row take no lock on it,
  delete the same slices and insert both; the issue has its slices twice until its
  next build.  So does an ingest whose UPDATE leaves out `updated_at`, because the row
  it loaded had it already, while another has stored a newer version: the row keeps
  that version, the children become the older one's.
* `raised`: an exception after the flush of an issue is caught per payload
  (ingestion_service.py:298), and the commit stores the new row with the old slices.
* `fresh`: an ingest under way when the cycle begins writes back the account it fetched.

Not stated, and
to be known: the erasure leaves `raw_payload` as it was, with the assignee; a list of
more accounts than the limit of /erase is refused whole, so a site with that many
closed accounts erases none; a payload that was fetched before a sprint closed opens it
again in the table.

`LegacySync.tla` is the synchronisation outside Forge, as operators.  Assumptions of
`MCSiteData`, over listings of at most four issues:

| assumption | says |
|---|---|
| `RetriesUntilGood` | a request succeeds with the first good answer and fails only if no try has one; refusals (4xx) are retried as well, since raise_for_status is inside the try |
| `StableWalkIsComplete` | a result that stays the same is walked to its end, each issue once; a search with pages shorter than asked for ends with the first of them |
| `UntouchedAreFound` | an issue that is not updated during the walk is found; one that is may be passed over |
| `AllOrNothing` | a synchronisation that fails has stored nothing |

## 10. Bounds and fairness

A second of two parts is the least that `int()` can cut off: an issue can be moved
within a second and lose it at the cut.  Of the two issues of flow_follow one is
created late and moved twice, so it can come back to its status, or be resolved and
reopened; the other is in the renamed status from the start, is only edited, and can
be idle for longer than the one second of the rules.  So slices of one status are
stored under both of its names, with and without ids, at the same time.  Three
statuses, of which one is renamed, a clock of four parts, which are two days, and a
zone one part behind make slices begin and end within working hours; the assumption
`WorkingTimeIsWorked` of `MCFlowReports` compares the arithmetic with the count of
worked instants for every schedule over five days of two seconds.  In flow_stuck an
instant is a whole second, nothing is edited, and both issues move.
Windows of one day, two and a part of one have slices end at their bounds.

Two sites and two instances with a pool of one connection make a request of one tenant
follow one of the other on its connection, make two instances insert one tenant, and
make a request wait for the pool whenever there are two; the four routes of the run
have a commit followed by a reload, by a query of the tenant, by the tenant alone, and
the uninstall.  One trouble, a rotation or a restart, may come between any two steps.
Two issues, a sprint they share and three ingests or cycles in two slots are two
ingests of an issue and a third that finds what they left, or a cycle beside two
ingests; pages of one account and a limit of one make the walk of accounts continue
and a list too long.  The second version of the first issue has a sprint that cannot be
parsed, after a version with which the issue became its member.

Two pages past a page budget of one give every exit of the consumer's loop and a
continuation of a continuation; site sizes below, at and above the cap give every
comparison with it.  Two invocation slots are the least that can overlap, and the
hazards are all of two parties.  Two issues of up to two slices and batches of
one give an exact, a partial and an empty last batch and a walk longer than one
invocation; two schedules besides calendar time, one of which the arithmetic
raises on, give a change, a change back and a failure.  One crash and one
redelivery each are enough to separate every pair of adjacent steps.

For the alerts three requests are a first message, what follows it and one more to
compare: a skip, a reset or a second digest.  Two subjects fail together, so a
threshold of two is reached by one message or by two; one trouble, a crash or an
edit, may come between any two steps.  A default cooldown of two, a ceiling of one and
an override of zero put a second message within, at and beyond each.

For the issue sync two issues tell "this one" from "any other", two slots are the
parties of every hazard, and a clock of two gives an issue two versions or two
issues one each; the order of two versions and the loss of one needs three.  Limits of one issue make both searches drop one.  Two stamps
share a minute in issuesync_serial, so the bound of a search is before changes
already stored.

The runs of liveness assume weak fairness of what nobody has to attend: the server
goes on with a request it has begun, the platform runs the queue's tasks and
lets an invocation go on, the panel goes on after its await.  Of the issue sync: the platform hands every event to a
slot and what runs goes on.  Of tenant access: a coroutine or thread that can go on
does, and the pool's timeout expires; who gets the loop or a connection first is left
open, since requests are finite.  Clicks, installs, failures, crashes, redeliveries,
ingests, rotations and deletions have none.

## 11. What is proved, and what is only checked

`Backfill_proofs.tla`, for every site size, cap, page budget and number of
invocations: `TypeCorrect`; `NoGap`, that whatever is queued, running or posted
stands behind committed pages only; and from it `Completeness`, that a completed
status means a walked site.  `CompletedMeansWalked` is not inductive by itself,
since it says nothing of the walk that is about to report the end; with
`WalksLeaveNoGap` it is.  For `Serial` (no push during a walk, no redelivery, no
refused request; invocations may still be killed and pages fail) three more from one
invariant, `Counted`: one caller is busy or one task queued (`Alone`); a task, an
invocation and a page's report stand where the count is, or one before it (`RunningAt`);
what a request has loaded is still the row; the report of an end has the whole count;
and in a terminal status the mail is due or sent (`MailCounts`).  From it follow
`ExactCount`, `OneMailAtRest` and `StepsOfTheCycle`, the safety part of
`BackfillCycle`: a commit is a `Start` or an `End`, the answer to the report of an end
is the `Mail`, all else stutters.  The run has no kill, because a killed walk need not
end; the theorems allow them.

`Recompute_proofs.tla`, for every set of issues, schedules and bounds:
`TypeCorrect` whatever overlaps, and for `Races = {}` four theorems.  The
inductive invariant has layers.  `Exclusive`: at most one invocation, or the
request of a dead one, is under way.  `Current`: what a request under way has
read of the tenant still holds.  With those, `AlertsFollow` is inductive.
`CursorInRange`: while a recompute goes on the cursor is within the table, and a
batch about to commit will not set it back; with it, `CursorMonotonic`.
`RowsInv`: any leading set of rows no larger than the cursor is fresh, and a
batch about to commit leaves, outside the rows it is going to write, only fresh
rows behind its new cursor.  That it survives an ingest is the fact that the
stored part of a leading set of the larger table leads the smaller table
(`FreshGrows`); that a batch establishes it, that leading sets are nested
(`LeadsNest`), which needs a total order, hence `Instant = {}`.  From `RowsInv`
follow `Uniform` and `Resumable`.

`IssueSync_proofs.tla`, for every set of issues, slots, limits and bounds:
`TypeCorrect` whatever overlaps, and for `Races = {}` three theorems from one
invariant, `SyncInv`.  Its parts: `Shape`, what a handler's record looks like at each
of its steps; `Carries`, that nothing carried is newer than Jira's version or about
a deleted issue; `Exclusive`, one handler in the server; `Current`, that what the
server has read still holds, that what it has flushed is no older than the row,
and that a webhook's version is still to be processed, flushed, or already in the
row; `Alone`, the sync button by itself.  `NothingForgotten` is a part of it, and
needs the others: that a commit may drop a pursuit only when the row is then
Jira's version is `Current`, that it cannot hide one is `Carries`.  `QuietStep` is
the one argument for all steps that touch only a handler's own slot.
`RowsDoNotRegress` and `StepsAreMirrored` (every step is one of `Mirror` or leaves
its variables alone) follow from what a commit and a deletion do in such a state.

`Alerts_proofs.tla`, for every set of rules, subjects, destinations and slots and
every cooldown, ceiling and threshold (rules, subjects and destinations are finite
sets, as the tables of a tenant are): `TypeCorrect` and `NothingDropped` whatever
overlaps, and for `~Overlap` six theorems. `NothingDropped` rests on `AttemptInv`:
the alert of a request that pushes is carried by it from the commit of the alert to
that of the rows, and while that sends, each alert has a bucket to come or a row
flushed (`Promised`); the serial order is not needed, since a request answers for
its own alerts only. `NeverPushedTwice` rests on `PushInv`: one request is under way
(`Alone`), what it has read of the alerts still holds, and what it is about to send
(`TodoFresh`) is stored, is in no message yet to that destination, and has one
bucket for a rule and a destination. `AlwaysSpaced` rests on it and on `SpaceInv`:
no message is later than the time of the request under way, and every message has a
row of a delivery, stored or flushed by that request, unless its rows died
(`Recorded`, `NotLost`), so that the look for the cooldown misses none.
`SkipsAreEarned` adds the converse, `SkipInv`: every row of a delivery has its
message. `EveryAlertIsHandled` is `NothingDropped` and `SkipsAreEarned` together, the
invariant of the run.

`DigestsKeepApart` rests on `DigestInv`: a mailed digest is no later than the
request under way, and no later than the stamp unless that is still to come or was
lost. `PausesAreEarned` rests on `PauseInv`, which relates two ways to count
failures: the streak in the order of the attempts, which the property is about, and
the rows later than the last delivery, which `_maybe_pause` counts. `Streaks` holds
of both the stored rows and those a request knows: no failure of the streak is
earlier than a delivery, and no other failure is later than all of them. So the
second count is part of the first, and where it is smaller a failure and a delivery
have one time (`CountsAgree`).

`TimeSlicing_proofs.tla`, for every issue, changelog, schedule and two instants:

* `WorkingTimeIsCounted`: the sum over local days tells the number of worked instants
  (`Worked`).  Hours begin and end on a second, so `int()` loses something only on the
  first and on the last day.  `WorkingTimeAdds`: a cut loses at most one second, the
  one it divides, and no second is counted on both sides;
* `ExtractedInOrder`: of a changelog that `Delivers` a history, in order, in reverse or
  twice, the transitions are that history.  An entry kept has as many kept entries
  before it as its place in the history (`BeforeIsImage`);
* `BuiltSlicesPartition`, for transitions in any order: the loop keeps `LoopInv`
  (`FirstSliceInv`, `NextSliceInv`), with which the last slice completes a chain
  (`LastSlicePartitions`);
* `SlicesAreStays`, for transitions in order: after k turns the loop is where `LoopAt`
  says, and slice k is the stay after move k - 1;
* `SliceTimesAdd`: the durations of a chain of n slices are the duration of the whole
  less at most n - 1 seconds, and tell the time worked.

A fold or a sum over a set is defined by recursion over data, and the library's
induction takes an operator as a parameter.  The lemmas take the least
counterexample instead: the set of the numbers a statement holds of, which is all of
`Nat` because `<` on `Nat` is well-founded (`Induction`); `SumsExist` and `IterExists`
do so for the two recursive functions, of subsets of a finite set and of the turns of
the loop.

`FlowReports_proofs.tla`, for every set of issues, statuses, names and schedules, every
renaming the assumptions allow and every number of moves: the nine invariants of the
run, from an inductive invariant, `IInv`, which TLC checked on the instance of the run.  Its parts relate three pictures of an issue:

* `HistoryOK`: what Jira knows is in order, each move from where the one before it
  ended, under names the statuses have had so far (`NamesSoFar`);
* `RowOK`: what is stored is a beginning of it, up to the time of the ingest, with the
  right ids or none;
* `SlicesOK`: the slices are the stays between the stored moves, up to `End`;
  `MetricsOK`: the active seconds last no longer than the life of the issue.

A unit of time extends the history beyond the last ingest and leaves the beginning
(`HistoryExtends`); an ingest establishes the last three from the first by the theorems
of `TimeSlicing_proofs` (`IngestedRow`, `IngestedSlices`); the status-id backfill fills
in no id but that of the owner of a name (`IdForOwner`), since no name has had two
owners.  `TypeCorrect`, `SlicesArePartitions`, `SlicesAreHistory`, `DurationsAddUp`,
`AgesFromEntry` and `AlertsAreHistory` then compare with the references:
`StatusAtTurn` is `StatusAt` between two moves, `EndOfIssue` says `EndOf` is `End`, and
`StaysOfIssue` lists the stays.

`AlertsAreHistory` and `TypeCorrect` need a second invariant, `EditInv`, checked by TLC
like `IInv`: no last change is ahead of the clock, no move is later than the last change
of its issue, and a row ingested since then has its time.  So the later of the row's
time and of the start of its last slice, which the rule compares, is the last change.

The other three are about the slices of all issues together (`SlicesNow`).
`GroupsArePartition`: `StoredGrouped` is all that the groups depend on, a finite number
of slices each with a name and with the id of its owner or none (`Attributed`); the
home of a name is the group of its owner's id if some row of that name has an id, and
otherwise that of its lower case (`HomeOf`), and it is the only one (`EveryNameHasHome`,
`NameIsAtHome`).  That a group shows a name of its own is `HasFirst`: of finitely many
names one is first in an order by count, by end and by the alphabet, which is total
because every name has its own place in it (`PlaceOfName`).

`CfdIsHistory` and `WindowsAreHistory` need another invariant on top of `IInv`,
`PastInv`, which TLC checked on the same instance: no resolution lies ahead of the clock, no stored one ahead of its ingest, and
no move ends in the status it starts from.  Without it an issue could end after its
ingest, when Jira has moved it on (`EndIsPast`).  Then an instant is in the slice of
the status at it and in no other (`InstantHasSlice`, `StatusInSlice`), except that at
the end of a slice the issue has just left its status (`SliceAtInstant`): this gives the bands
of the diagram.  For the windows, an overlap is the number of the instants a slice
covers (`OverlapCounts`), slices cover different instants (`SlicesAreDisjoint`), so the
sums over slices and groups are the size of a union (`SumOfSizes`, `TotalsAdd`,
`SamplesAdd`), and that union is what the history says (`SpentIsCovered`); the slices
that ended are one to one with the departures (`EndedSliceDeparts`,
`DepartureEndsSlice`), where `PastInv` excludes a departure counted for two slices
(`DepartsOnce`).

`TenantAccess_proofs.tla`, for every set of sites, instances, slots and keys, every
pool and every set of routes: `TypeCorrect`; `Isolation`, from `ConnInv`: no two
requests hold one connection (`ConnsApart`), and a connection that is bound is held by
a request of the site it is bound to (`BoundByHolder`); `UninstallLeavesNothing`, from
`WrittenInv`: a transaction that has written rows keeps its tenant from being deleted,
so a cascade finds whatever was written; `KeysAreKept`, from `KeysInv`: an instance has the
keys of the image and of its last fetch.

`SiteData_proofs.tla`, for every finite set of issues and slots, every set of sprints
and accounts (accounts are numbers, as the cursor needs an order), every history of
the site, page size and limit: `TypeCorrect`, with what the updates need to be defined
(`Whole`: a row that was loaded is still stored, since no step of an ingest deletes
one).  The other three theorems rest on `IngestInv`, which TLC checked on the instance of
the run before it was proved:

* `OneByOne` and `HoldsOwn`: a request is at one payload at a time, each of another
  issue, and the batches, memberships and rows it holds are of issues it works on;
* `RowLocks`: no two requests hold the row of an issue, and what one wrote without the
  account has the account of the stored row;
* `Overlaps`: two requests that work on one issue both have it in `loose`;
* `ProgressOf`: of an issue only this request works on, what it has built and deleted
  by the step it is at (`Progress`); `WillStore`: what it has processed is what its
  commit will leave (`Settled` for the memberships: those named, or none touched).

`OthersKeep` is the argument that makes this inductive: a step of one request keeps the
invariant of another if it leaves alone the issues that only the other works on; a
commit does, by `Overlaps` and `HoldsOwn` (`CommitLeavesAlone`).  From it follow
`ChildrenOfOneBuild`, the invariant of the stored children being the `Progress` of a
request that is at its end, and `AnswersAreTrue`, an action property.
`ErasureIsComplete` adds `EraseInv`, that a closed account some issue still names is
before the cursor only if it was found, then reported, then a target; it needs
`PageIsWhole` (a page with a next cursor is all accounts up to it, an argument by
cardinalities of finite sets of numbers) and, for a commit, the second part of
`RowLocks`.  The first attempt at the proof showed `loose` to be too small: the
overlap that an UPDATE without `updated_at` allows needs a history of four ingests and
was beyond the bound of the run.

Every invariant and every action property of a passing run is proved.  Only checked:
liveness (the fairness of `BackfillCycle`, the leads-to of `Mirror`,
`RequestsAreAnswered`), which is out of the prover's reach, and the assumptions of
`MCFlowReports`, `MCAlerts` and `MCSiteData`, which are about operators over data.

## 12. Not modelled

* Wording: of alerts, mails, messages and of the explanation of a bottleneck
  (`alert_messages.py`, `ai_explanation.py`); rendering in the Custom UI; the encoding
  of the CSV file; the cryptography of a token (a token is its key).
* Operations: the test message to a destination, the deletion of a rule between two
  steps of a dispatch, `/sprints/ingest`, the raw ingest of the development router,
  the demo data.  `persist_status_window` and `/metrics/recompute` have no caller in
  the app.
* Time: changes to daylight saving (a zone is a fixed offset), and thereby the parts
  of `working_time.py` that exist for them.
* Jira: two changes of an issue at one instant, and two statuses with one name.
* The schema beyond the constraints and policies that the modules use, logging and
  settings, and the cloud stacks: declarations without behaviour of the program.
