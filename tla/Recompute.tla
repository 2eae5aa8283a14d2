----------------------------- MODULE Recompute -----------------------------
(***************************************************************************)
(* The recompute of one tenant's time slices under a new work schedule     *)
(* (ADR-0043).  The Settings panel posts the schedule to                   *)
(* /forge/schedule/activate and then invokes startRecompute, which pushes  *)
(* a task on `recomputequeue` but is not on the resolver of the page.  The *)
(* consumer of that queue, however it got a task, calls                    *)
(* /forge/schedule/recompute-batch until the backend answers done.  The    *)
(* backend walks the slices in (issue, start) order with OFFSET and LIMIT, *)
(* behind a cursor on the tenant row.                                      *)
(*                                                                         *)
(* A slice is known by its issue and its place in the issue's history, and *)
(* its duration by the schedule it was computed under.                     *)
(*                                                                         *)
(* A batch is three steps of the server: the SELECT of the tenant and its  *)
(* schedule, the SELECTs of the count, the cursor and the rows, and the    *)
(* commit.  An activation and an ingest are two: what they read, and the   *)
(* commit.  Which of them may overlap is the constant Races.               *)
(***************************************************************************)
EXTENDS Integers, FiniteSets, UnitOfWork

CONSTANTS
  Issues,          \* issue ids, in the order the database sorts them
  MaxSlices,       \* bound: slices of one issue
  Instant,         \* slices that end when they start
  Schedules,       \* work schedules; one of them is calendar time
  Calendar,
  BadSchedules,    \* schedules working_seconds_between raises on
  BatchSize,
  MaxBatches,      \* MAX_BATCHES_PER_INVOCATION
  Invocations,     \* slots for concurrent consumer invocations
  UI,              \* the Settings panel of one administrator
  MaxSaves,        \* bound: activations
  MaxTasks,        \* bound: tasks pushed by startRecompute
  MaxReads,        \* bound: ingests and alert sweeps
  MaxDeletes,      \* bound: issues deleted
  MaxRedeliveries, \* bound: tasks delivered again by the queue
  MaxCrashes,      \* bound: invocations killed, requests refused
  Races            \* what may overlap a batch or an activation

RaceKinds == {"batches", "activation", "snapshot", "deletion"}

ASSUME RecomputeAssumption ==
  /\ Issues \subseteq Nat /\ IsFiniteSet(Issues)
  /\ MaxSlices \in Nat
  /\ Calendar \in Schedules /\ BadSchedules \subseteq Schedules \ {Calendar}
  /\ BatchSize \in Nat \ {0} /\ MaxBatches \in Nat \ {0}
  /\ UI \notin Invocations
  /\ MaxSaves \in Nat /\ MaxTasks \in Nat
  /\ MaxReads \in Nat /\ MaxDeletes \in Nat
  /\ MaxRedeliveries \in Nat /\ MaxCrashes \in Nat
  /\ Races \subseteq RaceKinds

Rows == Issues \X (1 .. MaxSlices)

ASSUME RowAssumption == Instant \subseteq Rows

VARIABLES
  tenant,  \* the tenant row's recompute columns, and its schedule
  stored,  \* the slices in the database
  math,    \* per slice: the schedule its duration was computed under
  metrics, \* per issue: the schedule its active_seconds was computed under
  alerts,  \* the schedules the stored alerts were evaluated under
  req,     \* per caller: its outstanding HTTP request
  reader,  \* an ingest or an alert sweep, holding the schedule it read
  queue,   \* how many tasks are on `recomputequeue`; tasks carry no data
  inv,     \* per slot: the consumer invocation running in it
  ui,      \* the panel: "idle", "saving" or about to "kick"
  spent    \* how much of each bound is used up

vars == <<tenant, stored, math, metrics, alerts, req, reader, queue, inv, ui,
          spent>>
data == <<stored, math, metrics, alerts>>

-----------------------------------------------------------------------------

Callers == Invocations \cup {UI}

Statuses == {"idle", "pending", "running", "completed", "failed"}

Tenants == [status : Statuses, cursor : Nat, schedule : Schedules]

NewTenant == [status |-> "idle", cursor |-> 0, schedule |-> Calendar]

SlicesOf(i) == {row \in stored : row[1] = i}

(* ORDER BY issue_id, start_at puts a strictly before b: an earlier issue, *)
(* or an earlier start because some slice from a up to b lasts.            *)
Before(a, b) ==
  \/ a[1] < b[1]
  \/ /\ a[1] = b[1]
     /\ \E n \in a[2] .. b[2] - 1 : <<a[1], n>> \notin Instant

(* What a query for the first n stored rows in that order may return. *)
Leads(first) ==
  /\ first \subseteq stored
  /\ \A b \in first, a \in stored : Before(a, b) => a \in first

IsPrefix(first, n) == Leads(first) /\ Cardinality(first) = n

AtMost(n, limit) == IF n < limit THEN n ELSE limit

(* A request: what it read of the tenant, the schedule it activates, the   *)
(* rows it is about to UPDATE, what it will set the cursor to, whether the *)
(* batch is the last, what will become of it, and how it was answered.     *)
Requests == [path : {"none", "activate", "batch"},
             at : {"sent", "loaded", "selected", "answered"},
             loaded : Tenants, schedule : Schedules, dirty : SUBSET Rows,
             cursor : Nat, last : BOOLEAN, fate : {"commit", "raise", "lose"},
             answer : {"none", "saved", "more", "done", "failed"}]

Request(path, schedule) ==
  [path |-> path, at |-> "sent", loaded |-> NewTenant, schedule |-> schedule,
   dirty |-> {}, cursor |-> 0, last |-> FALSE, fate |-> "commit",
   answer |-> "none"]

NoRequest == Request("none", Calendar)
BatchRequest == Request("batch", Calendar)

Readers == [kind : {"none", "ingest", "sweep"}, schedule : Schedules]
NoReader == [kind |-> "none", schedule |-> Calendar]

Invocation == [running : BOOLEAN, batches : Nat]
Idle == [running |-> FALSE, batches |-> 0]

Bounds == {"save", "task", "read", "delete", "redelivery", "crash"}

Limit == [save |-> MaxSaves, task |-> MaxTasks, read |-> MaxReads, delete |-> MaxDeletes,
          redelivery |-> MaxRedeliveries, crash |-> MaxCrashes]

Spend(bound) ==
  /\ spent[bound] < Limit[bound]
  /\ spent' = [spent EXCEPT ![bound] = @ + 1]

(* An issue's slices are stored from its first to its last. *)
Contiguous(rows) ==
  \A row \in rows : \A n \in 1 .. row[2] : <<row[1], n>> \in rows

Init ==
  /\ tenant = NewTenant
  /\ stored \in {rows \in SUBSET Rows : Contiguous(rows)}
  /\ math = [row \in Rows |-> Calendar]
  /\ metrics = [i \in Issues |-> Calendar]
  /\ alerts = {}
  /\ req = [c \in Callers |-> NoRequest]
  /\ reader = NoReader
  /\ queue = 0
  /\ inv = [c \in Invocations |-> Idle]
  /\ ui = "idle"
  /\ spent = [b \in Bounds |-> 0]

-----------------------------------------------------------------------------
(* The Settings panel: save the schedule, then ask for the recompute.      *)

Send(c, request) == req' = [req EXCEPT ![c] = request]

Answered(c, answer) == req[c].at = "answered" /\ req[c].answer = answer

Save(schedule) ==
  /\ ui = "idle" /\ req[UI] = NoRequest
  /\ Spend("save")
  /\ Send(UI, Request("activate", schedule))
  /\ ui' = "saving"
  /\ UNCHANGED <<tenant, data, reader, queue, inv>>

(* putWorkSchedule returned, or threw: then no recompute is asked for. *)
Saved ==
  /\ ui = "saving" /\ req[UI].at = "answered"
  /\ ui' = IF Answered(UI, "saved") THEN "kick" ELSE "idle"
  /\ Send(UI, NoRequest)
  /\ UNCHANGED <<tenant, data, reader, queue, inv, spent>>

(* invoke("startRecompute"): the resolver bound to the page does not       *)
(* define it, the invoke throws, and the panel swallows that.              *)
Kick ==
  /\ ui = "kick"
  /\ ui' = "idle"
  /\ UNCHANGED <<tenant, data, req, reader, queue, inv, spent>>

(* enqueueRecompute, run by whoever reaches the function startRecompute: a *)
(* task may be put on the queue at any time.                               *)
Push ==
  /\ Spend("task")
  /\ queue' = queue + 1
  /\ UNCHANGED <<tenant, data, req, reader, inv, ui>>

-----------------------------------------------------------------------------
(* The consumer.                                                           *)

(* No other invocation runs, and no request of a dead one. *)
OnlyInvocation(c) ==
  \A d \in Invocations \ {c} : inv[d] = Idle /\ req[d] = NoRequest

(* The platform starts an invocation for a task; it may keep the task and  *)
(* deliver it once more.                                                   *)
Deliver(c) ==
  /\ inv[c] = Idle /\ req[c] = NoRequest
  /\ "batches" \in Races \/ OnlyInvocation(c)
  /\ queue > 0
  /\ \/ queue' = queue - 1 /\ UNCHANGED spent
     \/ Spend("redelivery") /\ UNCHANGED queue
  /\ inv' = [inv EXCEPT ![c] = [running |-> TRUE, batches |-> 1]]
  /\ Send(c, BatchRequest)
  /\ UNCHANGED <<tenant, data, reader, ui>>

NextBatch(c) ==
  /\ inv[c].running /\ Answered(c, "more")
  /\ inv[c].batches < MaxBatches
  /\ inv' = [inv EXCEPT ![c].batches = @ + 1]
  /\ Send(c, BatchRequest)
  /\ UNCHANGED <<tenant, data, reader, queue, ui, spent>>

(* The invocation's batches are used up: push another task. *)
PushAgain(c) ==
  /\ inv[c].running /\ Answered(c, "more")
  /\ inv[c].batches = MaxBatches
  /\ inv' = [inv EXCEPT ![c] = Idle]
  /\ Send(c, NoRequest)
  /\ queue' = queue + 1
  /\ UNCHANGED <<tenant, data, reader, ui, spent>>

Finish_AcksAgain(c) ==
  /\ inv[c].running /\ Answered(c, "done")
  /\ inv' = [inv EXCEPT ![c] = Idle]
  /\ Send(c, NoRequest)
  /\ queue' = queue - 1
  /\ UNCHANGED <<tenant, data, reader, ui, spent>>

Finish(c) ==
  /\ inv[c].running /\ Answered(c, "done")
  /\ inv' = [inv EXCEPT ![c] = Idle]
  /\ Send(c, NoRequest)
  /\ UNCHANGED <<tenant, data, reader, queue, ui, spent>>

(* The consumer throws; the queue may deliver the task again. *)
Throw(c) ==
  /\ inv[c].running /\ Answered(c, "failed")
  /\ inv' = [inv EXCEPT ![c] = Idle]
  /\ Send(c, NoRequest)
  /\ \/ UNCHANGED <<queue, spent>>
     \/ queue' = queue + 1 /\ Spend("redelivery")
  /\ UNCHANGED <<tenant, data, reader, ui>>

(* The platform kills the invocation; a request it had sent still runs,    *)
(* and the queue may deliver the task again.                               *)
Crash(c) ==
  /\ inv[c].running
  /\ Spend("crash")
  /\ inv' = [inv EXCEPT ![c] = Idle]
  /\ queue' \in {queue, queue + 1}
  /\ UNCHANGED <<tenant, data, req, reader, ui>>

(* Nobody is left to read the answer. *)
Drop(c) ==
  /\ ~inv[c].running /\ req[c].at = "answered"
  /\ Send(c, NoRequest)
  /\ UNCHANGED <<tenant, data, reader, queue, inv, ui, spent>>

-----------------------------------------------------------------------------
(* The backend: an activation.                                             *)

Answer(c, answer) ==
  req' = [req EXCEPT ![c] = [NoRequest EXCEPT !.path = req[c].path,
                                              !.at = "answered",
                                              !.answer = answer]]

At(c, path, at) == req[c].path = path /\ req[c].at = at

BatchInFlight(c) == At(c, "batch", "loaded") \/ At(c, "batch", "selected")

(* A request that is refused or lost on its way. *)
Refuse(c) ==
  /\ req[c].path # "none" /\ req[c].at = "sent"
  /\ Spend("crash")
  /\ Answer(c, "failed")
  /\ UNCHANGED <<tenant, data, reader, queue, inv, ui>>

LoadActivation ==
  /\ At(UI, "activate", "sent")
  /\ "activation" \in Races \/ \A c \in Invocations : ~BatchInFlight(c)
  /\ Send(UI, [req[UI] EXCEPT !.at = "loaded", !.loaded = tenant])
  /\ UNCHANGED <<tenant, data, reader, queue, inv, ui, spent>>

CommitActivation_KeepsCursor ==
  /\ At(UI, "activate", "loaded")
  /\ "snapshot" \in Races \/ reader = NoReader
  /\ tenant' = [tenant EXCEPT !.status = "pending",
                              !.schedule = req[UI].schedule]
  /\ Answer(UI, "saved")
  /\ UNCHANGED <<data, reader, queue, inv, ui, spent>>

CommitActivation ==
  /\ At(UI, "activate", "loaded")
  /\ "snapshot" \in Races \/ reader = NoReader
  /\ LET loaded == req[UI].loaded
     IN tenant' = [tenant EXCEPT
          !.status = Flush(loaded.status, "pending", @),
          !.cursor = Flush(loaded.cursor, 0, @),
          !.schedule = Flush(loaded.schedule, req[UI].schedule, @)]
  /\ Answer(UI, "saved")
  /\ UNCHANGED <<data, reader, queue, inv, ui, spent>>

-----------------------------------------------------------------------------
(* The backend: a batch.                                                   *)

LoadBatch(c) ==
  /\ At(c, "batch", "sent")
  /\ "activation" \in Races \/ ~At(UI, "activate", "loaded")
  /\ Send(c, [req[c] EXCEPT !.at = "loaded", !.loaded = tenant])
  /\ UNCHANGED <<tenant, data, reader, queue, inv, ui, spent>>

(* recompute_batch: the offset is the cursor as it is now, the new cursor  *)
(* is counted from the one the request loaded.                             *)
SelectRows(c) ==
  /\ At(c, "batch", "loaded")
  /\ \E skipped \in SUBSET stored : \E read \in SUBSET stored :
       LET total == Cardinality(stored)
           rows == read \ skipped
           processed == Cardinality(rows)
           schedule == req[c].loaded.schedule
           last == tenant.cursor + processed >= total
           raises == schedule \in BadSchedules /\ rows \ Instant # {}
       IN /\ skipped \subseteq read
          /\ IsPrefix(skipped, AtMost(tenant.cursor, total))
          /\ IsPrefix(read, AtMost(tenant.cursor + BatchSize, total))
          /\ Send(c, [req[c] EXCEPT
               !.at = "selected",
               !.dirty = {row \in rows \ Instant : math[row] # schedule},
               !.cursor = IF last THEN total
                          ELSE req[c].loaded.cursor + processed,
               !.last = last,
               !.fate = IF raises THEN "raise" ELSE "commit"])
  /\ UNCHANGED <<tenant, data, reader, queue, inv, ui, spent>>

CommitBatch_KeepsAlerts(c) ==
  /\ At(c, "batch", "selected") /\ req[c].fate = "commit"
  /\ math' = [row \in Rows |-> IF row \in req[c].dirty
                               THEN req[c].loaded.schedule ELSE math[row]]
  /\ tenant' = [tenant EXCEPT
       !.status = IF req[c].last THEN "completed" ELSE "running",
       !.cursor = req[c].cursor]
  /\ Answer(c, IF req[c].last THEN "done" ELSE "more")
  /\ UNCHANGED <<stored, metrics, alerts, reader, queue, inv, ui, spent>>

CommitBatch(c) ==
  /\ At(c, "batch", "selected") /\ req[c].fate = "commit"
  /\ math' = [row \in Rows |-> IF row \in req[c].dirty
                               THEN req[c].loaded.schedule ELSE math[row]]
  /\ tenant' = [tenant EXCEPT
       !.status = IF req[c].last THEN "completed" ELSE "running",
       !.cursor = req[c].cursor]
  /\ alerts' = IF req[c].last THEN {} ELSE alerts
  /\ Answer(c, IF req[c].last THEN "done" ELSE "more")
  /\ UNCHANGED <<stored, metrics, reader, queue, inv, ui, spent>>

FailBatch_Advances(c) ==
  /\ At(c, "batch", "selected") /\ req[c].fate = "raise"
  /\ tenant' = [tenant EXCEPT !.status = "failed", !.cursor = req[c].cursor]
  /\ Answer(c, "failed")
  /\ UNCHANGED <<data, reader, queue, inv, ui, spent>>

(* working_seconds_between raised: the status is failed. *)
FailBatch(c) ==
  /\ At(c, "batch", "selected") /\ req[c].fate = "raise"
  /\ tenant' = [tenant EXCEPT !.status = "failed"]
  /\ Answer(c, "failed")
  /\ UNCHANGED <<data, reader, queue, inv, ui, spent>>

LoseBatch_Restarts(c) ==
  /\ At(c, "batch", "selected") /\ req[c].fate = "lose"
  /\ tenant' = [tenant EXCEPT !.cursor = 0]
  /\ Answer(c, "failed")
  /\ UNCHANGED <<data, reader, queue, inv, ui, spent>>

(* A row to UPDATE is gone: the flush raises, the session can no longer    *)
(* execute the UPDATE of mark_recompute_failed, the request fails.         *)
LoseBatch(c) ==
  /\ At(c, "batch", "selected") /\ req[c].fate = "lose"
  /\ Answer(c, "failed")
  /\ UNCHANGED <<tenant, data, reader, queue, inv, ui, spent>>

-----------------------------------------------------------------------------
(* The backend: the handlers that use the schedule of the tenant row the   *)
(* middleware read at the start of their request.                          *)

StartReader(kind) ==
  /\ reader = NoReader
  /\ Spend("read")
  /\ reader' = [kind |-> kind, schedule |-> tenant.schedule]
  /\ UNCHANGED <<tenant, data, req, queue, inv, ui>>

(* A batch that is about to UPDATE one of these rows will not find it. *)
Lose(rows) ==
  req' = [c \in Callers |->
            IF At(c, "batch", "selected") /\ req[c].dirty \cap rows # {}
            THEN [req[c] EXCEPT !.fate = "lose"] ELSE req[c]]

(* replace_time_slices: the rows of an issue are deleted, and inserted     *)
(* again with those of its new transitions.  A webhook's ingest evaluates  *)
(* alerts too.                                                             *)
CommitIngest(i, n) ==
  LET rows == {i} \X (1 .. n)
  IN /\ reader.kind = "ingest" /\ reader.schedule \notin BadSchedules
     /\ SlicesOf(i) \subseteq rows
     /\ stored' = stored \cup rows
     /\ math' = [row \in Rows |-> IF row \in rows THEN reader.schedule
                                  ELSE math[row]]
     /\ metrics' = [metrics EXCEPT ![i] = reader.schedule]
     /\ alerts' \in {alerts, alerts \cup {reader.schedule}}
     /\ Lose(rows)
     /\ reader' = NoReader
     /\ UNCHANGED <<tenant, queue, inv, ui, spent>>

CommitSweep ==
  /\ reader.kind = "sweep" /\ reader.schedule \notin BadSchedules
  /\ alerts' = alerts \cup {reader.schedule}
  /\ reader' = NoReader
  /\ UNCHANGED <<tenant, stored, math, metrics, req, queue, inv, ui, spent>>

(* working_seconds_between raises in either. *)
ReaderFails ==
  /\ reader.kind # "none" /\ reader.schedule \in BadSchedules
  /\ reader' = NoReader
  /\ UNCHANGED <<tenant, data, req, queue, inv, ui, spent>>

(* The issue is deleted in Jira; its slices go with it. *)
DeleteIssue(i) ==
  /\ \/ "deletion" \in Races
     \/ /\ tenant.status \in {"idle", "completed"}
        /\ \A c \in Invocations : ~BatchInFlight(c)
  /\ SlicesOf(i) # {}
  /\ Spend("delete")
  /\ stored' = stored \ SlicesOf(i)
  /\ math' = [row \in Rows |-> IF row \in SlicesOf(i) THEN Calendar
                               ELSE math[row]]
  /\ metrics' = [metrics EXCEPT ![i] = Calendar]
  /\ Lose(SlicesOf(i))
  /\ UNCHANGED <<tenant, alerts, reader, queue, inv, ui>>

-----------------------------------------------------------------------------

Server(c) ==
  \/ LoadBatch(c) \/ SelectRows(c) \/ CommitBatch(c) \/ FailBatch(c)
  \/ LoseBatch(c)

Activation == LoadActivation \/ CommitActivation

Consumer(c) == NextBatch(c) \/ PushAgain(c) \/ Finish(c) \/ Throw(c) \/ Drop(c)

Read ==
  \/ \E i \in Issues, n \in 1 .. MaxSlices : CommitIngest(i, n)
  \/ CommitSweep \/ ReaderFails

Next ==
  \/ \E schedule \in Schedules : Save(schedule)
  \/ Saved \/ Kick \/ Push
  \/ Activation
  \/ \E c \in Callers : Refuse(c)
  \/ \E c \in Invocations : Server(c) \/ Consumer(c) \/ Deliver(c) \/ Crash(c)
  \/ \E kind \in {"ingest", "sweep"} : StartReader(kind)
  \/ Read
  \/ \E i \in Issues : DeleteIssue(i)

(* The panel and the platform go on with what they have started, and the   *)
(* server answers.                                                         *)
Fairness ==
  /\ WF_vars(Saved) /\ WF_vars(Kick) /\ WF_vars(Activation) /\ WF_vars(Read)
  /\ \A c \in Invocations : WF_vars(Server(c)) /\ WF_vars(Consumer(c))
  /\ WF_vars(\E c \in Invocations : Deliver(c))

Spec == Init /\ [][Next]_vars
FairSpec == Spec /\ Fairness

-----------------------------------------------------------------------------
(* Properties.                                                             *)

TypeOK ==
  /\ tenant \in Tenants
  /\ stored \subseteq Rows
  /\ math \in [Rows -> Schedules]
  /\ metrics \in [Issues -> Schedules]
  /\ alerts \subseteq Schedules
  /\ req \in [Callers -> Requests]
  /\ reader \in Readers
  /\ queue \in Nat
  /\ inv \in [Invocations -> Invocation]
  /\ ui \in {"idle", "saving", "kick"}
  /\ spent \in [Bounds -> Nat]

(* A slice that lasts has a duration that depends on the schedule. *)
Fresh(row) == row \in Instant \/ math[row] = tenant.schedule

(* ADR-0043, "single consistent math model": once a recompute has          *)
(* completed, every stored duration was computed under the active schedule. *)
CompletedIsUniform ==
  tenant.status = "completed" => \A row \in stored : Fresh(row)

(* recompute_batch, "re-running picks up where the last invocation left    *)
(* off": whatever was crashed, failed or delivered twice, the rows the     *)
(* cursor skips are rows already computed under the active schedule.       *)
CursorSkipsFresh ==
  \A first \in SUBSET stored :
    IsPrefix(first, AtMost(tenant.cursor, Cardinality(stored)))
      => \A row \in first : Fresh(row)

(* "the rows_processed cursor on tenants is monotonic": while a recompute  *)
(* is going on only a new activation sets it back.                         *)
CursorIsMonotonic ==
  [][tenant.status \in {"pending", "running"} /\ tenant'.cursor < tenant.cursor
       => tenant'.status = "pending"]_vars

(* reset_alerts_for_recompute: no alert evaluated under the old math       *)
(* outlives the recompute.                                                 *)
AlertsUseActiveMath ==
  tenant.status = "completed" => alerts \subseteq {tenant.schedule}

(* The consumer is "safe to over-enqueue": a task too many does not drop   *)
(* the alerts evaluated since the recompute completed.                     *)
AlertsAreKept ==
  [][tenant.status = "completed" /\ tenant.schedule \in alerts
       => tenant.schedule \in alerts']_vars

(* ADR-0043: metrics_service honours the active schedule, and a completed  *)
(* recompute leaves one math model: the stored per-issue metrics follow.   *)
MetricsUseActiveMath ==
  tenant.status = "completed" =>
    \A row \in stored : metrics[row[1]] = tenant.schedule

(* recompute_one_batch, "surface failures": a batch that fails leaves the  *)
(* status failed, for the banner and its retry.                            *)
FailureIsRecorded ==
  [][\A c \in Invocations :
       BatchInFlight(c) /\ Answered(c, "failed")'
         => tenant'.status = "failed"]_vars

(* "startRecompute is invoked from the frontend's Settings save flow to    *)
(* push the initial task" (manifest.yml): saving a schedule leads to a     *)
(* recompute that completes, or fails in front of the user.                *)
RecomputeEnds ==
  tenant.status \in {"pending", "running"} ~>
    tenant.status \in {"completed", "failed"}

=============================================================================
