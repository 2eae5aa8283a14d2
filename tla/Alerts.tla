------------------------------- MODULE Alerts --------------------------------
(***************************************************************************)
(* Alert rules of a tenant: evaluated by the daily and hourly sweeps, on   *)
(* ticket events, by hand and when a rule is saved.  What a sweep or an    *)
(* event has newly found is pushed to the destinations of its rule, under  *)
(* a cooldown; destinations that keep failing are paused, and a digest     *)
(* tells the administrator of failures.                                    *)
(*                                                                         *)
(* An alert is its idempotency key: its rule, its subject (an issue in a   *)
(* status) and the UTC day (ADR-0041).  A fire is a row of alert_fires     *)
(* together with the alert it was written for.  The role of the backend is *)
(* taken to see all rows of the tenant throughout a request.               *)
(***************************************************************************)
EXTENDS Integers, FiniteSets

CONSTANTS
  Rules, Subjects, Dests,
  EventRules,       \* the rules a ticket event evaluates
  DailyRules,       \* the rules of the daily tier
  Slots,            \* requests there can be at a time
  Overlap,          \* requests may be under way together
  DayLength,        \* units of time per UTC day, and between digests
  DefaultCooldown, Ceiling,
  Overrides,        \* the cooldowns a customer sets on bindings
  PauseThreshold,
  InitBindings,     \* the bindings of the tenant at the start
  Choices,          \* the bindings a customer may choose for a rule
  Defaults,         \* the destinations marked as tenant default
  MaxTime, MaxRequests, MaxTroubles,  \* bounds: troubles are crashes and edits
  None

Bindings == [dests : SUBSET Dests, cooldown : Overrides \cup {None}]

ASSUME AlertsAssumption ==
  /\ IsFiniteSet(Rules) /\ IsFiniteSet(Subjects) /\ IsFiniteSet(Dests)
  /\ EventRules \subseteq Rules /\ DailyRules \subseteq Rules
  /\ Overlap \in BOOLEAN /\ DayLength \in Nat \ {0}
  /\ DefaultCooldown \in Nat /\ Ceiling \in Nat \ {0}
  /\ Overrides \subseteq Nat /\ None \notin Nat
  /\ PauseThreshold \in Nat \ {0}
  /\ InitBindings \in [Rules -> Bindings] /\ Choices \subseteq Bindings
  /\ Defaults \subseteq Dests
  /\ {MaxTime, MaxRequests, MaxTroubles} \subseteq Nat

VARIABLES
  now,
  alerts,      \* the stored alerts
  fires,       \* the stored alert_fires
  bindings,    \* alert_rule_destinations, per rule
  dests,       \* the stored destinations
  active,      \* those with status active
  digestAt,    \* tenants.last_failure_digest_at
  req,         \* per slot: its request
  history      \* what the properties remember

vars == <<now, alerts, fires, bindings, dests, active, digestAt, req, history>>
stored == <<alerts, fires, bindings, dests, active, digestAt>>

Times == 0..MaxTime
AlertRows == [rule : Rules, subject : Subjects, day : Times]
FireRows == [alert : AlertRows, dest : Dests, at : Times,
             status : {"delivered", "failed", "skipped_cooldown"}]
Messages == [alerts : SUBSET AlertRows, rule : Rules, dest : Dests, at : Times,
             override : Overrides \cup {None}]
Kinds == {"daily", "hourly", "event", "manual", "save"}
Buckets == [rule : Rules, dest : Dests, override : Overrides \cup {None}]

Idle == [step |-> "idle"]

UnderWay ==
  [step : {"persist", "resolve", "send", "digest", "stamp"},
   kind : Kinds,
   at : Times,                \* the request's now
   found : SUBSET AlertRows,  \* its events, later the alerts it persisted
   seen : SUBSET AlertRows,   \* the alerts its queries for existing ones saw
   todo : SUBSET Buckets,     \* buckets not yet sent
   fires : SUBSET FireRows,   \* rows flushed, not committed
   paused : SUBSET Dests,     \* destinations its commit will disable
   streak : [Dests -> SUBSET FireRows],  \* these two as in history,
   failing : SUBSET Dests]    \* with its own attempts

Requests == {Idle} \cup UnderWay

(* What the properties remember:                                           *)
(* sent: the messages delivered; lost: rules and destinations with a       *)
(* delivery no row tells of; excused: alerts no push was due for; streak:  *)
(* per destination, the failed rows since its last delivery, in the order  *)
(* of the attempts; failing: the destinations where that has ever reached  *)
(* the threshold; edited: destinations a customer has saved or deleted;    *)
(* digests: when digests were mailed; lostStamp: a mailed digest was not   *)
(* stamped; the rest are counters the bounds need.                         *)
Histories ==
  [sent : SUBSET Messages, lost : SUBSET (Rules \X Dests),
   excused : SUBSET AlertRows, streak : [Dests -> SUBSET FireRows],
   failing : SUBSET Dests, edited : SUBSET Dests, digests : SUBSET Times, lostStamp : BOOLEAN,
   requests : 0..MaxRequests, troubles : 0..MaxTroubles]

Init ==
  /\ now = 0 /\ alerts = {} /\ fires = {}
  /\ bindings = InitBindings
  /\ dests = Dests /\ active = Dests
  /\ digestAt = None
  /\ req = [s \in Slots |-> Idle]
  /\ history = [sent |-> {}, lost |-> {}, excused |-> {},
                streak |-> [d \in Dests |-> {}], failing |-> {}, edited |-> {},
                digests |-> {}, lostStamp |-> FALSE,
                requests |-> 0, troubles |-> 0]

Step(s, step) == req[s].step = step
Becomes(s, r) == req' = [req EXCEPT ![s] = r]

-----------------------------------------------------------------------------
(* Evaluation *)

(* The rules a request evaluates: those of its tier, the per-issue rules   *)
(* for an event, one saved rule, or all.                                   *)
Scopes(kind) ==
  CASE kind = "daily" -> {DailyRules}
    [] kind = "hourly" -> {Rules \ DailyRules}
    [] kind = "event" -> {EventRules}
    [] kind = "save" -> {{r} : r \in Rules}
    [] kind = "manual" -> {Rules}

(* A request evaluates its rules: any subject may breach any of them.  The *)
(* key of what it finds has the day, and for each it looks whether there   *)
(* is such an alert.                                                       *)
Evaluate(s, kind) ==
  /\ Step(s, "idle") /\ history.requests < MaxRequests
  /\ Overlap \/ \A t \in Slots : Step(t, "idle")
  /\ \E rules \in Scopes(kind) :
       \E found \in SUBSET [rule : rules, subject : Subjects, day : {now \div DayLength}] :
         Becomes(s, [step |-> "persist", kind |-> kind, at |-> now, found |-> found,
                     seen |-> alerts, todo |-> {}, fires |-> {}, paused |-> {},
                     streak |-> history.streak, failing |-> history.failing])
  /\ history' = [history EXCEPT !.requests = @ + 1]
  /\ UNCHANGED <<now, stored>>

(* Mutant: every event found is pushed, also one that was stored before.   *)
CommitAlerts_PushesAll(s) ==
  LET r == req[s]
      fresh == r.found \ r.seen
      pushes == r.kind \in {"daily", "hourly", "event"}
  IN /\ Step(s, "persist")
     /\ alerts' = alerts \cup fresh
     /\ Becomes(s, IF pushes THEN [r EXCEPT !.step = "resolve"] ELSE Idle)
     /\ history' = IF pushes THEN history ELSE [history EXCEPT !.excused = @ \cup fresh]
     /\ UNCHANGED <<now, fires, bindings, dests, active, digestAt>>

(* The commit of the evaluation.  An alert that was not seen is inserted;  *)
(* where another request has inserted it since, the insert fails and the   *)
(* rollback undoes some of those before it, which the request goes on to   *)
(* treat as persisted.  Only sweeps and events go on to push.              *)
CommitAlerts(s) ==
  LET r == req[s]
      clash == (r.found \ r.seen) \cap alerts
      fresh == (r.found \ r.seen) \ clash
      pushes == r.kind \in {"daily", "hourly", "event"}
  IN /\ Step(s, "persist")
     /\ \E undone \in IF clash = {} THEN {{}} ELSE SUBSET fresh :
          alerts' = alerts \cup (fresh \ undone)
     /\ Becomes(s, IF pushes THEN [r EXCEPT !.step = "resolve", !.found = fresh] ELSE Idle)
     /\ history' = IF pushes THEN history ELSE [history EXCEPT !.excused = @ \cup fresh]
     /\ UNCHANGED <<now, fires, bindings, dests, active, digestAt>>

-----------------------------------------------------------------------------
(* Dispatch *)

(* The destinations of a rule's alerts: its bindings that are active, or   *)
(* the active defaults.                                                    *)
EffectiveDestinations(rule) ==
  LET bound == bindings[rule].dests \cap active
  IN IF bound # {}
     THEN [rule : {rule}, dest : bound, override : {bindings[rule].cooldown}]
     ELSE [rule : {rule}, dest : Defaults \cap active, override : {None}]

(* The new alerts in buckets.  A sweep passes its own now on, an event's   *)
(* dispatch takes the time anew.  With no alert there is nothing to do.    *)
Resolve(s) ==
  LET r == req[s]
      buckets == UNION {EffectiveDestinations(a.rule) : a \in r.found}
      homeless == {a \in r.found : EffectiveDestinations(a.rule) = {}}
  IN /\ Step(s, "resolve")
     /\ Becomes(s, [r EXCEPT !.step = "send", !.todo = buckets,
                             !.at = IF r.kind = "event" THEN now ELSE @,
                             !.streak = history.streak, !.failing = history.failing])
     /\ history' = [history EXCEPT !.excused = @ \cup homeless]
     /\ UNCHANGED <<now, stored>>

Later(x, y) == IF x <= y THEN y ELSE x

(* Mutant: the ceiling applies to the default only.                        *)
Cooldown_NoCeiling(override) ==
  IF override # None THEN override ELSE Later(DefaultCooldown, Ceiling)

Cooldown(override) ==
  Later(IF override # None THEN override ELSE DefaultCooldown, Ceiling)

(* Mutant: any attempt counts, not only a delivery.                        *)
InCooldown_AnyAttempt(known, bucket, at) ==
  \E f \in known : /\ f.alert.rule = bucket.rule /\ f.dest = bucket.dest
                   /\ f.at > at - Cooldown(bucket.override)

(* There is a delivery of the rule to the destination after the cutoff.    *)
InCooldown(known, bucket, at) ==
  \E f \in known : /\ f.alert.rule = bucket.rule /\ f.dest = bucket.dest
                   /\ f.status = "delivered" /\ f.at > at - Cooldown(bucket.override)

(* Mutant: a delivery does not end a run of failures.                      *)
Consecutive_Ever(known, dest) == {f \in known : f.dest = dest /\ f.status = "failed"}

(* The failed rows of a destination after its last delivery.               *)
Consecutive(known, dest) ==
  {f \in known :
     /\ f.dest = dest /\ f.status = "failed"
     /\ \A g \in known : g.dest = dest /\ g.status = "delivered" => f.at > g.at}

BucketAlerts(r, bucket) == {a \in r.found : a.rule = bucket.rule}
RowsFor(r, bucket, status) ==
  {[alert |-> a, dest |-> bucket.dest, at |-> r.at, status |-> status] :
     a \in BucketAlerts(r, bucket)}

(* Mutant: a skip leaves no row.                                           *)
Skip_Silent(s, bucket) ==
  LET r == req[s]
  IN /\ Step(s, "send") /\ bucket \in r.todo
     /\ InCooldown(fires \cup r.fires, bucket, r.at)
     /\ Becomes(s, [r EXCEPT !.todo = @ \ {bucket}])
     /\ UNCHANGED <<now, stored, history>>

(* A bucket is within the cooldown.                                        *)
Skip(s, bucket) ==
  LET r == req[s]
  IN /\ Step(s, "send") /\ bucket \in r.todo
     /\ InCooldown(fires \cup r.fires, bucket, r.at)
     /\ Becomes(s, [r EXCEPT !.todo = @ \ {bucket},
                             !.fires = @ \cup RowsFor(r, bucket, "skipped_cooldown")])
     /\ UNCHANGED <<now, stored, history>>

(* One message for the alerts of a bucket arrives, and a row for each.     *)
Deliver(s, bucket) ==
  LET r == req[s]
  IN /\ Step(s, "send") /\ bucket \in r.todo
     /\ ~InCooldown(fires \cup r.fires, bucket, r.at)
     /\ Becomes(s, [r EXCEPT !.todo = @ \ {bucket},
                             !.fires = @ \cup RowsFor(r, bucket, "delivered"),
                             !.streak[bucket.dest] = {}])
     /\ history' = [history EXCEPT
          !.sent = @ \cup {[alerts |-> BucketAlerts(r, bucket), rule |-> bucket.rule,
                            dest |-> bucket.dest, at |-> r.at,
                            override |-> bucket.override]}]
     /\ UNCHANGED <<now, stored>>

(* It does not: a failed row for each, and maybe the destination's pause.  *)
Fail(s, bucket) ==
  LET r == req[s]
      rows == RowsFor(r, bucket, "failed")
      failures == Consecutive(fires \cup r.fires \cup rows, bucket.dest)
      streak == r.streak[bucket.dest] \cup rows
  IN /\ Step(s, "send") /\ bucket \in r.todo
     /\ ~InCooldown(fires \cup r.fires, bucket, r.at)
     /\ Becomes(s, [r EXCEPT
          !.todo = @ \ {bucket}, !.fires = @ \cup rows,
          !.streak[bucket.dest] = streak,
          !.failing = IF Cardinality(streak) >= PauseThreshold THEN @ \cup {bucket.dest} ELSE @,
          !.paused = IF Cardinality(failures) >= PauseThreshold
                     THEN @ \cup {bucket.dest} ELSE @])
     /\ UNCHANGED <<now, stored, history>>

(* What is lost when a request dies: the rows of its deliveries, and the   *)
(* push of what it persisted.                                              *)
WithoutRows(r, h) ==
  [h EXCEPT !.lost = @ \cup {<<f.alert.rule, f.dest>> :
                               f \in {g \in r.fires : g.status = "delivered"}},
            !.excused = @ \cup r.found]

(* The commit of the dispatch.  It raises when a destination it pauses has *)
(* been deleted since.  The daily sweep goes on to the digest.             *)
CommitFires(s) ==
  LET r == req[s]
  IN /\ Step(s, "send") /\ r.todo = {}
     /\ IF r.paused \subseteq dests
        THEN /\ fires' = fires \cup r.fires
             /\ active' = active \ r.paused
             /\ history' = [history EXCEPT !.streak = r.streak, !.failing = r.failing]
             /\ Becomes(s, IF r.kind = "daily"
                           THEN [r EXCEPT !.step = "digest", !.found = {}, !.fires = {},
                                          !.paused = {}]
                           ELSE Idle)
        ELSE /\ history' = WithoutRows(r, history)
             /\ Becomes(s, Idle)
             /\ UNCHANGED <<fires, active>>
     /\ UNCHANGED <<now, alerts, bindings, dests, digestAt>>

-----------------------------------------------------------------------------
(* The failure digest *)

(* The failures of the last day, to destinations that still exist.         *)
Recent(at) == {f \in fires : f.status = "failed" /\ f.at >= at - DayLength /\ f.dest \in dests}

(* Mutant: no guard of a digest a day.                                     *)
Due_EverySweep(at) == Recent(at) # {}

(* A digest is due: none within a day, and failures to tell of.            *)
Due(at) == (digestAt # None => at - digestAt >= DayLength) /\ Recent(at) # {}

Digest(s) ==
  LET r == req[s]
  IN /\ Step(s, "digest")
     /\ \/ /\ Due(r.at)
           /\ Becomes(s, [r EXCEPT !.step = "stamp"])
           /\ history' = [history EXCEPT !.digests = @ \cup {r.at}]
        \/ Becomes(s, Idle) /\ UNCHANGED history     \* not due, or the mail fails
     /\ UNCHANGED <<now, stored>>

(* Mutant: the stamp is the time the next digest is due.                   *)
StampDigest_NextDue(s) ==
  /\ Step(s, "stamp")
  /\ digestAt' = req[s].at + DayLength
  /\ Becomes(s, Idle)
  /\ UNCHANGED <<now, alerts, fires, bindings, dests, active, history>>

(* The stamp of a digest that was mailed, and its commit.                  *)
StampDigest(s) ==
  /\ Step(s, "stamp")
  /\ digestAt' = req[s].at
  /\ Becomes(s, Idle)
  /\ UNCHANGED <<now, alerts, fires, bindings, dests, active, history>>

-----------------------------------------------------------------------------
(* Settings, failure and time *)

(* The process dies: what it has not committed is gone, what it has sent   *)
(* is not.                                                                 *)
Crash(s) ==
  LET r == req[s]
  IN /\ ~Step(s, "idle") /\ history.troubles < MaxTroubles
     /\ history' = [(IF Step(s, "persist") THEN history ELSE WithoutRows(r, history))
                      EXCEPT !.troubles = @ + 1,
                             !.lostStamp = @ \/ Step(s, "stamp")]
     /\ Becomes(s, Idle)
     /\ UNCHANGED <<now, stored>>

Edited == history.troubles < MaxTroubles

(* A destination is created or saved, as active or disabled.               *)
UpsertDestination(d) ==
  /\ Edited
  /\ dests' = dests \cup {d}
  /\ \E new \in {active \cup {d}, active \ {d}} : active' = new
  /\ history' = [history EXCEPT !.troubles = @ + 1, !.edited = @ \cup {d}]
  /\ UNCHANGED <<now, alerts, fires, bindings, digestAt, req>>

(* Its bindings go with it, its fires stay.                                *)
DeleteDestination(d) ==
  /\ Edited /\ d \in dests
  /\ dests' = dests \ {d} /\ active' = active \ {d}
  /\ bindings' = [r \in Rules |-> [bindings[r] EXCEPT !.dests = @ \ {d}]]
  /\ history' = [history EXCEPT !.troubles = @ + 1, !.edited = @ \cup {d}]
  /\ UNCHANGED <<now, alerts, fires, digestAt, req>>

SetRuleDestinations(r) ==
  /\ Edited
  /\ \E b \in Choices : b.dests \subseteq dests /\ bindings' = [bindings EXCEPT ![r] = b]
  /\ history' = [history EXCEPT !.troubles = @ + 1]
  /\ UNCHANGED <<now, alerts, fires, dests, active, digestAt, req>>

Tick ==
  /\ now < MaxTime
  /\ now' = now + 1
  /\ UNCHANGED <<stored, req, history>>

Request(s) ==
  \/ \E kind \in Kinds : Evaluate(s, kind)
  \/ CommitAlerts(s) \/ Resolve(s) \/ CommitFires(s)
  \/ \E bucket \in Buckets :
       Skip(s, bucket) \/ Deliver(s, bucket) \/ Fail(s, bucket)
  \/ Digest(s) \/ StampDigest(s) \/ Crash(s)

Next ==
  \/ \E s \in Slots : Request(s)
  \/ \E d \in Dests : UpsertDestination(d) \/ DeleteDestination(d)
  \/ \E r \in Rules : SetRuleDestinations(r)
  \/ Tick

Spec == Init /\ [][Next]_vars

-----------------------------------------------------------------------------
(* Properties, kept while requests do not overlap (~Overlap) *)

(* Every stored row, every request and the memory are well formed.         *)
TypeOK ==
  /\ now \in Times
  /\ alerts \subseteq AlertRows /\ fires \subseteq FireRows
  /\ bindings \in [Rules -> Bindings]
  /\ dests \subseteq Dests /\ active \subseteq dests
  /\ digestAt \in Times \cup {None}
  /\ req \in [Slots -> Requests]
  /\ history \in Histories

(* What is pushed is stored, and no alert is pushed to a destination       *)
(* twice, by whichever of the sweeps and events it was found and whatever  *)
(* of them died: the alert is committed before its push (routers/alerts.py *)
(* and forge_sync.py) and the next evaluation of its day finds it.         *)
PushedOnce ==
  /\ \A m \in history.sent : m.alerts \subseteq alerts
  /\ \A m, n \in history.sent :
       m # n /\ m.dest = n.dest => m.alerts \cap n.alerts = {}

(* Two messages of a rule to a destination are apart by the cooldown that  *)
(* was configured when the later was sent, and never by less than the      *)
(* ceiling (ADR-0037, outcome 3) -- also across sweeps, events, edits of   *)
(* the bindings and pauses -- unless the rows of the earlier were lost.    *)
Configured(m) == IF m.override = None THEN DefaultCooldown ELSE m.override

MessagesAreSpaced ==
  \A m, n \in history.sent :
    /\ m # n /\ m.rule = n.rule /\ m.dest = n.dest /\ m.at <= n.at
    /\ <<m.rule, m.dest>> \notin history.lost
    => n.at - m.at >= Configured(n) /\ n.at - m.at >= Ceiling

(* An alert a sweep or an event has stored is on its way, or there is a    *)
(* row of an attempt to push it, or it had no destination, or its request  *)
(* died: dispatch_alerts drops nothing silently.                           *)
AlertsAreAttempted ==
  \A a \in alerts \ history.excused :
    \/ \E f \in fires : f.alert = a
    \/ \E s \in Slots : ~Step(s, "idle") /\ a \in req[s].found

(* An alert is withheld only where its rule did reach that destination     *)
(* with an earlier message, within the cooldown or at the ceiling: never   *)
(* on account of a failure, a skip, another rule or another destination.   *)
SkipsAreJustified ==
  \A f \in fires : f.status = "skipped_cooldown" =>
    \E m \in history.sent :
      /\ m.rule = f.alert.rule /\ m.dest = f.dest /\ f.alert \notin m.alerts
      /\ m.at <= f.at
      /\ \E c \in Overrides \cup {DefaultCooldown, Ceiling} : f.at - m.at < c

(* Nothing a sweep or an event has stored is lost or held back without a   *)
(* cause: it is pushed or tried, or withheld within the cooldown of a      *)
(* message that did go out (dispatch_alerts has one row for each).         *)
AlertsAreHandled == AlertsAreAttempted /\ SkipsAreJustified

(* A destination no customer touched is disabled only after the threshold  *)
(* of failed rows with no delivery among them, in the order in which they  *)
(* were attempted; and one with as many since its last delivery is         *)
(* disabled, unless that delivery was at the very time of a failure, which *)
(* the count by times of _maybe_pause leaves out.                          *)
PausesFollowFailures ==
  \A d \in dests \ history.edited :
    /\ d \notin active => d \in history.failing
    /\ d \in active /\ Cardinality(history.streak[d]) >= PauseThreshold =>
         \E f, g \in fires : /\ f.dest = d /\ g.dest = d /\ f.at = g.at
                            /\ f.status = "failed" /\ g.status = "delivered"

(* Two digests are mailed a day apart, unless the first could not be       *)
(* stamped.                                                                *)
DigestsApart ==
  \A x, y \in history.digests :
    x < y /\ ~history.lostStamp => y - x >= DayLength

-----------------------------------------------------------------------------
(* Statements of comments that the code does not keep *)

(* A sweep or an event that finds an alert pushes it unless that was tried *)
(* before: what a saved rule has found is pushed "on the next sweep/       *)
(* ticket-event cycle" (routers/alerts.py:182-183).  It is never pushed:   *)
(* the next sweep of the day takes it for one already handled.             *)
FoundIsPushed ==
  [][\A s \in Slots :
       Step(s, "persist") /\ req'[s].step = "resolve" =>
         \A a \in req[s].found : a \in req'[s].found \/ \E f \in fires : f.alert = a]_vars

(* "no destination fires more than once per 5 minutes regardless of        *)
(* config" (alert_dispatch.py:16-18).  The cooldown is looked up per rule: *)
(* two rules reach one destination together.                               *)
CeilingPerDestination ==
  \A m, n \in history.sent :
    m # n /\ m.dest = n.dest /\ m.at <= n.at => n.at - m.at >= Ceiling

=============================================================================
