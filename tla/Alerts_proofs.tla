--------------------------- MODULE Alerts_proofs ---------------------------
(***************************************************************************)
(* Proofs about Alerts for every set of rules, subjects, destinations and  *)
(* slots and every cooldown, threshold and bound.  Type correctness holds  *)
(* whatever overlaps; that no alert is pushed twice and that messages keep *)
(* their distance is proved for ~Overlap: one request at a time, with any  *)
(* number of failures, deaths and edits.                                   *)
(***************************************************************************)
EXTENDS Alerts, FiniteSetTheorems, FunctionTheorems, TLAPS

-----------------------------------------------------------------------------
(* Type correctness. *)

(* A request that has left the idle step has all the fields. *)
LEMMA UnderWayFacts ==
  ASSUME TypeOK, NEW s \in Slots, ~Step(s, "idle") PROVE req[s] \in UnderWay
  BY DEF TypeOK, Requests, Step, Idle

LEMMA BecomesType ==
  ASSUME TypeOK, NEW s \in Slots, NEW r \in Requests, Becomes(s, r)
  PROVE  /\ req' \in [Slots -> Requests]
         /\ req'[s] = r
         /\ \A t \in Slots \ {s} : req'[t] = req[t]
  BY DEF TypeOK, Becomes

LEMMA IdleType == Idle \in Requests
  BY DEF Requests

LEMMA DayType == ASSUME now \in Times PROVE now \div DayLength \in Times
  <1>1. now \in Nat /\ now <= MaxTime /\ MaxTime \in Nat /\ DayLength \in Nat \ {0}
    BY AlertsAssumption DEF Times
  <1>2. \A n \in Nat : \A d \in Nat \ {0} : n \div d \in Nat /\ n \div d <= n
    OBVIOUS
  <1>3. QED
    BY <1>1, <1>2 DEF Times

LEMMA EvaluateType ==
  ASSUME TypeOK, NEW s \in Slots, NEW kind \in Kinds, Evaluate(s, kind)
  PROVE  TypeOK'
  <1>1. PICK rules \in Scopes(kind) :
          \E found \in SUBSET [rule : rules, subject : Subjects,
                               day : {now \div DayLength}] :
            Becomes(s, [step |-> "persist", kind |-> kind, at |-> now, found |-> found,
                        seen |-> alerts, todo |-> {}, fires |-> {}, paused |-> {},
                        streak |-> history.streak, failing |-> history.failing])
    BY DEF Evaluate
  <1>2. PICK found \in SUBSET [rule : rules, subject : Subjects,
                               day : {now \div DayLength}] :
            Becomes(s, [step |-> "persist", kind |-> kind, at |-> now, found |-> found,
                        seen |-> alerts, todo |-> {}, fires |-> {}, paused |-> {},
                        streak |-> history.streak, failing |-> history.failing])
    BY <1>1
  <1> DEFINE r == [step |-> "persist", kind |-> kind, at |-> now, found |-> found,
                   seen |-> alerts, todo |-> {}, fires |-> {}, paused |-> {},
                   streak |-> history.streak, failing |-> history.failing]
  <1>3. rules \subseteq Rules
    BY AlertsAssumption DEF Scopes, Kinds
  <1>4. found \subseteq AlertRows
    BY <1>3, DayType DEF TypeOK, AlertRows
  <1>5. r \in UnderWay
    BY <1>4 DEF TypeOK, UnderWay, Histories
  <1>6. r \in Requests
    BY <1>5 DEF Requests
  <1> HIDE DEF r
  <1>7. req' \in [Slots -> Requests]
    BY <1>2, <1>6, BecomesType DEF r
  <1>8. history' \in Histories
    BY AlertsAssumption DEF Evaluate, TypeOK, Histories
  <1>9. QED
    BY <1>7, <1>8 DEF Evaluate, stored, TypeOK

LEMMA CommitAlertsType ==
  ASSUME TypeOK, NEW s \in Slots, CommitAlerts(s) PROVE TypeOK'
  <1> DEFINE r == req[s]
             clash == (r.found \ r.seen) \cap alerts
             fresh == (r.found \ r.seen) \ clash
             pushes == r.kind \in {"daily", "hourly", "event"}
             next == [r EXCEPT !.step = "resolve", !.found = fresh]
  <1>1. r \in UnderWay
    BY UnderWayFacts DEF CommitAlerts, Step
  <1>2. fresh \subseteq AlertRows
    BY <1>1 DEF UnderWay
  <1>3. next \in Requests
    BY <1>1, <1>2 DEF UnderWay, Requests
  <1>4. alerts' \subseteq AlertRows
    BY <1>2 DEF CommitAlerts, TypeOK
  <1>5. history' \in Histories
    BY <1>2 DEF CommitAlerts, TypeOK, Histories
  <1>6. Becomes(s, IF pushes THEN next ELSE Idle)
    BY DEF CommitAlerts
  <1> HIDE DEF next, fresh, pushes
  <1>7. (IF pushes THEN next ELSE Idle) \in Requests
    BY <1>3, IdleType
  <1>8. req' \in [Slots -> Requests]
    BY <1>6, <1>7, BecomesType
  <1>9. QED
    BY <1>4, <1>5, <1>8 DEF CommitAlerts, TypeOK

LEMMA EffectiveType ==
  ASSUME TypeOK, NEW rule \in Rules PROVE EffectiveDestinations(rule) \subseteq Buckets
  BY AlertsAssumption DEF TypeOK, Bindings, Buckets, EffectiveDestinations

LEMMA ResolveType ==
  ASSUME TypeOK, NEW s \in Slots, Resolve(s) PROVE TypeOK'
  <1> DEFINE r == req[s]
             buckets == UNION {EffectiveDestinations(a.rule) : a \in r.found}
             homeless == {a \in r.found : EffectiveDestinations(a.rule) = {}}
             at == IF r.kind = "event" THEN now ELSE r.at
             next == [r EXCEPT !.step = "send", !.todo = buckets, !.at = at,
                               !.streak = history.streak, !.failing = history.failing]
  <1>1. r \in UnderWay
    BY UnderWayFacts DEF Resolve, Step
  <1>2. r.found \subseteq AlertRows
    BY <1>1 DEF UnderWay
  <1>3. \A a \in r.found : EffectiveDestinations(a.rule) \subseteq Buckets
    BY <1>2, EffectiveType DEF AlertRows
  <1>4. buckets \subseteq Buckets
    BY <1>3
  <1>5. homeless \subseteq AlertRows
    BY <1>2
  <1>6. at \in Times
    BY <1>1 DEF TypeOK, UnderWay
  <1>7. Becomes(s, next) /\ history' = [history EXCEPT !.excused = @ \cup homeless]
    BY DEF Resolve
  <1> HIDE DEF buckets, homeless, at
  <1>8. next \in Requests
    BY <1>1, <1>4, <1>6 DEF TypeOK, Histories, UnderWay, Requests
  <1>9. history' \in Histories
    BY <1>5, <1>7 DEF TypeOK, Histories
  <1>10. req' \in [Slots -> Requests]
    BY <1>7, <1>8, BecomesType
  <1>11. QED
    BY <1>9, <1>10 DEF Resolve, stored, TypeOK


LEMMA RowsType ==
  ASSUME NEW r \in UnderWay, NEW bucket \in Buckets,
         NEW status \in {"delivered", "failed", "skipped_cooldown"}
  PROVE  /\ RowsFor(r, bucket, status) \subseteq FireRows
         /\ BucketAlerts(r, bucket) \subseteq AlertRows
  BY DEF UnderWay, Buckets, RowsFor, BucketAlerts, FireRows

LEMMA SkipType ==
  ASSUME TypeOK, NEW s \in Slots, NEW bucket \in Buckets, Skip(s, bucket) PROVE TypeOK'
  <1> DEFINE r == req[s]
             rows == RowsFor(r, bucket, "skipped_cooldown")
             next == [r EXCEPT !.todo = @ \ {bucket}, !.fires = @ \cup rows]
  <1>1. r \in UnderWay
    BY UnderWayFacts DEF Skip, Step
  <1>2. rows \subseteq FireRows
    BY <1>1, RowsType
  <1>3. Becomes(s, next)
    BY DEF Skip
  <1> HIDE DEF rows
  <1>4. next \in Requests
    BY <1>1, <1>2 DEF UnderWay, Requests
  <1>5. req' \in [Slots -> Requests]
    BY <1>3, <1>4, BecomesType
  <1>6. QED
    BY <1>5 DEF Skip, stored, TypeOK

LEMMA DeliverType ==
  ASSUME TypeOK, NEW s \in Slots, NEW bucket \in Buckets, Deliver(s, bucket) PROVE TypeOK'
  <1> DEFINE r == req[s]
             rows == RowsFor(r, bucket, "delivered")
             streaks == [r.streak EXCEPT ![bucket.dest] = {}]
             message == [alerts |-> BucketAlerts(r, bucket), rule |-> bucket.rule,
                         dest |-> bucket.dest, at |-> r.at, override |-> bucket.override]
             next == [r EXCEPT !.todo = @ \ {bucket}, !.fires = @ \cup rows,
                               !.streak = streaks]
  <1>1. r \in UnderWay
    BY UnderWayFacts DEF Deliver, Step
  <1>2. rows \subseteq FireRows
    BY <1>1, RowsType
  <1>3. message \in Messages
    BY <1>1, RowsType DEF UnderWay, Buckets, Messages
  <1>4. streaks \in [Dests -> SUBSET FireRows]
    BY <1>1 DEF UnderWay
  <1>5. Becomes(s, next) /\ history' = [history EXCEPT !.sent = @ \cup {message}]
    BY DEF Deliver
  <1> HIDE DEF rows, streaks, message
  <1>6. next \in Requests
    BY <1>1, <1>2, <1>4 DEF UnderWay, Requests
  <1>7. history' \in Histories
    BY <1>3, <1>5 DEF TypeOK, Histories
  <1>8. req' \in [Slots -> Requests]
    BY <1>5, <1>6, BecomesType
  <1>9. QED
    BY <1>7, <1>8 DEF Deliver, stored, TypeOK

LEMMA FailType ==
  ASSUME TypeOK, NEW s \in Slots, NEW bucket \in Buckets, Fail(s, bucket) PROVE TypeOK'
  <1> DEFINE r == req[s]
             rows == RowsFor(r, bucket, "failed")
             failures == Consecutive(fires \cup r.fires \cup rows, bucket.dest)
             streak == r.streak[bucket.dest] \cup rows
             streaks == [r.streak EXCEPT ![bucket.dest] = streak]
             failing == IF Cardinality(streak) >= PauseThreshold
                        THEN r.failing \cup {bucket.dest} ELSE r.failing
             paused == IF Cardinality(failures) >= PauseThreshold
                       THEN r.paused \cup {bucket.dest} ELSE r.paused
             next == [r EXCEPT !.todo = @ \ {bucket}, !.fires = @ \cup rows,
                               !.streak = streaks, !.failing = failing, !.paused = paused]
  <1>1. r \in UnderWay
    BY UnderWayFacts DEF Fail, Step
  <1>2. rows \subseteq FireRows
    BY <1>1, RowsType
  <1>3. bucket.dest \in Dests
    BY DEF Buckets
  <1>4. streaks \in [Dests -> SUBSET FireRows]
    BY <1>1, <1>2, <1>3 DEF UnderWay
  <1>5. failing \subseteq Dests /\ paused \subseteq Dests
    BY <1>1, <1>3 DEF UnderWay
  <1>6. Becomes(s, next)
    BY DEF Fail
  <1> HIDE DEF rows, streaks, failing, paused
  <1>7. next \in Requests
    BY <1>1, <1>2, <1>4, <1>5 DEF UnderWay, Requests
  <1>8. req' \in [Slots -> Requests]
    BY <1>6, <1>7, BecomesType
  <1>9. QED
    BY <1>8 DEF Fail, stored, TypeOK

LEMMA WithoutRowsType ==
  ASSUME NEW r \in UnderWay, NEW h \in Histories PROVE WithoutRows(r, h) \in Histories
  <1> DEFINE gone == {<<f.alert.rule, f.dest>> :
                        f \in {g \in r.fires : g.status = "delivered"}}
  <1>1. gone \subseteq Rules \X Dests
    BY DEF UnderWay, FireRows, AlertRows
  <1>2. WithoutRows(r, h) = [h EXCEPT !.lost = @ \cup gone, !.excused = @ \cup r.found]
    BY DEF WithoutRows
  <1> HIDE DEF gone
  <1> DEFINE Lost == SUBSET (Rules \X Dests)
             lost == h.lost \cup gone
             excused == h.excused \cup r.found
  <1>3. lost \in Lost
    BY <1>1 DEF Histories
  <1>4. excused \subseteq AlertRows
    BY DEF UnderWay, Histories
  <1>5. WithoutRows(r, h) = [h EXCEPT !.lost = lost, !.excused = excused]
    BY <1>2 DEF Histories
  <1>6. Histories =
          [sent : SUBSET Messages, lost : Lost, excused : SUBSET AlertRows,
           streak : [Dests -> SUBSET FireRows], failing : SUBSET Dests,
           edited : SUBSET Dests, digests : SUBSET Times, lostStamp : BOOLEAN,
           requests : 0..MaxRequests, troubles : 0..MaxTroubles]
    BY DEF Histories
  <1> HIDE DEF Lost, lost, excused
  <1>7. QED
    BY <1>3, <1>4, <1>5, <1>6

LEMMA CommitFiresType ==
  ASSUME TypeOK, NEW s \in Slots, CommitFires(s) PROVE TypeOK'
  <1> DEFINE r == req[s]
             next == [r EXCEPT !.step = "digest", !.found = {}, !.fires = {},
                               !.paused = {}]
  <1>1. r \in UnderWay
    BY UnderWayFacts DEF CommitFires, Step
  <1>2. next \in Requests
    BY <1>1 DEF UnderWay, Requests
  <1>3. history' \in Histories
    <2>1. CASE r.paused \subseteq dests
      <3>1. r.streak \in [Dests -> SUBSET FireRows] /\ r.failing \subseteq Dests
        BY <1>1 DEF UnderWay
      <3>2. history' = [history EXCEPT !.streak = r.streak, !.failing = r.failing]
        BY <2>1 DEF CommitFires
      <3>3. QED
        BY <3>1, <3>2 DEF TypeOK, Histories
    <2>2. CASE ~(r.paused \subseteq dests)
      BY <1>1, <2>2, WithoutRowsType DEF CommitFires, TypeOK
    <2>3. QED
      BY <2>1, <2>2
  <1>4. fires' \subseteq FireRows /\ active' \subseteq dests'
    BY <1>1 DEF CommitFires, TypeOK, UnderWay
  <1>5. Becomes(s, next) \/ Becomes(s, Idle)
    BY DEF CommitFires
  <1> HIDE DEF next
  <1>6. req' \in [Slots -> Requests]
    BY <1>2, <1>5, IdleType, BecomesType
  <1>7. QED
    BY <1>3, <1>4, <1>6 DEF CommitFires, TypeOK

LEMMA DigestType ==
  ASSUME TypeOK, NEW s \in Slots, Digest(s) \/ StampDigest(s) PROVE TypeOK'
  <1> DEFINE r == req[s]
             next == [r EXCEPT !.step = "stamp"]
  <1>1. r \in UnderWay
    BY UnderWayFacts DEF Digest, StampDigest, Step
  <1>2. next \in Requests /\ r.at \in Times
    BY <1>1 DEF UnderWay, Requests
  <1>3. history' \in Histories
    BY <1>2 DEF Digest, StampDigest, TypeOK, Histories
  <1>4. Becomes(s, next) \/ Becomes(s, Idle)
    BY DEF Digest, StampDigest
  <1> HIDE DEF next
  <1>5. req' \in [Slots -> Requests]
    BY <1>2, <1>4, IdleType, BecomesType
  <1>6. digestAt' \in Times \cup {None}
    BY <1>2 DEF Digest, StampDigest, stored, TypeOK
  <1>7. QED
    BY <1>3, <1>5, <1>6 DEF Digest, StampDigest, stored, TypeOK

LEMMA CrashType ==
  ASSUME TypeOK, NEW s \in Slots, Crash(s) PROVE TypeOK'
  <1>1. req[s] \in UnderWay
    BY UnderWayFacts DEF Crash
  <1>2. (IF Step(s, "persist") THEN history ELSE WithoutRows(req[s], history)) \in Histories
    BY <1>1, WithoutRowsType DEF TypeOK
  <1> DEFINE h == IF Step(s, "persist") THEN history ELSE WithoutRows(req[s], history)
  <1>3. history' = [h EXCEPT !.troubles = @ + 1, !.lostStamp = @ \/ Step(s, "stamp")]
    BY DEF Crash
  <1>4. h.troubles = history.troubles
    BY DEF WithoutRows, TypeOK, Histories
  <1>5. history.troubles \in 0..MaxTroubles /\ history.troubles < MaxTroubles
    BY DEF Crash, TypeOK, Histories
  <1>6. history.troubles + 1 \in 0..MaxTroubles
    BY <1>5, AlertsAssumption
  <1>7. h \in Histories
    BY <1>2
  <1>8. (h.lostStamp \/ Step(s, "stamp")) \in BOOLEAN
    OBVIOUS
  <1> HIDE DEF h
  <1>9. history' \in Histories
    BY <1>3, <1>4, <1>6, <1>7, <1>8 DEF Histories
  <1>10. req' \in [Slots -> Requests]
    BY IdleType, BecomesType DEF Crash
  <1>11. QED
    BY <1>9, <1>10 DEF Crash, stored, TypeOK

LEMMA TroubleType ==
  ASSUME TypeOK, Edited PROVE history.troubles + 1 \in 0..MaxTroubles
  BY AlertsAssumption DEF Edited, TypeOK, Histories

LEMMA EditType ==
  ASSUME TypeOK, \/ \E d \in Dests : UpsertDestination(d) \/ DeleteDestination(d)
                 \/ \E r \in Rules : SetRuleDestinations(r)
  PROVE  TypeOK'
  <1>1. ASSUME NEW d \in Dests, UpsertDestination(d) PROVE TypeOK'
    <2>1. history' \in Histories
      BY <1>1, TroubleType DEF UpsertDestination, TypeOK, Histories
    <2>2. QED
      BY <1>1, <2>1 DEF UpsertDestination, TypeOK
  <1>2. ASSUME NEW d \in Dests, DeleteDestination(d) PROVE TypeOK'
    <2>1. history' \in Histories
      BY <1>2, TroubleType DEF DeleteDestination, TypeOK, Histories
    <2>2. bindings' \in [Rules -> Bindings]
      BY <1>2 DEF DeleteDestination, TypeOK, Bindings
    <2>3. QED
      BY <1>2, <2>1, <2>2 DEF DeleteDestination, TypeOK
  <1>3. ASSUME NEW r \in Rules, SetRuleDestinations(r) PROVE TypeOK'
    <2>1. history' \in Histories
      BY <1>3, TroubleType DEF SetRuleDestinations, TypeOK, Histories
    <2>2. bindings' \in [Rules -> Bindings]
      BY <1>3, AlertsAssumption DEF SetRuleDestinations, TypeOK
    <2>3. QED
      BY <1>3, <2>1, <2>2 DEF SetRuleDestinations, TypeOK
  <1>4. QED
    BY <1>1, <1>2, <1>3

LEMMA InitType == ASSUME Init PROVE TypeOK
  <1>1. 0 \in Times /\ 0 \in 0..MaxRequests /\ 0 \in 0..MaxTroubles
    BY AlertsAssumption DEF Times
  <1>2. history \in Histories
    BY <1>1 DEF Init, Histories
  <1>3. QED
    BY <1>1, <1>2, IdleType, AlertsAssumption DEF Init, TypeOK

LEMMA NextType == ASSUME TypeOK, Next PROVE TypeOK'
  <1>1. ASSUME NEW s \in Slots, Request(s) PROVE TypeOK'
    BY <1>1, EvaluateType, CommitAlertsType, ResolveType, SkipType, DeliverType, FailType,
       CommitFiresType, DigestType, CrashType DEF Request
  <1>2. ASSUME Tick PROVE TypeOK'
    BY <1>2, AlertsAssumption DEF Tick, stored, TypeOK, Times
  <1>3. QED
    BY <1>1, <1>2, EditType DEF Next

LEMMA StutterType == ASSUME TypeOK, UNCHANGED vars PROVE TypeOK'
  BY DEF vars, TypeOK

(* Every stored row, every request and the memory of the properties stay   *)
(* well formed, whatever overlaps, fails, dies or is edited: the rows of   *)
(* alerts, fires and bindings, and that a destination with status active   *)
(* is a stored one.                                                        *)
THEOREM TypeCorrect == Spec => []TypeOK
  <1>1. Init => TypeOK
    BY InitType
  <1>2. TypeOK /\ [Next]_vars => TypeOK'
    BY NextType, StutterType
  <1>3. QED
    BY <1>1, <1>2, PTL DEF Spec

-----------------------------------------------------------------------------
(* One request at a time. *)

Alone == \A s, t \in Slots : s # t => Step(s, "idle") \/ Step(t, "idle")

Others(s) == \A t \in Slots \ {s} : Step(t, "idle")

LEMMA OthersIdle ==
  ASSUME Alone, NEW s \in Slots, ~Step(s, "idle") PROVE Others(s)
  BY DEF Alone, Others

LEMMA OthersFacts ==
  ASSUME TypeOK, NEW s \in Slots, NEW r, Becomes(s, r), Others(s)
  PROVE  Alone' /\ Others(s)' /\ req'[s] = r
  <1>1. req'[s] = r /\ \A t \in Slots \ {s} : req'[t] = req[t]
    BY DEF TypeOK, Becomes
  <1>2. \A t \in Slots \ {s} : Step(t, "idle")'
    BY <1>1 DEF Others, Step
  <1>3. QED
    BY <1>1, <1>2 DEF Alone, Others

(* The steps of a request are of one that is alone in the server. *)
LEMMA ActsAlone ==
  ASSUME ~Overlap, Alone, NEW s \in Slots, Request(s) PROVE Others(s)
  <1>1. CASE \E kind \in Kinds : Evaluate(s, kind)
    BY <1>1 DEF Evaluate, Others
  <1>2. CASE ~Step(s, "idle")
    BY <1>2, OthersIdle
  <1>3. QED
    BY <1>1, <1>2 DEF Request, CommitAlerts, Resolve, Skip, Deliver, Fail, CommitFires,
       Digest, StampDigest, Crash, Step

-----------------------------------------------------------------------------
(* No alert is pushed twice. *)

(* What a request knows: before its commit, every stored alert; then, that *)
(* what it has found is stored and in no message yet to a destination that *)
(* is still to do, of which there is one for a rule at most.               *)
TodoFresh(r) ==
  \A b \in r.todo :
    /\ BucketAlerts(r, b) # {}
    /\ \A c \in r.todo : c.rule = b.rule /\ c.dest = b.dest => c = b
    /\ \A m \in history.sent : m.dest = b.dest => m.alerts \cap BucketAlerts(r, b) = {}

Fresh(r) ==
  /\ r.step = "persist" => r.seen = alerts
  /\ r.step \in {"resolve", "send"} => r.found \subseteq alerts
  /\ r.step = "resolve" => \A m \in history.sent : m.alerts \cap r.found = {}
  /\ r.step = "send" => TodoFresh(r)

PushInv == Alone /\ PushedOnce /\ \A s \in Slots : Fresh(req[s])

(* It is enough to look at the request that takes the step. *)
LEMMA FreshStep ==
  ASSUME TypeOK, NEW s \in Slots, NEW r, Becomes(s, r), Others(s), PushedOnce',
         Fresh(req[s])'
  PROVE  PushInv'
  <1>1. Alone' /\ Others(s)' /\ req'[s] = r
    BY OthersFacts
  <1>2. \A t \in Slots \ {s} : Fresh(req[t])'
    BY <1>1 DEF Others, Step, Fresh
  <1>3. QED
    BY <1>1, <1>2 DEF PushInv

(* A request that is done, or at the digest, knows nothing. *)
LEMMA DoneFresh ==
  ASSUME NEW s \in Slots, req'[s].step \in {"idle", "digest", "stamp"}
  PROVE  Fresh(req[s])'
  BY DEF Fresh

LEMMA SamePushes ==
  ASSUME PushedOnce, UNCHANGED alerts, history'.sent = history.sent PROVE PushedOnce'
  BY DEF PushedOnce

LEMMA EvaluatePush ==
  ASSUME TypeOK, PushInv, NEW s \in Slots, Others(s), NEW kind \in Kinds, Evaluate(s, kind)
  PROVE  PushInv'
  <1>1. PICK rules \in Scopes(kind) :
          \E found \in SUBSET [rule : rules, subject : Subjects,
                               day : {now \div DayLength}] :
            Becomes(s, [step |-> "persist", kind |-> kind, at |-> now, found |-> found,
                        seen |-> alerts, todo |-> {}, fires |-> {}, paused |-> {},
                        streak |-> history.streak, failing |-> history.failing])
    BY DEF Evaluate
  <1>2. PICK found :
            Becomes(s, [step |-> "persist", kind |-> kind, at |-> now, found |-> found,
                        seen |-> alerts, todo |-> {}, fires |-> {}, paused |-> {},
                        streak |-> history.streak, failing |-> history.failing])
    BY <1>1
  <1> DEFINE r == [step |-> "persist", kind |-> kind, at |-> now, found |-> found,
                   seen |-> alerts, todo |-> {}, fires |-> {}, paused |-> {},
                   streak |-> history.streak, failing |-> history.failing]
  <1>3. r.step = "persist" /\ r.seen = alerts /\ UNCHANGED alerts
    BY DEF Evaluate, stored
  <1>4. history'.sent = history.sent
    BY DEF Evaluate, TypeOK, Histories
  <1>5. PushedOnce'
    BY <1>3, <1>4, SamePushes DEF PushInv
  <1>6. Becomes(s, r)
    BY <1>2
  <1> HIDE DEF r
  <1>7. req'[s] = r
    BY <1>6, OthersFacts
  <1>8. Fresh(req[s])'
    BY <1>3, <1>7 DEF Fresh
  <1>9. QED
    BY <1>5, <1>6, <1>8, FreshStep

LEMMA CommitAlertsPush ==
  ASSUME TypeOK, PushInv, NEW s \in Slots, Others(s), CommitAlerts(s)
  PROVE  PushInv'
  <1> DEFINE r == req[s]
             clash == (r.found \ r.seen) \cap alerts
             fresh == (r.found \ r.seen) \ clash
             pushes == r.kind \in {"daily", "hourly", "event"}
             next == [r EXCEPT !.step = "resolve", !.found = fresh]
  <1>1. r \in UnderWay /\ r.step = "persist"
    BY UnderWayFacts DEF CommitAlerts, Step
  <1>2. r.seen = alerts
    BY <1>1 DEF PushInv, Fresh
  <1>3. clash = {} /\ fresh = r.found \ alerts
    BY <1>2
  <1>4. alerts' = alerts \cup fresh
    BY <1>3 DEF CommitAlerts
  <1>5. history'.sent = history.sent
    BY DEF CommitAlerts, TypeOK, Histories
  <1>6. PushedOnce'
    BY <1>4, <1>5 DEF PushInv, PushedOnce
  <1>7. Becomes(s, IF pushes THEN next ELSE Idle)
    BY DEF CommitAlerts
  <1>8. \A m \in history.sent : m.alerts \cap fresh = {}
    BY <1>3 DEF PushInv, PushedOnce
  <1>9. next.step = "resolve" /\ next.found = fresh
    BY <1>1 DEF UnderWay
  <1> HIDE DEF next, fresh, pushes
  <1>10. req'[s] = IF pushes THEN next ELSE Idle
    BY <1>7, OthersFacts
  <1>11. CASE pushes
    <2>1. Fresh(req[s])'
      BY <1>4, <1>5, <1>8, <1>9, <1>10, <1>11 DEF Fresh
    <2>2. QED
      BY <2>1, <1>6, <1>7, FreshStep
  <1>12. CASE ~pushes
    <2>1. Fresh(req[s])'
      BY <1>10, <1>12, DoneFresh DEF Idle
    <2>2. QED
      BY <2>1, <1>6, <1>7, FreshStep
  <1>13. QED
    BY <1>11, <1>12

(* The buckets of a dispatch: one for a rule and a destination, with an    *)
(* alert each.                                                             *)
LEMMA BucketFacts ==
  ASSUME NEW found,
         NEW b \in UNION {EffectiveDestinations(a.rule) : a \in found},
         NEW c \in UNION {EffectiveDestinations(a.rule) : a \in found}
  PROVE  /\ \E a \in found : a.rule = b.rule
         /\ b.rule = c.rule /\ b.dest = c.dest => b = c
  <1>1. PICK a \in found : b \in EffectiveDestinations(a.rule)
    OBVIOUS
  <1>2. PICK e \in found : c \in EffectiveDestinations(e.rule)
    OBVIOUS
  <1>3. b.rule = a.rule /\ c.rule = e.rule
    BY <1>1, <1>2 DEF EffectiveDestinations
  <1>4. ASSUME a.rule = e.rule, b.dest = c.dest PROVE b = c
    BY <1>1, <1>2, <1>4 DEF EffectiveDestinations
  <1>5. QED
    BY <1>3, <1>4

LEMMA ResolvePush ==
  ASSUME TypeOK, PushInv, NEW s \in Slots, Others(s), Resolve(s)
  PROVE  PushInv'
  <1> DEFINE r == req[s]
             buckets == UNION {EffectiveDestinations(a.rule) : a \in r.found}
             at == IF r.kind = "event" THEN now ELSE r.at
             next == [r EXCEPT !.step = "send", !.todo = buckets, !.at = at,
                               !.streak = history.streak, !.failing = history.failing]
  <1>1. r \in UnderWay /\ r.step = "resolve"
    BY UnderWayFacts DEF Resolve, Step
  <1>2. r.found \subseteq alerts /\ \A m \in history.sent : m.alerts \cap r.found = {}
    BY <1>1 DEF PushInv, Fresh
  <1>3. UNCHANGED alerts /\ history'.sent = history.sent
    BY DEF Resolve, stored, TypeOK, Histories
  <1>4. PushedOnce'
    BY <1>3, SamePushes DEF PushInv
  <1>5. Becomes(s, next)
    BY DEF Resolve
  <1>6. \A b, c \in buckets : /\ \E a \in r.found : a.rule = b.rule
                              /\ b.rule = c.rule /\ b.dest = c.dest => b = c
    BY BucketFacts
  <1> HIDE DEF buckets, at
  <1>7. next.step = "send" /\ next.found = r.found /\ next.todo = buckets
    BY <1>1 DEF UnderWay
  <1> HIDE DEF next
  <1>8. req'[s] = next
    BY <1>5, OthersFacts
  <1>9. TodoFresh(req[s])'
    BY <1>2, <1>3, <1>6, <1>7, <1>8 DEF TodoFresh, BucketAlerts
  <1>10. Fresh(req[s])'
    BY <1>2, <1>3, <1>7, <1>8, <1>9 DEF Fresh
  <1>11. QED
    BY <1>4, <1>5, <1>10, FreshStep

LEMMA SkipPush ==
  ASSUME TypeOK, PushInv, NEW s \in Slots, Others(s), NEW bucket \in Buckets,
         Skip(s, bucket)
  PROVE  PushInv'
  <1> DEFINE r == req[s]
             rows == RowsFor(r, bucket, "skipped_cooldown")
             next == [r EXCEPT !.todo = @ \ {bucket}, !.fires = @ \cup rows]
  <1>1. r \in UnderWay /\ r.step = "send"
    BY UnderWayFacts DEF Skip, Step
  <1>2. r.found \subseteq alerts /\ TodoFresh(r)
    BY <1>1 DEF PushInv, Fresh
  <1>3. UNCHANGED alerts /\ UNCHANGED history
    BY DEF Skip, stored
  <1>4. PushedOnce'
    BY <1>3, SamePushes DEF PushInv
  <1>5. Becomes(s, next)
    BY DEF Skip
  <1> HIDE DEF rows
  <1>6. next.step = "send" /\ next.found = r.found /\ next.todo = r.todo \ {bucket}
    BY <1>1 DEF UnderWay
  <1> HIDE DEF next
  <1>7. req'[s] = next
    BY <1>5, OthersFacts
  <1>8. TodoFresh(req[s])'
    BY <1>2, <1>3, <1>6, <1>7 DEF TodoFresh, BucketAlerts
  <1>9. Fresh(req[s])'
    BY <1>2, <1>3, <1>6, <1>7, <1>8 DEF Fresh
  <1>10. QED
    BY <1>4, <1>5, <1>9, FreshStep

LEMMA FailPush ==
  ASSUME TypeOK, PushInv, NEW s \in Slots, Others(s), NEW bucket \in Buckets,
         Fail(s, bucket)
  PROVE  PushInv'
  <1> DEFINE r == req[s]
             rows == RowsFor(r, bucket, "failed")
             failures == Consecutive(fires \cup r.fires \cup rows, bucket.dest)
             streak == r.streak[bucket.dest] \cup rows
             streaks == [r.streak EXCEPT ![bucket.dest] = streak]
             failing == IF Cardinality(streak) >= PauseThreshold
                        THEN r.failing \cup {bucket.dest} ELSE r.failing
             paused == IF Cardinality(failures) >= PauseThreshold
                       THEN r.paused \cup {bucket.dest} ELSE r.paused
             next == [r EXCEPT !.todo = @ \ {bucket}, !.fires = @ \cup rows,
                               !.streak = streaks, !.failing = failing, !.paused = paused]
  <1>1. r \in UnderWay /\ r.step = "send"
    BY UnderWayFacts DEF Fail, Step
  <1>2. r.found \subseteq alerts /\ TodoFresh(r)
    BY <1>1 DEF PushInv, Fresh
  <1>3. UNCHANGED alerts /\ UNCHANGED history
    BY DEF Fail, stored
  <1>4. PushedOnce'
    BY <1>3, SamePushes DEF PushInv
  <1>5. Becomes(s, next)
    BY DEF Fail
  <1> HIDE DEF rows, streaks, failing, paused
  <1>6. next.step = "send" /\ next.found = r.found /\ next.todo = r.todo \ {bucket}
    BY <1>1 DEF UnderWay
  <1> HIDE DEF next
  <1>7. req'[s] = next
    BY <1>5, OthersFacts
  <1>8. TodoFresh(req[s])'
    BY <1>2, <1>3, <1>6, <1>7 DEF TodoFresh, BucketAlerts
  <1>9. Fresh(req[s])'
    BY <1>2, <1>3, <1>6, <1>7, <1>8 DEF Fresh
  <1>10. QED
    BY <1>4, <1>5, <1>9, FreshStep

(* The one step that pushes: no message had an alert of the bucket at its  *)
(* destination, and no other bucket of that destination has one of them.   *)
LEMMA DeliverPush ==
  ASSUME TypeOK, PushInv, NEW s \in Slots, Others(s), NEW bucket \in Buckets,
         Deliver(s, bucket)
  PROVE  PushInv'
  <1> DEFINE r == req[s]
             rows == RowsFor(r, bucket, "delivered")
             streaks == [r.streak EXCEPT ![bucket.dest] = {}]
             pushed == BucketAlerts(r, bucket)
             message == [alerts |-> pushed, rule |-> bucket.rule,
                         dest |-> bucket.dest, at |-> r.at, override |-> bucket.override]
             next == [r EXCEPT !.todo = @ \ {bucket}, !.fires = @ \cup rows,
                               !.streak = streaks]
  <1>1. r \in UnderWay /\ r.step = "send" /\ bucket \in r.todo
    BY UnderWayFacts DEF Deliver, Step
  <1>2. r.found \subseteq alerts /\ TodoFresh(r)
    BY <1>1 DEF PushInv, Fresh
  <1>3. UNCHANGED alerts
    BY DEF Deliver, stored
  <1>4. history'.sent = history.sent \cup {message}
    BY DEF Deliver, TypeOK, Histories
  <1>5. pushed \subseteq r.found
    BY DEF BucketAlerts
  <1>6. \A m \in history.sent : m.dest = bucket.dest => m.alerts \cap pushed = {}
    BY <1>1, <1>2 DEF TodoFresh
  <1>7. \A c \in r.todo \ {bucket} :
          c.dest = bucket.dest => pushed \cap BucketAlerts(r, c) = {}
    BY <1>1, <1>2 DEF TodoFresh, BucketAlerts
  <1>8. message.alerts = pushed /\ message.dest = bucket.dest
    OBVIOUS
  <1>9. Becomes(s, next)
    BY DEF Deliver
  <1> HIDE DEF rows, streaks, pushed, message
  <1>10. next.step = "send" /\ next.found = r.found /\ next.todo = r.todo \ {bucket}
    BY <1>1 DEF UnderWay
  <1> HIDE DEF next
  <1>11. PushedOnce'
    <2>1. \A m \in history'.sent : m.alerts \subseteq alerts'
      BY <1>2, <1>3, <1>4, <1>5, <1>8 DEF PushInv, PushedOnce
    <2>2. \A m, n \in history'.sent :
            m # n /\ m.dest = n.dest => m.alerts \cap n.alerts = {}
      BY <1>4, <1>6, <1>8 DEF PushInv, PushedOnce
    <2>3. QED
      BY <2>1, <2>2 DEF PushedOnce
  <1>12. req'[s] = next
    BY <1>9, OthersFacts
  <1>13. \A c : BucketAlerts(next, c) = BucketAlerts(r, c)
    BY <1>10 DEF BucketAlerts
  <1>14. TodoFresh(req[s])'
    <2>1. \A b \in next.todo :
            /\ BucketAlerts(next, b) # {}
            /\ \A c \in next.todo : c.rule = b.rule /\ c.dest = b.dest => c = b
      BY <1>2, <1>10, <1>13 DEF TodoFresh
    <2>2. \A b \in next.todo : \A m \in history'.sent :
            m.dest = b.dest => m.alerts \cap BucketAlerts(next, b) = {}
      BY <1>2, <1>4, <1>7, <1>8, <1>10, <1>13 DEF TodoFresh
    <2>3. QED
      BY <1>12, <2>1, <2>2 DEF TodoFresh, BucketAlerts
  <1>15. Fresh(req[s])'
    BY <1>2, <1>3, <1>10, <1>12, <1>14 DEF Fresh
  <1>16. QED
    BY <1>9, <1>11, <1>15, FreshStep

LEMMA WithoutRowsSent ==
  ASSUME NEW h \in Histories, NEW r PROVE WithoutRows(r, h).sent = h.sent
  BY DEF WithoutRows, Histories

LEMMA CommitFiresPush ==
  ASSUME TypeOK, PushInv, NEW s \in Slots, Others(s), CommitFires(s)
  PROVE  PushInv'
  <1> DEFINE r == req[s]
             next == [r EXCEPT !.step = "digest", !.found = {}, !.fires = {},
                               !.paused = {}]
  <1>1. r \in UnderWay
    BY UnderWayFacts DEF CommitFires, Step
  <1>2. next.step = "digest"
    BY <1>1 DEF UnderWay
  <1>3. UNCHANGED alerts /\ history'.sent = history.sent
    BY WithoutRowsSent DEF CommitFires, TypeOK, Histories
  <1>4. PushedOnce'
    BY <1>3, SamePushes DEF PushInv
  <1>5. Becomes(s, next) \/ Becomes(s, Idle)
    BY DEF CommitFires
  <1> HIDE DEF next
  <1>6. req'[s] \in {next, Idle}
    BY <1>5, OthersFacts
  <1>7. Fresh(req[s])'
    BY <1>2, <1>6, DoneFresh DEF Idle
  <1>8. QED
    BY <1>4, <1>5, <1>7, FreshStep

LEMMA DigestPush ==
  ASSUME TypeOK, PushInv, NEW s \in Slots, Others(s), Digest(s) \/ StampDigest(s)
  PROVE  PushInv'
  <1> DEFINE next == [req[s] EXCEPT !.step = "stamp"]
  <1>1. req[s] \in UnderWay
    BY UnderWayFacts DEF Digest, StampDigest, Step
  <1>2. next.step = "stamp"
    BY <1>1 DEF UnderWay
  <1>3. UNCHANGED alerts /\ history'.sent = history.sent
    BY DEF Digest, StampDigest, stored, TypeOK, Histories
  <1>4. PushedOnce'
    BY <1>3, SamePushes DEF PushInv
  <1>5. Becomes(s, next) \/ Becomes(s, Idle)
    BY DEF Digest, StampDigest
  <1> HIDE DEF next
  <1>6. req'[s] \in {next, Idle}
    BY <1>5, OthersFacts
  <1>7. Fresh(req[s])'
    BY <1>2, <1>6, DoneFresh DEF Idle
  <1>8. QED
    BY <1>4, <1>5, <1>7, FreshStep

LEMMA CrashPush ==
  ASSUME TypeOK, PushInv, NEW s \in Slots, Others(s), Crash(s)
  PROVE  PushInv'
  <1> DEFINE h == IF Step(s, "persist") THEN history ELSE WithoutRows(req[s], history)
  <1>1. req[s] \in UnderWay
    BY UnderWayFacts DEF Crash
  <1>2. h \in Histories /\ h.sent = history.sent
    BY <1>1, WithoutRowsType, WithoutRowsSent DEF TypeOK
  <1>3. history' = [h EXCEPT !.troubles = @ + 1, !.lostStamp = @ \/ Step(s, "stamp")]
    BY DEF Crash
  <1> HIDE DEF h
  <1>4. UNCHANGED alerts /\ history'.sent = history.sent
    BY <1>2, <1>3 DEF Crash, stored, Histories
  <1>5. PushedOnce'
    BY <1>4, SamePushes DEF PushInv
  <1>6. Becomes(s, Idle)
    BY DEF Crash
  <1>7. req'[s] = Idle
    BY <1>6, OthersFacts
  <1>8. Fresh(req[s])'
    BY <1>7, DoneFresh DEF Idle
  <1>9. QED
    BY <1>5, <1>6, <1>8, FreshStep

(* What is no step of a request leaves requests, alerts and messages.      *)
LEMMA RestKeepsPushes ==
  ASSUME PushInv, UNCHANGED <<req, alerts>>, history'.sent = history.sent
  PROVE  PushInv'
  <1>1. PushedOnce'
    BY SamePushes DEF PushInv
  <1>2. Alone'
    BY DEF PushInv, Alone, Step
  <1>3. \A s \in Slots : Fresh(req[s])'
    BY DEF PushInv, Fresh, TodoFresh, BucketAlerts
  <1>4. QED
    BY <1>1, <1>2, <1>3 DEF PushInv

LEMMA RestFacts ==
  ASSUME TypeOK, \/ \E d \in Dests : UpsertDestination(d) \/ DeleteDestination(d)
                 \/ \E r \in Rules : SetRuleDestinations(r)
                 \/ Tick
                 \/ UNCHANGED vars
  PROVE  /\ UNCHANGED <<req, alerts, fires>>
         /\ history'.sent = history.sent /\ history'.lost = history.lost
  <1>1. ASSUME NEW d \in Dests, UpsertDestination(d) \/ DeleteDestination(d)
        PROVE  /\ UNCHANGED <<req, alerts, fires>>
               /\ history'.sent = history.sent /\ history'.lost = history.lost
    BY <1>1 DEF UpsertDestination, DeleteDestination, TypeOK, Histories
  <1>2. ASSUME NEW r \in Rules, SetRuleDestinations(r)
        PROVE  /\ UNCHANGED <<req, alerts, fires>>
               /\ history'.sent = history.sent /\ history'.lost = history.lost
    BY <1>2 DEF SetRuleDestinations, TypeOK, Histories
  <1>3. CASE Tick \/ UNCHANGED vars
    BY <1>3 DEF Tick, vars, stored
  <1>4. QED
    BY <1>1, <1>2, <1>3

LEMMA PushInit == ASSUME Init PROVE PushInv
  BY DEF Init, PushInv, Alone, Step, Idle, PushedOnce, Fresh

LEMMA PushStep == ASSUME ~Overlap, TypeOK, PushInv, [Next]_vars PROVE PushInv'
  <1>1. ASSUME NEW s \in Slots, Request(s) PROVE PushInv'
    <2>1. Others(s)
      BY <1>1, ActsAlone DEF PushInv
    <2>2. QED
      BY <1>1, <2>1, EvaluatePush, CommitAlertsPush, ResolvePush, SkipPush, DeliverPush,
         FailPush, CommitFiresPush, DigestPush, CrashPush DEF Request
  <1>2. ASSUME ~ \E s \in Slots : Request(s) PROVE PushInv'
    BY <1>2, RestFacts, RestKeepsPushes DEF Next
  <1>3. QED
    BY <1>1, <1>2

(* While requests do not overlap, what is pushed is stored and no alert is *)
(* pushed to a destination twice, whatever dies or is edited on the way:   *)
(* an alert is committed before its push and found by every later          *)
(* evaluation, and a dispatch has one bucket for a rule and a destination. *)
THEOREM NeverPushedTwice == ASSUME ~Overlap PROVE Spec => []PushedOnce
  <1>1. Init => TypeOK /\ PushInv
    BY InitType, PushInit
  <1>2. TypeOK /\ PushInv /\ [Next]_vars => (TypeOK /\ PushInv)'
    BY NextType, StutterType, PushStep
  <1>3. PushInv => PushedOnce
    BY DEF PushInv
  <1>4. QED
    BY <1>1, <1>2, <1>3, PTL DEF Spec

-----------------------------------------------------------------------------
(* Messages keep their distance. *)

Tells(f, m) ==
  f.alert.rule = m.rule /\ f.dest = m.dest /\ f.status = "delivered" /\ f.at = m.at

Recorded(m) ==
  \/ \E f \in fires : Tells(f, m)
  \/ \E s \in Slots : Step(s, "send") /\ \E f \in req[s].fires : Tells(f, m)

NotLost(m) == <<m.rule, m.dest>> \notin history.lost

(* No message is later than the time of a request under way, and of each   *)
(* there is a row, stored or flushed, unless its request died.  So the     *)
(* look for the cooldown misses no message.                                *)
Timely(r) == r.step # "idle" => r.at <= now /\ \A m \in history.sent : m.at <= r.at

SpaceInv ==
  /\ MessagesAreSpaced
  /\ \A m \in history.sent : m.at <= now /\ (NotLost(m) => Recorded(m))
  /\ \A s \in Slots : Timely(req[s])

(* A step that sends nothing has to keep the records of what was sent.     *)
LEMMA QuietStep ==
  ASSUME TypeOK, SpaceInv, NEW s \in Slots, NEW r, Becomes(s, r), Others(s),
         UNCHANGED now, history'.sent = history.sent, history.lost \subseteq history'.lost,
         Timely(r),
         \A m \in history.sent : Recorded(m) => Recorded(m)' \/ ~NotLost(m)'
  PROVE  SpaceInv'
  <1>1. req'[s] = r /\ \A t \in Slots \ {s} : req'[t].step = "idle"
    BY OthersFacts DEF Others, Step
  <1>2. MessagesAreSpaced'
    BY DEF SpaceInv, MessagesAreSpaced, Configured
  <1>3. \A m \in history'.sent : m.at <= now' /\ (NotLost(m) => Recorded(m))'
    BY DEF SpaceInv, NotLost
  <1>4. \A t \in Slots : Timely(req[t])'
    BY <1>1 DEF Timely
  <1>5. QED
    BY <1>2, <1>3, <1>4 DEF SpaceInv

(* Rows are kept where they are, stored or with the request.               *)
LEMMA KeptRows ==
  ASSUME TypeOK, NEW s \in Slots, Others(s), fires \subseteq fires',
         \/ ~Step(s, "send")
         \/ req[s].fires \subseteq fires'
         \/ Step(s, "send")' /\ req[s].fires \subseteq req'[s].fires,
         NEW m, Recorded(m)
  PROVE  Recorded(m)'
  <1>1. CASE \E f \in fires : Tells(f, m)
    BY <1>1 DEF Recorded, Tells
  <1>2. CASE \E t \in Slots : Step(t, "send") /\ \E f \in req[t].fires : Tells(f, m)
    <2>1. Step(s, "send") /\ \E f \in req[s].fires : Tells(f, m)
      BY <1>2 DEF Others, Step
    <2>2. QED
      BY <2>1 DEF Recorded, Tells
  <1>3. QED
    BY <1>1, <1>2 DEF Recorded

LEMMA LostRows ==
  ASSUME TypeOK, NEW s \in Slots, Others(s), UNCHANGED fires,
         WithoutRows(req[s], history).lost \subseteq history'.lost,
         NEW m, Recorded(m)
  PROVE  Recorded(m)' \/ ~NotLost(m)'
  <1>1. CASE \E f \in fires : Tells(f, m)
    BY <1>1 DEF Recorded, Tells
  <1>2. CASE \E t \in Slots : Step(t, "send") /\ \E f \in req[t].fires : Tells(f, m)
    <2>1. PICK f \in req[s].fires : Tells(f, m)
      BY <1>2 DEF Others, Step
    <2>2. f \in {g \in req[s].fires : g.status = "delivered"}
      BY <2>1 DEF Tells
    <2>3. <<f.alert.rule, f.dest>> \in WithoutRows(req[s], history).lost
      BY <2>2 DEF WithoutRows, TypeOK, Histories
    <2>4. <<m.rule, m.dest>> \in history'.lost
      BY <2>1, <2>3 DEF Tells
    <2>5. QED
      BY <2>4 DEF NotLost
  <1>3. QED
    BY <1>1, <1>2 DEF Recorded

LEMMA EvaluateSpace ==
  ASSUME TypeOK, SpaceInv, NEW s \in Slots, Others(s), NEW kind \in Kinds, Evaluate(s, kind)
  PROVE  SpaceInv'
  <1>1. PICK rules \in Scopes(kind) :
          \E found \in SUBSET [rule : rules, subject : Subjects,
                               day : {now \div DayLength}] :
            Becomes(s, [step |-> "persist", kind |-> kind, at |-> now, found |-> found,
                        seen |-> alerts, todo |-> {}, fires |-> {}, paused |-> {},
                        streak |-> history.streak, failing |-> history.failing])
    BY DEF Evaluate
  <1>2. PICK found :
            Becomes(s, [step |-> "persist", kind |-> kind, at |-> now, found |-> found,
                        seen |-> alerts, todo |-> {}, fires |-> {}, paused |-> {},
                        streak |-> history.streak, failing |-> history.failing])
    BY <1>1
  <1> DEFINE r == [step |-> "persist", kind |-> kind, at |-> now, found |-> found,
                   seen |-> alerts, todo |-> {}, fires |-> {}, paused |-> {},
                   streak |-> history.streak, failing |-> history.failing]
  <1>3. r.at = now /\ now \in Nat
    BY DEF TypeOK, Times
  <1>4. Timely(r)
    BY <1>3 DEF Timely, SpaceInv
  <1>5. Becomes(s, r)
    BY <1>2
  <1> HIDE DEF r
  <1>6. UNCHANGED <<now, fires>> /\ history'.sent = history.sent
        /\ history'.lost = history.lost
    BY DEF Evaluate, stored, TypeOK, Histories
  <1>7. ~Step(s, "send")
    BY DEF Evaluate, Step
  <1>8. \A m \in history.sent : Recorded(m) => Recorded(m)'
    BY <1>6, <1>7, KeptRows
  <1>9. QED
    BY <1>4, <1>5, <1>6, <1>8, QuietStep

LEMMA CommitAlertsSpace ==
  ASSUME TypeOK, SpaceInv, NEW s \in Slots, Others(s), CommitAlerts(s)
  PROVE  SpaceInv'
  <1> DEFINE r == req[s]
             clash == (r.found \ r.seen) \cap alerts
             fresh == (r.found \ r.seen) \ clash
             pushes == r.kind \in {"daily", "hourly", "event"}
             next == [r EXCEPT !.step = "resolve", !.found = fresh]
  <1>1. r \in UnderWay /\ r.step = "persist"
    BY UnderWayFacts DEF CommitAlerts, Step
  <1>2. next.at = r.at /\ Timely(r)
    BY <1>1 DEF UnderWay, SpaceInv
  <1>3. Becomes(s, IF pushes THEN next ELSE Idle)
    BY DEF CommitAlerts
  <1> HIDE DEF next, fresh, pushes
  <1>4. Becomes(s, next) \/ Becomes(s, Idle)
    BY <1>3
  <1>5. Timely(next) /\ Timely(Idle)
    BY <1>1, <1>2 DEF Timely, Idle
  <1>6. UNCHANGED <<now, fires>> /\ history'.sent = history.sent
        /\ history'.lost = history.lost
    BY DEF CommitAlerts, TypeOK, Histories
  <1>7. \A m \in history.sent : Recorded(m) => Recorded(m)'
    BY <1>1, <1>6, KeptRows DEF Step
  <1>8. QED
    BY <1>4, <1>5, <1>6, <1>7, QuietStep

LEMMA ResolveSpace ==
  ASSUME TypeOK, SpaceInv, NEW s \in Slots, Others(s), Resolve(s)
  PROVE  SpaceInv'
  <1> DEFINE r == req[s]
             buckets == UNION {EffectiveDestinations(a.rule) : a \in r.found}
             at == IF r.kind = "event" THEN now ELSE r.at
             next == [r EXCEPT !.step = "send", !.todo = buckets, !.at = at,
                               !.streak = history.streak, !.failing = history.failing]
  <1>1. r \in UnderWay /\ r.step = "resolve"
    BY UnderWayFacts DEF Resolve, Step
  <1>2. at <= now /\ \A m \in history.sent : m.at <= at
    BY <1>1 DEF SpaceInv, Timely, TypeOK, Times
  <1>3. Becomes(s, next)
    BY DEF Resolve
  <1> HIDE DEF buckets, at
  <1>4. next.at = at
    BY <1>1 DEF UnderWay
  <1> HIDE DEF next
  <1>5. Timely(next)
    BY <1>2, <1>4 DEF Timely
  <1>6. UNCHANGED <<now, fires>> /\ history'.sent = history.sent
        /\ history'.lost = history.lost
    BY DEF Resolve, stored, TypeOK, Histories
  <1>7. \A m \in history.sent : Recorded(m) => Recorded(m)'
    BY <1>1, <1>6, KeptRows DEF Step
  <1>8. QED
    BY <1>3, <1>5, <1>6, <1>7, QuietStep

LEMMA SkipSpace ==
  ASSUME TypeOK, SpaceInv, NEW s \in Slots, Others(s), NEW bucket \in Buckets,
         Skip(s, bucket)
  PROVE  SpaceInv'
  <1> DEFINE r == req[s]
             rows == RowsFor(r, bucket, "skipped_cooldown")
             next == [r EXCEPT !.todo = @ \ {bucket}, !.fires = @ \cup rows]
  <1>1. r \in UnderWay /\ r.step = "send"
    BY UnderWayFacts DEF Skip, Step
  <1>2. Becomes(s, next)
    BY DEF Skip
  <1> HIDE DEF rows
  <1>3. next.step = "send" /\ next.at = r.at /\ r.fires \subseteq next.fires
    BY <1>1 DEF UnderWay
  <1> HIDE DEF next
  <1>4. Timely(next)
    BY <1>1, <1>3 DEF Timely, SpaceInv
  <1>5. UNCHANGED <<now, fires, history>>
    BY DEF Skip, stored
  <1>6. req'[s] = next
    BY <1>2, OthersFacts
  <1>7. \A m \in history.sent : Recorded(m) => Recorded(m)'
    BY <1>3, <1>5, <1>6, KeptRows DEF Step
  <1>8. QED
    BY <1>2, <1>4, <1>5, <1>7, QuietStep

LEMMA FailSpace ==
  ASSUME TypeOK, SpaceInv, NEW s \in Slots, Others(s), NEW bucket \in Buckets,
         Fail(s, bucket)
  PROVE  SpaceInv'
  <1> DEFINE r == req[s]
             rows == RowsFor(r, bucket, "failed")
             failures == Consecutive(fires \cup r.fires \cup rows, bucket.dest)
             streak == r.streak[bucket.dest] \cup rows
             streaks == [r.streak EXCEPT ![bucket.dest] = streak]
             failing == IF Cardinality(streak) >= PauseThreshold
                        THEN r.failing \cup {bucket.dest} ELSE r.failing
             paused == IF Cardinality(failures) >= PauseThreshold
                       THEN r.paused \cup {bucket.dest} ELSE r.paused
             next == [r EXCEPT !.todo = @ \ {bucket}, !.fires = @ \cup rows,
                               !.streak = streaks, !.failing = failing, !.paused = paused]
  <1>1. r \in UnderWay /\ r.step = "send"
    BY UnderWayFacts DEF Fail, Step
  <1>2. Becomes(s, next)
    BY DEF Fail
  <1> HIDE DEF rows, streaks, failing, paused
  <1>3. next.step = "send" /\ next.at = r.at /\ r.fires \subseteq next.fires
    BY <1>1 DEF UnderWay
  <1> HIDE DEF next
  <1>4. Timely(next)
    BY <1>1, <1>3 DEF Timely, SpaceInv
  <1>5. UNCHANGED <<now, fires, history>>
    BY DEF Fail, stored
  <1>6. req'[s] = next
    BY <1>2, OthersFacts
  <1>7. \A m \in history.sent : Recorded(m) => Recorded(m)'
    BY <1>3, <1>5, <1>6, KeptRows DEF Step
  <1>8. QED
    BY <1>2, <1>4, <1>5, <1>7, QuietStep

LEMMA CooldownFacts ==
  ASSUME NEW o \in Overrides \cup {None}
  PROVE  /\ Cooldown(o) \in Nat /\ Cooldown(o) >= Ceiling
         /\ Ceiling \in Nat /\ Ceiling >= 1 /\ Cooldown(o) >= 1
         /\ (IF o = None THEN DefaultCooldown ELSE o) \in Nat
         /\ Cooldown(o) >= IF o = None THEN DefaultCooldown ELSE o
  <1>1. DefaultCooldown \in Nat /\ Ceiling \in Nat /\ Ceiling >= 1 /\ Overrides \subseteq Nat
    BY AlertsAssumption
  <1>2. QED
    BY <1>1 DEF Cooldown, Later

(* The one step that sends: of every earlier message of the rule to the    *)
(* destination that was not lost there is a row, and none within the       *)
(* cooldown.                                                               *)
LEMMA DeliverSpace ==
  ASSUME TypeOK, PushInv, SpaceInv, NEW s \in Slots, Others(s), NEW bucket \in Buckets,
         Deliver(s, bucket)
  PROVE  SpaceInv'
  <1> DEFINE r == req[s]
             rows == RowsFor(r, bucket, "delivered")
             streaks == [r.streak EXCEPT ![bucket.dest] = {}]
             next == [r EXCEPT !.todo = @ \ {bucket}, !.fires = @ \cup rows,
                               !.streak = streaks]
  <1>1. r \in UnderWay /\ r.step = "send" /\ bucket \in r.todo
    BY UnderWayFacts DEF Deliver, Step
  <1>2. PICK a \in BucketAlerts(r, bucket) : TRUE
    BY <1>1 DEF PushInv, Fresh, TodoFresh
  <1>3. PICK message : message = [alerts |-> BucketAlerts(r, bucket), rule |-> bucket.rule,
                                   dest |-> bucket.dest, at |-> r.at,
                                   override |-> bucket.override]
    OBVIOUS
  <1>4. \E f \in rows : Tells(f, message)
    <2> DEFINE f == [alert |-> a, dest |-> bucket.dest, at |-> r.at,
                     status |-> "delivered"]
    <2>1. f \in rows
      BY <1>2 DEF RowsFor
    <2>2. a.rule = bucket.rule
      BY <1>2 DEF BucketAlerts
    <2>3. Tells(f, message)
      BY <1>3, <2>2 DEF Tells
    <2>4. QED
      BY <2>1, <2>3
  <1>5. Becomes(s, next) /\ history' = [history EXCEPT !.sent = @ \cup {message}]
    BY <1>3 DEF Deliver
  <1>6. UNCHANGED <<now, fires>>
    BY DEF Deliver, stored
  <1>7. ~InCooldown(fires \cup r.fires, bucket, r.at)
    BY DEF Deliver
  <1>8. /\ message.rule = bucket.rule /\ message.dest = bucket.dest
        /\ message.at = r.at /\ message.override = bucket.override
    BY <1>3
  <1> HIDE DEF rows, streaks
  <1>9. /\ next.step = "send" /\ next.at = r.at
        /\ r.fires \subseteq next.fires /\ rows \subseteq next.fires
    BY <1>1 DEF UnderWay
  <1> HIDE DEF next
  <1>10. history'.sent = history.sent \cup {message} /\ history'.lost = history.lost
    BY <1>5 DEF TypeOK, Histories
  <1>11. /\ req'[s] = next
         /\ \A t \in Slots \ {s} : req'[t].step = "idle"
    BY <1>5, OthersFacts DEF Others, Step
  <1>12. Timely(r) /\ r.at \in Nat /\ now \in Nat /\ r.at <= now
    BY <1>1 DEF SpaceInv, Timely, UnderWay, TypeOK, Times
  <1>13. \A m \in history.sent : m.at \in Nat /\ m.at <= r.at /\ m.at <= now
    BY <1>1, <1>12 DEF SpaceInv, Timely, TypeOK, Histories, Messages, Times
  <1>14. bucket.override \in Overrides \cup {None}
    BY DEF Buckets
  <1>15. ASSUME NEW m \in history.sent, m.rule = bucket.rule, m.dest = bucket.dest,
                NotLost(m)
         PROVE  r.at - m.at >= Cooldown(bucket.override)
    <2>1. Recorded(m)
      BY <1>15 DEF SpaceInv
    <2>2. PICK f \in fires \cup r.fires : Tells(f, m)
      BY <2>1 DEF Recorded, Others, Step
    <2>3. ~(f.at > r.at - Cooldown(bucket.override))
      BY <1>7, <1>15, <2>2 DEF InCooldown, Tells
    <2>4. f.at = m.at /\ m.at \in Nat /\ Cooldown(bucket.override) \in Nat
      BY <1>13, <1>14, <2>2, CooldownFacts DEF Tells
    <2>5. QED
      BY <1>12, <2>3, <2>4
  <1>16. MessagesAreSpaced'
    <2>1. SUFFICES ASSUME NEW m \in history'.sent, NEW n \in history'.sent,
                          m # n, m.rule = n.rule, m.dest = n.dest, m.at <= n.at,
                          <<m.rule, m.dest>> \notin history'.lost
                   PROVE  n.at - m.at >= Configured(n) /\ n.at - m.at >= Ceiling
      BY DEF MessagesAreSpaced, Configured
    <2>2. CASE m \in history.sent /\ n \in history.sent
      BY <1>10, <2>1, <2>2 DEF SpaceInv, MessagesAreSpaced
    <2>3. CASE m \in history.sent /\ n = message
      <3>1. n.at - m.at >= Cooldown(bucket.override)
        BY <1>8, <1>10, <1>15, <2>1, <2>3 DEF NotLost
      <3>2. Configured(n) = IF bucket.override = None THEN DefaultCooldown
                            ELSE bucket.override
        BY <1>8, <2>3 DEF Configured
      <3>3. Configured(n) \in Nat /\ Cooldown(bucket.override) >= Configured(n)
        BY <1>14, <3>2, CooldownFacts
      <3>4. n.at \in Nat /\ m.at \in Nat
        BY <1>8, <1>12, <1>13, <2>3
      <3>5. QED
        BY <1>14, <3>1, <3>3, <3>4, CooldownFacts
    <2>4. CASE m = message /\ n \in history.sent
      <3>1. NotLost(n)
        BY <1>10, <2>1 DEF NotLost
      <3>2. r.at - n.at >= Cooldown(bucket.override)
        BY <1>8, <1>15, <2>1, <2>4, <3>1
      <3>3. n.at = r.at
        BY <1>8, <1>12, <1>13, <2>1, <2>4
      <3>4. Cooldown(bucket.override) >= 1
        BY <1>14, CooldownFacts
      <3>5. QED
        BY <1>12, <1>14, <3>2, <3>3, <3>4, CooldownFacts
    <2>5. QED
      BY <1>10, <2>1, <2>2, <2>3, <2>4
  <1>17. \A m \in history'.sent : m.at <= now' /\ (NotLost(m) => Recorded(m))'
    <2>1. ASSUME NEW m \in history.sent PROVE m.at <= now' /\ (NotLost(m) => Recorded(m))'
      <3>1. NotLost(m)' => Recorded(m)
        BY <1>10 DEF NotLost, SpaceInv
      <3>2. Recorded(m) => Recorded(m)'
        BY <1>6, <1>9, <1>11, KeptRows DEF Step
      <3>3. QED
        BY <1>6, <1>13, <3>1, <3>2
    <2>2. message.at <= now' /\ Recorded(message)'
      BY <1>4, <1>6, <1>8, <1>9, <1>11, <1>12 DEF Recorded, Step, Tells
    <2>3. QED
      BY <1>10, <2>1, <2>2
  <1>18. \A t \in Slots : Timely(req[t])'
    BY <1>6, <1>8, <1>9, <1>10, <1>11, <1>12, <1>13 DEF Timely
  <1>19. QED
    BY <1>16, <1>17, <1>18 DEF SpaceInv

LEMMA WithoutRowsLost ==
  ASSUME NEW h \in Histories, NEW r
  PROVE  h.lost \subseteq WithoutRows(r, h).lost
  BY DEF WithoutRows, Histories

LEMMA CommitFiresSpace ==
  ASSUME TypeOK, SpaceInv, NEW s \in Slots, Others(s), CommitFires(s)
  PROVE  SpaceInv'
  <1> DEFINE r == req[s]
             next == [r EXCEPT !.step = "digest", !.found = {}, !.fires = {},
                               !.paused = {}]
  <1>1. r \in UnderWay /\ r.step = "send"
    BY UnderWayFacts DEF CommitFires, Step
  <1>2. next.at = r.at /\ Timely(r)
    BY <1>1 DEF UnderWay, SpaceInv
  <1>3. Becomes(s, next) \/ Becomes(s, Idle)
    BY DEF CommitFires
  <1> HIDE DEF next
  <1>4. Timely(next) /\ Timely(Idle)
    BY <1>1, <1>2 DEF Timely, Idle
  <1>5. UNCHANGED now /\ history'.sent = history.sent /\ history.lost \subseteq history'.lost
    BY WithoutRowsSent, WithoutRowsLost DEF CommitFires, TypeOK, Histories
  <1>6. \A m \in history.sent : Recorded(m) => Recorded(m)' \/ ~NotLost(m)'
    <2>1. CASE r.paused \subseteq dests
      <3>1. fires' = fires \cup r.fires
        BY <2>1 DEF CommitFires
      <3>2. QED
        BY <3>1, KeptRows
    <2>2. CASE ~(r.paused \subseteq dests)
      <3>1. UNCHANGED fires /\ history' = WithoutRows(r, history)
        BY <2>2 DEF CommitFires
      <3>2. QED
        BY <3>1, LostRows
    <2>3. QED
      BY <2>1, <2>2
  <1>7. QED
    BY <1>3, <1>4, <1>5, <1>6, QuietStep

LEMMA DigestSpace ==
  ASSUME TypeOK, SpaceInv, NEW s \in Slots, Others(s), Digest(s) \/ StampDigest(s)
  PROVE  SpaceInv'
  <1> DEFINE r == req[s]
             next == [r EXCEPT !.step = "stamp"]
  <1>1. r \in UnderWay /\ r.step \in {"digest", "stamp"}
    BY UnderWayFacts DEF Digest, StampDigest, Step
  <1>2. next.at = r.at /\ Timely(r)
    BY <1>1 DEF UnderWay, SpaceInv
  <1>3. Becomes(s, next) \/ Becomes(s, Idle)
    BY DEF Digest, StampDigest
  <1> HIDE DEF next
  <1>4. Timely(next) /\ Timely(Idle)
    BY <1>1, <1>2 DEF Timely, Idle
  <1>5. UNCHANGED <<now, fires>> /\ history'.sent = history.sent
        /\ history'.lost = history.lost
    BY DEF Digest, StampDigest, stored, TypeOK, Histories
  <1>6. \A m \in history.sent : Recorded(m) => Recorded(m)'
    BY <1>1, <1>5, KeptRows DEF Step
  <1>7. QED
    BY <1>3, <1>4, <1>5, <1>6, QuietStep

LEMMA CrashSpace ==
  ASSUME TypeOK, SpaceInv, NEW s \in Slots, Others(s), Crash(s)
  PROVE  SpaceInv'
  <1> DEFINE h == IF Step(s, "persist") THEN history ELSE WithoutRows(req[s], history)
  <1>1. h \in Histories /\ h.sent = history.sent /\ history.lost \subseteq h.lost
    BY UnderWayFacts, WithoutRowsType, WithoutRowsSent, WithoutRowsLost DEF Crash, TypeOK
  <1>2. ~Step(s, "persist") => h = WithoutRows(req[s], history)
    OBVIOUS
  <1>3. history' = [h EXCEPT !.troubles = @ + 1, !.lostStamp = @ \/ Step(s, "stamp")]
    BY DEF Crash
  <1> HIDE DEF h
  <1>4. history'.sent = history.sent /\ history'.lost = h.lost
    BY <1>1, <1>3 DEF Histories
  <1>5. UNCHANGED <<now, fires>> /\ Becomes(s, Idle)
    BY DEF Crash, stored
  <1>6. \A m \in history.sent : Recorded(m) => Recorded(m)' \/ ~NotLost(m)'
    <2>1. CASE Step(s, "persist")
      BY <1>5, <2>1, KeptRows DEF Step
    <2>2. CASE ~Step(s, "persist")
      BY <1>2, <1>4, <1>5, <2>2, LostRows
    <2>3. QED
      BY <2>1, <2>2
  <1>7. Timely(Idle)
    BY DEF Timely, Idle
  <1>8. QED
    BY <1>1, <1>4, <1>5, <1>6, <1>7, QuietStep

(* What is no step of a request leaves rows and messages, and time passes. *)
LEMMA RestKeepsSpace ==
  ASSUME TypeOK, SpaceInv, UNCHANGED <<req, fires>>, now' >= now, now' \in Nat,
         history'.sent = history.sent, history'.lost = history.lost
  PROVE  SpaceInv'
  <1>1. MessagesAreSpaced'
    BY DEF SpaceInv, MessagesAreSpaced, Configured
  <1>2. now \in Nat /\ \A m \in history.sent : m.at \in Nat
    BY DEF TypeOK, Histories, Messages, Times
  <1>3. \A s \in Slots : req[s].step # "idle" => req[s].at \in Nat
    BY UnderWayFacts DEF Step, UnderWay, Times
  <1>4. \A m \in history'.sent : m.at <= now' /\ (NotLost(m) => Recorded(m))'
    <2>1. SUFFICES ASSUME NEW m \in history.sent
                   PROVE  m.at <= now' /\ (NotLost(m) => Recorded(m))'
      OBVIOUS
    <2>2. m.at <= now'
      BY <1>2 DEF SpaceInv
    <2>3. NotLost(m)' => NotLost(m)
      BY DEF NotLost
    <2>4. Recorded(m) => Recorded(m)'
      BY DEF Recorded, Step, Tells
    <2>5. QED
      BY <2>2, <2>3, <2>4 DEF SpaceInv
  <1>5. \A s \in Slots : Timely(req[s])'
    BY <1>2, <1>3 DEF SpaceInv, Timely
  <1>6. QED
    BY <1>1, <1>4, <1>5 DEF SpaceInv

LEMMA TimePasses ==
  ASSUME TypeOK, \/ \E d \in Dests : UpsertDestination(d) \/ DeleteDestination(d)
                 \/ \E r \in Rules : SetRuleDestinations(r)
                 \/ Tick
                 \/ UNCHANGED vars
  PROVE  now' >= now /\ now' \in Nat
  <1>1. now \in Nat
    BY DEF TypeOK, Times
  <1>2. now' = now \/ now' = now + 1
    BY DEF UpsertDestination, DeleteDestination, SetRuleDestinations, Tick, vars
  <1>3. QED
    BY <1>1, <1>2

LEMMA SpaceInit == ASSUME Init PROVE SpaceInv
  BY DEF Init, SpaceInv, MessagesAreSpaced, Timely, Idle

LEMMA SpaceStep ==
  ASSUME ~Overlap, TypeOK, PushInv, SpaceInv, [Next]_vars PROVE SpaceInv'
  <1>1. ASSUME NEW s \in Slots, Request(s) PROVE SpaceInv'
    <2>1. Others(s)
      BY <1>1, ActsAlone DEF PushInv
    <2>2. QED
      BY <1>1, <2>1, EvaluateSpace, CommitAlertsSpace, ResolveSpace, SkipSpace, DeliverSpace,
         FailSpace, CommitFiresSpace, DigestSpace, CrashSpace DEF Request
  <1>2. ASSUME ~ \E s \in Slots : Request(s) PROVE SpaceInv'
    BY <1>2, RestFacts, TimePasses, RestKeepsSpace DEF Next
  <1>3. QED
    BY <1>1, <1>2

(* While requests do not overlap, two messages of a rule to a destination  *)
(* are apart by the cooldown the later was sent under and by the ceiling,  *)
(* through sweeps, events, edits, pauses and deaths, unless the rows of    *)
(* the earlier died with its request: every message has a row the next     *)
(* look for the cooldown sees, and none is later than that look.           *)
THEOREM AlwaysSpaced == ASSUME ~Overlap PROVE Spec => []MessagesAreSpaced
  <1>1. Init => TypeOK /\ PushInv /\ SpaceInv
    BY InitType, PushInit, SpaceInit
  <1>2. TypeOK /\ PushInv /\ SpaceInv /\ [Next]_vars => (TypeOK /\ PushInv /\ SpaceInv)'
    BY NextType, StutterType, PushStep, SpaceStep
  <1>3. SpaceInv => MessagesAreSpaced
    BY DEF SpaceInv
  <1>4. QED
    BY <1>1, <1>2, <1>3, PTL DEF Spec

-----------------------------------------------------------------------------
(* What a step makes of its request and of the memory, field by field.     *)

Elsewhere(s) == \A t \in Slots \ {s} : req'[t] = req[t]

LEMMA SlotFacts ==
  ASSUME TypeOK, NEW s \in Slots, NEW r, Becomes(s, r)
  PROVE  req'[s] = r /\ Elsewhere(s)
  BY DEF TypeOK, Becomes, Elsewhere

LEMMA EvaluateFacts ==
  ASSUME TypeOK, NEW s \in Slots, NEW kind \in Kinds, Evaluate(s, kind)
  PROVE  /\ Step(s, "idle") /\ Elsewhere(s) /\ UNCHANGED <<now, stored>>
         /\ req'[s].step = "persist" /\ req'[s].at = now
         /\ req'[s].fires = {} /\ req'[s].paused = {}
         /\ history' = [history EXCEPT !.requests = @ + 1]
  <1>1. PICK rules \in Scopes(kind) :
          \E found \in SUBSET [rule : rules, subject : Subjects,
                               day : {now \div DayLength}] :
            Becomes(s, [step |-> "persist", kind |-> kind, at |-> now, found |-> found,
                        seen |-> alerts, todo |-> {}, fires |-> {}, paused |-> {},
                        streak |-> history.streak, failing |-> history.failing])
    BY DEF Evaluate
  <1>2. PICK found :
            Becomes(s, [step |-> "persist", kind |-> kind, at |-> now, found |-> found,
                        seen |-> alerts, todo |-> {}, fires |-> {}, paused |-> {},
                        streak |-> history.streak, failing |-> history.failing])
    BY <1>1
  <1>3. QED
    BY <1>2, SlotFacts DEF Evaluate

LEMMA CommitAlertsFacts ==
  ASSUME TypeOK, NEW s \in Slots, CommitAlerts(s)
  PROVE  /\ req[s] \in UnderWay /\ Step(s, "persist") /\ Elsewhere(s)
         /\ UNCHANGED <<now, fires, bindings, dests, active, digestAt>>
         /\ \/ /\ req'[s].step = "resolve" /\ req'[s].at = req[s].at
               /\ req'[s].fires = req[s].fires /\ req'[s].paused = req[s].paused
               /\ alerts' \subseteq alerts \cup req'[s].found
               /\ UNCHANGED history
            \/ /\ req'[s] = Idle
               /\ \E fresh : /\ alerts' \subseteq alerts \cup fresh
                             /\ history' = [history EXCEPT !.excused = @ \cup fresh]
  <1> DEFINE r == req[s]
             clash == (r.found \ r.seen) \cap alerts
             fresh == (r.found \ r.seen) \ clash
             pushes == r.kind \in {"daily", "hourly", "event"}
             next == [r EXCEPT !.step = "resolve", !.found = fresh]
  <1>1. r \in UnderWay
    BY UnderWayFacts DEF CommitAlerts, Step
  <1>2. /\ next.step = "resolve" /\ next.found = fresh /\ next.at = r.at
        /\ next.fires = r.fires /\ next.paused = r.paused
    BY <1>1 DEF UnderWay
  <1>3. alerts' \subseteq alerts \cup fresh
    BY DEF CommitAlerts
  <1>4. /\ Becomes(s, IF pushes THEN next ELSE Idle)
        /\ history' = IF pushes THEN history ELSE [history EXCEPT !.excused = @ \cup fresh]
    BY DEF CommitAlerts
  <1> HIDE DEF next, fresh, pushes
  <1>5. req'[s] = (IF pushes THEN next ELSE Idle) /\ Elsewhere(s)
    BY <1>4, SlotFacts
  <1>6. QED
    BY <1>1, <1>2, <1>3, <1>4, <1>5 DEF CommitAlerts

LEMMA ResolveFacts ==
  ASSUME TypeOK, NEW s \in Slots, Resolve(s)
  PROVE  /\ req[s] \in UnderWay /\ Step(s, "resolve") /\ Elsewhere(s)
         /\ UNCHANGED <<now, stored>>
         /\ req'[s].step = "send" /\ req'[s].at \in {now, req[s].at}
         /\ req'[s].found = req[s].found
         /\ req'[s].fires = req[s].fires /\ req'[s].paused = req[s].paused
         /\ req'[s].streak = history.streak /\ req'[s].failing = history.failing
         /\ history' = [history EXCEPT !.excused =
                @ \cup {a \in req[s].found : EffectiveDestinations(a.rule) = {}}]
         /\ \A a \in req[s].found :
              EffectiveDestinations(a.rule) # {} => \E b \in req'[s].todo : b.rule = a.rule
  <1> DEFINE r == req[s]
             buckets == UNION {EffectiveDestinations(a.rule) : a \in r.found}
             at == IF r.kind = "event" THEN now ELSE r.at
             next == [r EXCEPT !.step = "send", !.todo = buckets, !.at = at,
                               !.streak = history.streak, !.failing = history.failing]
  <1>1. r \in UnderWay
    BY UnderWayFacts DEF Resolve, Step
  <1>2. Becomes(s, next)
    BY DEF Resolve
  <1>3. \A rule : \A b \in EffectiveDestinations(rule) : b.rule = rule
    BY DEF EffectiveDestinations
  <1>4. \A a \in r.found : EffectiveDestinations(a.rule) # {} => \E b \in buckets : b.rule = a.rule
    BY <1>3
  <1> HIDE DEF buckets
  <1>5. /\ next.step = "send" /\ next.todo = buckets /\ next.at \in {now, r.at}
        /\ next.found = r.found /\ next.fires = r.fires /\ next.paused = r.paused
        /\ next.streak = history.streak /\ next.failing = history.failing
    BY <1>1 DEF UnderWay
  <1> HIDE DEF next
  <1>6. req'[s] = next /\ Elsewhere(s)
    BY <1>2, SlotFacts
  <1>7. QED
    BY <1>1, <1>4, <1>5, <1>6 DEF Resolve

(* What the three steps that handle a bucket have in common. *)
Handles(s, bucket, status) ==
  /\ req[s] \in UnderWay /\ Step(s, "send") /\ Elsewhere(s)
  /\ UNCHANGED <<now, stored>>
  /\ req'[s].step = "send" /\ req'[s].at = req[s].at
  /\ req'[s].found = req[s].found /\ req'[s].todo = req[s].todo \ {bucket}
  /\ req'[s].fires = req[s].fires \cup RowsFor(req[s], bucket, status)

LEMMA SkipFacts ==
  ASSUME TypeOK, NEW s \in Slots, NEW bucket \in Buckets, Skip(s, bucket)
  PROVE  /\ Handles(s, bucket, "skipped_cooldown") /\ UNCHANGED history
         /\ req'[s].streak = req[s].streak /\ req'[s].failing = req[s].failing
         /\ req'[s].paused = req[s].paused
  <1> DEFINE r == req[s]
             rows == RowsFor(r, bucket, "skipped_cooldown")
             next == [r EXCEPT !.todo = @ \ {bucket}, !.fires = @ \cup rows]
  <1>1. r \in UnderWay /\ r.step = "send"
    BY UnderWayFacts DEF Skip, Step
  <1>2. req'[s] = next /\ Elsewhere(s)
    BY SlotFacts DEF Skip
  <1> HIDE DEF rows
  <1>3. /\ next.step = "send" /\ next.at = r.at /\ next.found = r.found
        /\ next.todo = r.todo \ {bucket} /\ next.fires = r.fires \cup rows
        /\ next.streak = r.streak /\ next.failing = r.failing /\ next.paused = r.paused
    BY <1>1 DEF UnderWay
  <1>4. QED
    BY <1>1, <1>2, <1>3 DEF Skip, Handles, Step, rows

LEMMA DeliverFacts ==
  ASSUME TypeOK, NEW s \in Slots, NEW bucket \in Buckets, Deliver(s, bucket)
  PROVE  /\ Handles(s, bucket, "delivered") /\ bucket \in req[s].todo
         /\ \E m : history' = [history EXCEPT !.sent = @ \cup {m}]
         /\ req'[s].streak = [req[s].streak EXCEPT ![bucket.dest] = {}]
         /\ req'[s].failing = req[s].failing /\ req'[s].paused = req[s].paused
  <1> DEFINE r == req[s]
             rows == RowsFor(r, bucket, "delivered")
             streaks == [r.streak EXCEPT ![bucket.dest] = {}]
             next == [r EXCEPT !.todo = @ \ {bucket}, !.fires = @ \cup rows,
                               !.streak = streaks]
  <1>1. r \in UnderWay /\ r.step = "send" /\ bucket \in r.todo
    BY UnderWayFacts DEF Deliver, Step
  <1>2. Becomes(s, next)
    BY DEF Deliver
  <1>3. req'[s] = next /\ Elsewhere(s)
    BY <1>2, SlotFacts
  <1> HIDE DEF rows, streaks
  <1>4. /\ next.step = "send" /\ next.at = r.at /\ next.found = r.found
        /\ next.todo = r.todo \ {bucket} /\ next.fires = r.fires \cup rows
        /\ next.streak = streaks /\ next.failing = r.failing /\ next.paused = r.paused
    BY <1>1 DEF UnderWay
  <1>5. UNCHANGED <<now, stored>> /\ \E m : history' = [history EXCEPT !.sent = @ \cup {m}]
    BY DEF Deliver
  <1>6. QED
    BY <1>1, <1>3, <1>4, <1>5 DEF Handles, Step, rows, streaks

LEMMA FailFacts ==
  ASSUME TypeOK, NEW s \in Slots, NEW bucket \in Buckets, Fail(s, bucket)
  PROVE  LET rows == RowsFor(req[s], bucket, "failed")
             known == fires \cup req[s].fires \cup rows
             streak == req[s].streak[bucket.dest] \cup rows
         IN /\ Handles(s, bucket, "failed") /\ UNCHANGED history
            /\ req'[s].streak = [req[s].streak EXCEPT ![bucket.dest] = streak]
            /\ req'[s].failing = IF Cardinality(streak) >= PauseThreshold
                                 THEN req[s].failing \cup {bucket.dest} ELSE req[s].failing
            /\ req'[s].paused =
                 IF Cardinality(Consecutive(known, bucket.dest)) >= PauseThreshold
                 THEN req[s].paused \cup {bucket.dest} ELSE req[s].paused
  <1> DEFINE r == req[s]
             rows == RowsFor(r, bucket, "failed")
             failures == Consecutive(fires \cup r.fires \cup rows, bucket.dest)
             streak == r.streak[bucket.dest] \cup rows
             streaks == [r.streak EXCEPT ![bucket.dest] = streak]
             failing == IF Cardinality(streak) >= PauseThreshold
                        THEN r.failing \cup {bucket.dest} ELSE r.failing
             paused == IF Cardinality(failures) >= PauseThreshold
                       THEN r.paused \cup {bucket.dest} ELSE r.paused
             next == [r EXCEPT !.todo = @ \ {bucket}, !.fires = @ \cup rows,
                               !.streak = streaks, !.failing = failing, !.paused = paused]
  <1>1. r \in UnderWay /\ r.step = "send"
    BY UnderWayFacts DEF Fail, Step
  <1>2. Becomes(s, next)
    BY DEF Fail
  <1>3. req'[s] = next /\ Elsewhere(s)
    BY <1>2, SlotFacts
  <1> HIDE DEF rows, streaks, failing, paused
  <1>4. /\ next.step = "send" /\ next.at = r.at /\ next.found = r.found
        /\ next.todo = r.todo \ {bucket} /\ next.fires = r.fires \cup rows
        /\ next.streak = streaks /\ next.failing = failing /\ next.paused = paused
    BY <1>1 DEF UnderWay
  <1>5. UNCHANGED <<now, stored, history>>
    BY DEF Fail
  <1> HIDE DEF next
  <1>6. Handles(s, bucket, "failed")
    BY <1>1, <1>3, <1>4, <1>5 DEF Handles, Step, rows
  <1>7. /\ req'[s].streak = streaks /\ req'[s].failing = failing /\ req'[s].paused = paused
    BY <1>3, <1>4
  <1>8. QED
    BY <1>5, <1>6, <1>7 DEF rows, streaks, failing, paused

LEMMA WithoutRowsKeeps ==
  ASSUME NEW r \in UnderWay, NEW h \in Histories
  PROVE  LET w == WithoutRows(r, h)
         IN /\ w \in Histories /\ w.excused = h.excused \cup r.found
            /\ w.streak = h.streak /\ w.failing = h.failing /\ w.edited = h.edited
            /\ w.digests = h.digests /\ (w.lostStamp <=> h.lostStamp)
  <1>1. WithoutRows(r, h) \in Histories
    BY WithoutRowsType
  <1>2. QED
    BY <1>1 DEF WithoutRows, Histories

LEMMA CommitFiresFacts ==
  ASSUME TypeOK, NEW s \in Slots, CommitFires(s)
  PROVE  /\ req[s] \in UnderWay /\ Step(s, "send") /\ req[s].todo = {} /\ Elsewhere(s)
         /\ UNCHANGED <<now, alerts, bindings, dests, digestAt>>
         /\ \/ req'[s] = Idle
            \/ /\ req'[s].step = "digest" /\ req'[s].at = req[s].at
               /\ req'[s].fires = {}
         /\ \/ /\ fires' = fires \cup req[s].fires /\ active' = active \ req[s].paused
               /\ history' = [history EXCEPT !.streak = req[s].streak,
                                             !.failing = req[s].failing]
            \/ /\ UNCHANGED <<fires, active>>
               /\ history' = WithoutRows(req[s], history)
  <1> DEFINE r == req[s]
             next == [r EXCEPT !.step = "digest", !.found = {}, !.fires = {},
                               !.paused = {}]
  <1>1. r \in UnderWay /\ r.step = "send"
    BY UnderWayFacts DEF CommitFires, Step
  <1>2. next.step = "digest" /\ next.at = r.at /\ next.fires = {}
    BY <1>1 DEF UnderWay
  <1>3. Becomes(s, next) \/ Becomes(s, Idle)
    BY DEF CommitFires
  <1> HIDE DEF next
  <1>4. req'[s] \in {next, Idle} /\ Elsewhere(s)
    BY <1>3, SlotFacts
  <1>5. \/ /\ fires' = fires \cup r.fires /\ active' = active \ r.paused
           /\ history' = [history EXCEPT !.streak = r.streak, !.failing = r.failing]
        \/ UNCHANGED <<fires, active>> /\ history' = WithoutRows(r, history)
    BY DEF CommitFires
  <1>6. QED
    BY <1>1, <1>2, <1>4, <1>5 DEF CommitFires, Step

LEMMA DigestFacts ==
  ASSUME TypeOK, NEW s \in Slots, Digest(s)
  PROVE  /\ req[s] \in UnderWay /\ Step(s, "digest") /\ Elsewhere(s)
         /\ UNCHANGED <<now, stored>>
         /\ \/ /\ Due(req[s].at)
               /\ req'[s].step = "stamp" /\ req'[s].at = req[s].at
               /\ req'[s].fires = req[s].fires
               /\ history' = [history EXCEPT !.digests = @ \cup {req[s].at}]
            \/ req'[s] = Idle /\ UNCHANGED history
  <1> DEFINE r == req[s]
             next == [r EXCEPT !.step = "stamp"]
  <1>1. r \in UnderWay /\ Step(s, "digest")
    BY UnderWayFacts DEF Digest, Step
  <1>2. next.step = "stamp" /\ next.at = r.at /\ next.fires = r.fires
    BY <1>1 DEF UnderWay
  <1>3. \/ /\ Due(r.at) /\ Becomes(s, next)
           /\ history' = [history EXCEPT !.digests = @ \cup {r.at}]
        \/ Becomes(s, Idle) /\ UNCHANGED history
    BY DEF Digest
  <1> HIDE DEF next
  <1>4. /\ Elsewhere(s)
        /\ \/ /\ Due(r.at) /\ req'[s] = next
              /\ history' = [history EXCEPT !.digests = @ \cup {r.at}]
           \/ req'[s] = Idle /\ UNCHANGED history
    BY <1>3, SlotFacts
  <1>5. QED
    BY <1>1, <1>2, <1>4 DEF Digest

LEMMA StampFacts ==
  ASSUME TypeOK, NEW s \in Slots, StampDigest(s)
  PROVE  /\ req[s] \in UnderWay /\ Step(s, "stamp") /\ Elsewhere(s)
         /\ req'[s] = Idle /\ digestAt' = req[s].at
         /\ UNCHANGED <<now, alerts, fires, bindings, dests, active, history>>
  BY SlotFacts, UnderWayFacts DEF StampDigest, Step

LEMMA CrashFacts ==
  ASSUME TypeOK, NEW s \in Slots, Crash(s)
  PROVE  /\ ~Step(s, "idle") /\ Elsewhere(s) /\ req'[s] = Idle
         /\ UNCHANGED <<now, stored>>
         /\ history'.streak = history.streak /\ history'.failing = history.failing
         /\ history'.edited = history.edited /\ history'.digests = history.digests
         /\ history'.lostStamp <=> history.lostStamp \/ Step(s, "stamp")
         /\ history.excused \subseteq history'.excused
         /\ ~Step(s, "persist") => req[s].found \subseteq history'.excused
  <1> DEFINE h == IF Step(s, "persist") THEN history ELSE WithoutRows(req[s], history)
  <1>1. /\ h \in Histories /\ h.streak = history.streak /\ h.failing = history.failing
        /\ h.edited = history.edited /\ h.digests = history.digests
        /\ h.lostStamp <=> history.lostStamp
        /\ history.excused \subseteq h.excused
        /\ ~Step(s, "persist") => req[s].found \subseteq h.excused
    <2>1. req[s] \in UnderWay /\ history \in Histories
      BY UnderWayFacts DEF Crash, TypeOK
    <2>2. CASE Step(s, "persist")
      BY <2>1, <2>2
    <2>3. CASE ~Step(s, "persist")
      <3>1. h = WithoutRows(req[s], history)
        BY <2>3
      <3>2. QED
        BY <2>1, <2>3, <3>1, WithoutRowsKeeps
    <2>4. QED
      BY <2>2, <2>3
  <1>2. history' = [h EXCEPT !.troubles = @ + 1, !.lostStamp = @ \/ Step(s, "stamp")]
    BY DEF Crash
  <1> HIDE DEF h
  <1>3. /\ history'.streak = h.streak /\ history'.failing = h.failing
        /\ history'.edited = h.edited /\ history'.digests = h.digests
        /\ history'.excused = h.excused
    BY <1>1, <1>2 DEF Histories
  <1>4. history'.lostStamp <=> h.lostStamp \/ Step(s, "stamp")
    BY <1>1, <1>2 DEF Histories
  <1>5. UNCHANGED <<now, stored>> /\ ~Step(s, "idle") /\ req'[s] = Idle /\ Elsewhere(s)
    BY SlotFacts DEF Crash
  <1>6. QED
    BY <1>1, <1>3, <1>4, <1>5

(* What is no step of a request. *)
LEMMA EditFacts ==
  ASSUME TypeOK, \/ \E d \in Dests : UpsertDestination(d) \/ DeleteDestination(d)
                 \/ \E r \in Rules : SetRuleDestinations(r)
                 \/ Tick
                 \/ UNCHANGED vars
  PROVE  /\ UNCHANGED <<req, alerts, fires, digestAt>>
         /\ history'.streak = history.streak /\ history'.failing = history.failing
         /\ history'.excused = history.excused /\ history'.digests = history.digests
         /\ history'.lostStamp <=> history.lostStamp
         /\ history.edited \subseteq history'.edited
         /\ \A d \in Dests \ history'.edited : /\ d \in dests' <=> d \in dests
                                               /\ d \in active' <=> d \in active
  <1>1. ASSUME NEW d \in Dests, UpsertDestination(d) \/ DeleteDestination(d)
        PROVE  /\ UNCHANGED <<req, alerts, fires, digestAt>>
               /\ history' = [history EXCEPT !.troubles = @ + 1, !.edited = @ \cup {d}]
               /\ \A e \in Dests \ {d} : /\ e \in dests' <=> e \in dests
                                         /\ e \in active' <=> e \in active
    BY <1>1 DEF UpsertDestination, DeleteDestination
  <1>2. ASSUME NEW r \in Rules, SetRuleDestinations(r)
        PROVE  /\ UNCHANGED <<req, alerts, fires, digestAt, dests, active>>
               /\ history' = [history EXCEPT !.troubles = @ + 1]
    BY <1>2 DEF SetRuleDestinations
  <1>3. CASE Tick \/ UNCHANGED vars
    BY <1>3 DEF Tick, vars, stored
  <1>4. history \in Histories
    BY DEF TypeOK
  <1>5. ASSUME NEW d \in Dests, UpsertDestination(d) \/ DeleteDestination(d)
        PROVE  /\ history'.streak = history.streak /\ history'.failing = history.failing
               /\ history'.excused = history.excused /\ history'.digests = history.digests
               /\ history'.lostStamp <=> history.lostStamp
               /\ history'.edited = history.edited \cup {d}
    BY <1>1, <1>4, <1>5 DEF Histories
  <1>6. ASSUME NEW r \in Rules, SetRuleDestinations(r)
        PROVE  /\ history'.streak = history.streak /\ history'.failing = history.failing
               /\ history'.excused = history.excused /\ history'.digests = history.digests
               /\ history'.lostStamp <=> history.lostStamp
               /\ history'.edited = history.edited
    BY <1>2, <1>4, <1>6 DEF Histories
  <1>7. QED
    BY <1>1, <1>2, <1>3, <1>5, <1>6

-----------------------------------------------------------------------------
(* No alert is dropped silently, also when requests overlap.               *)

(* A request that pushes carries the alert, from the commit of the alert   *)
(* to that of the rows; one that has only evaluated answers for nothing.   *)
Carried(a) == \E s \in Slots : req[s].step \in {"resolve", "send"} /\ a \in req[s].found

(* While it sends, what it has found has a bucket to come or a row flushed.*)
Promised(r) ==
  r.step = "send" =>
    \A a \in r.found \ history.excused :
      (\E b \in r.todo : b.rule = a.rule) \/ (\E f \in r.fires : f.alert = a)

AttemptInv ==
  /\ \A a \in alerts \ history.excused : (\E f \in fires : f.alert = a) \/ Carried(a)
  /\ \A s \in Slots : Promised(req[s])

(* A step of a request has to answer for what it carried, for what it adds *)
(* to the alerts, and for its own promise.                                 *)
LEMMA AttemptStep ==
  ASSUME AttemptInv, NEW s \in Slots, Elsewhere(s), fires \subseteq fires',
         history.excused \subseteq history'.excused, Promised(req[s])',
         \A a \in (alerts' \ alerts) \ history'.excused : Carried(a)',
         req[s].step \in {"resolve", "send"} =>
           \A a \in req[s].found \ history'.excused :
             (\E f \in fires' : f.alert = a) \/ Carried(a)'
  PROVE  AttemptInv'
  <1>1. ASSUME NEW a \in alerts' \ history'.excused
        PROVE  (\E f \in fires' : f.alert = a) \/ Carried(a)'
    <2>1. CASE a \notin alerts
      BY <2>1, <1>1
    <2>2. CASE \E f \in fires : f.alert = a
      BY <2>2
    <2>3. CASE Carried(a)
      <3>1. PICK t \in Slots : req[t].step \in {"resolve", "send"} /\ a \in req[t].found
        BY <2>3 DEF Carried
      <3>2. CASE t = s
        BY <3>1, <3>2
      <3>3. CASE t # s
        BY <3>1, <3>3 DEF Elsewhere, Carried
      <3>4. QED
        BY <3>2, <3>3
    <2>4. QED
      BY <1>1, <2>1, <2>2, <2>3 DEF AttemptInv
  <1>2. ASSUME NEW t \in Slots PROVE Promised(req[t])'
    <2>1. CASE t = s
      BY <2>1
    <2>2. CASE t # s
      BY <2>2 DEF Elsewhere, AttemptInv, Promised
    <2>3. QED
      BY <2>1, <2>2
  <1>3. QED
    BY <1>1, <1>2 DEF AttemptInv

(* A request that goes on with all it has found keeps carrying it. *)
LEMMA StillCarried ==
  ASSUME NEW s \in Slots, req'[s].step \in {"resolve", "send"}, NEW a \in req'[s].found
  PROVE  Carried(a)'
  BY DEF Carried

LEMMA HandlesAttempts ==
  ASSUME AttemptInv, NEW s \in Slots, NEW bucket, NEW status, Handles(s, bucket, status),
         history'.excused = history.excused
  PROVE  AttemptInv'
  <1>1. Promised(req[s])'
    <2>1. ASSUME NEW a \in req[s].found \ history.excused
          PROVE  (\E b \in req'[s].todo : b.rule = a.rule) \/ (\E f \in req'[s].fires : f.alert = a)
      <3>1. CASE a.rule = bucket.rule
        <4> DEFINE f == [alert |-> a, dest |-> bucket.dest, at |-> req[s].at,
                         status |-> status]
        <4>1. f \in RowsFor(req[s], bucket, status)
          BY <3>1 DEF RowsFor, BucketAlerts
        <4>2. f.alert = a
          OBVIOUS
        <4>3. QED
          BY <4>1, <4>2 DEF Handles
      <3>2. CASE a.rule # bucket.rule
        BY <3>2 DEF Handles, AttemptInv, Promised, Step
      <3>3. QED
        BY <3>1, <3>2
    <2>2. QED
      BY <2>1 DEF Promised, Handles
  <1>2. UNCHANGED <<alerts, fires>> /\ Elsewhere(s)
    BY DEF Handles, stored
  <1>3. \A a \in req[s].found : Carried(a)'
    BY StillCarried DEF Handles
  <1>4. QED
    BY <1>1, <1>2, <1>3, AttemptStep

LEMMA AttemptRequest ==
  ASSUME TypeOK, AttemptInv, NEW s \in Slots, Request(s)
  PROVE  AttemptInv'
  <1>1. CASE \E kind \in Kinds : Evaluate(s, kind)
    <2>1. /\ UNCHANGED <<alerts, fires>> /\ Elsewhere(s) /\ Step(s, "idle")
          /\ req'[s].step = "persist" /\ history' = [history EXCEPT !.requests = @ + 1]
      BY <1>1, EvaluateFacts DEF stored
    <2>2. history'.excused = history.excused
      BY <2>1 DEF TypeOK, Histories
    <2>3. QED
      BY <2>1, <2>2, AttemptStep DEF Promised, Step
  <1>2. CASE CommitAlerts(s)
    <2>1. /\ UNCHANGED fires /\ Elsewhere(s) /\ Step(s, "persist")
          /\ \/ /\ req'[s].step = "resolve" /\ UNCHANGED history
                /\ alerts' \subseteq alerts \cup req'[s].found
             \/ /\ req'[s] = Idle
                /\ \E fresh : /\ alerts' \subseteq alerts \cup fresh
                              /\ history' = [history EXCEPT !.excused = @ \cup fresh]
      BY <1>2, CommitAlertsFacts
    <2>2. CASE req'[s].step = "resolve" /\ UNCHANGED history
               /\ alerts' \subseteq alerts \cup req'[s].found
      <3>1. \A a \in alerts' \ alerts : Carried(a)'
        BY <2>2, StillCarried
      <3>2. QED
        BY <2>1, <2>2, <3>1, AttemptStep DEF Promised, Step
    <2>3. CASE req'[s] = Idle
      <3>1. PICK fresh : /\ alerts' \subseteq alerts \cup fresh
                         /\ history' = [history EXCEPT !.excused = @ \cup fresh]
        BY <2>1, <2>3 DEF Idle
      <3>2. history'.excused = history.excused \cup fresh
        BY <3>1 DEF TypeOK, Histories
      <3>3. QED
        BY <2>1, <2>3, <3>1, <3>2, AttemptStep DEF Promised, Step, Idle
    <2>4. QED
      BY <2>1, <2>2, <2>3
  <1>3. CASE Resolve(s)
    <2> DEFINE homeless == {a \in req[s].found : EffectiveDestinations(a.rule) = {}}
    <2>1. /\ UNCHANGED <<alerts, fires>> /\ Elsewhere(s)
          /\ req'[s].step = "send" /\ req'[s].found = req[s].found
          /\ history' = [history EXCEPT !.excused = @ \cup homeless]
          /\ \A a \in req[s].found :
               EffectiveDestinations(a.rule) # {} => \E b \in req'[s].todo : b.rule = a.rule
      BY <1>3, ResolveFacts DEF stored
    <2>2. history'.excused = history.excused \cup homeless
      BY <2>1 DEF TypeOK, Histories
    <2>3. Promised(req[s])'
      BY <2>1, <2>2 DEF Promised
    <2>4. \A a \in req[s].found : Carried(a)'
      BY <2>1, StillCarried
    <2>5. QED
      BY <2>1, <2>2, <2>3, <2>4, AttemptStep
  <1>4. ASSUME NEW bucket \in Buckets, Skip(s, bucket) \/ Fail(s, bucket) PROVE AttemptInv'
    BY <1>4, SkipFacts, FailFacts, HandlesAttempts
  <1>5. ASSUME NEW bucket \in Buckets, Deliver(s, bucket) PROVE AttemptInv'
    <2>1. Handles(s, bucket, "delivered") /\ history'.excused = history.excused
      BY <1>5, DeliverFacts DEF TypeOK, Histories
    <2>2. QED
      BY <2>1, HandlesAttempts
  <1>6. CASE CommitFires(s)
    <2>1. /\ req[s] \in UnderWay /\ Step(s, "send") /\ req[s].todo = {} /\ Elsewhere(s)
          /\ UNCHANGED alerts /\ req'[s].step \in {"idle", "digest"}
          /\ \/ /\ fires' = fires \cup req[s].fires
                /\ history' = [history EXCEPT !.streak = req[s].streak,
                                              !.failing = req[s].failing]
             \/ UNCHANGED fires /\ history' = WithoutRows(req[s], history)
      <3>1. req'[s].step \in {"idle", "digest"}
        <4>1. req'[s] = Idle \/ req'[s].step = "digest"
          BY <1>6, CommitFiresFacts
        <4>2. QED
          BY <4>1 DEF Idle
      <3>2. QED
        BY <1>6, <3>1, CommitFiresFacts
    <2>2. Promised(req[s])'
      BY <2>1 DEF Promised
    <2>3. CASE UNCHANGED fires /\ history' = WithoutRows(req[s], history)
      <3>1. history'.excused = history.excused \cup req[s].found
        BY <2>1, <2>3, WithoutRowsKeeps DEF TypeOK
      <3>2. QED
        BY <2>1, <2>2, <2>3, <3>1, AttemptStep
    <2>4. CASE /\ fires' = fires \cup req[s].fires
               /\ history' = [history EXCEPT !.streak = req[s].streak,
                                             !.failing = req[s].failing]
      <3>1. history'.excused = history.excused
        BY <2>4 DEF TypeOK, Histories
      <3>2. \A a \in req[s].found \ history.excused : \E f \in req[s].fires : f.alert = a
        BY <2>1 DEF AttemptInv, Promised, Step
      <3>3. QED
        BY <2>1, <2>2, <2>4, <3>1, <3>2, AttemptStep
    <2>5. QED
      BY <2>1, <2>3, <2>4
  <1>7. CASE Digest(s)
    <2>1. /\ Step(s, "digest") /\ Elsewhere(s) /\ UNCHANGED <<alerts, fires>>
          /\ req'[s].step \in {"idle", "stamp"}
          /\ history'.excused = history.excused
      BY <1>7, DigestFacts DEF stored, Idle, TypeOK, Histories
    <2>2. QED
      BY <2>1, AttemptStep DEF Promised, Step
  <1>8. CASE StampDigest(s)
    <2>1. /\ Step(s, "stamp") /\ Elsewhere(s) /\ UNCHANGED <<alerts, fires, history>>
          /\ req'[s].step = "idle"
      BY <1>8, StampFacts DEF Idle
    <2>2. QED
      BY <2>1, AttemptStep DEF Promised, Step
  <1>9. CASE Crash(s)
    <2>1. /\ Elsewhere(s) /\ UNCHANGED <<alerts, fires>> /\ req'[s] = Idle
          /\ history.excused \subseteq history'.excused
          /\ ~Step(s, "persist") => req[s].found \subseteq history'.excused
      BY <1>9, CrashFacts DEF stored
    <2>2. QED
      BY <2>1, AttemptStep DEF Promised, Step, Idle
  <1>10. QED
    BY <1>1, <1>2, <1>3, <1>4, <1>5, <1>6, <1>7, <1>8, <1>9 DEF Request

LEMMA AttemptInit == ASSUME Init PROVE AttemptInv
  BY DEF Init, AttemptInv, Promised, Idle

LEMMA AttemptNext == ASSUME TypeOK, AttemptInv, [Next]_vars PROVE AttemptInv'
  <1>1. ASSUME NEW s \in Slots, Request(s) PROVE AttemptInv'
    BY <1>1, AttemptRequest
  <1>2. ASSUME ~ \E s \in Slots : Request(s) PROVE AttemptInv'
    <2>1. UNCHANGED <<req, alerts, fires>> /\ history'.excused = history.excused
      BY <1>2, EditFacts DEF Next
    <2>2. QED
      BY <2>1 DEF AttemptInv, Carried, Promised
  <1>3. QED
    BY <1>1, <1>2

(* Whatever overlaps, dies or is edited, a stored alert has a row of an    *)
(* attempt, is carried by a request, or is one no push was due for: it had *)
(* no destination, was found by hand, or its request died.                 *)
THEOREM NothingDropped == Spec => []AlertsAreAttempted
  <1>1. Init => TypeOK /\ AttemptInv
    BY InitType, AttemptInit
  <1>2. TypeOK /\ AttemptInv /\ [Next]_vars => (TypeOK /\ AttemptInv)'
    BY NextType, StutterType, AttemptNext
  <1>3. AttemptInv => AlertsAreAttempted
    BY DEF AttemptInv, Carried, AlertsAreAttempted, Step
  <1>4. QED
    BY <1>1, <1>2, <1>3, PTL DEF Spec

-----------------------------------------------------------------------------
(* Digests are a day apart. *)

(* A digest is no later than the request under way, and stamped, or about  *)
(* to be, unless its stamp was lost.                                       *)
DigestInv ==
  /\ DigestsApart
  /\ \A x \in history.digests :
       /\ x <= now
       /\ \A s \in Slots : ~Step(s, "idle") => x <= req[s].at
       /\ \/ history.lostStamp
          \/ digestAt # None /\ x <= digestAt
          \/ \E s \in Slots : Step(s, "stamp")
  /\ \A s \in Slots : ~Step(s, "idle") => req[s].at <= now

LEMMA TimesAreNumbers ==
  ASSUME TypeOK
  PROVE  /\ now \in Nat /\ history.digests \subseteq Nat
         /\ digestAt # None => digestAt \in Nat
         /\ \A s \in Slots : ~Step(s, "idle") => req[s].at \in Nat
         /\ \A f \in fires : f.at \in Nat
         /\ DayLength \in Nat
  BY UnderWayFacts, AlertsAssumption DEF TypeOK, Histories, Times, UnderWay, FireRows

(* A step that mails and stamps nothing has only its time to account for.  *)
LEMMA DigestQuiet ==
  ASSUME TypeOK, DigestInv, NEW s \in Slots, Elsewhere(s), UNCHANGED <<now, digestAt>>,
         history'.digests = history.digests,
         history'.lostStamp <=> history.lostStamp \/ Step(s, "stamp"),
         \/ req'[s].step = "idle"
         \/ req'[s].at = now
         \/ ~Step(s, "idle") /\ req'[s].at = req[s].at
  PROVE  DigestInv'
  <1>1. DigestsApart'
    BY DEF DigestInv, DigestsApart
  <1>2. \A t \in Slots : ~Step(t, "idle")' =>
          req'[t].at <= now /\ \A x \in history.digests : x <= req'[t].at
    <2>1. now \in Nat
      BY TimesAreNumbers
    <2>2. QED
      BY <2>1 DEF DigestInv, Elsewhere, Step
  <1>3. ASSUME NEW x \in history.digests
        PROVE  history'.lostStamp \/ (digestAt # None /\ x <= digestAt)
                 \/ \E t \in Slots : Step(t, "stamp")'
    BY DEF DigestInv, Elsewhere, Step
  <1>4. QED
    BY <1>1, <1>2, <1>3 DEF DigestInv

LEMMA DigestMailed ==
  ASSUME TypeOK, DigestInv, Alone, NEW s \in Slots, Digest(s)
  PROVE  DigestInv'
  <1> DEFINE r == req[s]
  <1>1. /\ r \in UnderWay /\ Step(s, "digest") /\ Elsewhere(s)
        /\ UNCHANGED <<now, stored>>
    BY DigestFacts
  <1>2. CASE req'[s] = Idle /\ UNCHANGED history
    BY <1>1, <1>2, DigestQuiet DEF stored, Idle, Step
  <1>3. CASE /\ Due(r.at)
             /\ req'[s].step = "stamp" /\ req'[s].at = r.at
             /\ history' = [history EXCEPT !.digests = @ \cup {r.at}]
    <2>1. /\ history'.digests = history.digests \cup {r.at}
          /\ history'.lostStamp = history.lostStamp
      BY <1>3 DEF TypeOK, Histories
    <2>2. \A t \in Slots \ {s} : Step(t, "idle") /\ Step(t, "idle")'
      BY <1>1 DEF Alone, Elsewhere, Step
    <2>3. ~ \E t \in Slots : Step(t, "stamp")
      BY <1>1, <2>2 DEF Step
    <2>4. \A x \in history.digests : x <= r.at
      BY <1>1 DEF DigestInv, Step
    <2>5. ASSUME NEW x \in history.digests, ~history.lostStamp PROVE r.at - x >= DayLength
      <3>1. digestAt # None /\ x <= digestAt
        BY <2>3, <2>5 DEF DigestInv
      <3>2. r.at - digestAt >= DayLength
        BY <1>3, <3>1 DEF Due
      <3>3. x \in Nat /\ digestAt \in Nat /\ r.at \in Nat /\ DayLength \in Nat
        BY <1>1, <3>1, TimesAreNumbers DEF Step
      <3>4. QED
        BY <3>1, <3>2, <3>3
    <2>6. DigestsApart'
      <3>1. SUFFICES ASSUME NEW x \in history'.digests, NEW y \in history'.digests,
                            x < y, ~history.lostStamp
                     PROVE  y - x >= DayLength
        BY <2>1 DEF DigestsApart
      <3>2. CASE y = r.at
        <4>1. x # r.at
          BY <3>1, <3>2, <1>1, TimesAreNumbers DEF Step
        <4>2. QED
          BY <3>1, <3>2, <2>1, <2>5, <4>1
      <3>3. CASE y # r.at
        <4>1. y \in history.digests /\ y <= r.at /\ y \in Nat /\ r.at \in Nat
          BY <3>3, <1>1, <2>1, <2>4, TimesAreNumbers DEF Step
        <4>2. x \in history.digests
          BY <3>1, <4>1, <2>1
        <4>3. QED
          BY <3>1, <4>1, <4>2 DEF DigestInv, DigestsApart
      <3>4. QED
        BY <3>2, <3>3
    <2>7. \A t \in Slots : ~Step(t, "idle")' =>
            req'[t].at <= now /\ \A x \in history'.digests : x <= req'[t].at
      BY <1>1, <1>3, <2>1, <2>2, <2>4, TimesAreNumbers DEF DigestInv, Step
    <2>8. Step(s, "stamp")'
      BY <1>3 DEF Step
    <2>9. \A x \in history'.digests : x <= now
      BY <1>1, <2>1 DEF DigestInv, Step
    <2>10. QED
      BY <1>1, <2>6, <2>7, <2>8, <2>9 DEF DigestInv
  <1>4. QED
    BY <1>2, <1>3, DigestFacts

LEMMA DigestStamped ==
  ASSUME TypeOK, DigestInv, NEW s \in Slots, StampDigest(s)
  PROVE  DigestInv'
  <1>1. /\ req[s] \in UnderWay /\ Step(s, "stamp") /\ Elsewhere(s)
        /\ req'[s].step = "idle" /\ digestAt' = req[s].at /\ UNCHANGED <<now, history>>
    BY StampFacts DEF Idle
  <1>2. digestAt' # None
    BY <1>1, AlertsAssumption DEF UnderWay, Times
  <1>3. \A x \in history.digests : x <= digestAt'
    BY <1>1 DEF DigestInv, Step
  <1>4. DigestsApart'
    BY <1>1 DEF DigestInv, DigestsApart
  <1>5. \A t \in Slots : ~Step(t, "idle")' =>
          req'[t].at <= now /\ \A x \in history.digests : x <= req'[t].at
    BY <1>1 DEF DigestInv, Elsewhere, Step
  <1>6. QED
    BY <1>1, <1>2, <1>3, <1>4, <1>5 DEF DigestInv

LEMMA DigestRequest ==
  ASSUME TypeOK, DigestInv, Alone, NEW s \in Slots, Request(s)
  PROVE  DigestInv'
  <1> DEFINE Quiet ==
        /\ Elsewhere(s) /\ UNCHANGED <<now, digestAt>>
        /\ history'.digests = history.digests
        /\ history'.lostStamp <=> history.lostStamp \/ Step(s, "stamp")
        /\ \/ req'[s].step = "idle"
           \/ req'[s].at = now
           \/ ~Step(s, "idle") /\ req'[s].at = req[s].at
  <1>1. CASE \E kind \in Kinds : Evaluate(s, kind)
    <2>1. Quiet
      BY <1>1, EvaluateFacts DEF stored, TypeOK, Histories, Step
    <2>2. QED
      BY <2>1, DigestQuiet
  <1>2. CASE CommitAlerts(s)
    <2>1. Quiet
      BY <1>2, CommitAlertsFacts DEF TypeOK, Histories, Step, Idle
    <2>2. QED
      BY <2>1, DigestQuiet
  <1>3. CASE Resolve(s)
    <2>1. Quiet
      BY <1>3, ResolveFacts DEF stored, TypeOK, Histories, Step
    <2>2. QED
      BY <2>1, DigestQuiet
  <1>4. ASSUME NEW bucket \in Buckets, Skip(s, bucket) \/ Deliver(s, bucket) \/ Fail(s, bucket)
        PROVE  DigestInv'
    <2>1. /\ \E status : Handles(s, bucket, status)
          /\ history'.digests = history.digests /\ history'.lostStamp = history.lostStamp
      BY <1>4, SkipFacts, DeliverFacts, FailFacts DEF TypeOK, Histories
    <2>2. Quiet
      BY <2>1 DEF Handles, stored, Step
    <2>3. QED
      BY <2>2, DigestQuiet
  <1>5. CASE CommitFires(s)
    <2>a. req[s] \in UnderWay
      BY <1>5, CommitFiresFacts
    <2>1. req[s] \in UnderWay /\ history \in Histories
      BY <2>a DEF TypeOK
    <2>2. /\ history'.digests = history.digests
          /\ history'.lostStamp <=> history.lostStamp
      <3>1. CASE history' = WithoutRows(req[s], history)
        BY <3>1, <2>1, WithoutRowsKeeps
      <3>2. CASE history' = [history EXCEPT !.streak = req[s].streak,
                                            !.failing = req[s].failing]
        BY <3>2, <2>1 DEF Histories
      <3>3. QED
        BY <1>5, <3>1, <3>2, CommitFiresFacts
    <2>b. Step(s, "send") /\ Elsewhere(s) /\ UNCHANGED <<now, digestAt>>
      BY <1>5, CommitFiresFacts
    <2>c. req'[s] = Idle \/ req'[s].at = req[s].at
      BY <1>5, CommitFiresFacts
    <2>3. /\ Step(s, "send") /\ Elsewhere(s) /\ UNCHANGED <<now, digestAt>>
          /\ req'[s].step = "idle" \/ req'[s].at = req[s].at
      BY <2>b, <2>c DEF Idle
    <2>4. ~Step(s, "idle") /\ ~Step(s, "stamp")
      BY <2>3 DEF Step
    <2>5. history'.lostStamp <=> history.lostStamp \/ Step(s, "stamp")
      BY <2>2, <2>4
    <2>6. Quiet
      BY <2>2, <2>3, <2>4, <2>5
    <2>7. QED
      BY <2>6, DigestQuiet
  <1>6. CASE Crash(s)
    <2>1. Quiet
      BY <1>6, CrashFacts DEF stored, Idle
    <2>2. QED
      BY <2>1, DigestQuiet
  <1>7. QED
    BY <1>1, <1>2, <1>3, <1>4, <1>5, <1>6, DigestMailed, DigestStamped DEF Request

LEMMA DigestInit == ASSUME Init PROVE DigestInv
  BY DEF Init, DigestInv, DigestsApart, Step, Idle

LEMMA DigestNext ==
  ASSUME TypeOK, Alone, DigestInv, [Next]_vars PROVE DigestInv'
  <1>1. ASSUME NEW s \in Slots, Request(s) PROVE DigestInv'
    BY <1>1, DigestRequest
  <1>2. ASSUME ~ \E s \in Slots : Request(s) PROVE DigestInv'
    <2>1. /\ UNCHANGED <<req, digestAt>> /\ history'.digests = history.digests
          /\ history'.lostStamp <=> history.lostStamp
          /\ now' >= now /\ now' \in Nat
      BY <1>2, EditFacts, TimePasses DEF Next
    <2>2. DigestsApart'
      BY <2>1 DEF DigestInv, DigestsApart
    <2>3. /\ \A x \in history.digests : x <= now'
          /\ \A s \in Slots : ~Step(s, "idle") => req[s].at <= now'
      BY <2>1, TimesAreNumbers DEF DigestInv
    <2>4. QED
      BY <2>1, <2>2, <2>3 DEF DigestInv, Step
  <1>3. QED
    BY <1>1, <1>2

(* While requests do not overlap, two digests are a day apart, unless the  *)
(* process died between the mail and the stamp of the first.               *)
THEOREM DigestsKeepApart == ASSUME ~Overlap PROVE Spec => []DigestsApart
  <1>1. Init => TypeOK /\ PushInv /\ DigestInv
    BY InitType, PushInit, DigestInit
  <1>2. TypeOK /\ PushInv /\ DigestInv /\ [Next]_vars => (TypeOK /\ PushInv /\ DigestInv)'
    BY NextType, StutterType, PushStep, DigestNext DEF PushInv
  <1>3. DigestInv => DigestsApart
    BY DEF DigestInv
  <1>4. QED
    BY <1>1, <1>2, <1>3, PTL DEF Spec

-----------------------------------------------------------------------------
(* Pauses follow failures. *)

Failed(known, d) == {f \in known : f.dest = d /\ f.status = "failed"}
Delivered(known, d) == {f \in known : f.dest = d /\ f.status = "delivered"}

(* The streak of a destination, which follows the order of the attempts,   *)
(* and the count by times agree but for ties: no row of it is earlier than *)
(* a delivery, and a failed row that is not in it is no later than one.    *)
Streaks(known, streak) ==
  \A d \in Dests :
    /\ streak[d] \subseteq Failed(known, d)
    /\ \A f \in streak[d] : \A g \in Delivered(known, d) : g.at <= f.at
    /\ \A f \in Failed(known, d) \ streak[d] : \E g \in Delivered(known, d) : f.at <= g.at

Tied(known, d) == \E f \in Failed(known, d), g \in Delivered(known, d) : f.at = g.at

Reached(streak, d) == Cardinality(streak[d]) >= PauseThreshold

(* A dispatch pauses only where its failures have reached the threshold,   *)
(* and wherever they have, or a tie hides it.                              *)
Sending(r) ==
  /\ Streaks(fires \cup r.fires, r.streak)
  /\ history.failing \subseteq r.failing /\ r.paused \subseteq r.failing
  /\ \A d \in active \ history.edited :
       Reached(r.streak, d) => d \in r.paused \/ Tied(fires \cup r.fires, d)

InTime(r) ==
  r.step # "idle" => r.at <= now /\ \A f \in fires \cup r.fires : f.at <= r.at

PauseInv ==
  /\ \A d \in dests \ history.edited :
       /\ d \notin active => d \in history.failing
       /\ d \in active /\ Reached(history.streak, d) => Tied(fires, d)
  /\ Streaks(fires, history.streak)
  /\ \A f \in fires : f.at <= now
  /\ \A s \in Slots :
       /\ InTime(req[s])
       /\ req[s].step \in {"persist", "resolve"} => req[s].fires = {} /\ req[s].paused = {}
       /\ req[s].step = "send" => Sending(req[s])

LEMMA PauseInvImplies == ASSUME PauseInv PROVE PausesFollowFailures
  BY DEF PauseInv, PausesFollowFailures, Reached, Tied, Failed, Delivered

(* There are finitely many rows. *)
LEMMA RowsFinite == IsFiniteSet(FireRows)
  <1> DEFINE statuses == {"delivered", "failed", "skipped_cooldown"}
             keys == (Rules \X Subjects) \X Times
             alert == [k \in keys |-> [rule |-> k[1][1], subject |-> k[1][2], day |-> k[2]]]
             cells == (AlertRows \X Dests) \X (Times \X statuses)
             fire == [c \in cells |-> [alert |-> c[1][1], dest |-> c[1][2], at |-> c[2][1],
                                       status |-> c[2][2]]]
  <1>1. IsFiniteSet(Times)
    BY FS_Interval, AlertsAssumption DEF Times
  <1>2. IsFiniteSet(statuses)
    <2>1. IsFiniteSet({"delivered"}) /\ IsFiniteSet({"failed"})
          /\ IsFiniteSet({"skipped_cooldown"})
      BY FS_Singleton
    <2>2. statuses = {"delivered"} \cup ({"failed"} \cup {"skipped_cooldown"})
      OBVIOUS
    <2>3. IsFiniteSet({"failed"} \cup {"skipped_cooldown"})
      BY <2>1, FS_Union
    <2>4. IsFiniteSet({"delivered"} \cup ({"failed"} \cup {"skipped_cooldown"}))
      BY <2>1, <2>3, FS_Union
    <2>5. QED
      BY <2>2, <2>4
  <1>3. IsFiniteSet(keys)
    <2>1. IsFiniteSet(Rules \X Subjects)
      BY FS_Product, AlertsAssumption
    <2>2. QED
      BY <1>1, <2>1, FS_Product
  <1>4. alert \in Surjection(keys, AlertRows)
    <2>1. alert \in [keys -> AlertRows]
      BY DEF AlertRows
    <2>2. ASSUME NEW a \in AlertRows PROVE \E k \in keys : alert[k] = a
      <3>1. <<<<a.rule, a.subject>>, a.day>> \in keys
        BY DEF AlertRows
      <3>2. alert[<<<<a.rule, a.subject>>, a.day>>] = a
        BY <3>1 DEF AlertRows
      <3>3. QED
        BY <3>1, <3>2
    <2> HIDE DEF alert, keys
    <2>3. QED
      BY <2>1, <2>2, Fun_IsSurj
  <1>5. IsFiniteSet(AlertRows)
    BY <1>3, <1>4, FS_Surjection
  <1>6. IsFiniteSet(cells)
    <2>1. IsFiniteSet(AlertRows \X Dests) /\ IsFiniteSet(Times \X statuses)
      BY <1>1, <1>2, <1>5, FS_Product, AlertsAssumption
    <2>2. QED
      BY <2>1, FS_Product
  <1>7. fire \in Surjection(cells, FireRows)
    <2>1. fire \in [cells -> FireRows]
      BY DEF FireRows
    <2>2. ASSUME NEW f \in FireRows PROVE \E c \in cells : fire[c] = f
      <3>1. <<<<f.alert, f.dest>>, <<f.at, f.status>>>> \in cells
        BY DEF FireRows
      <3>2. fire[<<<<f.alert, f.dest>>, <<f.at, f.status>>>>] = f
        BY <3>1 DEF FireRows
      <3>3. QED
        BY <3>1, <3>2
    <2> HIDE DEF fire, cells
    <2>3. QED
      BY <2>1, <2>2, Fun_IsSurj
  <1>8. QED
    BY <1>6, <1>7, FS_Surjection

(* The rows of a bucket, and what they add to those of a destination. *)
OneBucket(rows, to, at, status) ==
  \A f \in rows : f.dest = to /\ f.at = at /\ f.status = status

LEMMA BucketRows ==
  ASSUME NEW r, NEW bucket, NEW status
  PROVE  OneBucket(RowsFor(r, bucket, status), bucket.dest, r.at, status)
  BY DEF OneBucket, RowsFor

LEMMA TiedGrows ==
  ASSUME NEW known, NEW more, NEW d, known \subseteq more, Tied(known, d)
  PROVE  Tied(more, d)
  BY DEF Tied, Failed, Delivered

LEMMA ConsecutiveFacts ==
  ASSUME NEW known, NEW d
  PROVE  Consecutive(known, d) =
           {f \in Failed(known, d) : \A g \in Delivered(known, d) : f.at > g.at}
  BY DEF Consecutive, Failed, Delivered

(* A skipped bucket tells neither of a failure nor of a delivery. *)
LEMMA SkipStreaks ==
  ASSUME NEW rows, NEW to, NEW at, OneBucket(rows, to, at, "skipped_cooldown"),
         NEW known, NEW streak, Streaks(known, streak)
  PROVE  Streaks(known \cup rows, streak)
  <1>1. \A d : /\ Failed(known \cup rows, d) = Failed(known, d)
              /\ Delivered(known \cup rows, d) = Delivered(known, d)
    BY DEF Failed, Delivered, OneBucket
  <1>2. QED
    BY <1>1 DEF Streaks

(* A delivery ends the streak: no failed row is later.                     *)
LEMMA DeliverStreaks ==
  ASSUME NEW rows, NEW to, NEW at, rows # {}, OneBucket(rows, to, at, "delivered"),
         NEW known, NEW streak \in [Dests -> SUBSET FireRows],
         Streaks(known, streak), \A f \in known : f.at <= at
  PROVE  Streaks(known \cup rows, [streak EXCEPT ![to] = {}])
  <1> DEFINE more == known \cup rows
             next == [streak EXCEPT ![to] = {}]
  <1>1. ASSUME NEW d \in Dests
        PROVE  /\ next[d] \subseteq Failed(more, d)
               /\ \A f \in next[d] : \A g \in Delivered(more, d) : g.at <= f.at
               /\ \A f \in Failed(more, d) \ next[d] : \E g \in Delivered(more, d) : f.at <= g.at
    <2>1. Failed(more, d) = Failed(known, d)
      BY DEF Failed, OneBucket
    <2>2. CASE d = to
      <3>1. next[d] = {} /\ rows \subseteq Delivered(more, d)
        BY <2>2 DEF Delivered, OneBucket
      <3>2. \A f \in Failed(known, d) : f.at <= at
        BY DEF Failed
      <3>3. PICK g \in rows : g.at = at
        BY DEF OneBucket
      <3>4. QED
        BY <2>1, <3>1, <3>2, <3>3
    <2>3. CASE d # to
      <3>1. next[d] = streak[d] /\ Delivered(more, d) = Delivered(known, d)
        BY <2>3 DEF Delivered, OneBucket
      <3>2. QED
        BY <2>1, <3>1 DEF Streaks
    <2>4. QED
      BY <2>2, <2>3
  <1>2. QED
    BY <1>1 DEF Streaks

(* A failure lengthens it. *)
LEMMA FailStreaks ==
  ASSUME NEW rows, NEW to, NEW at, OneBucket(rows, to, at, "failed"),
         NEW known, NEW streak \in [Dests -> SUBSET FireRows],
         Streaks(known, streak), \A f \in known : f.at <= at
  PROVE  Streaks(known \cup rows, [streak EXCEPT ![to] = streak[to] \cup rows])
  <1> DEFINE more == known \cup rows
             next == [streak EXCEPT ![to] = streak[to] \cup rows]
  <1>1. ASSUME NEW d \in Dests
        PROVE  /\ next[d] \subseteq Failed(more, d)
               /\ \A f \in next[d] : \A g \in Delivered(more, d) : g.at <= f.at
               /\ \A f \in Failed(more, d) \ next[d] : \E g \in Delivered(more, d) : f.at <= g.at
    <2>1. Delivered(more, d) = Delivered(known, d)
      BY DEF Delivered, OneBucket
    <2>2. CASE d = to
      <3>1. next[d] = streak[d] \cup rows /\ Failed(more, d) = Failed(known, d) \cup rows
        BY <2>2 DEF Failed, OneBucket
      <3>2. \A g \in Delivered(known, d) : g.at <= at
        BY DEF Delivered
      <3>3. \A f \in rows : f.at = at
        BY DEF OneBucket
      <3>4. /\ streak[d] \subseteq Failed(known, d)
            /\ \A f \in streak[d] : \A g \in Delivered(known, d) : g.at <= f.at
            /\ \A f \in Failed(known, d) \ streak[d] :
                  \E g \in Delivered(known, d) : f.at <= g.at
        BY DEF Streaks
      <3> HIDE DEF next, more
      <3>5. next[d] \subseteq Failed(more, d)
        BY <3>1, <3>4
      <3>6. \A f \in next[d] : \A g \in Delivered(known, d) : g.at <= f.at
        BY <3>1, <3>2, <3>3, <3>4
      <3>7. Failed(more, d) \ next[d] \subseteq Failed(known, d) \ streak[d]
        BY <3>1
      <3>8. QED
        BY <2>1, <3>4, <3>5, <3>6, <3>7
    <2>3. CASE d # to
      <3>1. next[d] = streak[d] /\ Failed(more, d) = Failed(known, d)
        BY <2>3 DEF Failed, OneBucket
      <3>2. QED
        BY <2>1, <3>1 DEF Streaks
    <2>4. QED
      BY <2>2, <2>3
  <1>2. QED
    BY <1>1 DEF Streaks

(* The count by times finds no more than the streak, and where it finds    *)
(* less a failure and a delivery have one time.                            *)
LEMMA CountsAgree ==
  ASSUME NEW known \in SUBSET FireRows, NEW streak, NEW d \in Dests, Streaks(known, streak)
  PROVE  /\ Cardinality(Consecutive(known, d)) >= PauseThreshold => Reached(streak, d)
         /\ \/ Cardinality(Consecutive(known, d)) = Cardinality(streak[d])
            \/ Tied(known, d)
  <1> DEFINE count == Consecutive(known, d)
  <1>1. \A f \in known : f.at \in Nat
    BY DEF FireRows, Times
  <1>2. count \subseteq streak[d]
    <2>1. SUFFICES ASSUME NEW f \in count, f \notin streak[d] PROVE FALSE
      OBVIOUS
    <2>2. f \in Failed(known, d) /\ \A g \in Delivered(known, d) : f.at > g.at
      BY <2>1, ConsecutiveFacts
    <2>3. PICK g \in Delivered(known, d) : f.at <= g.at
      BY <2>1, <2>2 DEF Streaks
    <2>4. f.at \in Nat /\ g.at \in Nat /\ f.at > g.at
      BY <1>1, <2>2, <2>3 DEF Failed, Delivered
    <2>5. QED
      BY <2>3, <2>4
  <1>3. IsFiniteSet(streak[d])
    <2>1. streak[d] \in SUBSET FireRows
      BY DEF Streaks, Failed
    <2>2. QED
      BY <2>1, RowsFinite, FS_Subset
  <1>4. IsFiniteSet(count) /\ Cardinality(count) <= Cardinality(streak[d])
    BY <1>2, <1>3, FS_Subset
  <1>5. Cardinality(count) \in Nat /\ Cardinality(streak[d]) \in Nat
    BY <1>3, <1>4, FS_CardinalityType
  <1>6. ASSUME count # streak[d] PROVE Tied(known, d)
    <2>1. PICK f \in streak[d] : f \notin count
      BY <1>2, <1>6
    <2>2. f \in Failed(known, d)
      BY <2>1 DEF Streaks
    <2>3. PICK g \in Delivered(known, d) : ~(f.at > g.at)
      BY <2>1, <2>2, ConsecutiveFacts
    <2>4. g.at <= f.at
      BY <2>1, <2>3 DEF Streaks
    <2>5. f.at \in Nat /\ g.at \in Nat
      BY <1>1, <2>2, <2>3 DEF Failed, Delivered
    <2>6. f.at = g.at
      BY <2>3, <2>4, <2>5
    <2>7. QED
      BY <2>2, <2>3, <2>6 DEF Tied
  <1>7. QED
    BY <1>4, <1>5, <1>6, AlertsAssumption DEF Reached

(* What a request may leave behind in its slot when nothing stored changes.*)
PauseReady(r) ==
  /\ InTime(r)
  /\ r.step \in {"persist", "resolve"} => r.fires = {} /\ r.paused = {}
  /\ r.step = "send" => Sending(r)

LEMMA PauseQuiet ==
  ASSUME PauseInv, NEW s \in Slots, Elsewhere(s), UNCHANGED <<now, fires, dests, active>>,
         history'.streak = history.streak, history'.failing = history.failing,
         history'.edited = history.edited, PauseReady(req[s])'
  PROVE  PauseInv'
  <1>1. ASSUME NEW t \in Slots PROVE PauseReady(req[t])'
    <2>1. CASE t = s
      BY <2>1
    <2>2. CASE t # s
      <3>1. req'[t] = req[t] /\ PauseReady(req[t])
        BY <2>2 DEF Elsewhere, PauseInv, PauseReady
      <3>2. QED
        BY <3>1 DEF PauseReady, InTime, Sending
    <2>3. QED
      BY <2>1, <2>2
  <1>2. (\A d \in dests \ history.edited :
           /\ d \notin active => d \in history.failing
           /\ d \in active /\ Reached(history.streak, d) => Tied(fires, d))'
    BY DEF PauseInv
  <1>3. (Streaks(fires, history.streak) /\ \A f \in fires : f.at <= now)'
    BY DEF PauseInv
  <1>4. QED
    BY <1>1, <1>2, <1>3 DEF PauseInv, PauseReady

(* A request that is done. *)
LEMMA PauseDone ==
  ASSUME NEW s \in Slots, req'[s].step = "idle" PROVE PauseReady(req[s])'
  BY DEF PauseReady, InTime

LEMMA PauseBegins ==
  ASSUME TypeOK, PauseInv, NEW s \in Slots, NEW kind \in Kinds, Evaluate(s, kind)
  PROVE  PauseInv'
  <1>1. /\ Elsewhere(s) /\ UNCHANGED <<now, stored>>
        /\ req'[s].step = "persist" /\ req'[s].at = now
        /\ req'[s].fires = {} /\ req'[s].paused = {}
    BY EvaluateFacts
  <1>2. /\ history'.streak = history.streak /\ history'.failing = history.failing
        /\ history'.edited = history.edited
    BY EvaluateFacts DEF TypeOK, Histories
  <1>3. InTime(req[s])'
    BY <1>1, TimesAreNumbers DEF InTime, PauseInv, stored
  <1>4. PauseReady(req[s])'
    BY <1>1, <1>3 DEF PauseReady
  <1>5. QED
    BY <1>1, <1>2, <1>4, PauseQuiet DEF stored

LEMMA PauseCommitAlerts ==
  ASSUME TypeOK, PauseInv, NEW s \in Slots, CommitAlerts(s)
  PROVE  PauseInv'
  <1>1. /\ Step(s, "persist") /\ Elsewhere(s)
        /\ UNCHANGED <<now, fires, dests, active>>
        /\ \/ /\ req'[s].step = "resolve" /\ req'[s].at = req[s].at
              /\ req'[s].fires = req[s].fires /\ req'[s].paused = req[s].paused
           \/ req'[s] = Idle
    BY CommitAlertsFacts
  <1>2. /\ history'.streak = history.streak /\ history'.failing = history.failing
        /\ history'.edited = history.edited
    BY CommitAlertsFacts DEF TypeOK, Histories
  <1>3. PauseReady(req[s])'
    <2>1. CASE req'[s] = Idle
      BY <2>1, PauseDone DEF Idle
    <2>2. CASE /\ req'[s].step = "resolve" /\ req'[s].at = req[s].at
               /\ req'[s].fires = req[s].fires /\ req'[s].paused = req[s].paused
      <3>1. req[s].step = "persist" /\ PauseReady(req[s])
        BY <1>1 DEF PauseInv, PauseReady, Step
      <3>2. QED
        BY <1>1, <2>2, <3>1 DEF PauseReady, InTime
    <2>3. QED
      BY <1>1, <2>1, <2>2
  <1>4. QED
    BY <1>1, <1>2, <1>3, PauseQuiet

LEMMA PauseResolve ==
  ASSUME TypeOK, PauseInv, NEW s \in Slots, Resolve(s)
  PROVE  PauseInv'
  <1>1. /\ Step(s, "resolve") /\ Elsewhere(s) /\ UNCHANGED <<now, stored>>
        /\ req'[s].step = "send" /\ req'[s].at \in {now, req[s].at}
        /\ req'[s].fires = req[s].fires /\ req'[s].paused = req[s].paused
        /\ req'[s].streak = history.streak /\ req'[s].failing = history.failing
    BY ResolveFacts
  <1>2. /\ history'.streak = history.streak /\ history'.failing = history.failing
        /\ history'.edited = history.edited
    BY ResolveFacts DEF TypeOK, Histories
  <1>3. req[s].step = "resolve" /\ PauseReady(req[s])
    BY <1>1 DEF PauseInv, PauseReady, Step
  <1>4. req'[s].fires = {} /\ req'[s].paused = {}
    BY <1>1, <1>3 DEF PauseReady
  <1>5. InTime(req[s])'
    <2>1. now \in Nat
      BY TimesAreNumbers
    <2>2. \A f \in fires : f.at <= now /\ f.at <= req[s].at
      BY <1>3 DEF PauseReady, InTime, PauseInv
    <2>3. req[s].at <= now
      BY <1>3 DEF PauseReady, InTime
    <2>4. QED
      BY <1>1, <1>4, <2>1, <2>2, <2>3 DEF InTime, stored
  <1>6. active \subseteq dests
    BY DEF TypeOK
  <1>7. Sending(req[s])'
    <2>1. fires' \cup req'[s].fires = fires
      BY <1>1, <1>4 DEF stored
    <2>2. Streaks(fires, history.streak)
      BY DEF PauseInv
    <2>3. \A d \in active \ history.edited : Reached(history.streak, d) => Tied(fires, d)
      BY <1>6 DEF PauseInv
    <2>4. QED
      BY <1>1, <1>2, <1>4, <2>1, <2>2, <2>3 DEF Sending, stored
  <1>8. PauseReady(req[s])'
    BY <1>1, <1>5, <1>7 DEF PauseReady
  <1>9. QED
    BY <1>1, <1>2, <1>8, PauseQuiet DEF stored

(* The three ways of a bucket: what is left to show is that the request is *)
(* ready to send on.                                                       *)
LEMMA PauseHandles ==
  ASSUME TypeOK, PauseInv, NEW s \in Slots, NEW bucket, NEW status, Handles(s, bucket, status),
         history'.streak = history.streak, history'.failing = history.failing,
         history'.edited = history.edited,
         Sending(req[s])'
  PROVE  PauseInv'
  <1>1. /\ Step(s, "send") /\ Elsewhere(s) /\ UNCHANGED <<now, fires, dests, active>>
        /\ req'[s].step = "send" /\ req'[s].at = req[s].at
        /\ req'[s].fires = req[s].fires \cup RowsFor(req[s], bucket, status)
    BY DEF Handles, stored
  <1>2. req[s].step = "send" /\ InTime(req[s])
    BY <1>1 DEF PauseInv, Step
  <1>3. \A f \in RowsFor(req[s], bucket, status) : f.at = req[s].at
    BY DEF RowsFor
  <1>4. req[s].at \in Nat
    BY <1>2, TimesAreNumbers DEF Step
  <1>5. InTime(req[s])'
    BY <1>1, <1>2, <1>3, <1>4 DEF InTime
  <1>6. PauseReady(req[s])'
    BY <1>1, <1>5 DEF PauseReady
  <1>7. QED
    BY <1>1, <1>6, PauseQuiet

(* What is known of a request that sends: the rows it knows and their      *)
(* streaks are of the types the lemmas above ask for.                      *)
LEMMA SendingFacts ==
  ASSUME TypeOK, PauseInv, NEW s \in Slots, req[s] \in UnderWay, Step(s, "send")
  PROVE  /\ Sending(req[s]) /\ InTime(req[s])
         /\ fires \cup req[s].fires \in SUBSET FireRows
         /\ req[s].streak \in [Dests -> SUBSET FireRows]
         /\ \A f \in fires \cup req[s].fires : f.at <= req[s].at
         /\ active \subseteq Dests
  <1>1. req[s].step = "send"
    BY DEF Step
  <1>2. Sending(req[s]) /\ InTime(req[s])
    BY <1>1 DEF PauseInv
  <1>3. fires \subseteq FireRows /\ active \subseteq Dests
    BY DEF TypeOK
  <1>4. req[s].fires \in SUBSET FireRows /\ req[s].streak \in [Dests -> SUBSET FireRows]
    BY DEF UnderWay
  <1>5. \A f \in fires \cup req[s].fires : f.at <= req[s].at
    BY <1>1, <1>2 DEF InTime
  <1>6. QED
    BY <1>2, <1>3, <1>4, <1>5

LEMMA PauseSkip ==
  ASSUME TypeOK, PauseInv, NEW s \in Slots, NEW bucket \in Buckets, Skip(s, bucket)
  PROVE  PauseInv'
  <1> DEFINE rows == RowsFor(req[s], bucket, "skipped_cooldown")
             known == fires \cup req[s].fires
  <1>1. /\ Handles(s, bucket, "skipped_cooldown") /\ UNCHANGED history
        /\ req'[s].streak = req[s].streak /\ req'[s].failing = req[s].failing
        /\ req'[s].paused = req[s].paused
    BY SkipFacts
  <1>2. req[s] \in UnderWay /\ Step(s, "send") /\ req'[s].fires = req[s].fires \cup rows
        /\ UNCHANGED <<fires, active>>
    BY <1>1 DEF Handles, stored
  <1>3. Sending(req[s])
    BY <1>2, SendingFacts
  <1>4. OneBucket(rows, bucket.dest, req[s].at, "skipped_cooldown")
    BY BucketRows
  <1>5. fires' \cup req'[s].fires = known \cup rows
    BY <1>2
  <1> HIDE DEF rows, known
  <1>6. Streaks(known, req[s].streak)
    BY <1>3 DEF Sending, known
  <1>7. Streaks(known \cup rows, req[s].streak)
    BY <1>4, <1>6, SkipStreaks
  <1>8. \A d : Tied(known, d) => Tied(known \cup rows, d)
    BY TiedGrows
  <1>9. /\ history.failing \subseteq req[s].failing /\ req[s].paused \subseteq req[s].failing
        /\ \A d \in active \ history.edited :
             Reached(req[s].streak, d) => d \in req[s].paused \/ Tied(known, d)
    BY <1>3 DEF Sending, known
  <1>10. /\ Streaks(fires' \cup req'[s].fires, req'[s].streak)
         /\ history'.failing \subseteq req'[s].failing /\ req'[s].paused \subseteq req'[s].failing
         /\ \A d \in active' \ history'.edited :
              Reached(req'[s].streak, d) =>
                d \in req'[s].paused \/ Tied(fires' \cup req'[s].fires, d)
    BY <1>1, <1>2, <1>5, <1>7, <1>8, <1>9
  <1>11. Sending(req[s])'
    BY <1>10 DEF Sending
  <1>12. QED
    BY <1>1, <1>11, PauseHandles

LEMMA PauseDeliver ==
  ASSUME TypeOK, PushInv, PauseInv, NEW s \in Slots, NEW bucket \in Buckets,
         Deliver(s, bucket)
  PROVE  PauseInv'
  <1> DEFINE rows == RowsFor(req[s], bucket, "delivered")
             known == fires \cup req[s].fires
             next == [req[s].streak EXCEPT ![bucket.dest] = {}]
  <1>1. /\ Handles(s, bucket, "delivered") /\ bucket \in req[s].todo
        /\ req'[s].streak = next
        /\ req'[s].failing = req[s].failing /\ req'[s].paused = req[s].paused
    BY DeliverFacts
  <1>2. /\ history'.streak = history.streak /\ history'.failing = history.failing
        /\ history'.edited = history.edited
    BY DeliverFacts DEF TypeOK, Histories
  <1>3. /\ req[s] \in UnderWay /\ Step(s, "send") /\ req'[s].fires = req[s].fires \cup rows
        /\ UNCHANGED <<fires, active>>
    BY <1>1 DEF Handles, stored
  <1>4. OneBucket(rows, bucket.dest, req[s].at, "delivered")
    BY BucketRows
  <1>5. rows # {}
    <2>1. BucketAlerts(req[s], bucket) # {}
      BY <1>1, <1>3 DEF PushInv, Fresh, TodoFresh, Step
    <2>2. QED
      BY <2>1 DEF RowsFor
  <1>6. fires' \cup req'[s].fires = known \cup rows
    BY <1>3
  <1>7. /\ Sending(req[s]) /\ req[s].streak \in [Dests -> SUBSET FireRows]
        /\ \A f \in known : f.at <= req[s].at
    BY <1>3, SendingFacts
  <1>8. active \subseteq Dests
    BY DEF TypeOK
  <1>9. /\ history.failing \subseteq req[s].failing /\ req[s].paused \subseteq req[s].failing
        /\ \A d \in active \ history.edited :
             Reached(req[s].streak, d) => d \in req[s].paused \/ Tied(known, d)
        /\ Streaks(known, req[s].streak)
    BY <1>7 DEF Sending
  <1> HIDE DEF rows, known
  <1>10. Streaks(known \cup rows, next)
    BY <1>4, <1>5, <1>7, <1>9, DeliverStreaks
  <1>11. \A d : Tied(known, d) => Tied(known \cup rows, d)
    BY TiedGrows
  <1>12. ASSUME NEW d \in Dests, Reached(next, d) PROVE Reached(req[s].streak, d)
    <2>1. d # bucket.dest
      <3>1. SUFFICES ASSUME d = bucket.dest PROVE FALSE
        OBVIOUS
      <3>2. next[d] = {}
        BY <1>7, <3>1
      <3>3. Cardinality(next[d]) = 0
        BY <3>2, FS_EmptySet
      <3>4. QED
        BY <1>12, <3>3, AlertsAssumption DEF Reached
    <2>2. next[d] = req[s].streak[d]
      BY <1>7, <2>1
    <2>3. QED
      BY <1>12, <2>2 DEF Reached
  <1> HIDE DEF next
  <1>13. /\ Streaks(fires' \cup req'[s].fires, req'[s].streak)
         /\ history'.failing \subseteq req'[s].failing /\ req'[s].paused \subseteq req'[s].failing
         /\ \A d \in active' \ history'.edited :
              Reached(req'[s].streak, d) =>
                d \in req'[s].paused \/ Tied(fires' \cup req'[s].fires, d)
    BY <1>1, <1>2, <1>3, <1>6, <1>8, <1>9, <1>10, <1>11, <1>12
  <1>14. Sending(req[s])'
    BY <1>13 DEF Sending
  <1>15. QED
    BY <1>1, <1>2, <1>14, PauseHandles

LEMMA PauseFail ==
  ASSUME TypeOK, PauseInv, NEW s \in Slots, NEW bucket \in Buckets, Fail(s, bucket)
  PROVE  PauseInv'
  <1> DEFINE to == bucket.dest
             rows == RowsFor(req[s], bucket, "failed")
             known == fires \cup req[s].fires
             more == known \cup rows
             next == [req[s].streak EXCEPT ![to] = req[s].streak[to] \cup rows]
             longest == Cardinality(req[s].streak[to] \cup rows) >= PauseThreshold
             counted == Cardinality(Consecutive(more, to)) >= PauseThreshold
  <1>1. /\ Handles(s, bucket, "failed") /\ UNCHANGED history
        /\ req'[s].streak = next
        /\ req'[s].failing = IF longest THEN req[s].failing \cup {to} ELSE req[s].failing
        /\ req'[s].paused = IF counted THEN req[s].paused \cup {to} ELSE req[s].paused
    BY FailFacts
  <1>2. /\ req[s] \in UnderWay /\ Step(s, "send") /\ req'[s].fires = req[s].fires \cup rows
        /\ UNCHANGED <<fires, active>>
    BY <1>1 DEF Handles, stored
  <1>3. OneBucket(rows, to, req[s].at, "failed")
    BY BucketRows
  <1>4. fires' \cup req'[s].fires = more
    BY <1>2
  <1>5. /\ Sending(req[s]) /\ req[s].streak \in [Dests -> SUBSET FireRows]
        /\ \A f \in known : f.at <= req[s].at
        /\ known \in SUBSET FireRows /\ active \subseteq Dests
    BY <1>2, SendingFacts
  <1>6. to \in Dests
    BY DEF Buckets
  <1>7. rows \subseteq FireRows
    <2>1. \A a \in BucketAlerts(req[s], bucket) : a \in AlertRows
      BY <1>2 DEF BucketAlerts, UnderWay
    <2>2. req[s].at \in Times
      BY <1>2 DEF UnderWay
    <2>3. QED
      BY <1>6, <2>1, <2>2 DEF RowsFor, FireRows
  <1>8. /\ history.failing \subseteq req[s].failing /\ req[s].paused \subseteq req[s].failing
        /\ \A d \in active \ history.edited :
             Reached(req[s].streak, d) => d \in req[s].paused \/ Tied(known, d)
        /\ Streaks(known, req[s].streak)
    BY <1>5 DEF Sending
  <1>9. next[to] = req[s].streak[to] \cup rows
    BY <1>5, <1>6
  <1>10. longest <=> Reached(next, to)
    BY <1>9 DEF Reached
  <1> HIDE DEF rows, known, longest
  <1>11. Streaks(more, next)
    BY <1>3, <1>5, <1>8, FailStreaks
  <1>12. \A d : Tied(known, d) => Tied(more, d)
    BY TiedGrows
  <1>13. more \in SUBSET FireRows
    BY <1>5, <1>7
  <1>14. /\ counted => Reached(next, to)
         /\ Cardinality(Consecutive(more, to)) = Cardinality(next[to]) \/ Tied(more, to)
    <2> HIDE DEF next, more, to
    <2>1. QED
      BY <1>6, <1>11, <1>13, CountsAgree
  <1>15. Reached(next, to) => counted \/ Tied(more, to)
    BY <1>14 DEF Reached
  <1>16. ASSUME NEW d \in active \ history.edited, Reached(next, d)
         PROVE  d \in req'[s].paused \/ Tied(more, d)
    <2>1. CASE d = to
      BY <1>1, <1>15, <1>16, <2>1
    <2>2. CASE d # to
      <3>1. next[d] = req[s].streak[d]
        BY <1>5, <2>2
      <3>2. Reached(req[s].streak, d)
        BY <1>16, <3>1 DEF Reached
      <3>3. d \in req[s].paused \/ Tied(known, d)
        BY <1>8, <3>2
      <3>4. QED
        BY <1>1, <1>12, <3>3
    <2>3. QED
      BY <2>1, <2>2
  <1> HIDE DEF next, more, counted
  <1>17. req'[s].paused \subseteq req'[s].failing /\ history.failing \subseteq req'[s].failing
    BY <1>1, <1>8, <1>10, <1>14
  <1>18. /\ Streaks(fires' \cup req'[s].fires, req'[s].streak)
         /\ history'.failing \subseteq req'[s].failing /\ req'[s].paused \subseteq req'[s].failing
         /\ \A d \in active' \ history'.edited :
              Reached(req'[s].streak, d) =>
                d \in req'[s].paused \/ Tied(fires' \cup req'[s].fires, d)
    BY <1>1, <1>2, <1>4, <1>11, <1>16, <1>17
  <1>19. Sending(req[s])'
    BY <1>18 DEF Sending
  <1>20. QED
    BY <1>1, <1>19, PauseHandles

(* The commit takes over what the request knows, which is alone to know    *)
(* it; or nothing.                                                         *)
LEMMA PauseCommitFires ==
  ASSUME TypeOK, Alone, PauseInv, NEW s \in Slots, CommitFires(s)
  PROVE  PauseInv'
  <1>1. /\ req[s] \in UnderWay /\ Step(s, "send") /\ Elsewhere(s)
        /\ UNCHANGED <<now, alerts, bindings, dests, digestAt>>
        /\ \/ req'[s] = Idle
           \/ /\ req'[s].step = "digest" /\ req'[s].at = req[s].at
              /\ req'[s].fires = {}
    BY CommitFiresFacts
  <1>2. /\ Sending(req[s]) /\ InTime(req[s]) /\ req[s].step = "send"
        /\ \A f \in fires \cup req[s].fires : f.at <= req[s].at
    BY <1>1, SendingFacts DEF Step
  <1>3. ASSUME fires' \subseteq fires \cup req[s].fires PROVE PauseReady(req[s])'
    <2>1. CASE req'[s] = Idle
      BY <2>1, PauseDone DEF Idle
    <2>2. CASE req'[s].step = "digest" /\ req'[s].at = req[s].at /\ req'[s].fires = {}
      BY <1>1, <1>2, <1>3, <2>2 DEF PauseReady, InTime
    <2>3. QED
      BY <1>1, <2>1, <2>2
  <1>4. CASE UNCHANGED <<fires, active>> /\ history' = WithoutRows(req[s], history)
    <2>1. history \in Histories
      BY DEF TypeOK
    <2>2. /\ history'.streak = history.streak /\ history'.failing = history.failing
          /\ history'.edited = history.edited
      BY <1>1, <1>4, <2>1, WithoutRowsKeeps
    <2>3. QED
      BY <1>1, <1>3, <1>4, <2>2, PauseQuiet
  <1>5. CASE /\ fires' = fires \cup req[s].fires /\ active' = active \ req[s].paused
             /\ history' = [history EXCEPT !.streak = req[s].streak,
                                           !.failing = req[s].failing]
    <2>1. /\ history'.streak = req[s].streak /\ history'.failing = req[s].failing
          /\ history'.edited = history.edited
      BY <1>5 DEF TypeOK, Histories
    <2>2. Streaks(fires', history'.streak)
      BY <1>2, <1>5, <2>1 DEF Sending
    <2>3. \A f \in fires' : f.at <= now'
      <3>1. req[s].at <= now
        BY <1>2 DEF InTime
      <3>2. now \in Nat /\ req[s].at \in Nat
        BY <1>1, TimesAreNumbers DEF Step
      <3>3. \A f \in fires \cup req[s].fires : f.at \in Nat
        BY <1>1 DEF TypeOK, UnderWay, FireRows, Times
      <3>4. QED
        BY <1>1, <1>2, <1>5, <3>1, <3>2, <3>3
    <2>4. ASSUME NEW d \in dests' \ history'.edited
          PROVE  /\ d \notin active' => d \in history'.failing
                 /\ d \in active' /\ Reached(history'.streak, d) => Tied(fires', d)
      <3>1. d \in dests \ history.edited
        BY <1>1, <2>1
      <3>2. d \notin active => d \in history.failing
        BY <3>1 DEF PauseInv
      <3>3. history.failing \subseteq req[s].failing /\ req[s].paused \subseteq req[s].failing
        BY <1>2 DEF Sending
      <3>4. d \in active /\ Reached(req[s].streak, d) =>
              d \in req[s].paused \/ Tied(fires \cup req[s].fires, d)
        BY <1>2, <3>1 DEF Sending
      <3>5. QED
        BY <1>5, <2>1, <3>2, <3>3, <3>4
    <2>5. ASSUME NEW t \in Slots PROVE PauseReady(req[t])'
      <3>1. CASE t = s
        BY <1>3, <1>5, <3>1
      <3>2. CASE t # s
        <4>1. Step(t, "idle") /\ req'[t] = req[t]
          BY <1>1, <3>2 DEF Alone, Elsewhere, Step
        <4>2. QED
          BY <4>1, PauseDone DEF Step
      <3>3. QED
        BY <3>1, <3>2
    <2>6. QED
      BY <2>2, <2>3, <2>4, <2>5 DEF PauseInv, PauseReady
  <1>6. QED
    BY <1>4, <1>5, CommitFiresFacts

LEMMA PauseEnds ==
  ASSUME TypeOK, PauseInv, NEW s \in Slots, Digest(s) \/ StampDigest(s) \/ Crash(s)
  PROVE  PauseInv'
  <1>1. /\ Elsewhere(s) /\ UNCHANGED <<now, fires, dests, active>>
        /\ \/ req'[s] = Idle
           \/ /\ req[s].step = "digest" /\ req'[s].step = "stamp"
              /\ req'[s].at = req[s].at /\ req'[s].fires = req[s].fires
    BY DigestFacts, StampFacts, CrashFacts DEF stored, Step
  <1>2. /\ history'.streak = history.streak /\ history'.failing = history.failing
        /\ history'.edited = history.edited
    <2>1. CASE Digest(s)
      BY <2>1, DigestFacts DEF TypeOK, Histories
    <2>2. CASE StampDigest(s)
      BY <2>2, StampFacts
    <2>3. CASE Crash(s)
      BY <2>3, CrashFacts
    <2>4. QED
      BY <2>1, <2>2, <2>3
  <1>3. PauseReady(req[s])'
    <2>1. CASE req'[s] = Idle
      BY <2>1, PauseDone DEF Idle
    <2>2. CASE /\ req[s].step = "digest" /\ req'[s].step = "stamp"
               /\ req'[s].at = req[s].at /\ req'[s].fires = req[s].fires
      BY <1>1, <2>2 DEF PauseInv, PauseReady, InTime
    <2>3. QED
      BY <1>1, <2>1, <2>2
  <1>4. QED
    BY <1>1, <1>2, <1>3, PauseQuiet

(* An edit of a destination answers for that one only, and time passes.    *)
LEMMA PauseElsewhere ==
  ASSUME TypeOK, PauseInv, \/ \E d \in Dests : UpsertDestination(d) \/ DeleteDestination(d)
                           \/ \E r \in Rules : SetRuleDestinations(r)
                           \/ Tick
                           \/ UNCHANGED vars
  PROVE  PauseInv'
  <1>1. /\ UNCHANGED <<req, fires>> /\ now' >= now /\ now' \in Nat /\ now \in Nat
        /\ history'.streak = history.streak /\ history'.failing = history.failing
        /\ history.edited \subseteq history'.edited
        /\ \A d \in Dests \ history'.edited : /\ d \in dests' <=> d \in dests
                                              /\ d \in active' <=> d \in active
    BY EditFacts, TimePasses, TimesAreNumbers
  <1>2. dests' \subseteq Dests /\ active' \subseteq Dests
    BY NextType, StutterType DEF TypeOK, Next
  <1>3. ASSUME NEW d \in dests' \ history'.edited
        PROVE  /\ d \notin active' => d \in history'.failing
               /\ d \in active' /\ Reached(history'.streak, d) => Tied(fires', d)
    <2>1. d \in dests \ history.edited /\ (d \in active' <=> d \in active)
      BY <1>1, <1>2
    <2>2. QED
      BY <1>1, <2>1 DEF PauseInv
  <1>4. Streaks(fires', history'.streak)
    BY <1>1 DEF PauseInv
  <1>5. \A f \in fires' : f.at <= now'
    BY <1>1, TimesAreNumbers DEF PauseInv
  <1>6. ASSUME NEW t \in Slots PROVE PauseReady(req[t])'
    <2>1. PauseReady(req[t])
      BY DEF PauseInv, PauseReady
    <2>2. InTime(req[t])'
      BY <1>1, <2>1, TimesAreNumbers DEF PauseReady, InTime, Step
    <2>3. ASSUME req[t].step = "send" PROVE Sending(req[t])'
      <3>1. Sending(req[t])
        BY <2>1, <2>3 DEF PauseReady
      <3>2. active' \ history'.edited \subseteq active \ history.edited
        BY <1>1, <1>2
      <3>3. QED
        BY <1>1, <3>1, <3>2 DEF Sending
    <2>4. QED
      BY <1>1, <2>1, <2>2, <2>3 DEF PauseReady
  <1>7. QED
    BY <1>3, <1>4, <1>5, <1>6 DEF PauseInv, PauseReady

LEMMA PauseInit == ASSUME Init PROVE PauseInv
  <1>1. /\ fires = {} /\ history.streak = [d \in Dests |-> {}]
        /\ active = Dests /\ dests = Dests /\ \A s \in Slots : req[s].step = "idle"
    BY DEF Init, Idle
  <1>2. \A d \in Dests : ~Reached(history.streak, d)
    BY <1>1, FS_EmptySet, AlertsAssumption DEF Reached
  <1>3. Streaks(fires, history.streak)
    BY <1>1 DEF Streaks, Failed
  <1>4. QED
    BY <1>1, <1>2, <1>3 DEF PauseInv, InTime

LEMMA PauseNext ==
  ASSUME TypeOK, PushInv, PauseInv, [Next]_vars PROVE PauseInv'
  <1>1. ASSUME NEW s \in Slots, Request(s) PROVE PauseInv'
    <2>1. Alone
      BY DEF PushInv
    <2>2. QED
      BY <1>1, <2>1, PauseBegins, PauseCommitAlerts, PauseResolve, PauseSkip, PauseDeliver,
         PauseFail, PauseCommitFires, PauseEnds DEF Request
  <1>2. CASE ~ \E s \in Slots : Request(s)
    BY <1>2, PauseElsewhere DEF Next
  <1>3. QED
    BY <1>1, <1>2

(* While requests do not overlap, a destination no customer touched is     *)
(* disabled only after as many failures in a row as the threshold asks     *)
(* for, and one with as many is, unless a delivery at the very time of a   *)
(* failure hides them from the count of _maybe_pause.                      *)
THEOREM PausesAreEarned == ASSUME ~Overlap PROVE Spec => []PausesFollowFailures
  <1>1. Init => TypeOK /\ PushInv /\ PauseInv
    BY InitType, PushInit, PauseInit
  <1>2. TypeOK /\ PushInv /\ PauseInv /\ [Next]_vars => (TypeOK /\ PushInv /\ PauseInv)'
    BY NextType, StutterType, PushStep, PauseNext
  <1>3. PauseInv => PausesFollowFailures
    BY PauseInvImplies
  <1>4. QED
    BY <1>1, <1>2, <1>3, PTL DEF Spec

-----------------------------------------------------------------------------
(* Skips are justified. *)

(* A delivered row was written for a message, a skipped one on account of  *)
(* one that did not carry its alert.                                       *)
Justified(f) ==
  /\ f.status = "delivered" =>
       \E m \in history.sent : m.rule = f.alert.rule /\ m.dest = f.dest /\ m.at = f.at
  /\ f.status = "skipped_cooldown" =>
       \E m \in history.sent :
         /\ m.rule = f.alert.rule /\ m.dest = f.dest /\ f.alert \notin m.alerts
         /\ m.at <= f.at
         /\ \E c \in Overrides \cup {DefaultCooldown, Ceiling} : f.at - m.at < c

SkipInv ==
  /\ \A f \in fires : Justified(f)
  /\ \A s \in Slots : ~Step(s, "idle") => \A f \in req[s].fires : Justified(f)

(* Messages are not taken back, so only new rows are to be justified.      *)
LEMMA SkipStep ==
  ASSUME SkipInv, NEW s \in Slots, Elsewhere(s), history.sent \subseteq history'.sent,
         fires' \subseteq fires \cup (IF Step(s, "idle") THEN {} ELSE req[s].fires),
         \/ Step(s, "idle")'
         \/ \A f \in req'[s].fires : \/ ~Step(s, "idle") /\ f \in req[s].fires
                                     \/ Justified(f)'
  PROVE  SkipInv'
  <1>1. \A f : Justified(f) => Justified(f)'
    BY DEF Justified
  <1>2. \A f \in fires' : Justified(f)'
    BY <1>1 DEF SkipInv
  <1>3. ASSUME NEW t \in Slots, ~Step(t, "idle")', NEW f \in req'[t].fires
        PROVE  Justified(f)'
    BY <1>1, <1>3 DEF SkipInv, Elsewhere, Step
  <1>4. QED
    BY <1>2, <1>3 DEF SkipInv

LEMMA SentKept ==
  ASSUME TypeOK, NEW s \in Slots, Request(s)
  PROVE  history.sent \subseteq history'.sent
  <1>1. history \in Histories
    BY DEF TypeOK
  <1>2. CASE \E kind \in Kinds : Evaluate(s, kind)
    BY <1>1, <1>2 DEF Evaluate, Histories
  <1>3. CASE CommitAlerts(s)
    BY <1>1, <1>3 DEF CommitAlerts, Histories
  <1>4. CASE Resolve(s)
    BY <1>1, <1>4 DEF Resolve, Histories
  <1>5. ASSUME NEW bucket \in Buckets, Skip(s, bucket) \/ Deliver(s, bucket) \/ Fail(s, bucket)
        PROVE  history.sent \subseteq history'.sent
    BY <1>1, <1>5 DEF Skip, Deliver, Fail, Histories
  <1>6. CASE CommitFires(s)
    <2>1. \/ history' = [history EXCEPT !.streak = req[s].streak, !.failing = req[s].failing]
          \/ history' = WithoutRows(req[s], history)
      BY <1>6, CommitFiresFacts
    <2>2. QED
      BY <1>1, <2>1, WithoutRowsSent DEF Histories
  <1>7. CASE Digest(s) \/ StampDigest(s)
    BY <1>1, <1>7 DEF Digest, StampDigest, Histories
  <1>8. CASE Crash(s)
    <2> DEFINE h == IF Step(s, "persist") THEN history ELSE WithoutRows(req[s], history)
    <2>1. h \in Histories /\ h.sent = history.sent
      <3>1. req[s] \in UnderWay
        BY <1>8, UnderWayFacts DEF Crash
      <3>2. QED
        BY <1>1, <3>1, WithoutRowsType, WithoutRowsSent
    <2>2. history' = [h EXCEPT !.troubles = @ + 1, !.lostStamp = @ \/ Step(s, "stamp")]
      BY <1>8 DEF Crash
    <2> HIDE DEF h
    <2>3. QED
      BY <2>1, <2>2 DEF Histories
  <1>9. QED
    BY <1>2, <1>3, <1>4, <1>5, <1>6, <1>7, <1>8 DEF Request

(* The delivery that a skip finds is that of a message, which the alerts   *)
(* of the bucket were not in.                                              *)
LEMMA SkipHasReason ==
  ASSUME TypeOK, PushInv, SpaceInv, SkipInv, NEW s \in Slots, NEW bucket \in Buckets,
         Skip(s, bucket), NEW f \in RowsFor(req[s], bucket, "skipped_cooldown")
  PROVE  Justified(f)
  <1>1. /\ req[s] \in UnderWay /\ req[s].step = "send" /\ bucket \in req[s].todo
        /\ InCooldown(fires \cup req[s].fires, bucket, req[s].at)
    BY UnderWayFacts DEF Skip, Step
  <1>2. PICK a \in BucketAlerts(req[s], bucket) :
          f = [alert |-> a, dest |-> bucket.dest, at |-> req[s].at,
               status |-> "skipped_cooldown"]
    BY DEF RowsFor
  <1>3. /\ f.alert = a /\ f.dest = bucket.dest /\ f.at = req[s].at
        /\ f.status = "skipped_cooldown" /\ a.rule = bucket.rule
    BY <1>2 DEF BucketAlerts
  <1>4. PICK g \in fires \cup req[s].fires :
          /\ g.alert.rule = bucket.rule /\ g.dest = bucket.dest
          /\ g.status = "delivered" /\ g.at > req[s].at - Cooldown(bucket.override)
    BY <1>1 DEF InCooldown
  <1>5. PICK m \in history.sent : m.rule = bucket.rule /\ m.dest = bucket.dest /\ m.at = g.at
    <2>1. Justified(g)
      BY <1>1, <1>4 DEF SkipInv, Step
    <2>2. QED
      BY <1>4, <2>1 DEF Justified
  <1>6. a \notin m.alerts
    <2>1. m.alerts \cap BucketAlerts(req[s], bucket) = {}
      BY <1>1, <1>5 DEF PushInv, Fresh, TodoFresh
    <2>2. QED
      BY <2>1
  <1>7. m.at <= req[s].at
    BY <1>1, <1>5 DEF SpaceInv, Timely
  <1>8. \E c \in Overrides \cup {DefaultCooldown, Ceiling} : req[s].at - m.at < c
    <2>1. bucket.override \in Overrides \cup {None}
      BY DEF Buckets
    <2>2. Cooldown(bucket.override) \in Overrides \cup {DefaultCooldown, Ceiling}
      BY <2>1 DEF Cooldown, Later
    <2>3. Cooldown(bucket.override) \in Nat
      BY <2>1, CooldownFacts
    <2>4. req[s].at \in Nat /\ m.at \in Nat
      BY <1>1, <1>5 DEF UnderWay, TypeOK, Histories, Messages, Times
    <2>5. req[s].at - m.at < Cooldown(bucket.override)
      BY <1>4, <1>5, <2>3, <2>4
    <2>6. QED
      BY <2>2, <2>5
  <1>9. QED
    BY <1>3, <1>5, <1>6, <1>7, <1>8 DEF Justified

LEMMA DeliveryHasMessage ==
  ASSUME TypeOK, NEW s \in Slots, NEW bucket \in Buckets, Deliver(s, bucket),
         NEW f \in RowsFor(req[s], bucket, "delivered")
  PROVE  Justified(f)'
  <1> DEFINE m == [alerts |-> BucketAlerts(req[s], bucket), rule |-> bucket.rule,
                   dest |-> bucket.dest, at |-> req[s].at, override |-> bucket.override]
  <1>1. /\ f.alert.rule = bucket.rule /\ f.dest = bucket.dest /\ f.at = req[s].at
        /\ f.status = "delivered"
    BY DEF RowsFor, BucketAlerts
  <1>2. history' = [history EXCEPT !.sent = @ \cup {m}]
    BY DEF Deliver
  <1>3. m.rule = bucket.rule /\ m.dest = bucket.dest /\ m.at = req[s].at
    OBVIOUS
  <1> HIDE DEF m
  <1>4. m \in history'.sent
    BY <1>2 DEF TypeOK, Histories
  <1>5. QED
    BY <1>1, <1>3, <1>4 DEF Justified

LEMMA SkipRequest ==
  ASSUME TypeOK, PushInv, SpaceInv, SkipInv, NEW s \in Slots, Request(s)
  PROVE  SkipInv'
  <1>1. history.sent \subseteq history'.sent
    BY SentKept
  <1>2. ASSUME NEW bucket \in Buckets, NEW status, Handles(s, bucket, status),
               \A f \in RowsFor(req[s], bucket, status) : Justified(f)'
        PROVE  SkipInv'
    <2>1. /\ UNCHANGED fires /\ Elsewhere(s) /\ ~Step(s, "idle")
          /\ req'[s].fires = req[s].fires \cup RowsFor(req[s], bucket, status)
      BY <1>2 DEF Handles, stored, Step
    <2>2. QED
      BY <1>1, <1>2, <2>1, SkipStep
  <1>3. CASE \E kind \in Kinds : Evaluate(s, kind)
    <2>1. UNCHANGED fires /\ Elsewhere(s) /\ req'[s].fires = {}
      BY <1>3, EvaluateFacts DEF stored
    <2>2. QED
      BY <1>1, <2>1, SkipStep
  <1>4. CASE CommitAlerts(s) \/ Resolve(s) \/ Digest(s) \/ StampDigest(s) \/ Crash(s)
    <2>1. /\ UNCHANGED fires /\ Elsewhere(s) /\ ~Step(s, "idle")
          /\ req'[s] = Idle \/ req'[s].fires = req[s].fires
      BY <1>4, CommitAlertsFacts, ResolveFacts, DigestFacts, StampFacts, CrashFacts
         DEF stored, Step
    <2>2. Step(s, "idle")' \/ req'[s].fires = req[s].fires
      BY <2>1 DEF Step, Idle
    <2>3. QED
      BY <1>1, <2>1, <2>2, SkipStep
  <1>5. ASSUME NEW bucket \in Buckets, Skip(s, bucket) PROVE SkipInv'
    <2>1. Handles(s, bucket, "skipped_cooldown") /\ UNCHANGED history
      BY <1>5, SkipFacts
    <2>2. \A f \in RowsFor(req[s], bucket, "skipped_cooldown") : Justified(f)'
      BY <1>5, <2>1, SkipHasReason DEF Justified
    <2>3. QED
      BY <1>2, <2>1, <2>2
  <1>6. ASSUME NEW bucket \in Buckets, Deliver(s, bucket) PROVE SkipInv'
    <2>1. Handles(s, bucket, "delivered")
      BY <1>6, DeliverFacts
    <2>2. \A f \in RowsFor(req[s], bucket, "delivered") : Justified(f)'
      BY <1>6, DeliveryHasMessage
    <2>3. QED
      BY <1>2, <2>1, <2>2
  <1>7. ASSUME NEW bucket \in Buckets, Fail(s, bucket) PROVE SkipInv'
    <2>1. Handles(s, bucket, "failed")
      BY <1>7, FailFacts
    <2>2. \A f \in RowsFor(req[s], bucket, "failed") : Justified(f)'
      BY DEF RowsFor, Justified
    <2>3. QED
      BY <1>2, <2>1, <2>2
  <1>8. CASE CommitFires(s)
    <2>1. /\ Elsewhere(s) /\ Step(s, "send") /\ fires' \subseteq fires \cup req[s].fires
          /\ req'[s] = Idle \/ req'[s].fires = {}
      BY <1>8, CommitFiresFacts
    <2>2. ~Step(s, "idle") /\ (Step(s, "idle")' \/ req'[s].fires = {})
      BY <2>1 DEF Step, Idle
    <2>3. QED
      BY <1>1, <2>1, <2>2, SkipStep
  <1>9. QED
    BY <1>3, <1>4, <1>5, <1>6, <1>7, <1>8 DEF Request

LEMMA SkipNext ==
  ASSUME TypeOK, PushInv, SpaceInv, SkipInv, [Next]_vars PROVE SkipInv'
  <1>1. CASE \E s \in Slots : Request(s)
    BY <1>1, SkipRequest
  <1>2. CASE ~ \E s \in Slots : Request(s)
    <2>1. UNCHANGED <<req, fires>> /\ history'.sent = history.sent
      BY <1>2, RestFacts DEF Next
    <2>2. QED
      BY <2>1 DEF SkipInv, Justified, Step
  <1>3. QED
    BY <1>1, <1>2

LEMMA SkipInit == ASSUME Init PROVE SkipInv
  BY DEF Init, SkipInv, Step, Idle

(* While requests do not overlap, an alert is withheld only on account of  *)
(* a message its rule did send to that destination, within a cooldown that *)
(* was configured or the ceiling.                                          *)
THEOREM SkipsAreEarned == ASSUME ~Overlap PROVE Spec => []SkipsAreJustified
  <1>1. Init => TypeOK /\ PushInv /\ SpaceInv /\ SkipInv
    BY InitType, PushInit, SpaceInit, SkipInit
  <1>2. TypeOK /\ PushInv /\ SpaceInv /\ SkipInv /\ [Next]_vars =>
          (TypeOK /\ PushInv /\ SpaceInv /\ SkipInv)'
    BY NextType, StutterType, PushStep, SpaceStep, SkipNext
  <1>3. SkipInv => SkipsAreJustified
    BY DEF SkipInv, Justified, SkipsAreJustified
  <1>4. QED
    BY <1>1, <1>2, <1>3, PTL DEF Spec

(* While requests do not overlap, an alert of a sweep or an event is never *)
(* lost and never held back without a cause.                               *)
THEOREM EveryAlertIsHandled == ASSUME ~Overlap PROVE Spec => []AlertsAreHandled
  <1>1. AlertsAreAttempted /\ SkipsAreJustified => AlertsAreHandled
    BY DEF AlertsAreHandled
  <1>2. QED
    BY <1>1, NothingDropped, SkipsAreEarned, PTL

=============================================================================
