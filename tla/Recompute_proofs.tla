-------------------------- MODULE Recompute_proofs --------------------------
(***************************************************************************)
(* Proofs about Recompute for every set of issues, schedules, batch sizes, *)
(* invocation slots and bounds.  Type correctness holds whatever overlaps; *)
(* that a completed recompute leaves one math model is proved for the      *)
(* system in which nothing overlaps (Races = {}) and no two slices of an   *)
(* issue start at one instant (Instant = {}): the runs show that it fails  *)
(* without either.                                                         *)
(***************************************************************************)
EXTENDS Recompute, FiniteSetTheorems, TLAPS

-----------------------------------------------------------------------------
(* Facts about rows and their order. *)

(* The slices a database can hold are finitely many. *)
LEMMA RowsFinite == IsFiniteSet(Rows)
  <1>1. IsFiniteSet(1 .. MaxSlices)
    BY RecomputeAssumption, FS_Interval
  <1>2. QED
    BY <1>1, RecomputeAssumption, FS_Product DEF Rows

LEMMA RowType == \A row \in Rows : row[1] \in Int /\ row[2] \in Int
  <1>1. \A i \in Issues : i \in Int
    BY RecomputeAssumption
  <1>2. QED
    BY <1>1 DEF Rows

(* When every slice lasts, rows are in lexicographic order. *)
LEMMA BeforeIsLexicographic ==
  ASSUME Instant = {}, NEW a \in Rows, NEW b \in Rows
  PROVE  Before(a, b) <=> a[1] < b[1] \/ (a[1] = b[1] /\ a[2] < b[2])
  <1>1. a[2] \in Int /\ b[2] \in Int
    BY RowType
  <1>2. (\E n \in a[2] .. b[2] - 1 : <<a[1], n>> \notin Instant) <=> a[2] < b[2]
    BY <1>1
  <1>3. QED
    BY <1>2 DEF Before

(* A total order. *)
LEMMA BeforeIsTotal ==
  ASSUME Instant = {}, NEW a \in Rows, NEW b \in Rows, a # b
  PROVE  Before(a, b) \/ Before(b, a)
  <1>1. a[1] # b[1] \/ a[2] # b[2]
    BY DEF Rows
  <1>2. QED
    BY <1>1, RowType, BeforeIsLexicographic

(* Of two leading sets of rows one holds the other, and the one that has   *)
(* no more rows is the one that is held.                                   *)
LEMMA LeadsNest ==
  ASSUME Instant = {}, stored \subseteq Rows, NEW F, NEW G, Leads(F), Leads(G),
         Cardinality(F) <= Cardinality(G)
  PROVE  F \subseteq G
  <1>1. IsFiniteSet(F) /\ IsFiniteSet(G)
    BY RowsFinite, FS_Subset DEF Leads
  <1>2. SUFFICES ASSUME NEW a \in F, a \notin G PROVE FALSE
    OBVIOUS
  <1>3. \A b \in G : b \in F
    <2>1. SUFFICES ASSUME NEW b \in G, b \notin F PROVE FALSE
      OBVIOUS
    <2>2. a \in Rows /\ b \in Rows /\ a # b /\ a \in stored /\ b \in stored
      BY <1>2, <2>1 DEF Leads
    <2>3. Before(a, b) \/ Before(b, a)
      BY <2>2, BeforeIsTotal
    <2>4. QED
      BY <1>2, <2>1, <2>2, <2>3 DEF Leads
  <1>4. Cardinality(F) = Cardinality(G)
    BY <1>1, <1>3, FS_Subset, FS_CardinalityType
  <1>5. F = G
    BY <1>1, <1>3, <1>4, FS_Subset
  <1>6. QED
    BY <1>2, <1>5

-----------------------------------------------------------------------------
(* Type correctness. *)

(* Every request a caller builds, and every answer, is well formed. *)
LEMMA RequestType ==
  /\ NewTenant \in Tenants
  /\ NoRequest \in Requests /\ BatchRequest \in Requests
  /\ \A schedule \in Schedules : Request("activate", schedule) \in Requests
  /\ NoReader \in Readers /\ Idle \in Invocation
  <1>1. NewTenant \in Tenants
    BY RecomputeAssumption DEF NewTenant, Tenants, Statuses
  <1>2. QED
    BY <1>1, RecomputeAssumption
    DEF NoRequest, BatchRequest, Request, Requests, NoReader, Readers, Idle,
        Invocation

LEMMA AnswerType ==
  ASSUME TypeOK, NEW c \in Callers,
         NEW answer \in {"none", "saved", "more", "done", "failed"},
         Answer(c, answer)
  PROVE  req' \in [Callers -> Requests]
  <1>1. req[c].path \in {"none", "activate", "batch"}
    BY DEF TypeOK, Requests
  <1>2. [NoRequest EXCEPT !.path = req[c].path, !.at = "answered",
                          !.answer = answer] \in Requests
    BY <1>1, RequestType DEF Requests
  <1>3. QED
    BY <1>2 DEF Answer, TypeOK

LEMMA SpendType ==
  ASSUME TypeOK, NEW bound \in Bounds, Spend(bound)
  PROVE  spent' \in [Bounds -> Nat]
  BY DEF Spend, TypeOK

LEMMA TenantType ==
  ASSUME NEW row \in Tenants, NEW status \in Statuses, NEW cursor \in Nat,
         NEW schedule \in Schedules
  PROVE  [row EXCEPT !.status = status, !.cursor = cursor,
                     !.schedule = schedule] \in Tenants
  BY DEF Tenants

LEMMA LoadedType ==
  ASSUME NEW r \in Requests, NEW row \in Tenants
  PROVE  [r EXCEPT !.at = "loaded", !.loaded = row] \in Requests
  BY DEF Requests

LEMMA SelectedType ==
  ASSUME NEW r \in Requests, NEW dirty \in SUBSET Rows, NEW cursor \in Nat,
         NEW last \in BOOLEAN, NEW fate \in {"commit", "raise"}
  PROVE  [r EXCEPT !.at = "selected", !.dirty = dirty, !.cursor = cursor,
                   !.last = last, !.fate = fate] \in Requests
  BY DEF Requests

LEMMA LoseType ==
  ASSUME TypeOK, NEW rows, Lose(rows) PROVE req' \in [Callers -> Requests]
  <1>1. \A c \in Callers : [req[c] EXCEPT !.fate = "lose"] \in Requests
    BY DEF TypeOK, Requests
  <1>2. QED
    BY <1>1 DEF Lose, TypeOK

LEMMA InitTypeOK == Init => TypeOK
  BY RequestType, RecomputeAssumption DEF Init, TypeOK

LEMMA NextTypeOK == ASSUME TypeOK, [Next]_vars PROVE TypeOK'
  <1>a. UI \in Callers /\ Invocations \subseteq Callers
    BY DEF Callers
  <1>b. \A bound \in {"save", "task", "read", "delete", "redelivery", "crash"} :
          bound \in Bounds
    BY DEF Bounds
  <1> USE DEF data, Send
  <1>1. ASSUME NEW schedule \in Schedules, Save(schedule) PROVE TypeOK'
    BY <1>1, <1>a, <1>b, RequestType, SpendType DEF Save, TypeOK
  <1>2. CASE Saved \/ Kick
    BY <1>2, <1>a, RequestType DEF Saved, Kick, TypeOK
  <1>3. CASE Push
    BY <1>3, <1>b, SpendType DEF Push, TypeOK
  <1>4. CASE LoadActivation
    <2>1. [req[UI] EXCEPT !.at = "loaded", !.loaded = tenant] \in Requests
      BY <1>a, LoadedType DEF TypeOK
    <2>2. QED
      BY <1>4, <1>a, <2>1 DEF LoadActivation, TypeOK
  <1>5. CASE CommitActivation
    <2> DEFINE loaded == req[UI].loaded
    <2>1. loaded \in Tenants /\ req[UI].schedule \in Schedules
      BY <1>a DEF TypeOK, Requests
    <2>2. /\ Flush(loaded.status, "pending", tenant.status) \in Statuses
          /\ Flush(loaded.cursor, 0, tenant.cursor) \in Nat
          /\ Flush(loaded.schedule, req[UI].schedule, tenant.schedule)
               \in Schedules
      BY <2>1 DEF Flush, TypeOK, Tenants, Statuses
    <2>3. tenant' \in Tenants
      BY <1>5, <2>2, TenantType DEF CommitActivation, TypeOK
    <2>4. req' \in [Callers -> Requests]
      BY <1>5, <1>a, AnswerType DEF CommitActivation
    <2>5. QED
      BY <1>5, <2>3, <2>4 DEF CommitActivation, TypeOK
  <1>6. ASSUME NEW c \in Callers, Refuse(c) PROVE TypeOK'
    <2>1. req' \in [Callers -> Requests] /\ spent' \in [Bounds -> Nat]
      BY <1>6, <1>b, AnswerType, SpendType DEF Refuse
    <2>2. QED
      BY <1>6, <2>1 DEF Refuse, TypeOK
  <1>7. ASSUME NEW c \in Invocations, LoadBatch(c) PROVE TypeOK'
    <2>1. [req[c] EXCEPT !.at = "loaded", !.loaded = tenant] \in Requests
      BY <1>a, LoadedType DEF TypeOK
    <2>2. QED
      BY <1>7, <1>a, <2>1 DEF LoadBatch, TypeOK
  <1>8. ASSUME NEW c \in Invocations, SelectRows(c) PROVE TypeOK'
    <2>1. req[c] \in Requests
      BY <1>a DEF TypeOK
    <2>2. PICK skipped \in SUBSET stored, read \in SUBSET stored :
            LET total == Cardinality(stored)
                rows == read \ skipped
                processed == Cardinality(rows)
                schedule == req[c].loaded.schedule
                last == tenant.cursor + processed >= total
                raises == schedule \in BadSchedules /\ rows \ Instant # {}
            IN  Send(c, [req[c] EXCEPT
                  !.at = "selected",
                  !.dirty = {row \in rows \ Instant : math[row] # schedule},
                  !.cursor = IF last THEN total
                             ELSE req[c].loaded.cursor + processed,
                  !.last = last,
                  !.fate = IF raises THEN "raise" ELSE "commit"])
      BY <1>8 DEF SelectRows
    <2> DEFINE total == Cardinality(stored)
               rows == read \ skipped
               processed == Cardinality(rows)
               schedule == req[c].loaded.schedule
               last == tenant.cursor + processed >= total
               raises == schedule \in BadSchedules /\ rows \ Instant # {}
               dirty == {row \in rows \ Instant : math[row] # schedule}
               cursor == IF last THEN total
                         ELSE req[c].loaded.cursor + processed
    <2>3. rows \subseteq Rows /\ total \in Nat /\ processed \in Nat
      <3>1. stored \subseteq Rows /\ rows \subseteq Rows
        BY DEF TypeOK
      <3>2. IsFiniteSet(stored) /\ IsFiniteSet(rows)
        BY <3>1, RowsFinite, FS_Subset
      <3>3. QED
        BY <3>1, <3>2, FS_CardinalityType
    <2>4. req[c].loaded.cursor \in Nat
      BY <2>1 DEF Requests, Tenants
    <2>5. /\ dirty \in SUBSET Rows /\ cursor \in Nat /\ last \in BOOLEAN
          /\ (IF raises THEN "raise" ELSE "commit") \in {"commit", "raise"}
      BY <2>3, <2>4
    <2>6. [req[c] EXCEPT !.at = "selected", !.dirty = dirty, !.cursor = cursor,
             !.last = last, !.fate = IF raises THEN "raise" ELSE "commit"]
            \in Requests
      BY <2>1, <2>5, SelectedType
    <2>7. req' \in [Callers -> Requests]
      BY <2>2, <2>6, <1>a DEF TypeOK
    <2>8. QED
      BY <1>8, <2>7 DEF SelectRows, TypeOK
  <1>9. ASSUME NEW c \in Invocations, CommitBatch(c) PROVE TypeOK'
    <2>1. req[c].cursor \in Nat /\ req[c].loaded.schedule \in Schedules
      BY <1>a DEF TypeOK, Requests, Tenants
    <2>2. tenant' \in Tenants
      BY <1>9, <2>1 DEF CommitBatch, TypeOK, Tenants, Statuses
    <2>3. math' \in [Rows -> Schedules]
      BY <1>9, <2>1 DEF CommitBatch, TypeOK
    <2>4. req' \in [Callers -> Requests]
      BY <1>9, <1>a, AnswerType DEF CommitBatch
    <2>5. QED
      BY <1>9, <2>2, <2>3, <2>4 DEF CommitBatch, TypeOK
  <1>10. ASSUME NEW c \in Invocations, FailBatch(c) \/ LoseBatch(c)
         PROVE TypeOK'
    <2>1. tenant' \in Tenants
      BY <1>10 DEF FailBatch, LoseBatch, TypeOK, Tenants, Statuses
    <2>2. req' \in [Callers -> Requests]
      BY <1>10, <1>a, AnswerType DEF FailBatch, LoseBatch
    <2>3. QED
      BY <1>10, <2>1, <2>2 DEF FailBatch, LoseBatch, TypeOK
  <1>11. ASSUME NEW c \in Invocations, Deliver(c) PROVE TypeOK'
    <2>1. spent' \in [Bounds -> Nat] /\ queue' \in Nat
      BY <1>11, <1>b, SpendType DEF Deliver, TypeOK
    <2>2. inv' \in [Invocations -> Invocation]
      BY <1>11 DEF Deliver, TypeOK, Invocation
    <2>3. QED
      BY <1>11, <1>a, <2>1, <2>2, RequestType DEF Deliver, TypeOK
  <1>12. ASSUME NEW c \in Invocations, NextBatch(c) PROVE TypeOK'
    <2>1. inv' \in [Invocations -> Invocation]
      BY <1>12 DEF NextBatch, TypeOK, Invocation
    <2>2. QED
      BY <1>12, <1>a, <2>1, RequestType DEF NextBatch, TypeOK
  <1>13. ASSUME NEW c \in Invocations,
                PushAgain(c) \/ Finish(c) \/ Drop(c)
         PROVE TypeOK'
    BY <1>13, <1>a, RequestType DEF PushAgain, Finish, Drop, TypeOK
  <1>14. ASSUME NEW c \in Invocations, Throw(c) PROVE TypeOK'
    <2>1. spent' \in [Bounds -> Nat] /\ queue' \in Nat
      BY <1>14, <1>b, SpendType DEF Throw, TypeOK
    <2>2. QED
      BY <1>14, <1>a, <2>1, RequestType DEF Throw, TypeOK
  <1>15. ASSUME NEW c \in Invocations, Crash(c) PROVE TypeOK'
    <2>1. spent' \in [Bounds -> Nat] /\ queue' \in Nat
      BY <1>15, <1>b, SpendType DEF Crash, TypeOK
    <2>2. QED
      BY <1>15, <2>1, RequestType DEF Crash, TypeOK
  <1>16. ASSUME NEW kind \in {"ingest", "sweep"}, StartReader(kind)
         PROVE TypeOK'
    <2>1. spent' \in [Bounds -> Nat]
      BY <1>16, <1>b, SpendType DEF StartReader
    <2>2. reader' \in Readers
      BY <1>16 DEF StartReader, TypeOK, Tenants, Readers
    <2>3. QED
      BY <1>16, <2>1, <2>2 DEF StartReader, TypeOK
  <1>17. ASSUME NEW i \in Issues, NEW n \in 1 .. MaxSlices, CommitIngest(i, n)
         PROVE TypeOK'
    <2> DEFINE rows == {i} \X (1 .. n)
    <2>1. rows \subseteq Rows
      BY RecomputeAssumption DEF Rows
    <2>2. reader.schedule \in Schedules
      BY DEF TypeOK, Readers
    <2>3. req' \in [Callers -> Requests]
      BY <1>17, LoseType DEF CommitIngest
    <2>4. /\ stored' = stored \cup rows
          /\ math' \in [Rows -> Schedules] /\ metrics' \in [Issues -> Schedules]
          /\ alerts' \subseteq Schedules
      BY <1>17, <2>2 DEF CommitIngest, TypeOK
    <2>5. QED
      BY <1>17, <2>1, <2>3, <2>4, RequestType DEF CommitIngest, TypeOK
  <1>18. CASE CommitSweep \/ ReaderFails
    BY <1>18, RequestType DEF CommitSweep, ReaderFails, TypeOK, Readers
  <1>19. ASSUME NEW i \in Issues, DeleteIssue(i) PROVE TypeOK'
    <2>1. req' \in [Callers -> Requests] /\ spent' \in [Bounds -> Nat]
      BY <1>19, <1>b, LoseType, SpendType DEF DeleteIssue
    <2>2. math' \in [Rows -> Schedules] /\ metrics' \in [Issues -> Schedules]
      BY <1>19, RecomputeAssumption DEF DeleteIssue, TypeOK
    <2>3. QED
      BY <1>19, <2>1, <2>2 DEF DeleteIssue, TypeOK
  <1>20. CASE UNCHANGED vars
    BY <1>20 DEF vars, TypeOK
  <1>21. QED
    BY <1>1, <1>2, <1>3, <1>4, <1>5, <1>6, <1>7, <1>8, <1>9, <1>10, <1>11,
       <1>12, <1>13, <1>14, <1>15, <1>16, <1>17, <1>18, <1>19, <1>20
    DEF Next, Server, Activation, Consumer, Read

(* Whatever overlaps and whatever is lost, the tenant row, the slices, the *)
(* requests and the invocations are well formed; in particular the cursor  *)
(* and the queue never go below zero.                                      *)
THEOREM TypeCorrect == Spec => []TypeOK
  BY InitTypeOK, NextTypeOK, PTL DEF Spec

-----------------------------------------------------------------------------
(* The system in which nothing overlaps (Races = {}).  Its invariant has   *)
(* four layers: who may be under way (Exclusive), that what they have read *)
(* of the tenant is what it still is (Current), where the cursor stands    *)
(* (CursorInRange), and which rows are fresh (RowsInv).                    *)

Quiescent(c) == inv[c] = Idle /\ req[c] = NoRequest

(* One consumer invocation, or the request a dead one left, at a time. *)
Exclusive ==
  /\ \A c, d \in Invocations : c = d \/ Quiescent(c) \/ Quiescent(d)
  /\ req[UI].path \in {"none", "activate"}
  /\ \A c \in Invocations : req[c].path \in {"none", "batch"}

ActivationInFlight == At(UI, "activate", "loaded")

(* What requests under way have read still holds. *)
Current ==
  /\ ActivationInFlight =>
       req[UI].loaded = tenant /\ \A c \in Invocations : ~BatchInFlight(c)
  /\ \A c \in Invocations : BatchInFlight(c) =>
       /\ req[c].loaded.schedule = tenant.schedule
       /\ req[c].loaded.cursor = tenant.cursor
  /\ reader.kind # "none" => reader.schedule = tenant.schedule

Serial == TypeOK /\ Exclusive /\ Current

(* Steps that leave the recompute alone: they touch neither the tenant nor *)
(* the slices, and move no request further into the backend.               *)
Quiet ==
  /\ UNCHANGED <<tenant, stored, math, alerts>>
  /\ reader' \in {reader, NoReader}
  /\ \A c \in Callers : req'[c] = req[c] \/ req'[c].at \in {"sent", "answered"}

LEMMA QuietSteps ==
  ASSUME TypeOK,
         \/ \E schedule \in Schedules : Save(schedule)
         \/ Saved \/ Kick \/ Push \/ ReaderFails
         \/ \E c \in Callers : Refuse(c)
         \/ \E c \in Invocations :
              LoseBatch(c) \/ Consumer(c) \/ Deliver(c) \/ Crash(c)
         \/ UNCHANGED vars
  PROVE  Quiet
  <1>a. UI \in Callers /\ Invocations \subseteq Callers
    BY DEF Callers
  <1> USE DEF data, Send, Request, NoRequest, BatchRequest, NewTenant
  <1>1. ASSUME NEW schedule \in Schedules, Save(schedule) PROVE Quiet
    BY <1>1, <1>a DEF Save, Quiet, TypeOK
  <1>2. CASE Saved \/ Kick \/ Push \/ ReaderFails
    BY <1>2, <1>a DEF Saved, Kick, Push, ReaderFails, Quiet, TypeOK
  <1>3. ASSUME NEW c \in Callers, Refuse(c) PROVE Quiet
    BY <1>3, <1>a DEF Refuse, Answer, Quiet, TypeOK
  <1>4. ASSUME NEW c \in Invocations, LoseBatch(c) PROVE Quiet
    BY <1>4, <1>a DEF LoseBatch, Answer, Quiet, TypeOK
  <1>5. ASSUME NEW c \in Invocations, Consumer(c) PROVE Quiet
    BY <1>5, <1>a
    DEF Consumer, NextBatch, PushAgain, Finish, Throw, Drop, Quiet, TypeOK
  <1>6. ASSUME NEW c \in Invocations, Deliver(c) \/ Crash(c) PROVE Quiet
    BY <1>6, <1>a DEF Deliver, Crash, Quiet, TypeOK
  <1>7. CASE UNCHANGED vars
    BY <1>7 DEF vars, Quiet
  <1>8. QED
    BY <1>1, <1>2, <1>3, <1>4, <1>5, <1>6, <1>7

(* The other steps. *)
LEMMA StepCases ==
  ASSUME TypeOK, [Next]_vars
  PROVE  \/ Quiet \/ LoadActivation \/ CommitActivation
         \/ \E c \in Invocations : \/ LoadBatch(c) \/ SelectRows(c)
                                   \/ CommitBatch(c) \/ FailBatch(c)
         \/ \E kind \in {"ingest", "sweep"} : StartReader(kind)
         \/ \E i \in Issues, n \in 1 .. MaxSlices : CommitIngest(i, n)
         \/ CommitSweep
         \/ \E i \in Issues : DeleteIssue(i)
  BY QuietSteps DEF Next, Server, Activation, Read

-----------------------------------------------------------------------------
(* One invocation at a time. *)

LEMMA InitExclusive == Init => Exclusive
  BY DEF Init, Exclusive, Quiescent, NoRequest, Request, Callers

LEMMA NextExclusive ==
  ASSUME Races = {}, TypeOK, Exclusive, [Next]_vars
  PROVE  Exclusive'
  <1>a. UI \in Callers /\ Invocations \subseteq Callers /\ UI \notin Invocations
    BY RecomputeAssumption DEF Callers
  <1> DEFINE Settled == \A d \in Invocations : Quiescent(d) => Quiescent(d)'
             Paths == /\ req'[UI].path \in {"none", "activate"}
                      /\ \A c \in Invocations : req'[c].path \in {"none", "batch"}
  <1>b. ASSUME Settled, Paths PROVE Exclusive'
    BY <1>b DEF Exclusive
  <1>c. NoRequest.path = "none" /\ NoRequest.at = "sent"
    BY DEF NoRequest, Request
  <1> USE <1>a, <1>c DEF data, Send, Quiescent
  <1>1. ASSUME NEW schedule \in Schedules, Save(schedule) PROVE Exclusive'
    BY <1>1, <1>b DEF Save, Request, TypeOK, Exclusive
  <1>2. CASE Saved \/ Kick \/ Push \/ ReaderFails \/ CommitSweep
    BY <1>2, <1>b
    DEF Saved, Kick, Push, ReaderFails, CommitSweep, TypeOK, Exclusive
  <1>3. CASE LoadActivation
    BY <1>3, <1>b DEF LoadActivation, At, TypeOK, Requests, Exclusive
  <1>4. ASSUME NEW c \in Callers, NEW answer, Answer(c, answer),
               req[c].path # "none", UNCHANGED inv
        PROVE  Exclusive'
    <2>1. \A d \in Callers : req'[d].path = req[d].path
      BY <1>4 DEF Answer, TypeOK, Requests, NoRequest, Request
    <2>2. Paths
      BY <2>1 DEF Exclusive
    <2>3. Settled
      BY <1>4 DEF Answer, TypeOK
    <2>4. QED
      BY <2>2, <2>3, <1>b
  <1>5. CASE CommitActivation
    BY <1>5, <1>4 DEF CommitActivation, At
  <1>6. ASSUME NEW c \in Callers, Refuse(c) PROVE Exclusive'
    BY <1>6, <1>4 DEF Refuse
  <1>7. ASSUME NEW c \in Invocations, LoadBatch(c) PROVE Exclusive'
    BY <1>7, <1>b DEF LoadBatch, At, TypeOK, Requests, Exclusive
  <1>8. ASSUME NEW c \in Invocations, SelectRows(c) PROVE Exclusive'
    <2>1. /\ \A d \in Callers : req'[d].path = req[d].path
          /\ \A d \in Invocations : d # c => req'[d] = req[d]
          /\ UNCHANGED inv /\ ~Quiescent(c)
      BY <1>8 DEF SelectRows, At, TypeOK, Requests
    <2>2. QED
      BY <2>1, <1>b DEF Exclusive
  <1>9. ASSUME NEW c \in Invocations,
               CommitBatch(c) \/ FailBatch(c) \/ LoseBatch(c)
        PROVE  Exclusive'
    BY <1>9, <1>4 DEF CommitBatch, FailBatch, LoseBatch, At
  <1>10. ASSUME NEW c \in Invocations, Deliver(c) PROVE Exclusive'
    <2>1. /\ \A d \in Invocations : d # c => Quiescent(d)'
          /\ req'[UI] = req[UI]
      BY <1>10 DEF Deliver, OnlyInvocation, TypeOK
    <2>2. \A d \in Invocations : req'[d].path \in {"none", "batch"}
      BY <1>10, <2>1 DEF Deliver, BatchRequest, Request, TypeOK
    <2>3. QED
      BY <2>1, <2>2 DEF Exclusive
  <1>11. ASSUME NEW c \in Invocations, NextBatch(c) PROVE Exclusive'
    <2>1. /\ \A d \in Invocations : d # c => UNCHANGED <<req[d], inv[d]>>
          /\ req'[UI] = req[UI] /\ req'[c] = BatchRequest
      BY <1>11 DEF NextBatch, TypeOK
    <2>2. inv[c] # Idle
      BY <1>11 DEF NextBatch, Idle
    <2>3. QED
      BY <2>1, <2>2, <1>b DEF Exclusive, BatchRequest, Request
  <1>12. ASSUME NEW c \in Invocations,
                PushAgain(c) \/ Finish(c) \/ Throw(c) \/ Drop(c) \/ Crash(c)
         PROVE  Exclusive'
    <2>1. /\ \A d \in Callers : req'[d] \in {req[d], NoRequest}
          /\ \A d \in Invocations : inv'[d] \in {inv[d], Idle}
      BY <1>12 DEF PushAgain, Finish, Throw, Drop, Crash, TypeOK
    <2>2. QED
      BY <2>1, <1>b DEF Exclusive
  <1>13. ASSUME NEW kind \in {"ingest", "sweep"}, StartReader(kind)
         PROVE  Exclusive'
    BY <1>13, <1>b DEF StartReader, Exclusive
  <1>14. ASSUME NEW rows, Lose(rows), UNCHANGED inv PROVE Exclusive'
    <2>1. \A d \in Callers : req'[d].path = req[d].path
      BY <1>14 DEF Lose, TypeOK, Requests
    <2>2. \A d \in Callers : req[d] = NoRequest => req'[d] = NoRequest
      BY <1>14 DEF Lose, At
    <2>3. QED
      BY <1>14, <2>1, <2>2, <1>b DEF Exclusive
  <1>15. ASSUME NEW i \in Issues, NEW n \in 1 .. MaxSlices, CommitIngest(i, n)
         PROVE  Exclusive'
    BY <1>15, <1>14 DEF CommitIngest
  <1>16. ASSUME NEW i \in Issues, DeleteIssue(i) PROVE Exclusive'
    BY <1>16, <1>14 DEF DeleteIssue
  <1>17. CASE UNCHANGED vars
    BY <1>17 DEF vars, Exclusive
  <1>18. QED
    BY <1>1, <1>2, <1>3, <1>5, <1>6, <1>7, <1>8, <1>9, <1>10, <1>11, <1>12,
       <1>13, <1>15, <1>16, <1>17
    DEF Next, Server, Activation, Consumer, Read

-----------------------------------------------------------------------------
(* What requests have read is current. *)

LEMMA InitCurrent == Init => Current
  BY DEF Init, Current, ActivationInFlight, BatchInFlight, At, Callers,
         NoRequest, Request, NoReader

LEMMA NextCurrent ==
  ASSUME Races = {}, TypeOK, Exclusive, Current, [Next]_vars
  PROVE  Current'
  <1>a. UI \in Callers /\ Invocations \subseteq Callers /\ UI \notin Invocations
    BY RecomputeAssumption DEF Callers
  <1>b. \A c \in Invocations :
          BatchInFlight(c) => \A d \in Invocations \ {c} : ~BatchInFlight(d)
    BY DEF Exclusive, Quiescent, BatchInFlight, At, NoRequest, Request
  <1> USE <1>a DEF data, Send
  <1>1. CASE Quiet
    <2>1. \A c \in Callers : req'[c] = req[c] \/ req'[c].at \in {"sent", "answered"}
      BY <1>1 DEF Quiet
    <2>2. ActivationInFlight' => UNCHANGED req[UI] /\ ActivationInFlight
      BY <2>1 DEF ActivationInFlight, At
    <2>3. \A c \in Invocations :
            BatchInFlight(c)' => UNCHANGED req[c] /\ BatchInFlight(c)
      BY <2>1 DEF BatchInFlight, At
    <2>4. reader'.kind # "none" => reader' = reader
      BY <1>1 DEF Quiet, NoReader
    <2>5. tenant' = tenant
      BY <1>1 DEF Quiet
    <2>6. QED
      BY <2>2, <2>3, <2>4, <2>5 DEF Current
  <1>2. CASE LoadActivation
    <2>1. /\ \A c \in Invocations : UNCHANGED req[c] /\ ~BatchInFlight(c)
          /\ req'[UI].loaded = tenant
          /\ UNCHANGED <<tenant, reader>>
      BY <1>2 DEF LoadActivation, TypeOK, Requests
    <2>2. QED
      BY <2>1 DEF Current, BatchInFlight, At
  <1>3. CASE CommitActivation
    <2>1. /\ \A c \in Invocations : UNCHANGED req[c] /\ ~BatchInFlight(c)
          /\ req'[UI].at = "answered"
          /\ UNCHANGED reader /\ reader = NoReader
      BY <1>3
      DEF CommitActivation, Answer, TypeOK, Current, ActivationInFlight,
          NoRequest, Request
    <2>2. QED
      BY <2>1 DEF Current, ActivationInFlight, BatchInFlight, At, NoReader
  <1>4. ASSUME NEW c \in Invocations, LoadBatch(c) PROVE Current'
    <2>1. /\ \A d \in Callers \ {c} : UNCHANGED req[d]
          /\ req'[c].loaded = tenant /\ req'[c].path = "batch"
          /\ UNCHANGED <<tenant, reader>> /\ ~ActivationInFlight
      BY <1>4 DEF LoadBatch, ActivationInFlight, At, TypeOK, Requests
    <2>2. ~ActivationInFlight'
      BY <2>1 DEF ActivationInFlight, At
    <2>3. QED
      BY <2>1, <2>2 DEF Current, BatchInFlight, At
  <1>5. ASSUME NEW c \in Invocations, SelectRows(c) PROVE Current'
    <2>1. /\ \A d \in Callers \ {c} : UNCHANGED req[d]
          /\ req'[c].loaded = req[c].loaded /\ req'[c].path = "batch"
          /\ UNCHANGED <<tenant, reader>> /\ BatchInFlight(c)
      BY <1>5 DEF SelectRows, BatchInFlight, At, TypeOK, Requests
    <2>2. ~ActivationInFlight'
      BY <2>1 DEF ActivationInFlight, At, Current
    <2>3. QED
      BY <2>1, <2>2 DEF Current, BatchInFlight, At
  <1>6. ASSUME NEW c \in Invocations, CommitBatch(c) \/ FailBatch(c)
        PROVE Current'
    <2>1. /\ \A d \in Callers \ {c} : UNCHANGED req[d]
          /\ req'[c].at = "answered" /\ UNCHANGED reader /\ BatchInFlight(c)
      BY <1>6
      DEF CommitBatch, FailBatch, Answer, BatchInFlight, At, TypeOK, NoRequest,
          Request
    <2>2. tenant'.schedule = tenant.schedule
      BY <1>6 DEF CommitBatch, FailBatch, TypeOK, Tenants
    <2>3. ~ActivationInFlight'
      BY <2>1 DEF ActivationInFlight, At, Current
    <2>4. \A d \in Invocations : ~BatchInFlight(d)'
      BY <2>1, <1>b DEF BatchInFlight, At
    <2>5. QED
      BY <2>1, <2>3, <2>4, <2>2 DEF Current
  <1>7. ASSUME NEW kind \in {"ingest", "sweep"}, StartReader(kind)
        PROVE Current'
    <2>1. UNCHANGED <<tenant, req>> /\ reader'.schedule = tenant.schedule
      BY <1>7 DEF StartReader
    <2>2. QED
      BY <2>1 DEF Current, ActivationInFlight, BatchInFlight, At
  <1>8. ASSUME NEW rows, Lose(rows), UNCHANGED tenant,
               reader' \in {reader, NoReader}
        PROVE  Current'
    <2>1. \A c \in Callers : /\ req'[c].path = req[c].path
                             /\ req'[c].at = req[c].at
                             /\ req'[c].loaded = req[c].loaded
      BY <1>8 DEF Lose, TypeOK, Requests
    <2>2. reader'.kind # "none" => reader' = reader
      BY <1>8 DEF NoReader
    <2>3. QED
      BY <1>8, <2>1, <2>2 DEF Current, ActivationInFlight, BatchInFlight, At
  <1>9. ASSUME NEW i \in Issues, NEW n \in 1 .. MaxSlices, CommitIngest(i, n)
        PROVE  Current'
    BY <1>9, <1>8 DEF CommitIngest
  <1>10. CASE CommitSweep
    BY <1>10
    DEF CommitSweep, Current, ActivationInFlight, BatchInFlight, At, NoReader
  <1>11. ASSUME NEW i \in Issues, DeleteIssue(i) PROVE Current'
    BY <1>11, <1>8 DEF DeleteIssue
  <1>12. QED
    BY StepCases, <1>1, <1>2, <1>3, <1>4, <1>5, <1>6, <1>7, <1>9, <1>10, <1>11

(* What an activation that nothing overlaps writes. *)
LEMMA ActivationResets ==
  ASSUME TypeOK, Current, CommitActivation
  PROVE  /\ tenant'.status = "pending" /\ tenant'.cursor = 0
         /\ tenant'.schedule = req[UI].schedule
  BY DEF CommitActivation, Current, ActivationInFlight, Flush, TypeOK, Tenants

(* A batch that is selected by a step of another request, or by none, has  *)
(* been selected before, and only its fate can have changed.               *)
ToCommit(c) == At(c, "batch", "selected") /\ req[c].fate = "commit"

LEMMA InitSerial == Init => Serial
  BY InitTypeOK, InitExclusive, InitCurrent DEF Serial

LEMMA NextSerial ==
  ASSUME Races = {}, Serial, [Next]_vars PROVE Serial'
  BY NextTypeOK, NextExclusive, NextCurrent DEF Serial

(* No alert evaluated under another schedule is kept once a recompute has  *)
(* completed: the last batch drops what is stored, and whoever evaluates   *)
(* alerts meanwhile uses the schedule that is active when it commits.      *)
THEOREM AlertsFollow ==
  ASSUME Races = {} PROVE Spec => []AlertsUseActiveMath
  <1>1. Init => Serial /\ AlertsUseActiveMath
    BY InitSerial DEF Init, AlertsUseActiveMath
  <1>2. ASSUME Serial, AlertsUseActiveMath, [Next]_vars
        PROVE  AlertsUseActiveMath'
    <2> USE DEF data
    <2>a. TypeOK /\ Current
      BY <1>2 DEF Serial
    <2>1. CASE Quiet
      BY <1>2, <2>1 DEF Quiet, AlertsUseActiveMath
    <2>2. CASE CommitActivation
      BY <2>a, <2>2, ActivationResets DEF AlertsUseActiveMath
    <2>3. ASSUME NEW c \in Invocations, CommitBatch(c)
          PROVE  AlertsUseActiveMath'
      BY <2>a, <2>3 DEF CommitBatch, AlertsUseActiveMath, TypeOK, Tenants
    <2>4. ASSUME NEW c \in Invocations, FailBatch(c)
          PROVE  AlertsUseActiveMath'
      BY <2>a, <2>4 DEF FailBatch, AlertsUseActiveMath, TypeOK, Tenants
    <2>5. ASSUME NEW i \in Issues, NEW n \in 1 .. MaxSlices, CommitIngest(i, n)
          PROVE  AlertsUseActiveMath'
      BY <1>2, <2>a, <2>5 DEF CommitIngest, AlertsUseActiveMath, Current
    <2>6. CASE CommitSweep
      BY <1>2, <2>a, <2>6 DEF CommitSweep, AlertsUseActiveMath, Current
    <2>7. CASE UNCHANGED <<tenant, alerts>>
      BY <1>2, <2>7 DEF AlertsUseActiveMath
    <2>8. QED
      BY <1>2, <2>a, <2>1, <2>2, <2>3, <2>4, <2>5, <2>6, <2>7, StepCases
      DEF LoadActivation, LoadBatch, SelectRows, StartReader, DeleteIssue
  <1>3. QED
    BY <1>1, <1>2, NextSerial, PTL DEF Spec

-----------------------------------------------------------------------------
(* A batch about to commit: what it has selected, it has selected itself,  *)
(* nothing has changed it since, and it is the only one.                   *)

LEMMA SelectionKept ==
  ASSUME TypeOK, [Next]_vars, NEW c \in Invocations, ~SelectRows(c)
  PROVE  ToCommit(c)' => ToCommit(c) /\ req'[c] = req[c]
  <1>a. UI \in Callers /\ Invocations \subseteq Callers /\ UI \notin Invocations
    BY RecomputeAssumption DEF Callers
  <1> USE <1>a DEF data, Send, ToCommit
  <1>1. CASE Quiet
    BY <1>1 DEF Quiet, At
  <1>2. CASE LoadActivation \/ CommitActivation
    <2>1. req'[c] = req[c]
      BY <1>2 DEF LoadActivation, CommitActivation, Answer, TypeOK
    <2>2. QED
      BY <2>1 DEF At
  <1>3. ASSUME NEW d \in Invocations, LoadBatch(d)
        PROVE  ToCommit(c)' => ToCommit(c) /\ req'[c] = req[c]
    <2>1. /\ c # d => req'[c] = req[c]
          /\ req'[d].at = "loaded"
      BY <1>3 DEF LoadBatch, TypeOK, Requests
    <2>2. QED
      BY <2>1 DEF At
  <1>4. ASSUME NEW d \in Invocations, CommitBatch(d) \/ FailBatch(d)
        PROVE  ToCommit(c)' => ToCommit(c) /\ req'[c] = req[c]
    <2>1. /\ c # d => req'[c] = req[c]
          /\ req'[d].at = "answered"
      BY <1>4
      DEF CommitBatch, FailBatch, Answer, TypeOK, NoRequest, Request
    <2>2. QED
      BY <2>1 DEF At
  <1>5. ASSUME NEW d \in Invocations, SelectRows(d)
        PROVE  ToCommit(c)' => ToCommit(c) /\ req'[c] = req[c]
    <2>1. c # d
      BY <1>5
    <2>2. req'[c] = req[c]
      BY <1>5, <2>1 DEF SelectRows, TypeOK
    <2>3. QED
      BY <2>2 DEF At
  <1>6. CASE UNCHANGED req
    BY <1>6 DEF At
  <1>7. ASSUME NEW rows, Lose(rows)
        PROVE  ToCommit(c)' => ToCommit(c) /\ req'[c] = req[c]
    <2>1. \/ req'[c] = req[c]
          \/ req'[c].fate = "lose"
      BY <1>7 DEF Lose, TypeOK, Requests
    <2>2. QED
      BY <2>1 DEF At
  <1>8. QED
    BY <1>1, <1>2, <1>3, <1>4, <1>5, <1>6, <1>7, StepCases
    DEF StartReader, CommitIngest, CommitSweep, DeleteIssue

(* What can happen beside a batch that is about to commit. *)
LEMMA Alone ==
  ASSUME Serial, NEW c \in Invocations, BatchInFlight(c)
  PROVE  /\ \A d \in Invocations \ {c} : ~BatchInFlight(d)
         /\ ~ActivationInFlight
         /\ req[c].loaded.schedule = tenant.schedule
         /\ req[c].loaded.cursor = tenant.cursor
  BY DEF Serial, Exclusive, Current, Quiescent, BatchInFlight, At, NoRequest,
         Request

(* Once a batch has been answered, none is about to commit. *)
LEMMA OnlyCommitter ==
  ASSUME Serial, NEW c \in Invocations, BatchInFlight(c),
         CommitBatch(c) \/ FailBatch(c)
  PROVE  \A d \in Invocations : ~ToCommit(d)'
  <1>1. TypeOK /\ Invocations \subseteq Callers
    BY DEF Serial, Callers
  <1>2. /\ req'[c].at = "answered"
        /\ \A d \in Invocations \ {c} : req'[d] = req[d]
    BY <1>1 DEF CommitBatch, FailBatch, Answer, TypeOK, NoRequest, Request
  <1>3. \A d \in Invocations \ {c} : ~BatchInFlight(d)
    BY Alone
  <1>4. QED
    BY <1>2, <1>3 DEF ToCommit, BatchInFlight, At

(* The stored slices are finitely many, and so are those of any part. *)
LEMMA StoredFinite ==
  ASSUME TypeOK
  PROVE  /\ IsFiniteSet(stored) /\ Cardinality(stored) \in Nat
         /\ \A rows \in SUBSET stored :
              /\ IsFiniteSet(rows) /\ Cardinality(rows) \in Nat
              /\ Cardinality(rows) <= Cardinality(stored)
              /\ Cardinality(rows) = Cardinality(stored) => rows = stored
  <1>1. IsFiniteSet(stored)
    BY RowsFinite, FS_Subset DEF TypeOK
  <1>2. QED
    BY <1>1, FS_Subset, FS_CardinalityType

(* What a batch selects: the rows after the first tenant.cursor ones. *)
LEMMA Selection ==
  ASSUME TypeOK, NEW c \in Invocations, SelectRows(c),
         req[c].loaded.cursor = tenant.cursor
  PROVE  \E skipped, read \in SUBSET stored :
           /\ Leads(skipped) /\ Leads(read)
           /\ req'[c].dirty = {row \in (read \ skipped) \ Instant :
                                 math[row] # req[c].loaded.schedule}
           /\ req'[c].last =>
                /\ req'[c].cursor = Cardinality(stored)
                /\ Cardinality(skipped) <= tenant.cursor /\ read = stored
           /\ ~req'[c].last =>
                /\ req'[c].cursor = Cardinality(read)
                /\ Cardinality(skipped) = tenant.cursor
                /\ Cardinality(read) >= tenant.cursor
  <1>a. Invocations \subseteq Callers
    BY DEF Callers
  <1>b. tenant.cursor \in Nat /\ BatchSize \in Nat \ {0}
    BY RecomputeAssumption DEF TypeOK, Tenants
  <1>1. PICK skipped \in SUBSET stored, read \in SUBSET stored :
          LET total == Cardinality(stored)
              rows == read \ skipped
              processed == Cardinality(rows)
              schedule == req[c].loaded.schedule
              last == tenant.cursor + processed >= total
              raises == schedule \in BadSchedules /\ rows \ Instant # {}
          IN  /\ skipped \subseteq read
              /\ IsPrefix(skipped, AtMost(tenant.cursor, total))
              /\ IsPrefix(read, AtMost(tenant.cursor + BatchSize, total))
              /\ Send(c, [req[c] EXCEPT
                  !.at = "selected",
                  !.dirty = {row \in rows \ Instant : math[row] # schedule},
                  !.cursor = IF last THEN total
                             ELSE req[c].loaded.cursor + processed,
                  !.last = last,
                  !.fate = IF raises THEN "raise" ELSE "commit"])
    BY DEF SelectRows
  <1> DEFINE total == Cardinality(stored)
             rows == read \ skipped
             processed == Cardinality(rows)
             schedule == req[c].loaded.schedule
             last == tenant.cursor + processed >= total
             dirty == {row \in rows \ Instant : math[row] # schedule}
  <1>2. /\ skipped \subseteq read /\ Leads(skipped) /\ Leads(read)
        /\ Cardinality(skipped) = AtMost(tenant.cursor, total)
        /\ Cardinality(read) = AtMost(tenant.cursor + BatchSize, total)
    BY <1>1 DEF IsPrefix
  <1>3. /\ req'[c].dirty = dirty /\ req'[c].last = last
        /\ req'[c].cursor = IF last THEN total
                            ELSE req[c].loaded.cursor + processed
    BY <1>1, <1>a DEF Send, TypeOK, Requests
  <1>4. /\ IsFiniteSet(read) /\ IsFiniteSet(skipped) /\ total \in Nat
        /\ Cardinality(read) \in Nat /\ Cardinality(skipped) \in Nat
        /\ Cardinality(read) = total => read = stored
        /\ Cardinality(skipped) = total => skipped = stored
    BY StoredFinite
  <1>5. processed = Cardinality(read) - Cardinality(skipped)
    <2>1. read \cap skipped = skipped
      BY <1>2
    <2>2. QED
      BY <1>4, <2>1, FS_Difference
  <1>6. ASSUME last PROVE Cardinality(skipped) <= tenant.cursor /\ read = stored
    <2>1. Cardinality(skipped) <= tenant.cursor
      BY <1>b, <1>2, <1>4 DEF AtMost
    <2>2. CASE tenant.cursor < total
      BY <1>b, <1>2, <1>4, <1>5, <1>6, <2>2 DEF AtMost
    <2>3. CASE ~(tenant.cursor < total)
      BY <1>b, <1>2, <1>4, <2>3 DEF AtMost
    <2>4. QED
      BY <2>1, <2>2, <2>3
  <1>7. ASSUME ~last
        PROVE  /\ Cardinality(skipped) = tenant.cursor
               /\ Cardinality(read) = tenant.cursor + processed
               /\ Cardinality(read) >= tenant.cursor
    <2>1. tenant.cursor < total /\ processed \in Nat
      BY <1>b, <1>2, <1>4, <1>5, <1>7, FS_CardinalityType, FS_Subset
    <2>2. QED
      BY <1>b, <1>2, <1>4, <1>5, <2>1 DEF AtMost
  <1>8. QED
    BY <1>2, <1>3, <1>6, <1>7

-----------------------------------------------------------------------------
(* Where the cursor stands: within the table as long as a recompute is     *)
(* going on, and never behind by what a batch is about to write.           *)

Walking == tenant.status \in {"pending", "running"}

CursorInRange ==
  /\ Walking => tenant.cursor <= Cardinality(stored)
  /\ \A c \in Invocations : ToCommit(c) =>
       /\ ~req[c].last => req[c].cursor <= Cardinality(stored)
       /\ Walking => tenant.cursor <= req[c].cursor

LEMMA InitCursorInRange == Init => CursorInRange
  BY DEF Init, CursorInRange, Walking, NewTenant, ToCommit, At, NoRequest,
         Request, Callers

LEMMA NextCursorInRange ==
  ASSUME Races = {}, Serial, Serial', CursorInRange, [Next]_vars
  PROVE  CursorInRange'
  <1>a. UI \in Callers /\ Invocations \subseteq Callers /\ UI \notin Invocations
    BY RecomputeAssumption DEF Callers
  <1>b. TypeOK /\ TypeOK'
    BY DEF Serial
  <1>c. \A c \in Invocations : ToCommit(c) => BatchInFlight(c)
    BY DEF ToCommit, BatchInFlight
  <1>d. /\ tenant.cursor \in Nat /\ Cardinality(stored) \in Nat
        /\ Cardinality(stored') \in Nat
        /\ \A c \in Invocations : req[c].cursor \in Nat
    <2>1. IsFiniteSet(stored) /\ IsFiniteSet(stored')
      BY <1>b, RowsFinite, FS_Subset DEF TypeOK
    <2>2. \A c \in Invocations : req[c] \in Requests
      BY <1>a, <1>b DEF TypeOK
    <2>3. QED
      BY <1>b, <2>1, <2>2, FS_CardinalityType DEF TypeOK, Tenants, Requests
  <1> USE DEF data
  <1>1. ASSUME UNCHANGED tenant, Cardinality(stored) <= Cardinality(stored'),
               \A c \in Invocations : ~SelectRows(c)
        PROVE  CursorInRange'
    BY <1>1, <1>b, <1>d, SelectionKept DEF CursorInRange, Walking
  <1>2. CASE CommitActivation
    <2>1. \A c \in Invocations : ~ToCommit(c)'
      BY <1>2, <1>a, <1>b, <1>c
      DEF CommitActivation, Serial, Current, ActivationInFlight, Answer, TypeOK,
          ToCommit, BatchInFlight, At
    <2>2. QED
      BY <1>2, <1>b, <1>d, <2>1, ActivationResets DEF Serial, CursorInRange
  <1>3. ASSUME NEW c \in Invocations, SelectRows(c) PROVE CursorInRange'
    <2>1. BatchInFlight(c) /\ UNCHANGED <<tenant, stored>>
      BY <1>3 DEF SelectRows, BatchInFlight
    <2>2. \A d \in Invocations : ToCommit(d)' => d = c
      BY <1>3, <1>a, <1>b, <2>1, Alone
      DEF SelectRows, Send, TypeOK, ToCommit, BatchInFlight, At
    <2>3. PICK skipped, read \in SUBSET stored :
            /\ req'[c].last => req'[c].cursor = Cardinality(stored)
            /\ ~req'[c].last =>
                 /\ req'[c].cursor = Cardinality(read)
                 /\ Cardinality(read) >= tenant.cursor
      BY <1>3, <1>b, <2>1, Alone, Selection
    <2>4. /\ ~req'[c].last => req'[c].cursor <= Cardinality(stored)
          /\ Walking => tenant.cursor <= req'[c].cursor
      BY <1>b, <1>d, <2>3, StoredFinite DEF CursorInRange
    <2>5. QED
      BY <2>1, <2>2, <2>4 DEF CursorInRange, Walking
  <1>4. ASSUME NEW c \in Invocations, CommitBatch(c) \/ FailBatch(c)
        PROVE  CursorInRange'
    <2>1. BatchInFlight(c) /\ UNCHANGED stored
      BY <1>4 DEF CommitBatch, FailBatch, BatchInFlight
    <2>2. \A d \in Invocations : ~ToCommit(d)'
      BY <1>4, <2>1, Alone, OnlyCommitter
    <2>3. Walking' => tenant'.cursor <= Cardinality(stored)
      BY <1>4, <1>b DEF CommitBatch, FailBatch, CursorInRange, Walking, ToCommit,
         TypeOK, Tenants
    <2>4. QED
      BY <2>1, <2>2, <2>3 DEF CursorInRange
  <1>5. ASSUME NEW i \in Issues, NEW n \in 1 .. MaxSlices, CommitIngest(i, n)
        PROVE  /\ UNCHANGED tenant /\ Cardinality(stored) <= Cardinality(stored')
               /\ \A c \in Invocations : ~SelectRows(c)
    <2>1. stored \subseteq stored' /\ IsFiniteSet(stored')
      BY <1>5, <1>b, RowsFinite, FS_Subset DEF CommitIngest, TypeOK
    <2>2. reader' # reader
      BY <1>5 DEF CommitIngest, NoReader
    <2>3. QED
      BY <1>5, <2>1, <2>2, FS_Subset DEF CommitIngest, SelectRows
  <1>6. ASSUME NEW i \in Issues, DeleteIssue(i) PROVE CursorInRange'
    <2>1. ~Walking /\ UNCHANGED tenant
      BY <1>6 DEF DeleteIssue, Walking
    <2>2. \A c \in Invocations : ~SelectRows(c) /\ ~BatchInFlight(c)
      BY <1>6 DEF DeleteIssue, SelectRows, BatchInFlight
    <2>3. QED
      BY <1>b, <1>c, <2>1, <2>2, SelectionKept DEF CursorInRange, Walking
  <1>7. CASE UNCHANGED <<tenant, stored>>
    <2>1. CASE \A c \in Invocations : ~SelectRows(c)
      BY <1>1, <1>7, <1>d, <2>1
    <2>2. QED
      BY <1>3, <2>1
  <1>8. QED
    BY <1>b, <1>1, <1>2, <1>3, <1>4, <1>5, <1>6, <1>7, StepCases
    DEF Quiet, LoadActivation, LoadBatch, StartReader, CommitSweep

(* While a recompute goes on its cursor moves back only when a schedule is *)
(* activated, whatever crashes, fails, or is delivered or deleted.         *)
THEOREM CursorMonotonic ==
  ASSUME Races = {} PROVE Spec => CursorIsMonotonic
  <1>1. Init => Serial /\ CursorInRange
    BY InitSerial, InitCursorInRange
  <1>2. Serial /\ CursorInRange /\ [Next]_vars => (Serial /\ CursorInRange)'
    BY NextSerial, NextCursorInRange
  <1>3. ASSUME Serial, CursorInRange, [Next]_vars, Walking,
               tenant'.cursor < tenant.cursor
        PROVE  tenant'.status = "pending"
    <2>a. TypeOK /\ Current /\ tenant.cursor \in Nat
      BY <1>3 DEF Serial, TypeOK, Tenants
    <2>1. tenant'.cursor # tenant.cursor
      BY <1>3, <2>a
    <2>2. ASSUME NEW c \in Invocations, CommitBatch(c) PROVE FALSE
      <3>1. tenant'.cursor = req[c].cursor /\ ToCommit(c)
        BY <2>a, <2>2 DEF CommitBatch, ToCommit, TypeOK, Tenants
      <3>2. req[c].cursor \in Nat
        BY <2>a DEF TypeOK, Callers, Requests
      <3>3. QED
        BY <1>3, <2>a, <3>1, <3>2 DEF CursorInRange
    <2>3. ASSUME NEW c \in Invocations, FailBatch(c) PROVE FALSE
      BY <2>a, <2>1, <2>3 DEF FailBatch, TypeOK, Tenants
    <2>4. CASE CommitActivation
      BY <2>a, <2>4, ActivationResets
    <2>5. QED
      BY <1>3, <2>a, <2>1, <2>2, <2>3, <2>4, StepCases
      DEF Quiet, LoadActivation, LoadBatch, SelectRows, StartReader,
          CommitIngest, CommitSweep, DeleteIssue
  <1>4. Serial /\ CursorInRange /\ [Next]_vars
          => [Walking /\ tenant'.cursor < tenant.cursor
                => tenant'.status = "pending"]_vars
    BY <1>3
  <1>5. QED
    BY <1>1, <1>2, <1>4, PTL DEF Spec, CursorIsMonotonic, Walking

-----------------------------------------------------------------------------
(* Which rows are fresh: the rows the cursor skips; all of them when no    *)
(* recompute is going on; and, when a batch is about to commit, the rows   *)
(* its cursor will skip but for those it is about to write.                *)

FreshUpTo(n, dirty) ==
  \A first \in SUBSET stored :
    Leads(first) /\ Cardinality(first) <= n
      => \A row \in first \ dirty : Fresh(row)

FreshExcept(dirty) == \A row \in stored \ dirty : Fresh(row)

RowsInv ==
  /\ FreshUpTo(tenant.cursor, {})
  /\ tenant.status \in {"idle", "completed"} => FreshExcept({})
  /\ \A c \in Invocations : ToCommit(c) =>
       /\ FreshUpTo(req[c].cursor, req[c].dirty)
       /\ req[c].last => FreshExcept(req[c].dirty)

LEMMA InitRowsInv == Init => RowsInv
  BY DEF Init, RowsInv, FreshUpTo, FreshExcept, Fresh, NewTenant, ToCommit, At,
         NoRequest, Request, Callers

(* New rows that are fresh keep what was fresh: the stored part of a       *)
(* leading set of the larger table leads the smaller one.                  *)
LEMMA FreshGrows ==
  ASSUME TypeOK, TypeOK', stored \subseteq stored', UNCHANGED tenant,
         \A row \in stored' : Fresh(row)' \/ (row \in stored /\ math'[row] = math[row])
  PROVE  /\ \A n \in Nat : \A dirty : FreshUpTo(n, dirty) => FreshUpTo(n, dirty)'
         /\ \A dirty : FreshExcept(dirty) => FreshExcept(dirty)'
  <1>1. \A row \in stored' : row \in stored /\ Fresh(row) => Fresh(row)'
    BY DEF Fresh
  <1>2. \A row \in stored' : row \notin stored => Fresh(row)'
    OBVIOUS
  <1>3. ASSUME NEW n \in Nat, NEW dirty, FreshUpTo(n, dirty)
        PROVE  FreshUpTo(n, dirty)'
    <2>1. SUFFICES ASSUME NEW first \in SUBSET stored', Leads(first)',
                          Cardinality(first) <= n, NEW row \in first \ dirty
                   PROVE  Fresh(row)'
      BY DEF FreshUpTo
    <2> DEFINE part == first \cap stored
    <2>2. part \in SUBSET stored /\ Leads(part)
      BY <2>1 DEF Leads, Before
    <2>3. Cardinality(part) <= n
      <3>1. IsFiniteSet(first)
        BY RowsFinite, FS_Subset DEF TypeOK
      <3>2. /\ Cardinality(part) \in Nat /\ Cardinality(first) \in Nat
            /\ Cardinality(part) <= Cardinality(first)
        BY <3>1, FS_Subset, FS_CardinalityType
      <3>3. QED
        BY <2>1, <3>2
    <2>4. row \in stored => Fresh(row)
      BY <1>3, <2>2, <2>3 DEF FreshUpTo
    <2>5. QED
      BY <1>1, <1>2, <2>4
  <1>4. ASSUME NEW dirty, FreshExcept(dirty) PROVE FreshExcept(dirty)'
    BY <1>1, <1>2, <1>4 DEF FreshExcept
  <1>5. QED
    BY <1>3, <1>4

LEMMA NextRowsInv ==
  ASSUME Races = {}, Instant = {}, Serial, Serial', RowsInv, [Next]_vars
  PROVE  RowsInv'
  <1>a. UI \in Callers /\ Invocations \subseteq Callers /\ UI \notin Invocations
    BY RecomputeAssumption DEF Callers
  <1>b. TypeOK /\ TypeOK' /\ Current
    BY DEF Serial
  <1>c. \A c \in Invocations : ToCommit(c) => BatchInFlight(c)
    BY DEF ToCommit, BatchInFlight
  <1>d. /\ tenant.cursor \in Nat
        /\ \A c \in Invocations :
             req[c].cursor \in Nat /\ req[c].dirty \subseteq Rows
    <2>1. \A c \in Invocations : req[c] \in Requests
      BY <1>a, <1>b DEF TypeOK
    <2>2. QED
      BY <1>b, <2>1 DEF TypeOK, Tenants, Requests
  <1> USE DEF data
  <1>1. ASSUME UNCHANGED tenant, stored \subseteq stored',
               \A row \in stored' :
                 Fresh(row)' \/ (row \in stored /\ math'[row] = math[row]),
               \A c \in Invocations : ~SelectRows(c)
        PROVE  RowsInv'
    <2>1. FreshUpTo(tenant.cursor, {})' /\
          (tenant'.status \in {"idle", "completed"} => FreshExcept({})')
      BY <1>1, <1>b, <1>d, FreshGrows DEF RowsInv
    <2>2. ASSUME NEW c \in Invocations, ToCommit(c)'
          PROVE  /\ FreshUpTo(req[c].cursor, req[c].dirty)'
                 /\ req'[c].last => FreshExcept(req[c].dirty)'
      <3>1. ToCommit(c) /\ req'[c] = req[c]
        BY <1>1, <1>b, <2>2, SelectionKept
      <3>2. /\ FreshUpTo(req[c].cursor, req[c].dirty)
            /\ req[c].last => FreshExcept(req[c].dirty)
        BY <3>1 DEF RowsInv
      <3>3. \A n \in Nat : \A dirty : FreshUpTo(n, dirty) => FreshUpTo(n, dirty)'
        BY <1>1, <1>b, FreshGrows
      <3>4. \A dirty : FreshExcept(dirty) => FreshExcept(dirty)'
        BY <1>1, <1>b, FreshGrows
      <3>5. QED
        BY <1>d, <3>1, <3>2, <3>3, <3>4 DEF FreshUpTo, FreshExcept
    <2>3. QED
      BY <2>1, <2>2 DEF RowsInv
  <1>2. CASE CommitActivation
    <2>1. \A c \in Invocations : ~ToCommit(c)'
      BY <1>2, <1>a, <1>b, <1>c
      DEF CommitActivation, Current, ActivationInFlight, Answer, TypeOK,
          ToCommit, BatchInFlight, At
    <2>2. \A first \in SUBSET stored' : Cardinality(first) <= 0 => first = {}
      <3>1. \A first \in SUBSET stored' : IsFiniteSet(first)
        BY <1>b, RowsFinite, FS_Subset DEF TypeOK
      <3>2. QED
        BY <3>1, FS_EmptySet, FS_CardinalityType
    <2>3. tenant'.status = "pending" /\ tenant'.cursor = 0
      BY <1>2, <1>b, ActivationResets
    <2>4. FreshUpTo(tenant.cursor, {})'
      BY <2>2, <2>3 DEF FreshUpTo
    <2>5. QED
      BY <2>1, <2>3, <2>4 DEF RowsInv
  <1>3. ASSUME NEW c \in Invocations, SelectRows(c) PROVE RowsInv'
    <2>1. BatchInFlight(c) /\ UNCHANGED <<tenant, stored, math>>
      BY <1>3 DEF SelectRows, BatchInFlight
    <2>2. \A d \in Invocations : ToCommit(d)' => d = c
      BY <1>3, <1>a, <1>b, <2>1, Alone
      DEF SelectRows, Send, TypeOK, ToCommit, BatchInFlight, At
    <2>3. PICK skipped, read \in SUBSET stored :
            /\ Leads(skipped) /\ Leads(read)
            /\ req'[c].dirty = {row \in (read \ skipped) \ Instant :
                                  math[row] # req[c].loaded.schedule}
            /\ req'[c].last =>
                 /\ req'[c].cursor = Cardinality(stored)
                 /\ Cardinality(skipped) <= tenant.cursor /\ read = stored
            /\ ~req'[c].last =>
                 /\ req'[c].cursor = Cardinality(read)
                 /\ Cardinality(skipped) = tenant.cursor
                 /\ Cardinality(read) >= tenant.cursor
      BY <1>3, <1>b, <2>1, Alone, Selection
    <2>4. \A row \in skipped : Fresh(row)
      <3>1. Cardinality(skipped) <= tenant.cursor
        BY <1>d, <2>3
      <3>2. QED
        BY <2>3, <3>1 DEF RowsInv, FreshUpTo
    <2>5. \A row \in read \ req'[c].dirty : Fresh(row)
      <3>1. req[c].loaded.schedule = tenant.schedule
        BY <2>1, Alone
      <3>2. QED
        BY <2>3, <2>4, <3>1 DEF Fresh
    <2>6. ASSUME ~req'[c].last, NEW first \in SUBSET stored, Leads(first),
                 Cardinality(first) <= req'[c].cursor
          PROVE  first \subseteq read
      BY <1>b, <2>3, <2>6, LeadsNest DEF TypeOK
    <2>7. FreshUpTo(req[c].cursor, req[c].dirty)'
      <3>1. SUFFICES ASSUME NEW first \in SUBSET stored, Leads(first),
                            Cardinality(first) <= req'[c].cursor,
                            NEW row \in first \ req'[c].dirty
                     PROVE  Fresh(row)
        BY <2>1 DEF FreshUpTo, Leads, Before, Fresh
      <3>2. row \in read
        BY <2>3, <2>6, <3>1
      <3>3. QED
        BY <2>5, <3>1, <3>2
    <2>8. req'[c].last => FreshExcept(req[c].dirty)'
      BY <2>1, <2>3, <2>5 DEF FreshExcept, Fresh
    <2>9. FreshUpTo(tenant.cursor, {})' /\
          (tenant'.status \in {"idle", "completed"} => FreshExcept({})')
      BY <2>1 DEF RowsInv, FreshUpTo, FreshExcept, Leads, Before, Fresh
    <2>10. QED
      BY <2>2, <2>7, <2>8, <2>9 DEF RowsInv
  <1>4. ASSUME NEW c \in Invocations, CommitBatch(c) PROVE RowsInv'
    <2>1. /\ BatchInFlight(c) /\ ToCommit(c) /\ UNCHANGED stored
          /\ tenant'.cursor = req[c].cursor
          /\ tenant'.schedule = tenant.schedule
          /\ tenant'.status \in {"idle", "completed"} => req[c].last
      BY <1>4, <1>b DEF CommitBatch, BatchInFlight, ToCommit, TypeOK, Tenants
    <2>2. \A d \in Invocations : ~ToCommit(d)'
      BY <1>4, <2>1, OnlyCommitter
    <2>3. req[c].loaded.schedule = tenant.schedule
      BY <2>1, Alone
    <2>4. \A row \in stored : row \in req[c].dirty \/ Fresh(row) => Fresh(row)'
      BY <1>4, <1>b, <2>1, <2>3 DEF CommitBatch, Fresh, TypeOK
    <2>5. /\ FreshUpTo(req[c].cursor, req[c].dirty)
          /\ req[c].last => FreshExcept(req[c].dirty)
      BY <2>1 DEF RowsInv
    <2>6. FreshUpTo(tenant.cursor, {})'
      BY <2>1, <2>4, <2>5 DEF FreshUpTo, Leads, Before
    <2>7. tenant'.status \in {"idle", "completed"} => FreshExcept({})'
      BY <2>1, <2>4, <2>5 DEF FreshExcept
    <2>8. QED
      BY <2>2, <2>6, <2>7 DEF RowsInv
  <1>5. ASSUME NEW c \in Invocations, FailBatch(c) PROVE RowsInv'
    <2>1. /\ BatchInFlight(c) /\ UNCHANGED <<stored, math>>
          /\ tenant'.cursor = tenant.cursor
          /\ tenant'.schedule = tenant.schedule /\ tenant'.status = "failed"
      BY <1>5, <1>b DEF FailBatch, BatchInFlight, TypeOK, Tenants
    <2>2. \A d \in Invocations : ~ToCommit(d)'
      BY <1>5, <2>1, OnlyCommitter
    <2>3. FreshUpTo(tenant.cursor, {})'
      BY <2>1 DEF RowsInv, FreshUpTo, Leads, Before, Fresh
    <2>4. QED
      BY <2>1, <2>2, <2>3 DEF RowsInv
  <1>6. ASSUME NEW i \in Issues, NEW n \in 1 .. MaxSlices, CommitIngest(i, n)
        PROVE  RowsInv'
    <2> DEFINE rows == {i} \X (1 .. n)
    <2>1. /\ UNCHANGED tenant /\ stored' = stored \cup rows
          /\ reader.schedule = tenant.schedule /\ reader' # reader
      BY <1>6, <1>b DEF CommitIngest, Current, NoReader
    <2>2. \A row \in Rows : math'[row] = IF row \in rows THEN tenant.schedule
                                         ELSE math[row]
      BY <1>6, <2>1 DEF CommitIngest
    <2>3. \A row \in stored' :
            Fresh(row)' \/ (row \in stored /\ math'[row] = math[row])
      BY <1>b, <2>1, <2>2 DEF Fresh, TypeOK
    <2>4. \A c \in Invocations : ~SelectRows(c)
      BY <2>1 DEF SelectRows
    <2>5. QED
      BY <1>1, <2>1, <2>3, <2>4
  <1>7. ASSUME NEW i \in Issues, DeleteIssue(i) PROVE RowsInv'
    <2>1. /\ tenant.status \in {"idle", "completed"} /\ UNCHANGED tenant
          /\ \A c \in Invocations : ~BatchInFlight(c) /\ ~SelectRows(c)
          /\ stored' = stored \ SlicesOf(i)
      BY <1>7 DEF DeleteIssue, SelectRows, BatchInFlight
    <2>2. \A row \in stored' : Fresh(row)'
      <3>1. \A row \in stored' : row \in Rows /\ math'[row] = math[row]
        BY <1>7, <1>b, <2>1 DEF DeleteIssue, TypeOK
      <3>2. QED
        BY <2>1, <3>1 DEF RowsInv, FreshExcept, Fresh
    <2>3. \A c \in Invocations : ~ToCommit(c)'
      BY <1>b, <1>c, <2>1, SelectionKept
    <2>4. QED
      BY <2>2, <2>3 DEF RowsInv, FreshUpTo, FreshExcept
  <1>8. CASE UNCHANGED <<tenant, stored, math>>
    <2>1. CASE \A c \in Invocations : ~SelectRows(c)
      BY <1>1, <1>8, <2>1
    <2>2. QED
      BY <1>3, <2>1
  <1>9. QED
    BY <1>b, <1>2, <1>3, <1>4, <1>5, <1>6, <1>7, <1>8, StepCases
    DEF Quiet, LoadActivation, LoadBatch, StartReader, CommitSweep

LEMMA RowsInvariant ==
  ASSUME Races = {}, Instant = {} PROVE Spec => [](Serial /\ RowsInv)
  <1>1. Init => Serial /\ RowsInv
    BY InitSerial, InitRowsInv
  <1>2. Serial /\ RowsInv /\ [Next]_vars => (Serial /\ RowsInv)'
    BY NextSerial, NextRowsInv
  <1>3. QED
    BY <1>1, <1>2, PTL DEF Spec

(* When nothing overlaps a batch or an activation and no two slices of an  *)
(* issue start at one instant, a completed recompute has left every stored *)
(* slice computed under the active schedule, after any number of crashes,  *)
(* failed batches, redeliveries and ingests.                               *)
THEOREM Uniform ==
  ASSUME Races = {}, Instant = {} PROVE Spec => []CompletedIsUniform
  <1>1. Serial /\ RowsInv => CompletedIsUniform
    BY DEF RowsInv, FreshExcept, CompletedIsUniform
  <1>2. QED
    BY <1>1, RowsInvariant, PTL

(* Under the same assumptions the rows the next batch will skip need no    *)
(* recompute, so the cursor alone tells where to resume.                   *)
THEOREM Resumable ==
  ASSUME Races = {}, Instant = {} PROVE Spec => []CursorSkipsFresh
  <1>1. ASSUME Serial, RowsInv PROVE CursorSkipsFresh
    <2>1. /\ TypeOK /\ tenant.cursor \in Nat /\ Cardinality(stored) \in Nat
      BY <1>1, StoredFinite DEF Serial, TypeOK, Tenants
    <2>2. AtMost(tenant.cursor, Cardinality(stored)) <= tenant.cursor
      BY <2>1 DEF AtMost
    <2>3. QED
      BY <1>1, <2>2 DEF RowsInv, FreshUpTo, CursorSkipsFresh, IsPrefix
  <1>2. QED
    BY <1>1, RowsInvariant, PTL

=============================================================================
