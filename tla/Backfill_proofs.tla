--------------------------- MODULE Backfill_proofs ---------------------------
(***************************************************************************)
(* Proofs about Backfill, for every size of site, page budget, cap, number *)
(* of invocations and amount of adversity.                                 *)
(***************************************************************************)
EXTENDS Backfill, TLAPS

(* The flush of a column keeps its type. *)
LEMMA FlushType ==
  ASSUME NEW S, NEW loaded \in S, NEW assigned \in S, NEW stored \in S
  PROVE  Flush(loaded, assigned, stored) \in S
  BY DEF Flush

(* What a handler makes of a well-formed row is a well-formed row. *)
LEMMA HandledType ==
  ASSUME NEW r \in Requests
  PROVE  Handled(r) \in Tenants
<1>1. r.loaded \in Tenants /\ r.delta \in Nat
  BY DEF Requests
<1>2. Started(r.loaded) \in Tenants
  BY <1>1 DEF Tenants, Statuses, Started
<1>3. Progressed(r.loaded, r) \in Tenants
  <2> DEFINE counted == [r.loaded EXCEPT !.processed = @ + r.delta]
  <2>1. counted \in Tenants
    BY <1>1 DEF Tenants
  <2>2. /\ [counted EXCEPT !.status = "failed", !.error = TRUE] \in Tenants
        /\ [counted EXCEPT !.status = "completed"] \in Tenants
    BY <2>1 DEF Tenants, Statuses
  <2> QED
    BY <2>1, <2>2 DEF Progressed
<1> QED
  BY <1>2, <1>3 DEF Handled

(* Every request the callers build is well formed. *)
LEMMA RequestType ==
  /\ NoRequest \in Requests /\ StartRequest \in Requests
  /\ \A delta \in Nat, done, error \in BOOLEAN :
       Request("progress", delta, done, error) \in Requests
  BY DEF NoRequest, StartRequest, Request, Requests, Tenants, Statuses,
         NewTenant

(* The initial state is well typed. *)
LEMMA InitTypeOK == ASSUME BackfillAssumption, Init PROVE TypeOK
<1>1. Idle \in Walks
  BY DEF Idle, Walks, Steps, FirstTask, Tasks
<1>2. NewTenant \in Tenants
  BY DEF NewTenant, Tenants, Statuses
<1> QED
  BY <1>1, <1>2, RequestType DEF Init, TypeOK

(* A step keeps the state well typed. *)
LEMMA NextTypeOK ==
  ASSUME BackfillAssumption, TypeOK, [Next]_vars
  PROVE  TypeOK'
<1> USE DEF TypeOK
<1>a. Idle \in Walks
  BY DEF Idle, Walks, Steps, FirstTask, Tasks
<1>c. UI \in Callers /\ Invocations \subseteq Callers
  BY DEF Callers
<1>d. ASSUME NEW c \in Invocations
      PROVE  /\ inv[c] \in Walks
             /\ inv[c].token \in Nat /\ inv[c].already \in Nat
             /\ inv[c].page \in Nat /\ inv[c].task \in Tasks
  BY DEF Walks
<1>1. CASE InstallTrigger
  <2>1. FirstTask(pushes) \in Tasks
    BY DEF FirstTask, Tasks
  <2> QED
    BY <1>1, <2>1 DEF InstallTrigger, MayKick, Push, history
<1>2. CASE ClickStart
  BY <1>2, <1>c, RequestType DEF ClickStart, MayKick, history
<1>3. CASE EnqueueFromUI
  <2>1. FirstTask(pushes) \in Tasks
    BY DEF FirstTask, Tasks
  <2> QED
    BY <1>3, <2>1 DEF EnqueueFromUI, Push, env, history
<1>4. CASE EnqueueFails
  BY <1>4 DEF EnqueueFails, history
<1>5. CASE Acknowledge
  BY <1>5 DEF Acknowledge, Tenants, env
<1>6. ASSUME NEW c \in Callers, LoadTenant(c) PROVE TypeOK'
  <2>1. [req[c] EXCEPT !.at = "loaded", !.loaded = tenant] \in Requests
    BY DEF Requests
  <2> QED
    BY <1>6, <2>1 DEF LoadTenant, Send, env, history
<1>7. ASSUME NEW c \in Callers, CommitTenant(c) PROVE TypeOK'
  <2>1. [req[c] EXCEPT !.at = "committed"] \in Requests
    BY DEF Requests
  <2>2. Handled(req[c]) \in Tenants /\ req[c].loaded \in Tenants
    BY HandledType DEF Requests
  <2>3. tenant' \in Tenants
    BY <1>7, <2>2, FlushType DEF CommitTenant, Tenants, Flush
  <2> QED
    BY <1>7, <2>1, <2>3 DEF CommitTenant, Send, env
<1>8. ASSUME NEW c \in Callers, Answer(c) PROVE TypeOK'
  BY <1>8, RequestType DEF Answer, Send, MailKind, MailKinds, env
<1>9. ASSUME NEW c \in Callers, Refuse(c) PROVE TypeOK'
  BY <1>9, RequestType DEF Refuse, Send, env, history
<1>10. ASSUME NEW c \in Invocations, StopAtCap(c) \/ PageFails(c)
                 \/ EmptyPage(c) \/ ReportDone(c)
       PROVE TypeOK'
  <2>1. [inv[c] EXCEPT !.at = "return"] \in Walks
    BY <1>d DEF Walks, Steps
  <2>2. ASSUME NEW done \in BOOLEAN, NEW error \in BOOLEAN,
               ReportAndReturn(c, done, error)
        PROVE TypeOK'
    <3>1. Request("progress", 0, done, error) \in Requests
      BY RequestType
    <3> QED
      BY <2>1, <2>2, <3>1, <1>c DEF ReportAndReturn, Send, env, history
  <2> QED
    BY <1>10, <2>2 DEF StopAtCap, PageFails, EmptyPage, ReportDone
<1>11. ASSUME NEW c \in Invocations, IngestPage(c) PROVE TypeOK'
  <2>1. [inv[c] EXCEPT !.at = "report"] \in Walks
    BY <1>d DEF Walks, Steps
  <2> QED
    BY <1>11, <2>1, <1>d DEF IngestPage, env, history
<1>12. ASSUME NEW c \in Invocations, ReportPage(c) PROVE TypeOK'
  <2>1. inv'[c] \in Walks
    BY <1>12, <1>d DEF ReportPage, Walks, Steps
  <2>2. inv' \in [Invocations -> Walks]
    BY <1>12, <2>1 DEF ReportPage
  <2> QED
    BY <1>12, <2>2, <1>c, RequestType DEF ReportPage, Send, env, history
<1>13. ASSUME NEW c \in Invocations, PushContinuation(c) PROVE TypeOK'
  <2>1. [inv[c] EXCEPT !.at = "return"] \in Walks
    BY <1>d DEF Walks, Steps
  <2>2. Continuation(pushes, inv[c].token, inv[c].already) \in Tasks
    BY <1>d DEF Continuation, Tasks
  <2> QED
    BY <1>13, <2>1, <2>2 DEF PushContinuation, Push, env, history
<1>14. ASSUME NEW c \in Invocations, Return(c) PROVE TypeOK'
  BY <1>14, <1>a DEF Return, env, history
<1>15. ASSUME NEW c \in Invocations, Crash(c) PROVE TypeOK'
  BY <1>15, <1>a, <1>d DEF Crash, history
<1>16. ASSUME NEW c \in Invocations, NEW task \in queue, Deliver(c, task)
       PROVE TypeOK'
  <2>1. [at |-> "loop", token |-> task.token, already |-> task.already,
         page |-> 0, task |-> task] \in Walks
    BY DEF Walks, Steps, Tasks
  <2> QED
    BY <1>16, <2>1, <1>c, RequestType DEF Deliver, Send, history
<1>17. CASE UNCHANGED vars
  BY <1>17 DEF vars
<1> QED
  BY <1>1, <1>2, <1>3, <1>4, <1>5, <1>6, <1>7, <1>8, <1>9, <1>10, <1>11,
     <1>12, <1>13, <1>14, <1>15, <1>16, <1>17 DEF Next, Server, Consumer

(* The tenant row, the requests, the tasks and the invocations are always  *)
(* well formed.                                                            *)
THEOREM TypeCorrect == ASSUME BackfillAssumption PROVE Spec => []TypeOK
  BY InitTypeOK, NextTypeOK, PTL DEF Spec

-----------------------------------------------------------------------------
(* A completed tenant has been walked.  CompletedMeansWalked is not        *)
(* inductive: it needs to know that whoever reports the end of the walk    *)
(* stands behind pages that are all committed, and that holds because      *)
(* every task and every invocation does (WalksLeaveNoGap).                 *)

Walked == WalksLeaveNoGap /\ CompletedMeansWalked

(* Pages stay committed. *)
LEMMA IngestedGrows ==
  ASSUME [Next]_vars
  PROVE  ingested \subseteq ingested' /\ pages' = pages
<1> USE DEF env, history
<1>1. ASSUME NEW c \in Invocations, Consumer(c)
      PROVE ingested \subseteq ingested' /\ pages' = pages
  BY <1>1 DEF Consumer, StopAtCap, PageFails, EmptyPage, IngestPage,
     ReportPage, ReportDone, PushContinuation, Return, ReportAndReturn
<1>2. ASSUME NEW c \in Callers, Server(c) \/ Refuse(c)
      PROVE ingested \subseteq ingested' /\ pages' = pages
  BY <1>2 DEF Server, LoadTenant, CommitTenant, Answer, Refuse
<1>3. CASE InstallTrigger \/ ClickStart \/ EnqueueFromUI \/ EnqueueFails
             \/ Acknowledge
  BY <1>3 DEF InstallTrigger, ClickStart, EnqueueFromUI, EnqueueFails,
     Acknowledge
<1>4. ASSUME NEW c \in Invocations,
             Crash(c) \/ \E task \in queue : Deliver(c, task)
      PROVE ingested \subseteq ingested' /\ pages' = pages
  BY <1>4 DEF Crash, Deliver
<1>5. CASE UNCHANGED vars
  BY <1>5 DEF vars
<1> QED
  BY <1>1, <1>2, <1>3, <1>4, <1>5 DEF Next

(* What is covered stays covered. *)
LEMMA CoveredGrows ==
  ASSUME ingested \subseteq ingested', pages' = pages
  PROVE  /\ \A n \in Nat : Covered(n) => Covered(n)'
         /\ Covered(Goal) => Covered(Goal)'
         /\ \A task \in Tasks : TaskCovered(task) => TaskCovered(task)'
         /\ \A walk \in Walks : WalkCovered(walk) => WalkCovered(walk)'
         /\ \A r \in Requests : RequestCovered(r) => RequestCovered(r)'
  BY DEF Covered, Goal, TaskCovered, WalkCovered, RequestCovered

(* A walk at the end of the site, or at the cap, covers the goal. *)
LEMMA EndCovers ==
  ASSUME BackfillAssumption, pages \in Nat, NEW n \in Nat, Covered(n),
         n >= pages \/ n >= Cap
  PROVE  Covered(Goal)
  BY DEF BackfillAssumption, Covered, Goal

(* One more committed page. *)
LEMMA CoveredNext ==
  ASSUME NEW n \in Nat, Covered(n), n + 1 \in ingested
  PROVE  Covered(n + 1)
  BY DEF Covered

LEMMA InitWalked == ASSUME BackfillAssumption, Init PROVE Walked
  BY DEF BackfillAssumption, Init, Walked, WalksLeaveNoGap,
     CompletedMeansWalked, WalkCovered, TaskCovered, RequestCovered, Covered,
     Idle, FirstTask, NewTenant, NoRequest, Request

LEMMA NextWalked ==
  ASSUME BackfillAssumption, TypeOK, TypeOK', Walked, [Next]_vars
  PROVE  Walked'
<1> DEFINE TasksOK == \A task \in queue : TaskCovered(task)
           WalksOK == \A c \in Invocations : WalkCovered(inv[c])
           RequestsOK == \A c \in Callers : RequestCovered(req[c])
<1>a. TasksOK /\ WalksOK /\ RequestsOK /\ CompletedMeansWalked
  BY DEF Walked, WalksLeaveNoGap
<1>b. ASSUME TasksOK', WalksOK', RequestsOK', CompletedMeansWalked'
      PROVE  Walked'
  BY <1>b DEF Walked, WalksLeaveNoGap
<1>c. pages \in Nat
  BY DEF TypeOK, BackfillAssumption
<1>d. /\ ingested \subseteq ingested' /\ pages' = pages
      /\ Covered(Goal) => Covered(Goal)'
      /\ \A task \in Tasks : TaskCovered(task) => TaskCovered(task)'
      /\ \A walk \in Walks : WalkCovered(walk) => WalkCovered(walk)'
      /\ \A r \in Requests : RequestCovered(r) => RequestCovered(r)'
  BY IngestedGrows, CoveredGrows
<1>e. ASSUME queue' \subseteq queue PROVE TasksOK'
  BY <1>a, <1>d, <1>e DEF TypeOK
<1>f. ASSUME NEW c \in Invocations, inv'[c] = inv[c]
      PROVE  WalkCovered(inv[c])'
  BY <1>a, <1>d, <1>f DEF TypeOK
<1>g. ASSUME NEW c \in Callers, req'[c] = req[c] \/ req'[c] = NoRequest
      PROVE  RequestCovered(req[c])'
  BY <1>a, <1>d, <1>g DEF TypeOK, NoRequest, Request, NewTenant, RequestCovered
<1>h. ASSUME tenant'.status = tenant.status PROVE CompletedMeansWalked'
  BY <1>a, <1>d, <1>h DEF CompletedMeansWalked
<1>i. ASSUME UNCHANGED inv PROVE WalksOK'
  BY <1>i, <1>f
<1>j. ASSUME UNCHANGED req PROVE RequestsOK'
  BY <1>j, <1>g
<1>k. ASSUME NEW c \in Callers, RequestCovered(req[c])',
             \A d \in Callers \ {c} : req'[d] = req[d]
      PROVE  RequestsOK'
  BY <1>k, <1>g
<1>l. ASSUME NEW c \in Invocations, WalkCovered(inv[c])',
             \A d \in Invocations \ {c} : inv'[d] = inv[d]
      PROVE  WalksOK'
  BY <1>l, <1>f
<1>m. UI \in Callers /\ Invocations \subseteq Callers
  BY DEF Callers
<1>n. ASSUME NEW c \in Invocations
      PROVE  /\ inv[c] \in Walks /\ inv[c].token \in Nat
             /\ inv[c].already \in Nat /\ inv[c].task \in Tasks
             /\ WalkCovered(inv[c])
  BY <1>a DEF TypeOK, Walks
<1> USE DEF history, env
(* The producers push first tasks, which have nothing to cover. *)
<1>1. ASSUME NEW n \in Nat, queue' = queue \cup {FirstTask(n)} PROVE TasksOK'
  <2>1. \A task \in queue : TaskCovered(task)'
    BY <1>a, <1>d DEF TypeOK
  <2>2. \A task : task = FirstTask(n) => TaskCovered(task)'
    BY <1>c, <1>d DEF FirstTask, TaskCovered, Covered
  <2> QED
    BY <1>1, <2>1, <2>2
<1>2. CASE InstallTrigger
  BY <1>2, <1>b, <1>1, <1>i, <1>j, <1>h DEF InstallTrigger, Push, TypeOK
<1>3. CASE EnqueueFromUI
  BY <1>3, <1>b, <1>1, <1>i, <1>j, <1>h DEF EnqueueFromUI, Push, TypeOK
<1>4. CASE ClickStart
  <2>1. RequestCovered(req[UI])'
    BY <1>4, <1>m DEF ClickStart, StartRequest, Request, NewTenant,
       RequestCovered, TypeOK
  <2> QED
    BY <1>4, <1>b, <2>1, <1>m, <1>e, <1>i, <1>h, <1>k DEF ClickStart, TypeOK
<1>5. CASE EnqueueFails
  BY <1>5, <1>b, <1>e, <1>i, <1>j, <1>h DEF EnqueueFails
<1>6. CASE Acknowledge
  <2>1. tenant'.status = tenant.status
    BY <1>6 DEF Acknowledge, TypeOK, Tenants
  <2> QED
    BY <1>6, <1>b, <2>1, <1>e, <1>i, <1>j, <1>h DEF Acknowledge
(* The server's steps change one request, and the commit the tenant row. *)
<1>7. ASSUME NEW c \in Callers, LoadTenant(c) PROVE Walked'
  <2>1. RequestCovered(req[c])'
    BY <1>7, <1>a, <1>d DEF LoadTenant, Send, RequestCovered, TypeOK, Requests,
       CompletedMeansWalked
  <2> QED
    BY <1>7, <2>1, <1>b, <1>e, <1>i, <1>h, <1>k DEF LoadTenant, Send, TypeOK
<1>8. ASSUME NEW c \in Callers, CommitTenant(c) PROVE Walked'
  <2> DEFINE r == req[c]
             row == Handled(req[c])
  <2>1. r \in Requests /\ RequestCovered(r)
    BY <1>a DEF TypeOK
  <2>2. row.status = "completed" => Covered(Goal)
    BY <2>1 DEF Requests, Tenants, RequestCovered, Handled, Started, Progressed
  <2>3. tenant'.status = Flush(r.loaded.status, row.status, tenant.status)
    BY <1>8 DEF CommitTenant, TypeOK, Tenants
  <2>4. CompletedMeansWalked'
    BY <2>2, <2>3, <1>a, <1>d DEF Flush, CompletedMeansWalked
  <2>5. RequestCovered(req[c])'
    BY <1>8, <2>1, <1>d DEF CommitTenant, Send, RequestCovered, TypeOK, Requests
  <2> QED
    BY <1>8, <2>4, <2>5, <1>b, <1>e, <1>i, <1>k DEF CommitTenant, Send, TypeOK
<1>9. ASSUME NEW c \in Callers, Answer(c) \/ Refuse(c) PROVE Walked'
  BY <1>9, <1>b, <1>e, <1>i, <1>h, <1>g DEF Answer, Refuse, Send, TypeOK
(* The consumer's reports of the end of a walk. *)
<1>10. ASSUME NEW c \in Invocations, NEW done \in BOOLEAN,
              NEW error \in BOOLEAN, ReportAndReturn(c, done, error),
              done => Covered(Goal)
       PROVE  Walked'
  <2>1. RequestCovered(req[c])'
    BY <1>10, <1>m, <1>d DEF ReportAndReturn, Send, Request, NewTenant,
       RequestCovered, TypeOK
  <2>2. WalkCovered(inv[c])'
    BY <1>10, <1>n, <1>d DEF ReportAndReturn, WalkCovered, TypeOK, Walks,
       TaskCovered, Covered
  <2> QED
    BY <1>10, <2>1, <2>2, <1>b, <1>e, <1>h, <1>k, <1>l, <1>m
    DEF ReportAndReturn, Send, TypeOK
<1>11. ASSUME NEW c \in Invocations, StopAtCap(c) PROVE Walked'
  <2>1. Covered(Goal)
    BY <1>11, <1>c, <1>n, EndCovers DEF StopAtCap, WalkCovered
  <2> QED
    BY <1>11, <2>1, <1>10 DEF StopAtCap
<1>12. ASSUME NEW c \in Invocations, EmptyPage(c) PROVE Walked'
  <2>1. Covered(Goal)
    BY <1>12, <1>c, <1>n, EndCovers DEF EmptyPage, WalkCovered
  <2> QED
    BY <1>12, <2>1, <1>10 DEF EmptyPage
<1>13. ASSUME NEW c \in Invocations, ReportDone(c) PROVE Walked'
  <2>1. Covered(Goal)
    BY <1>13, <1>c, <1>n, EndCovers DEF ReportDone, Awaited, WalkCovered
  <2> QED
    BY <1>13, <2>1, <1>10 DEF ReportDone
<1>14. ASSUME NEW c \in Invocations, PageFails(c) PROVE Walked'
  BY <1>14, <1>10 DEF PageFails
(* The consumer's steps along the walk. *)
<1>15. ASSUME NEW c \in Invocations, IngestPage(c) PROVE Walked'
  <2>1. WalkCovered(inv[c])'
    BY <1>15, <1>n, <1>d DEF IngestPage, WalkCovered, TaskCovered, Covered,
       TypeOK, Walks
  <2> QED
    BY <1>15, <2>1, <1>b, <1>e, <1>h, <1>j, <1>l DEF IngestPage, TypeOK
<1>16. ASSUME NEW c \in Invocations, ReportPage(c) PROVE Walked'
  <2>1. inv[c].token < pages /\ Covered(inv[c].token + 1)
    BY <1>16, <1>n, CoveredNext DEF ReportPage, Awaited, WalkCovered
  <2>2. /\ inv'[c].token = inv[c].token + 1
        /\ inv'[c].already = inv[c].already + 1
        /\ inv'[c].task = inv[c].task
        /\ inv'[c].at \in {"finish", "loop"}
        /\ inv'[c].at = "finish" => inv[c].token + 1 >= pages
    BY <1>16, <1>n DEF ReportPage, TypeOK, Walks, IsLast
  <2>3. WalkCovered(inv[c])'
    BY <2>1, <2>2, <1>c, <1>d, <1>n DEF WalkCovered, TaskCovered, Covered
  <2>4. RequestCovered(req[c])'
    BY <1>16, <1>m, <1>d DEF ReportPage, Send, Request, NewTenant,
       RequestCovered, TypeOK
  <2> QED
    BY <1>16, <2>3, <2>4, <1>b, <1>e, <1>h, <1>k, <1>l, <1>m
    DEF ReportPage, Send, TypeOK
<1>17. ASSUME NEW c \in Invocations, PushContinuation(c) PROVE Walked'
  <2>1. WalkCovered(inv[c])'
    BY <1>17, <1>n, <1>d DEF PushContinuation, WalkCovered, TaskCovered,
       Covered, TypeOK, Walks
  <2>2. \A task : task = Continuation(pushes, inv[c].token, inv[c].already)
                    => TaskCovered(task)'
    BY <1>n, <1>d DEF Continuation, WalkCovered, TaskCovered, Covered
  <2>3. \A task \in queue : TaskCovered(task)'
    BY <1>a, <1>d DEF TypeOK
  <2>4. TasksOK'
    BY <1>17, <2>2, <2>3 DEF PushContinuation, Push
  <2> QED
    BY <1>17, <2>1, <2>4, <1>b, <1>h, <1>j, <1>l DEF PushContinuation, TypeOK
<1>18. ASSUME NEW c \in Invocations, Return(c) \/ Crash(c) PROVE Walked'
  <2>1. WalkCovered(inv[c])'
    BY <1>18, <1>c, <1>d DEF Return, Crash, Idle, FirstTask, WalkCovered,
       TaskCovered, Covered, TypeOK
  <2>2. \A task \in queue : TaskCovered(task)'
    BY <1>a, <1>d DEF TypeOK
  <2>3. \A task : task = inv[c].task => TaskCovered(task)'
    BY <1>n, <1>d DEF WalkCovered
  <2>4. TasksOK'
    BY <1>18, <2>2, <2>3 DEF Return, Crash
  <2> QED
    BY <1>18, <2>1, <2>4, <1>b, <1>h, <1>j, <1>l DEF Return, Crash, TypeOK
<1>19. ASSUME NEW c \in Invocations, NEW task \in queue, Deliver(c, task)
       PROVE Walked'
  <2>1. task \in Tasks /\ TaskCovered(task)
    BY <1>a DEF TypeOK
  <2>2. WalkCovered(inv[c])'
    BY <1>19, <2>1, <1>d DEF Deliver, WalkCovered, TaskCovered, Covered, TypeOK
  <2>3. RequestCovered(req[c])'
    BY <1>19, <1>m, <1>a, <1>d DEF Deliver, Send, StartRequest, Request,
       NewTenant, RequestCovered, TypeOK
  <2>4. \A d \in Callers \ {c} : req'[d] = req[d]
    BY <1>19, <1>m DEF Deliver, Send, TypeOK
  <2> QED
    BY <1>19, <2>2, <2>3, <2>4, <1>b, <1>e, <1>h, <1>k, <1>l, <1>m
    DEF Deliver, TypeOK
<1>20. CASE UNCHANGED vars
  BY <1>20, <1>b, <1>e, <1>i, <1>j, <1>h DEF vars
<1> QED
  BY <1>2, <1>3, <1>4, <1>5, <1>6, <1>7, <1>8, <1>9, <1>11, <1>12, <1>13,
     <1>14, <1>15, <1>16, <1>17, <1>18, <1>19, <1>20
  DEF Next, Server, Consumer

(* A tenant whose backfill is completed has had every page up to the end   *)
(* of the site or up to the cap committed, however the platform delivered, *)
(* killed and repeated the invocations and however the requests of         *)
(* concurrent walks interleaved in the backend.                            *)
THEOREM Completeness ==
  ASSUME BackfillAssumption PROVE Spec => []CompletedMeansWalked
<1>1. Init => TypeOK /\ Walked
  BY InitTypeOK, InitWalked
<1>2. TypeOK /\ Walked /\ [Next]_vars => (TypeOK /\ Walked)'
  BY NextTypeOK, NextWalked
<1>3. TypeOK /\ Walked => CompletedMeansWalked
  BY DEF Walked
<1> QED
  BY <1>1, <1>2, <1>3, PTL DEF Spec

(* Whatever is on the queue or running stands behind committed pages only, *)
(* so a continuation can be resumed from its token alone.                  *)
THEOREM NoGap == ASSUME BackfillAssumption PROVE Spec => []WalksLeaveNoGap
<1>1. Init => TypeOK /\ Walked
  BY InitTypeOK, InitWalked
<1>2. TypeOK /\ Walked /\ [Next]_vars => (TypeOK /\ Walked)'
  BY NextTypeOK, NextWalked
<1>3. TypeOK /\ Walked => WalksLeaveNoGap
  BY DEF Walked
<1> QED
  BY <1>1, <1>2, <1>3, PTL DEF Spec

-----------------------------------------------------------------------------
(* Walks that follow one another.  With no push while a walk goes on, no   *)
(* redelivery and no refused request, but any number of killed             *)
(* invocations and failed pages, one caller at a time is busy, and what it *)
(* has read of the tenant row still holds.                                 *)

Serial == ~Overlap /\ MaxRedeliveries = 0 /\ ~BackendFails

(* A caller that has a request out or is about to send or push something.  *)
(* An invocation that only has to return is not.                           *)
Busy(c) ==
  \/ req[c] # NoRequest
  \/ c = UI /\ ui = "push"
  \/ c \in Invocations /\ inv[c].at \in {"loop", "report", "finish"}

(* One activity at a time: a busy caller, or a task on the queue. *)
Alone ==
  /\ \A c, d \in Callers : Busy(c) /\ Busy(d) => c = d
  /\ \A c \in Callers : Busy(c) => queue = {}
  /\ \A t, u \in queue : t = u

(* The tenant is on a walk of which n pages are counted. *)
RunningAt(n) ==
  tenant.status = "running" /\ tenant.processed = n /\ n <= Cap

(* A first task starts at the front; a continuation where the count is. *)
TaskCounts(task) == IF task.first THEN task.token = 0 ELSE RunningAt(task.token)

(* An invocation without a request out stands where the count is, and      *)
(* before the cap when it has a page in hand.                              *)
WalkCounts(c) ==
  req[c] = NoRequest /\ inv[c].at \in {"loop", "report", "finish"} =>
    /\ RunningAt(inv[c].token)
    /\ inv[c].at = "report" => inv[c].token < Cap

(* What a handler has loaded is still the row, but for the acknowledgement. *)
Current(r) ==
  /\ r.loaded.status = tenant.status
  /\ r.loaded.processed = tenant.processed
  /\ r.loaded.error = tenant.error

(* Where the invocation of a request is, unless it has been killed. *)
Sender(c, places) ==
  c \in Invocations => inv[c].at \in places \cup {"idle"}

StartCounts(c) ==
  /\ Sender(c, {"loop"})
  /\ c \in Invocations => inv[c].token = 0
  /\ req[c].at = "loaded" => Current(req[c])
  /\ req[c].at = "committed" => RunningAt(0)

(* A page's report is one behind the walk; a report of the end has all.    *)
PageReport(c) ==
  /\ req[c].delta = 1 /\ ~req[c].done /\ ~req[c].error
  /\ Sender(c, {"loop", "finish"})
  /\ c \in Invocations /\ inv[c].at # "idle" =>
       /\ inv[c].token <= Cap
       /\ IF req[c].at = "committed" THEN RunningAt(inv[c].token)
                                     ELSE RunningAt(inv[c].token - 1)

EndReport(c) ==
  /\ req[c].delta = 0 /\ (req[c].error <=> ~req[c].done)
  /\ Sender(c, {"return"})
  /\ req[c].done => tenant.processed = Goal

ProgressCounts(c) ==
  /\ PageReport(c) \/ EndReport(c)
  /\ req[c].at # "committed" => tenant.status = "running"
  /\ req[c].at = "loaded" => Current(req[c])
  /\ req[c].at = "committed" =>
       /\ req[c].loaded.status = "running"
       /\ tenant.status = IF req[c].delta = 1 THEN "running"
                          ELSE IF req[c].done THEN "completed" ELSE "failed"

RequestCounts(c) ==
  \/ req[c] = NoRequest
  \/ req[c].path = "start" /\ StartCounts(c)
  \/ req[c].path = "progress" /\ ProgressCounts(c)

(* The end of the walk is committed, its mail not yet sent. *)
MailDue ==
  \E c \in Callers : /\ req[c].path = "progress" /\ req[c].at = "committed"
                     /\ req[c].delta = 0

MailCounts ==
  IF tenant.status \in Terminal /\ ~MailDue
    THEN sent = 1 /\ mails[MailKind(tenant)] > 0
    ELSE sent = 0

Counted ==
  /\ Alone
  /\ \A task \in queue : TaskCounts(task)
  /\ \A c \in Invocations : WalkCounts(c)
  /\ \A c \in Callers : RequestCounts(c)
  /\ CountIsExact
  /\ MailCounts

(* Whoever is not busy has nothing to count. *)
LEMMA RestCounts ==
  ASSUME NEW c \in Callers, ~Busy(c)
  PROVE  RequestCounts(c) /\ (c \in Invocations => WalkCounts(c))
  BY DEF Busy, RequestCounts, WalkCounts

LEMMA RestCountsNext ==
  ASSUME NEW c \in Callers, ~Busy(c)'
  PROVE  RequestCounts(c)' /\ (c \in Invocations => WalkCounts(c)')
  BY DEF Busy, RequestCounts, WalkCounts

(* While one caller is busy the others are not, and the queue is empty. *)
LEMMA OthersRest ==
  ASSUME Alone, NEW c \in Callers, Busy(c)
  PROVE  queue = {} /\ \A d \in Callers \ {c} : ~Busy(d)
  BY DEF Alone

(* A mail is due only from the caller that is busy. *)
LEMMA MailDueFrom ==
  ASSUME NEW c \in Callers, \A d \in Callers \ {c} : ~Busy(d)'
  PROVE  MailDue' <=> /\ req'[c].path = "progress" /\ req'[c].at = "committed"
                      /\ req'[c].delta = 0
  <1>1. \A d \in Callers \ {c} : req'[d].path = "none"
    BY DEF Busy, NoRequest, Request
  <1>2. QED
    BY <1>1 DEF MailDue

(* After a step of a busy caller only its own counts are in question. *)
LEMMA AloneCounts ==
  ASSUME NEW c \in Callers, queue' = {}, \A d \in Callers \ {c} : ~Busy(d)',
         RequestCounts(c)', c \in Invocations => WalkCounts(c)',
         CountIsExact', MailCounts'
  PROVE  Counted'
  <1>1. Alone'
    BY DEF Alone
  <1>2. \A d \in Callers : RequestCounts(d)' /\ (d \in Invocations => WalkCounts(d)')
    BY RestCountsNext
  <1>3. \A d \in Invocations : WalkCounts(d)'
    BY <1>2 DEF Callers
  <1>4. QED
    BY <1>1, <1>2, <1>3 DEF Counted

(* After a step that leaves nobody busy, only the queue's. *)
LEMMA RestingCounts ==
  ASSUME \A d \in Callers : ~Busy(d)', \A t, u \in queue' : t = u,
         \A task \in queue' : TaskCounts(task)', CountIsExact', MailCounts'
  PROVE  Counted'
  <1>1. Alone'
    BY DEF Alone
  <1>2. \A d \in Callers : RequestCounts(d)' /\ (d \in Invocations => WalkCounts(d)')
    BY RestCountsNext
  <1>3. \A d \in Invocations : WalkCounts(d)'
    BY <1>2 DEF Callers
  <1>4. QED
    BY <1>1, <1>2, <1>3 DEF Counted

LEMMA InitCounted == ASSUME BackfillAssumption, Init PROVE Counted
  <1>1. \A c \in Callers : ~Busy(c)
    BY DEF Init, Busy, Callers, Idle, BackfillAssumption
  <1>2. \A c \in Callers : RequestCounts(c) /\ (c \in Invocations => WalkCounts(c))
    BY <1>1, RestCounts
  <1>3. Alone /\ CountIsExact
    BY <1>1 DEF Init, Alone, CountIsExact, NewTenant
  <1>4. MailCounts
    BY DEF Init, MailCounts, NewTenant, Terminal
  <1>5. QED
    BY <1>2, <1>3, <1>4 DEF Counted, Callers, Init

(* A step that changes nothing of the tenant's status and counts, of the   *)
(* mails and of whether a mail is due keeps what they say.                 *)
LEMMA TenantKept ==
  ASSUME UNCHANGED <<pages, mails, sent>>, tenant'.status = tenant.status,
         tenant'.processed = tenant.processed, MailDue' <=> MailDue,
         CountIsExact, MailCounts
  PROVE  CountIsExact' /\ MailCounts'
  BY DEF CountIsExact, MailCounts, Goal, MailKind

(* When all is quiet nobody is busy and no mail is due. *)
LEMMA QuietRests ==
  ASSUME BackfillAssumption, Quiescent
  PROVE  (\A c \in Callers : ~Busy(c)) /\ ~MailDue /\ queue = {}
  <1>1. \A c \in Callers : ~Busy(c)
    BY DEF Quiescent, Busy
  <1>2. \A c \in Callers : req[c].path = "none"
    BY DEF Quiescent, NoRequest, Request
  <1>3. QED
    BY <1>1, <1>2 DEF MailDue, Quiescent

(* The producers. *)
LEMMA ProducersCount ==
  ASSUME BackfillAssumption, Serial, TypeOK, Counted,
         InstallTrigger \/ ClickStart \/ EnqueueFromUI \/ EnqueueFails
  PROVE  Counted'
  <1>a. CountIsExact /\ MailCounts /\ Alone /\ \A task \in queue : TaskCounts(task)
    BY DEF Counted
  <1>b. UI \in Callers /\ UI \notin Invocations
    BY DEF Callers, BackfillAssumption
  <1>c. \A n : TaskCounts(FirstTask(n))'
    BY DEF TaskCounts, FirstTask
  <1>1. CASE InstallTrigger
    <2>1. Quiescent
      BY <1>1 DEF InstallTrigger, MayKick, Serial
    <2>2. \A c \in Callers : ~Busy(c)'
      BY <1>1, <2>1, QuietRests DEF InstallTrigger, Busy
    <2>3. CountIsExact' /\ MailCounts'
      <3>1. MailDue' <=> MailDue
        BY <1>1 DEF InstallTrigger, MailDue
      <3>2. QED
        BY <1>1, <1>a, <3>1, TenantKept DEF InstallTrigger, history
    <2>4. queue' = {FirstTask(pushes)}
      BY <1>1, <2>1, QuietRests DEF InstallTrigger, Push
    <2>5. QED
      BY <2>2, <2>3, <2>4, <1>c, RestingCounts
  <1>2. CASE ClickStart
    <2>1. Quiescent
      BY <1>2 DEF ClickStart, MayKick, Serial
    <2>2. \A d \in Callers \ {UI} : ~Busy(d)'
      BY <1>2, <2>1, QuietRests DEF ClickStart, Busy, TypeOK
    <2>3. req'[UI] = StartRequest
      BY <1>2, <1>b DEF ClickStart, TypeOK
    <2>4. ~MailDue'
      BY <2>2, <2>3, <1>b, MailDueFrom DEF StartRequest, Request
    <2>5. CountIsExact' /\ MailCounts'
      BY <1>2, <1>a, <2>1, <2>4, QuietRests, TenantKept DEF ClickStart, history
    <2>6. RequestCounts(UI)'
      BY <2>3, <1>b DEF RequestCounts, StartRequest, Request, StartCounts, Sender
    <2>7. queue' = {}
      BY <1>2, <2>1, QuietRests DEF ClickStart
    <2>8. QED
      BY <2>2, <2>5, <2>6, <2>7, <1>b, AloneCounts
  <1>3. ASSUME EnqueueFromUI \/ EnqueueFails PROVE Counted'
    <2>1. Busy(UI) /\ req[UI] = NoRequest
      BY <1>3 DEF EnqueueFromUI, EnqueueFails, Busy
    <2>2. queue = {} /\ \A d \in Callers \ {UI} : ~Busy(d)
      BY <2>1, <1>a, <1>b, OthersRest
    <2>3. UNCHANGED <<req, inv, tenant, pages, mails, sent>> /\ ui' = "idle"
      BY <1>3 DEF EnqueueFromUI, EnqueueFails, history, env
    <2>4. \A d \in Callers : ~Busy(d)'
      BY <2>1, <2>2, <2>3, <1>b DEF Busy
    <2>5. CountIsExact' /\ MailCounts'
      BY <2>3, <1>a, TenantKept DEF MailDue
    <2>6. queue' \in {{}, {FirstTask(pushes)}}
      BY <1>3, <2>2 DEF EnqueueFromUI, EnqueueFails, Push
    <2>7. QED
      BY <2>4, <2>5, <2>6, <1>c, RestingCounts
  <1>4. QED
    BY <1>1, <1>2, <1>3

(* The customer's acknowledgement, which no count depends on. *)
LEMMA AcknowledgeCounts ==
  ASSUME TypeOK, Counted, Acknowledge
  PROVE  Counted'
  <1>1. /\ tenant'.status = tenant.status /\ tenant'.processed = tenant.processed
        /\ tenant'.error = tenant.error
        /\ UNCHANGED <<req, queue, inv, ui, pages, mails, sent>>
    BY DEF Acknowledge, TypeOK, Tenants, env
  <1>2. CountIsExact' /\ MailCounts'
    BY <1>1, TenantKept DEF Counted, MailDue
  <1>3. Alone'
    BY <1>1 DEF Counted, Alone, Busy
  <1>4. \A n : RunningAt(n)' <=> RunningAt(n)
    BY <1>1 DEF RunningAt
  <1>5. (\A task \in queue : TaskCounts(task))'
    BY <1>1, <1>4 DEF Counted, TaskCounts
  <1>6. (\A c \in Invocations : WalkCounts(c))'
    BY <1>1, <1>4 DEF Counted, WalkCounts
  <1>7. (\A c \in Callers : RequestCounts(c))'
    <2> SUFFICES ASSUME NEW c \in Callers PROVE RequestCounts(c)'
      OBVIOUS
    <2>1. RequestCounts(c)
      BY DEF Counted
    <2>2. StartCounts(c) => StartCounts(c)'
      BY <1>1, <1>4 DEF StartCounts, Sender, Current
    <2>3. PageReport(c) => PageReport(c)'
      BY <1>1, <1>4 DEF PageReport, Sender
    <2>4. EndReport(c) => EndReport(c)'
      BY <1>1 DEF EndReport, Sender, Goal
    <2>5. ProgressCounts(c) => ProgressCounts(c)'
      BY <1>1, <2>3, <2>4 DEF ProgressCounts, Current
    <2>6. QED
      BY <1>1, <2>1, <2>2, <2>5 DEF RequestCounts
  <1>8. QED
    BY <1>2, <1>3, <1>5, <1>6, <1>7 DEF Counted

(* What a request under way says: its caller is busy and the others rest. *)
LEMMA RequestAlone ==
  ASSUME TypeOK, Counted, NEW c \in Callers, req[c].path # "none"
  PROVE  /\ Busy(c) /\ queue = {} /\ \A d \in Callers \ {c} : ~Busy(d)
         /\ req[c] \in Requests
         /\ \/ req[c].path = "start" /\ StartCounts(c)
            \/ req[c].path = "progress" /\ ProgressCounts(c)
         /\ CountIsExact /\ MailCounts
  <1>1. req[c] # NoRequest
    BY DEF NoRequest, Request
  <1>2. Busy(c)
    BY <1>1 DEF Busy
  <1>3. QED
    BY <1>1, <1>2, OthersRest DEF Counted, RequestCounts, TypeOK

(* The caller of a step of the server is the only one whose request        *)
(* changes, so the others go on resting.                                   *)
LEMMA ServerRests ==
  ASSUME TypeOK, NEW c \in Callers, NEW r, Send(c, r), UNCHANGED <<queue, inv, ui>>,
         queue = {}, \A d \in Callers \ {c} : ~Busy(d)
  PROVE  /\ req'[c] = r /\ queue' = {} /\ \A d \in Callers \ {c} : ~Busy(d)'
  BY DEF Send, Busy, TypeOK

LEMMA LoadCounts ==
  ASSUME TypeOK, Counted, NEW c \in Callers, LoadTenant(c)
  PROVE  Counted'
  <1> DEFINE r == req[c]
             new == [r EXCEPT !.at = "loaded", !.loaded = tenant]
  <1>1. /\ r.path # "none" /\ r.at = "sent" /\ Send(c, new)
        /\ UNCHANGED <<tenant, queue, inv, ui, pages, mails, sent>>
    BY DEF LoadTenant, env, history
  <1>2. /\ Busy(c) /\ queue = {} /\ \A d \in Callers \ {c} : ~Busy(d)
        /\ r \in Requests /\ CountIsExact /\ MailCounts
        /\ \/ r.path = "start" /\ StartCounts(c)
           \/ r.path = "progress" /\ ProgressCounts(c)
    BY <1>1, RequestAlone
  <1>3. req'[c] = new /\ queue' = {} /\ \A d \in Callers \ {c} : ~Busy(d)'
    BY <1>1, <1>2, ServerRests
  <1>4. /\ new.path = r.path /\ new.delta = r.delta /\ new.done = r.done
        /\ new.error = r.error /\ new.at = "loaded" /\ new.loaded = tenant
    BY <1>2 DEF Requests
  <1>5. new # NoRequest
    BY <1>1, <1>4 DEF NoRequest, Request
  <1>6. RequestCounts(c)'
    <2>1. CASE r.path = "start" /\ StartCounts(c)
      BY <2>1, <1>1, <1>3, <1>4 DEF RequestCounts, StartCounts, Sender, Current
    <2>2. CASE r.path = "progress" /\ ProgressCounts(c)
      <3>1. PageReport(c) => PageReport(c)'
        BY <1>1, <1>3, <1>4 DEF PageReport, Sender, RunningAt
      <3>2. EndReport(c) => EndReport(c)'
        BY <1>1, <1>3, <1>4 DEF EndReport, Sender, Goal
      <3>3. ProgressCounts(c)'
        BY <2>2, <3>1, <3>2, <1>1, <1>3, <1>4 DEF ProgressCounts, Current
      <3>4. QED
        BY <2>2, <3>3, <1>3, <1>4 DEF RequestCounts
    <2>3. QED
      BY <1>2, <2>1, <2>2
  <1>7. c \in Invocations => WalkCounts(c)'
    BY <1>3, <1>5 DEF WalkCounts
  <1>8. ~MailDue /\ ~MailDue'
    <2>1. \A d \in Callers \ {c} : req[d].path = "none"
      BY <1>2 DEF Busy, NoRequest, Request
    <2>2. ~MailDue
      BY <2>1, <1>1 DEF MailDue
    <2>3. QED
      BY <2>2, <1>3, <1>4, MailDueFrom
  <1>9. CountIsExact' /\ MailCounts'
    BY <1>1, <1>2, <1>8, TenantKept
  <1>10. QED
    BY <1>3, <1>6, <1>7, <1>9, AloneCounts

(* While nothing else commits, the row a commit leaves is the one its      *)
(* handler made.                                                           *)
LEMMA CommitRow ==
  ASSUME TypeOK, NEW c \in Callers, CommitTenant(c), Current(req[c])
  PROVE  /\ tenant'.status = Handled(req[c]).status
         /\ tenant'.processed = Handled(req[c]).processed
         /\ tenant'.error = Handled(req[c]).error
  BY DEF CommitTenant, Current, Flush, TypeOK, Tenants

(* What a handler makes of the columns. *)
LEMMA HandledColumns ==
  ASSUME NEW r \in Requests
  PROVE  /\ r.path = "start" => Handled(r).status = "running" /\ Handled(r).processed = 0
         /\ r.path = "progress" =>
              /\ Handled(r).processed = r.loaded.processed + r.delta
              /\ Handled(r).status = IF r.error THEN "failed"
                                     ELSE IF r.done THEN "completed" ELSE r.loaded.status
  BY DEF Requests, Tenants, Handled, Started, Progressed

LEMMA CommitCounts ==
  ASSUME BackfillAssumption, TypeOK, Counted, NEW c \in Callers, CommitTenant(c)
  PROVE  Counted'
  <1> DEFINE r == req[c]
             new == [r EXCEPT !.at = "committed"]
  <1>1. /\ r.path # "none" /\ r.at = "loaded" /\ Send(c, new)
        /\ UNCHANGED <<queue, inv, ui, pages, mails>>
        /\ sent' = IF r.path = "start" THEN 0 ELSE sent
    BY DEF CommitTenant, env
  <1>2. /\ Busy(c) /\ queue = {} /\ \A d \in Callers \ {c} : ~Busy(d)
        /\ r \in Requests /\ CountIsExact /\ MailCounts
        /\ \/ r.path = "start" /\ StartCounts(c)
           \/ r.path = "progress" /\ ProgressCounts(c)
    BY <1>1, RequestAlone
  <1>3. req'[c] = new /\ queue' = {} /\ \A d \in Callers \ {c} : ~Busy(d)'
    BY <1>1, <1>2, ServerRests
  <1>4. /\ new.path = r.path /\ new.delta = r.delta /\ new.done = r.done
        /\ new.error = r.error /\ new.at = "committed" /\ new.loaded = r.loaded
    BY <1>2 DEF Requests
  <1>5. new # NoRequest
    BY <1>1, <1>4 DEF NoRequest, Request
  <1>6. c \in Invocations => WalkCounts(c)'
    BY <1>3, <1>5 DEF WalkCounts
  <1>7. MailDue' <=> r.path = "progress" /\ r.delta = 0
    BY <1>3, <1>4, MailDueFrom
  <1>8. Current(r)
    BY <1>1, <1>2 DEF StartCounts, ProgressCounts
  <1>9. /\ tenant'.status = Handled(r).status
        /\ tenant'.processed = Handled(r).processed
    BY <1>8, CommitRow
  <1>10. /\ r.path = "start" => tenant'.status = "running" /\ tenant'.processed = 0
         /\ r.path = "progress" =>
              /\ tenant'.processed = tenant.processed + r.delta
              /\ tenant'.status = IF r.error THEN "failed"
                                  ELSE IF r.done THEN "completed" ELSE tenant.status
    BY <1>2, <1>8, <1>9, HandledColumns DEF Current
  <1>11. CASE r.path = "start" /\ StartCounts(c)
    <2>1. RunningAt(0)'
      BY <1>10, <1>11 DEF RunningAt, BackfillAssumption
    <2>2. RequestCounts(c)'
      BY <2>1, <1>1, <1>3, <1>4, <1>11 DEF RequestCounts, StartCounts, Sender
    <2>3. CountIsExact' /\ MailCounts'
      BY <1>1, <1>10, <1>11 DEF CountIsExact, MailCounts, Terminal
    <2>4. QED
      BY <1>3, <1>6, <2>2, <2>3, AloneCounts
  <1>12. CASE r.path = "progress" /\ PageReport(c) /\ ProgressCounts(c)
    <2>1. /\ r.delta = 1 /\ ~r.done /\ ~r.error /\ tenant.status = "running"
          /\ r.loaded.status = "running"
      BY <1>1, <1>8, <1>12 DEF PageReport, ProgressCounts, Current
    <2>2. tenant'.status = "running" /\ tenant'.processed = tenant.processed + 1
      BY <1>10, <1>12, <2>1
    <2>3. PageReport(c)'
      <3>1. ASSUME c \in Invocations, inv[c].at # "idle"
            PROVE  RunningAt(inv[c].token)' /\ inv[c].token <= Cap
        <4>1. inv[c].token \in Nat
          BY <3>1 DEF TypeOK, Walks
        <4>2. RunningAt(inv[c].token - 1) /\ inv[c].token <= Cap
          BY <3>1, <1>1, <1>12 DEF PageReport
        <4>3. QED
          BY <4>1, <4>2, <2>2, <1>1 DEF RunningAt
      <3>2. QED
        BY <3>1, <1>1, <1>3, <1>4, <1>12, <2>1 DEF PageReport, Sender
    <2>4. RequestCounts(c)'
      BY <2>1, <2>2, <2>3, <1>3, <1>4, <1>12 DEF RequestCounts, ProgressCounts
    <2>5. CountIsExact' /\ MailCounts'
      BY <1>1, <1>2, <1>12, <2>1, <2>2 DEF CountIsExact, MailCounts, Terminal
    <2>6. QED
      BY <1>3, <1>6, <2>4, <2>5, AloneCounts
  <1>13. CASE r.path = "progress" /\ EndReport(c) /\ ProgressCounts(c)
    <2>1. /\ r.delta = 0 /\ (r.error <=> ~r.done) /\ tenant.status = "running"
          /\ r.loaded.status = "running" /\ (r.done => tenant.processed = Goal)
      BY <1>1, <1>2, <1>8, <1>13 DEF EndReport, ProgressCounts, Current, Requests
    <2>2. /\ tenant'.status = IF r.done THEN "completed" ELSE "failed"
          /\ tenant'.processed = tenant.processed
      BY <1>10, <1>13, <2>1 DEF TypeOK, Tenants
    <2>3. EndReport(c)'
      BY <1>1, <1>3, <1>4, <1>13, <2>1, <2>2 DEF EndReport, Sender, Goal
    <2>4. RequestCounts(c)'
      BY <2>1, <2>2, <2>3, <1>3, <1>4, <1>13 DEF RequestCounts, ProgressCounts
    <2>5. CountIsExact' /\ MailCounts'
      BY <1>1, <1>2, <1>7, <1>13, <2>1, <2>2 DEF CountIsExact, MailCounts, Terminal, Goal
    <2>6. QED
      BY <1>3, <1>6, <2>4, <2>5, AloneCounts
  <1>14. QED
    BY <1>2, <1>11, <1>12, <1>13 DEF ProgressCounts

LEMMA AnswerCounts ==
  ASSUME BackfillAssumption, TypeOK, Counted, NEW c \in Callers, Answer(c)
  PROVE  Counted'
  <1> DEFINE r == req[c]
             mailed == r.path = "progress" /\ Crossed(r.loaded.status, tenant.status)
  <1>1. /\ r.path # "none" /\ r.at = "committed" /\ Send(c, NoRequest)
        /\ UNCHANGED <<tenant, queue, inv, ui, pages>>
        /\ IF mailed THEN /\ mails' = [mails EXCEPT ![MailKind(tenant)] = @ + 1]
                          /\ sent' = sent + 1
                     ELSE UNCHANGED <<mails, sent>>
    BY DEF Answer, env
  <1>2. /\ Busy(c) /\ queue = {} /\ \A d \in Callers \ {c} : ~Busy(d)
        /\ r \in Requests /\ CountIsExact /\ MailCounts
        /\ \/ r.path = "start" /\ StartCounts(c)
           \/ r.path = "progress" /\ ProgressCounts(c)
    BY <1>1, RequestAlone
  <1>3. req'[c] = NoRequest /\ queue' = {} /\ \A d \in Callers \ {c} : ~Busy(d)'
    BY <1>1, <1>2, ServerRests
  <1>4. RequestCounts(c)'
    BY <1>3 DEF RequestCounts
  <1>5. ~MailDue'
    BY <1>3, MailDueFrom DEF NoRequest, Request
  <1>6. CountIsExact'
    BY <1>1, <1>2 DEF CountIsExact, Goal
  <1>7. CASE r.path = "start" /\ StartCounts(c)
    <2>1. RunningAt(0)
      BY <1>1, <1>7 DEF StartCounts
    <2>2. c \in Invocations => WalkCounts(c)'
      BY <2>1, <1>1, <1>7 DEF StartCounts, Sender, WalkCounts, RunningAt
    <2>3. MailCounts'
      BY <1>1, <1>2, <1>7, <2>1 DEF MailCounts, RunningAt, Terminal
    <2>4. QED
      BY <1>3, <1>4, <1>6, <2>2, <2>3, AloneCounts
  <1>8. CASE r.path = "progress" /\ PageReport(c) /\ ProgressCounts(c)
    <2>1. tenant.status = "running" /\ r.loaded.status = "running"
      BY <1>1, <1>8 DEF PageReport, ProgressCounts
    <2>2. c \in Invocations => WalkCounts(c)'
      BY <1>1, <1>8 DEF PageReport, Sender, WalkCounts, RunningAt
    <2>3. MailCounts'
      BY <1>1, <1>2, <2>1 DEF MailCounts, Crossed, Terminal
    <2>4. QED
      BY <1>3, <1>4, <1>6, <2>2, <2>3, AloneCounts
  <1>9. CASE r.path = "progress" /\ EndReport(c) /\ ProgressCounts(c)
    <2>1. /\ tenant.status \in Terminal /\ r.loaded.status = "running" /\ MailDue
      BY <1>1, <1>9 DEF EndReport, ProgressCounts, Terminal, MailDue
    <2>2. c \in Invocations => WalkCounts(c)'
      BY <1>1, <1>9 DEF EndReport, Sender, WalkCounts
    <2>3. sent = 0 /\ mailed
      BY <1>2, <1>9, <2>1 DEF MailCounts, Crossed, Terminal
    <2>4. sent' = 1 /\ mails'[MailKind(tenant)] > 0
      BY <1>1, <2>3 DEF TypeOK, MailKind, MailKinds
    <2>5. MailCounts'
      BY <1>1, <1>5, <2>1, <2>4 DEF MailCounts, MailKind
    <2>6. QED
      BY <1>3, <1>4, <1>6, <2>2, <2>5, AloneCounts
  <1>10. QED
    BY <1>2, <1>7, <1>8, <1>9 DEF ProgressCounts

(* What an invocation about to act on its walk says. *)
LEMMA WalkAlone ==
  ASSUME BackfillAssumption, TypeOK, Counted, Walked,
         NEW c \in Invocations, NEW at \in {"loop", "report", "finish"}, Awaited(c, at)
  PROVE  /\ c \in Callers /\ c # UI /\ queue = {} /\ \A d \in Callers \ {c} : ~Busy(d)
         /\ inv[c] \in Walks /\ inv[c].token \in Nat /\ tenant.processed \in Nat
         /\ RunningAt(inv[c].token) /\ WalkCovered(inv[c])
         /\ inv[c].at = "report" => inv[c].token < Cap
         /\ sent = 0 /\ ~MailDue
  <1>1. c \in Callers /\ c # UI
    BY DEF Callers, BackfillAssumption
  <1>2. Busy(c)
    BY DEF Busy, Awaited
  <1>3. queue = {} /\ \A d \in Callers \ {c} : ~Busy(d)
    BY <1>1, <1>2, OthersRest DEF Counted
  <1>4. /\ inv[c] \in Walks /\ inv[c].token \in Nat /\ tenant.processed \in Nat
    BY DEF TypeOK, Walks, Tenants
  <1>5. WalkCounts(c) /\ WalkCovered(inv[c])
    BY DEF Counted, Walked, WalksLeaveNoGap
  <1>6. RunningAt(inv[c].token) /\ (inv[c].at = "report" => inv[c].token < Cap)
    BY <1>5 DEF WalkCounts, Awaited
  <1>7. \A d \in Callers : req[d].path = "none"
    BY <1>3 DEF Busy, NoRequest, Request, Awaited
  <1>8. sent = 0 /\ ~MailDue
    BY <1>6, <1>7 DEF Counted, MailCounts, MailDue, RunningAt, Terminal
  <1>9. QED
    BY <1>1, <1>3, <1>4, <1>5, <1>6, <1>8

(* A step of an invocation leaves the other callers at rest. *)
LEMMA ConsumerRests ==
  ASSUME TypeOK, NEW c \in Invocations, UNCHANGED ui,
         \A d \in Callers \ {c} : ~Busy(d),
         \A d \in Callers \ {c} : req'[d] = req[d],
         \A d \in Invocations \ {c} : inv'[d] = inv[d]
  PROVE  \A d \in Callers \ {c} : ~Busy(d)'
  BY DEF Busy

(* While the walk is running there is nothing to count or mail. *)
LEMMA RunningKept ==
  ASSUME NEW n, RunningAt(n), sent = 0, UNCHANGED <<tenant, sent>>
  PROVE  CountIsExact' /\ MailCounts'
  BY DEF CountIsExact, MailCounts, RunningAt, Terminal

(* A report of the end of the walk, or of a failure. *)
LEMMA ReportAndReturnCounts ==
  ASSUME BackfillAssumption, TypeOK, Counted, Walked,
         NEW c \in Invocations, NEW at \in {"loop", "finish"}, Awaited(c, at),
         NEW done \in BOOLEAN, NEW error \in BOOLEAN, error <=> ~done,
         done => inv[c].token = Goal, ReportAndReturn(c, done, error)
  PROVE  Counted'
  <1> DEFINE r == Request("progress", 0, done, error)
  <1>1. /\ Send(c, r) /\ inv' = [inv EXCEPT ![c].at = "return"]
        /\ UNCHANGED <<tenant, queue, ui, pages, mails, sent>>
    BY DEF ReportAndReturn, env, history
  <1>2. /\ c \in Callers /\ queue = {} /\ \A d \in Callers \ {c} : ~Busy(d)
        /\ RunningAt(inv[c].token) /\ sent = 0
    BY WalkAlone
  <1>3. /\ req'[c] = r /\ inv'[c].at = "return"
        /\ \A d \in Callers \ {c} : req'[d] = req[d]
        /\ \A d \in Invocations \ {c} : inv'[d] = inv[d]
    BY <1>1, <1>2 DEF Send, TypeOK, Walks
  <1>4. \A d \in Callers \ {c} : ~Busy(d)'
    BY <1>1, <1>2, <1>3, ConsumerRests
  <1>5. /\ r.path = "progress" /\ r.delta = 0 /\ r.done = done /\ r.error = error
        /\ r.at = "sent"
    BY DEF Request
  <1>6. EndReport(c)'
    BY <1>1, <1>2, <1>3, <1>5 DEF EndReport, Sender, RunningAt, Goal
  <1>7. ProgressCounts(c)'
    BY <1>1, <1>2, <1>3, <1>5, <1>6 DEF ProgressCounts, RunningAt
  <1>8. RequestCounts(c)' /\ WalkCounts(c)'
    BY <1>3, <1>5, <1>7 DEF RequestCounts, WalkCounts
  <1>9. CountIsExact' /\ MailCounts'
    BY <1>1, <1>2, RunningKept
  <1>10. QED
    BY <1>1, <1>2, <1>4, <1>8, <1>9, AloneCounts

(* Every way in which the loop ends with a report. *)
LEMMA EndsCount ==
  ASSUME BackfillAssumption, TypeOK, Counted, Walked, NEW c \in Invocations,
         StopAtCap(c) \/ PageFails(c) \/ EmptyPage(c) \/ ReportDone(c)
  PROVE  Counted'
  <1>0. pages \in Nat /\ Cap \in Nat
    BY DEF TypeOK, BackfillAssumption
  <1>1. CASE StopAtCap(c)
    <2>1. Awaited(c, "loop") /\ inv[c].already >= Cap
      BY <1>1 DEF StopAtCap, InPageLoop
    <2>2. inv[c].token = Goal
      BY <2>1, <1>0, WalkAlone DEF WalkCovered, RunningAt, Goal
    <2>3. QED
      BY <1>1, <2>1, <2>2, ReportAndReturnCounts DEF StopAtCap
  <1>2. CASE PageFails(c)
    BY <1>2, ReportAndReturnCounts DEF PageFails, InPageLoop
  <1>3. CASE EmptyPage(c)
    <2>1. Awaited(c, "loop") /\ inv[c].token >= pages
      BY <1>3 DEF EmptyPage, InPageLoop
    <2>2. inv[c].token = Goal
      BY <2>1, <1>0, WalkAlone DEF WalkCovered, RunningAt, Goal
    <2>3. QED
      BY <1>3, <2>1, <2>2, ReportAndReturnCounts DEF EmptyPage
  <1>4. CASE ReportDone(c)
    <2>1. Awaited(c, "finish")
      BY <1>4 DEF ReportDone
    <2>2. inv[c].token = Goal
      BY <2>1, <1>0, WalkAlone DEF WalkCovered, RunningAt, Goal, Awaited
    <2>3. QED
      BY <1>4, <2>1, <2>2, ReportAndReturnCounts DEF ReportDone
  <1>5. QED
    BY <1>1, <1>2, <1>3, <1>4

(* The steps along the walk. *)
LEMMA IngestCounts ==
  ASSUME BackfillAssumption, TypeOK, Counted, Walked, NEW c \in Invocations, IngestPage(c)
  PROVE  Counted'
  <1>1. /\ Awaited(c, "loop") /\ inv[c].already < Cap
        /\ inv' = [inv EXCEPT ![c].at = "report"]
        /\ UNCHANGED <<tenant, req, queue, ui, pages, mails, sent>>
    BY DEF IngestPage, InPageLoop, env, history
  <1>2. /\ c \in Callers /\ queue = {} /\ \A d \in Callers \ {c} : ~Busy(d)
        /\ RunningAt(inv[c].token) /\ WalkCovered(inv[c]) /\ sent = 0
    BY <1>1, WalkAlone
  <1>3. /\ inv'[c].at = "report" /\ inv'[c].token = inv[c].token
        /\ \A d \in Invocations \ {c} : inv'[d] = inv[d]
    BY <1>1 DEF TypeOK, Walks
  <1>4. \A d \in Callers \ {c} : ~Busy(d)'
    BY <1>1, <1>2, <1>3, ConsumerRests
  <1>5. RequestCounts(c)'
    BY <1>1 DEF RequestCounts, Awaited
  <1>6. WalkCounts(c)'
    BY <1>1, <1>2, <1>3 DEF WalkCounts, RunningAt, WalkCovered
  <1>7. CountIsExact' /\ MailCounts'
    BY <1>1, <1>2, RunningKept
  <1>8. QED
    BY <1>1, <1>2, <1>4, <1>5, <1>6, <1>7, AloneCounts

LEMMA ReportPageCounts ==
  ASSUME BackfillAssumption, TypeOK, Counted, Walked, NEW c \in Invocations, ReportPage(c)
  PROVE  Counted'
  <1> DEFINE r == Request("progress", 1, FALSE, FALSE)
  <1>1. /\ Awaited(c, "report") /\ Send(c, r)
        /\ UNCHANGED <<tenant, queue, ui, pages, mails, sent>>
    BY DEF ReportPage, env, history
  <1>2. /\ c \in Callers /\ queue = {} /\ \A d \in Callers \ {c} : ~Busy(d)
        /\ RunningAt(inv[c].token) /\ inv[c].token < Cap /\ inv[c].token \in Nat /\ sent = 0
    BY <1>1, WalkAlone DEF Awaited
  <1>3. /\ inv'[c].at \in {"loop", "finish"} /\ inv'[c].token = inv[c].token + 1
        /\ \A d \in Invocations \ {c} : inv'[d] = inv[d]
    BY DEF ReportPage, TypeOK, Walks
  <1>4. /\ req'[c] = r /\ \A d \in Callers \ {c} : req'[d] = req[d]
    BY <1>1, <1>2 DEF Send, TypeOK
  <1>5. \A d \in Callers \ {c} : ~Busy(d)'
    BY <1>1, <1>2, <1>3, <1>4, ConsumerRests
  <1>6. /\ r.path = "progress" /\ r.delta = 1 /\ ~r.done /\ ~r.error /\ r.at = "sent"
    BY DEF Request
  <1>7. inv'[c].token - 1 = inv[c].token /\ inv'[c].token <= Cap
    BY <1>2, <1>3 DEF BackfillAssumption
  <1>8. PageReport(c)'
    <2>1. RunningAt(inv[c].token - 1)'
      BY <1>1, <1>2, <1>7 DEF RunningAt
    <2>2. QED
      BY <2>1, <1>3, <1>4, <1>6, <1>7 DEF PageReport, Sender
  <1>9. RequestCounts(c)' /\ WalkCounts(c)'
    <2>1. ProgressCounts(c)'
      BY <1>1, <1>2, <1>4, <1>6, <1>8 DEF ProgressCounts, RunningAt
    <2>2. r # NoRequest
      BY DEF NoRequest, Request
    <2>3. QED
      BY <2>1, <2>2, <1>4, <1>6 DEF RequestCounts, WalkCounts
  <1>10. CountIsExact' /\ MailCounts'
    BY <1>1, <1>2, RunningKept
  <1>11. QED
    BY <1>1, <1>2, <1>5, <1>9, <1>10, AloneCounts

LEMMA PushContinuationCounts ==
  ASSUME BackfillAssumption, TypeOK, Counted, Walked, NEW c \in Invocations,
         PushContinuation(c)
  PROVE  Counted'
  <1> DEFINE next == Continuation(pushes, inv[c].token, inv[c].already)
  <1>1. /\ Awaited(c, "loop") /\ queue' = queue \cup {next}
        /\ inv' = [inv EXCEPT ![c].at = "return"]
        /\ UNCHANGED <<tenant, req, ui, pages, mails, sent>>
    BY DEF PushContinuation, Push, env, history
  <1>2. /\ c \in Callers /\ c # UI /\ queue = {} /\ \A d \in Callers \ {c} : ~Busy(d)
        /\ RunningAt(inv[c].token) /\ sent = 0
    BY <1>1, WalkAlone
  <1>3. /\ inv'[c].at = "return" /\ \A d \in Invocations \ {c} : inv'[d] = inv[d]
    BY <1>1 DEF TypeOK, Walks
  <1>4. \A d \in Callers \ {c} : ~Busy(d)'
    BY <1>1, <1>2, <1>3, ConsumerRests
  <1>5. ~Busy(c)'
    BY <1>1, <1>2, <1>3 DEF Busy, Awaited
  <1>6. queue' = {next} /\ \A task \in {next} : TaskCounts(task)'
    <2>1. queue' = {next}
      BY <1>1, <1>2
    <2>2. ASSUME NEW task, task = next PROVE TaskCounts(task)'
      <3>1. ~task.first /\ task.token = inv[c].token
        BY <2>2 DEF Continuation
      <3>2. RunningAt(task.token)'
        BY <1>1, <1>2, <3>1 DEF RunningAt
      <3>3. QED
        BY <3>1, <3>2 DEF TaskCounts
    <2>3. QED
      BY <2>1, <2>2
  <1>7. CountIsExact' /\ MailCounts'
    BY <1>1, <1>2, RunningKept
  <1>8. QED
    BY <1>4, <1>5, <1>6, <1>7, RestingCounts

(* An invocation that only has to return, and the platform killing one:    *)
(* a walk stops in that slot, the request it has out goes on.              *)
LEMMA StopCounts ==
  ASSUME BackfillAssumption, Serial, TypeOK, Counted, NEW c \in Invocations,
         Return(c) \/ Crash(c)
  PROVE  Counted'
  <1>1. /\ inv' = [inv EXCEPT ![c] = Idle]
        /\ UNCHANGED <<tenant, req, ui, pages, mails, sent>>
    BY DEF Return, Crash, env, history
  <1>2. UNCHANGED queue
    BY DEF Return, Crash, Serial, TypeOK
  <1>3. /\ inv'[c].at = "idle" /\ \A d \in Invocations \ {c} : inv'[d] = inv[d]
    BY <1>1 DEF TypeOK, Idle
  <1>4. \A d \in Callers : Busy(d)' => Busy(d)
    BY <1>1, <1>3 DEF Busy
  <1>5. Alone'
    BY <1>2, <1>4 DEF Counted, Alone
  <1>6. \A n : RunningAt(n)' <=> RunningAt(n)
    BY <1>1 DEF RunningAt
  <1>7. (\A task \in queue : TaskCounts(task))'
    BY <1>2, <1>6 DEF Counted, TaskCounts
  <1>8. (\A d \in Invocations : WalkCounts(d))'
    BY <1>1, <1>3, <1>6 DEF Counted, WalkCounts
  <1>9. (\A d \in Callers : RequestCounts(d))'
    <2> SUFFICES ASSUME NEW d \in Callers PROVE RequestCounts(d)'
      OBVIOUS
    <2>1. RequestCounts(d)
      BY DEF Counted
    <2>2. CASE d # c
      <3>1. d \in Invocations => inv'[d] = inv[d]
        BY <1>3, <2>2
      <3>2. StartCounts(d) => StartCounts(d)'
        BY <1>1, <1>6, <3>1 DEF StartCounts, Sender, Current
      <3>3. PageReport(d) => PageReport(d)'
        BY <1>1, <1>6, <3>1 DEF PageReport, Sender
      <3>4. EndReport(d) => EndReport(d)'
        BY <1>1, <3>1 DEF EndReport, Sender, Goal
      <3>5. ProgressCounts(d) => ProgressCounts(d)'
        BY <1>1, <3>3, <3>4 DEF ProgressCounts, Current
      <3>6. QED
        BY <1>1, <2>1, <3>2, <3>5 DEF RequestCounts
    <2>3. CASE d = c
      <3>1. inv'[d].at = "idle" /\ inv'[d].token = 0
        BY <1>1, <2>3 DEF TypeOK, Idle
      <3>2. StartCounts(d) => StartCounts(d)'
        BY <1>1, <1>6, <3>1 DEF StartCounts, Sender, Current
      <3>3. PageReport(d) => PageReport(d)'
        BY <1>1, <3>1 DEF PageReport, Sender
      <3>4. EndReport(d) => EndReport(d)'
        BY <1>1, <3>1 DEF EndReport, Sender, Goal
      <3>5. ProgressCounts(d) => ProgressCounts(d)'
        BY <1>1, <3>3, <3>4 DEF ProgressCounts, Current
      <3>6. QED
        BY <1>1, <2>1, <3>2, <3>5 DEF RequestCounts
    <2>4. QED
      BY <2>2, <2>3
  <1>10. CountIsExact' /\ MailCounts'
    BY <1>1, TenantKept DEF Counted, MailDue
  <1>11. QED
    BY <1>5, <1>7, <1>8, <1>9, <1>10 DEF Counted

(* A task is delivered once, and while it is on the queue nobody is busy.  *)
LEMMA DeliverCounts ==
  ASSUME BackfillAssumption, Serial, TypeOK, Counted, NEW c \in Invocations,
         NEW task \in queue, Deliver(c, task)
  PROVE  Counted'
  <1>1. /\ Awaited(c, "idle") /\ queue' = queue \ {task}
        /\ inv' = [inv EXCEPT ![c] = [at |-> "loop", token |-> task.token,
                                      already |-> task.already, page |-> 0,
                                      task |-> task]]
        /\ UNCHANGED <<tenant, ui, pages, mails, sent>>
    BY DEF Deliver, Serial, TypeOK, history
  <1>2. /\ \A d \in Callers : ~Busy(d)
        /\ queue = {task} /\ TaskCounts(task) /\ CountIsExact /\ MailCounts
    BY DEF Counted, Alone
  <1>3. c \in Callers /\ queue' = {}
    BY <1>1, <1>2 DEF Callers
  <1>4. /\ inv'[c].at = "loop" /\ inv'[c].token = task.token
        /\ \A d \in Invocations \ {c} : inv'[d] = inv[d]
    BY <1>1 DEF TypeOK
  <1>5. \A d \in Callers \ {c} : req'[d] = req[d]
    BY DEF Deliver, Send, TypeOK
  <1>6. \A d \in Callers \ {c} : ~Busy(d)'
    BY <1>1, <1>2, <1>4, <1>5, ConsumerRests
  <1>7. ~MailDue
    BY <1>2 DEF MailDue, Busy, NoRequest, Request
  <1>8. req'[c] = IF task.first THEN StartRequest ELSE NoRequest
    BY <1>1, <1>3 DEF Deliver, Send, TypeOK, Awaited
  <1>9. ~MailDue'
    BY <1>3, <1>6, <1>8, MailDueFrom DEF StartRequest, NoRequest, Request
  <1>10. CountIsExact' /\ MailCounts'
    BY <1>1, <1>2, <1>7, <1>9, TenantKept
  <1>11. RequestCounts(c)' /\ WalkCounts(c)'
    <2>1. CASE task.first
      <3>1. req'[c].path = "start" /\ req'[c].at = "sent" /\ req'[c] # NoRequest
        BY <2>1, <1>8 DEF StartRequest, NoRequest, Request
      <3>2. StartCounts(c)'
        BY <2>1, <3>1, <1>2, <1>4 DEF StartCounts, Sender, TaskCounts
      <3>3. QED
        BY <3>1, <3>2 DEF RequestCounts, WalkCounts
    <2>2. CASE ~task.first
      <3>1. RunningAt(inv[c].token)'
        BY <2>2, <1>1, <1>2, <1>4 DEF TaskCounts, RunningAt
      <3>2. QED
        BY <2>2, <3>1, <1>4, <1>8 DEF RequestCounts, WalkCounts
    <2>3. QED
      BY <2>1, <2>2
  <1>12. QED
    BY <1>3, <1>6, <1>10, <1>11, AloneCounts

LEMMA SameCounts == ASSUME Counted, UNCHANGED vars PROVE Counted'
  BY DEF vars, Counted, Alone, Busy, TaskCounts, WalkCounts, RequestCounts, StartCounts,
         ProgressCounts, PageReport, EndReport, Current, Sender, RunningAt,
         CountIsExact, MailCounts, MailDue, Goal, MailKind

LEMMA NextCounted ==
  ASSUME BackfillAssumption, Serial, TypeOK, Walked, Counted, [Next]_vars
  PROVE  Counted'
<1>1. CASE InstallTrigger \/ ClickStart \/ EnqueueFromUI \/ EnqueueFails
  BY <1>1, ProducersCount
<1>2. CASE Acknowledge
  BY <1>2, AcknowledgeCounts
<1>3. ASSUME NEW c \in Callers, Server(c) PROVE Counted'
  BY <1>3, LoadCounts, CommitCounts, AnswerCounts DEF Server
<1>4. ASSUME NEW c \in Callers, Refuse(c) PROVE Counted'
  BY <1>4 DEF Refuse, Serial
<1>5. ASSUME NEW c \in Invocations, Consumer(c) PROVE Counted'
  BY <1>5, EndsCount, IngestCounts, ReportPageCounts, PushContinuationCounts,
     StopCounts DEF Consumer
<1>6. ASSUME NEW c \in Invocations, Crash(c) PROVE Counted'
  BY <1>6, StopCounts
<1>7. ASSUME NEW c \in Invocations, NEW task \in queue, Deliver(c, task) PROVE Counted'
  BY <1>7, DeliverCounts
<1>8. CASE UNCHANGED vars
  BY <1>8, SameCounts
<1> QED
  BY <1>1, <1>2, <1>3, <1>4, <1>5, <1>6, <1>7, <1>8 DEF Next

LEMMA SpecCounted ==
  ASSUME BackfillAssumption, Serial
  PROVE  Spec => [](TypeOK /\ Walked /\ Counted)
<1>1. Init => TypeOK /\ Walked /\ Counted
  BY InitTypeOK, InitWalked, InitCounted
<1>2. TypeOK /\ Walked /\ Counted /\ [Next]_vars => (TypeOK /\ Walked /\ Counted)'
  BY NextTypeOK, NextWalked, NextCounted
<1> QED
  BY <1>1, <1>2, PTL DEF Spec

(* Walks that follow one another count every page the backend committed    *)
(* once, although the platform may kill any invocation and Jira may fail.  *)
THEOREM ExactCount ==
  ASSUME BackfillAssumption, Serial PROVE Spec => []CountIsExact
<1>1. Counted => CountIsExact
  BY DEF Counted
<1> QED
  BY <1>1, SpecCounted, PTL

(* A walk that has come to rest in a terminal status has been mailed       *)
(* exactly once, with the mail for its outcome.                            *)
THEOREM OneMailAtRest ==
  ASSUME BackfillAssumption, Serial PROVE Spec => []RestMeansOneMail
<1>1. Counted => RestMeansOneMail
  BY QuietRests DEF Counted, MailCounts, RestMeansOneMail
<1> QED
  BY <1>1, SpecCounted, PTL

-----------------------------------------------------------------------------
(* The abstract cycle, step by step.                                       *)

LEMMA StartOrEnd ==
  ASSUME BackfillAssumption, TypeOK, Counted, NEW c \in Callers, CommitTenant(c)
  PROVE  Cycle!Start \/ Cycle!End \/ UNCHANGED Cycle!cycleVars
  <1> DEFINE r == req[c]
  <1>1. /\ r.path # "none" /\ r.at = "loaded"
        /\ sent' = IF r.path = "start" THEN 0 ELSE sent
    BY DEF CommitTenant
  <1>2. /\ \A d \in Callers \ {c} : ~Busy(d)
        /\ r \in Requests /\ MailCounts
        /\ \/ r.path = "start" /\ StartCounts(c)
           \/ r.path = "progress" /\ ProgressCounts(c)
    BY <1>1, RequestAlone
  <1>3. Current(r)
    BY <1>1, <1>2 DEF StartCounts, ProgressCounts
  <1>4. /\ r.path = "start" => tenant'.status = "running"
        /\ r.path = "progress" =>
             tenant'.status = IF r.error THEN "failed"
                              ELSE IF r.done THEN "completed" ELSE tenant.status
    BY <1>2, <1>3, CommitRow, HandledColumns DEF Current
  <1>5. CASE r.path = "start"
    <2>1. ~MailDue
      BY <1>1, <1>2 DEF MailDue, Busy, NoRequest, Request
    <2>2. tenant.status \in {"completed", "failed"} => sent = 1
      BY <1>2, <2>1 DEF MailCounts, Terminal
    <2>3. QED
      BY <1>1, <1>4, <1>5, <2>2 DEF Cycle!Start, Cycle!Ended
  <1>6. CASE r.path = "progress"
    <2>1. tenant.status = "running"
      BY <1>1, <1>2, <1>6 DEF ProgressCounts
    <2>2. tenant'.status \in {"running", "completed", "failed"} /\ sent' = sent
      BY <1>1, <1>4, <1>6, <2>1
    <2>3. QED
      BY <2>1, <2>2 DEF Cycle!End, Cycle!Ended, Cycle!cycleVars
  <1>7. QED
    BY <1>2, <1>5, <1>6

LEMMA MailOrNothing ==
  ASSUME BackfillAssumption, TypeOK, Counted, NEW c \in Callers, Answer(c)
  PROVE  Cycle!Mail \/ UNCHANGED Cycle!cycleVars
  <1> DEFINE r == req[c]
  <1>1. /\ r.path # "none" /\ r.at = "committed" /\ UNCHANGED tenant
        /\ IF r.path = "progress" /\ Crossed(r.loaded.status, tenant.status)
             THEN sent' = sent + 1 ELSE sent' = sent
    BY DEF Answer
  <1>2. CASE r.path = "progress" /\ Crossed(r.loaded.status, tenant.status)
    <2>1. ProgressCounts(c) /\ MailCounts
      BY <1>2, RequestAlone
    <2>2. tenant.status \in Terminal
      BY <1>2 DEF Crossed
    <2>3. EndReport(c)
      BY <1>1, <2>1, <2>2 DEF ProgressCounts, PageReport, Terminal
    <2>4. MailDue
      BY <1>1, <1>2, <2>3 DEF MailDue, EndReport
    <2>5. sent = 0 /\ sent' = 1
      BY <1>1, <1>2, <2>1, <2>4 DEF MailCounts
    <2>6. QED
      BY <1>1, <2>2, <2>5 DEF Cycle!Mail, Cycle!Ended, Terminal
  <1>3. CASE ~(r.path = "progress" /\ Crossed(r.loaded.status, tenant.status))
    BY <1>1, <1>3 DEF Cycle!cycleVars
  <1>4. QED
    BY <1>2, <1>3

(* Every other step leaves the status and the count of mails alone. *)
LEMMA OtherStepsStutter ==
  ASSUME Serial, TypeOK,
         \/ InstallTrigger \/ ClickStart \/ EnqueueFromUI \/ EnqueueFails \/ Acknowledge
         \/ \E c \in Callers : LoadTenant(c) \/ Refuse(c)
         \/ \E c \in Invocations : Consumer(c) \/ Crash(c)
         \/ \E c \in Invocations, task \in queue : Deliver(c, task)
         \/ UNCHANGED vars
  PROVE  UNCHANGED Cycle!cycleVars
  <1>1. CASE InstallTrigger \/ ClickStart \/ EnqueueFromUI \/ EnqueueFails
    BY <1>1 DEF InstallTrigger, ClickStart, EnqueueFromUI, EnqueueFails, history,
       Cycle!cycleVars
  <1>2. CASE Acknowledge
    BY <1>2 DEF Acknowledge, TypeOK, Tenants, Cycle!cycleVars
  <1>3. ASSUME NEW c \in Callers, LoadTenant(c) \/ Refuse(c) PROVE UNCHANGED <<tenant, sent>>
    BY <1>3 DEF LoadTenant, Refuse, history
  <1>4. ASSUME NEW c \in Invocations, Consumer(c) PROVE UNCHANGED <<tenant, sent>>
    BY <1>4 DEF Consumer, StopAtCap, PageFails, EmptyPage, IngestPage, ReportPage,
       ReportDone, PushContinuation, Return, ReportAndReturn, history
  <1>5. ASSUME NEW c \in Invocations, Crash(c) PROVE UNCHANGED <<tenant, sent>>
    BY <1>5 DEF Crash, history
  <1>6. ASSUME NEW c \in Invocations, NEW task \in queue, Deliver(c, task)
        PROVE UNCHANGED <<tenant, sent>>
    BY <1>6 DEF Deliver, history
  <1>7. CASE UNCHANGED vars
    BY <1>7 DEF vars, Cycle!cycleVars
  <1>8. QED
    BY <1>1, <1>2, <1>3, <1>4, <1>5, <1>6, <1>7 DEF Cycle!cycleVars

(* Walks that follow one another take the steps of BackfillCycle: a walk   *)
(* starts only when the end of the one before has been mailed, ends once,  *)
(* and its end is mailed once, whatever the platform kills on the way.     *)
THEOREM StepsOfTheCycle ==
  ASSUME BackfillAssumption, Serial
  PROVE  Spec => Cycle!Init /\ [][Cycle!Next]_Cycle!cycleVars
<1>1. Init => Cycle!Init
  BY DEF Init, NewTenant, Cycle!Init
<1>2. TypeOK /\ Walked /\ Counted /\ [Next]_vars => [Cycle!Next]_Cycle!cycleVars
  <2> SUFFICES ASSUME TypeOK, Counted, [Next]_vars
               PROVE  Cycle!Next \/ UNCHANGED Cycle!cycleVars
    OBVIOUS
  <2>1. ASSUME NEW c \in Callers, CommitTenant(c)
        PROVE  Cycle!Next \/ UNCHANGED Cycle!cycleVars
    BY <2>1, StartOrEnd DEF Cycle!Next
  <2>2. ASSUME NEW c \in Callers, Answer(c)
        PROVE  Cycle!Next \/ UNCHANGED Cycle!cycleVars
    BY <2>2, MailOrNothing DEF Cycle!Next
  <2>3. QED
    BY <2>1, <2>2, OtherStepsStutter DEF Next, Server
<1> QED
  BY <1>1, <1>2, SpecCounted, PTL DEF Spec

=============================================================================
