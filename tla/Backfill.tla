------------------------------ MODULE Backfill ------------------------------
(***************************************************************************)
(* The historical backfill of one tenant (ADR-0033): a Forge queue         *)
(* consumer walks the site's issues page by page, posts every page to      *)
(* /sync/ingest and its progress to /sync/backfill/progress, and pushes a  *)
(* continuation task when its page budget is used up.  The backend keeps   *)
(* the tenant's backfill columns and mails the administrator when the      *)
(* status becomes terminal.                                                *)
(*                                                                         *)
(* One page holds one unit of issues, so issue counts are page counts and  *)
(* the token of a task is the number of pages that precede it.             *)
(*                                                                         *)
(* Every HTTP request is three steps of the server: the SELECT of the      *)
(* tenant row, the commit, and what the handler does after the commit.     *)
(* Handlers run concurrently in the server's thread pool.                  *)
(***************************************************************************)
EXTENDS Integers, FiniteSets, UnitOfWork

CONSTANTS
  SiteSizes,       \* how many pages of issues a site may have
  PageBudget,      \* MAX_PAGES_PER_INVOCATION
  Cap,             \* MAX_TOTAL_ISSUES and BACKFILL_HARD_CAP, in pages
  Invocations,     \* slots for concurrent consumer invocations
  UI,              \* the dashboard's startBackfill resolver, a caller too
  MaxKicks,        \* bound: pushes by the two producers
  MaxRedeliveries, \* bound: tasks delivered again by the queue
  MaxCrashes,      \* bound: invocations killed by the platform
  Overlap,         \* a producer may push while a walk is still going on
  JiraFails,       \* Jira's search, or the ingest of a page, may fail
  BackendFails     \* start and progress requests may be refused

ASSUME BackfillAssumption ==
  /\ SiteSizes \subseteq Nat
  /\ PageBudget \in Nat \ {0}
  /\ Cap \in Nat \ {0}
  /\ UI \notin Invocations
  /\ MaxKicks \in Nat /\ MaxRedeliveries \in Nat /\ MaxCrashes \in Nat
  /\ Overlap \in BOOLEAN /\ JiraFails \in BOOLEAN /\ BackendFails \in BOOLEAN

VARIABLES
  pages,        \* the site's size, fixed for the behaviour
  tenant,       \* the tenant row's backfill columns
  req,          \* per caller: its outstanding HTTP request
  queue,        \* tasks on `backfillqueue`
  inv,          \* per slot: the consumer invocation running in it
  ui,           \* the startBackfill resolver: "idle" or about to "push"
  kicks,        \* producer pushes so far
  redeliveries, \* redeliveries so far
  crashes,      \* crashes so far
  pushes,       \* queue pushes so far, to name tasks
  ingested,     \* history: pages the backend has committed
  mails,        \* history: mails of each kind since the installation
  sent,         \* history: mails since the last committed start
  unseen        \* history: completed, and the banner not yet dismissed

vars == <<pages, tenant, req, queue, inv, ui, kicks, redeliveries, crashes,
          pushes, ingested, mails, sent, unseen>>

env == <<pages, kicks, redeliveries, crashes>>
history == <<mails, sent, unseen>>

-----------------------------------------------------------------------------

Callers == Invocations \cup {UI}

Statuses == {"none", "running", "completed", "failed"}
Terminal == {"completed", "failed"}

Tenants == [status : Statuses, processed : Nat, error : BOOLEAN,
            acknowledged : BOOLEAN]

Tasks == [id : Nat, token : Nat, already : Nat, first : BOOLEAN]

(* A request: its endpoint, how far the server is with it, its body, and   *)
(* the tenant row the server loaded for it.                                *)
Requests == [path : {"none", "start", "progress"},
             at   : {"sent", "loaded", "committed"},
             delta : Nat, done : BOOLEAN, error : BOOLEAN,
             loaded : Tenants]

NewTenant == [status |-> "none", processed |-> 0, error |-> FALSE,
              acknowledged |-> FALSE]

Request(path, delta, done, error) ==
  [path |-> path, at |-> "sent", delta |-> delta, done |-> done,
   error |-> error, loaded |-> NewTenant]

NoRequest == Request("none", 0, FALSE, FALSE)
StartRequest == Request("start", 0, FALSE, FALSE)

(* What the producers push, and what an invocation that has used up its    *)
(* page budget pushes.                                                     *)
FirstTask(id) == [id |-> id, token |-> 0, already |-> 0, first |-> TRUE]

Continuation(id, token, already) ==
  [id |-> id, token |-> token, already |-> already, first |-> FALSE]

(* What an invocation is about to do once its outstanding request is       *)
(* answered: enter the page loop, report the page it ingested, report that *)
(* the walk is over, or return.                                            *)
Steps == {"idle", "loop", "report", "finish", "return"}

Walks == [at : Steps, token : Nat, already : Nat, page : Nat, task : Tasks]

Idle == [at |-> "idle", token |-> 0, already |-> 0, page |-> 0,
         task |-> FirstTask(0)]

MailKinds == {"completion", "cap", "failure"}

Init ==
  /\ pages \in SiteSizes
  /\ tenant = NewTenant
  /\ req = [c \in Callers |-> NoRequest]
  /\ queue = {}
  /\ inv = [c \in Invocations |-> Idle]
  /\ ui = "idle"
  /\ kicks = 0 /\ redeliveries = 0 /\ crashes = 0 /\ pushes = 0
  /\ ingested = {}
  /\ mails = [k \in MailKinds |-> 0] /\ sent = 0 /\ unseen = FALSE

-----------------------------------------------------------------------------
(* The producers.                                                          *)

Push(task) ==
  /\ queue' = queue \cup {task}
  /\ pushes' = pushes + 1

(* No task, no invocation and no request is left of earlier walks. *)
Quiescent ==
  /\ queue = {} /\ ui = "idle"
  /\ \A c \in Invocations : inv[c].at = "idle"
  /\ \A c \in Callers : req[c] = NoRequest

MayKick ==
  /\ kicks < MaxKicks
  /\ kicks' = kicks + 1
  /\ Overlap \/ Quiescent

(* The install trigger only pushes; the status stays NULL until the first  *)
(* delivery.                                                               *)
InstallTrigger ==
  /\ MayKick
  /\ Push(FirstTask(pushes))
  /\ UNCHANGED <<pages, tenant, req, inv, ui, redeliveries, crashes, ingested,
                 history>>

(* The Settings button: the resolver posts /backfill/start, then pushes,   *)
(* whatever the answer was.                                                *)
ClickStart ==
  /\ ui = "idle" /\ req[UI] = NoRequest
  /\ MayKick
  /\ req' = [req EXCEPT ![UI] = StartRequest]
  /\ ui' = "push"
  /\ UNCHANGED <<pages, tenant, queue, inv, redeliveries, crashes, pushes,
                 ingested, history>>

EnqueueFromUI ==
  /\ ui = "push" /\ req[UI] = NoRequest
  /\ ui' = "idle"
  /\ Push(FirstTask(pushes))
  /\ UNCHANGED <<tenant, req, inv, env, ingested, history>>

(* The push throws, or the resolver is killed before it. *)
EnqueueFails ==
  /\ ui = "push" /\ req[UI] = NoRequest
  /\ crashes < MaxCrashes
  /\ crashes' = crashes + 1
  /\ ui' = "idle"
  /\ UNCHANGED <<pages, tenant, req, queue, inv, kicks, redeliveries, pushes,
                 ingested, history>>

-----------------------------------------------------------------------------
(* The consumer.                                                           *)

Send(c, request) == req' = [req EXCEPT ![c] = request]

(* The consumer awaits every request it sends: nothing happens in an       *)
(* invocation while one is outstanding.                                    *)
Awaited(c, at) == inv[c].at = at /\ req[c] = NoRequest

(* The platform starts an invocation for a task; it may keep the task and  *)
(* deliver it once more.                                                   *)
Deliver(c, task) ==
  /\ Awaited(c, "idle")
  /\ task \in queue
  /\ \/ queue' = queue \ {task} /\ UNCHANGED redeliveries
     \/ /\ redeliveries < MaxRedeliveries
        /\ redeliveries' = redeliveries + 1
        /\ UNCHANGED queue
  /\ inv' = [inv EXCEPT ![c] = [at |-> "loop", token |-> task.token,
                                already |-> task.already, page |-> 0,
                                task |-> task]]
  /\ IF task.first THEN Send(c, StartRequest) ELSE UNCHANGED req
  /\ UNCHANGED <<pages, tenant, ui, kicks, crashes, pushes, ingested, history>>

InPageLoop(c) == Awaited(c, "loop") /\ inv[c].page < PageBudget

ReportAndReturn(c, done, error) ==
  /\ Send(c, Request("progress", 0, done, error))
  /\ inv' = [inv EXCEPT ![c].at = "return"]
  /\ UNCHANGED <<tenant, queue, ui, env, pushes, ingested, history>>

StopAtCap(c) ==
  /\ InPageLoop(c)
  /\ inv[c].already >= Cap
  /\ ReportAndReturn(c, TRUE, FALSE)

(* The search throws or answers an error, or the ingest of the page does.  *)
PageFails(c) ==
  /\ JiraFails
  /\ InPageLoop(c)
  /\ inv[c].already < Cap
  /\ ReportAndReturn(c, FALSE, TRUE)

(* The search answers no issues: the site has none. *)
EmptyPage(c) ==
  /\ InPageLoop(c)
  /\ inv[c].already < Cap
  /\ inv[c].token >= pages
  /\ ReportAndReturn(c, TRUE, FALSE)

(* The search answers the next page and the backend commits it. *)
IngestPage(c) ==
  /\ InPageLoop(c)
  /\ inv[c].already < Cap
  /\ inv[c].token < pages
  /\ ingested' = ingested \cup {inv[c].token + 1}
  /\ inv' = [inv EXCEPT ![c].at = "report"]
  /\ UNCHANGED <<tenant, req, queue, ui, env, pushes, history>>

IsLast_Early(token) == token + 2 >= pages

(* Jira's isLast for the page that follows token pages. *)
IsLast(token) == token + 1 >= pages

ReportPage(c) ==
  /\ Awaited(c, "report")
  /\ Send(c, Request("progress", 1, FALSE, FALSE))
  /\ inv' = [inv EXCEPT
       ![c].at = IF IsLast(inv[c].token) THEN "finish" ELSE "loop",
       ![c].token = @ + 1,
       ![c].already = @ + 1,
       ![c].page = @ + 1]
  /\ UNCHANGED <<tenant, queue, ui, env, pushes, ingested, history>>

ReportDone_Silent(c) ==
  /\ Awaited(c, "finish")
  /\ inv' = [inv EXCEPT ![c].at = "return"]
  /\ UNCHANGED <<tenant, req, queue, ui, env, pushes, ingested, history>>

ReportDone(c) ==
  /\ Awaited(c, "finish")
  /\ ReportAndReturn(c, TRUE, FALSE)

PushContinuation_NextPage(c) ==
  /\ Awaited(c, "loop")
  /\ inv[c].page = PageBudget
  /\ Push(Continuation(pushes, inv[c].token + 1, inv[c].already))
  /\ inv' = [inv EXCEPT ![c].at = "return"]
  /\ UNCHANGED <<tenant, req, ui, env, ingested, history>>

(* Page budget used up: push the continuation. *)
PushContinuation(c) ==
  /\ Awaited(c, "loop")
  /\ inv[c].page = PageBudget
  /\ Push(Continuation(pushes, inv[c].token, inv[c].already))
  /\ inv' = [inv EXCEPT ![c].at = "return"]
  /\ UNCHANGED <<tenant, req, ui, env, ingested, history>>

Return(c) ==
  /\ Awaited(c, "return")
  /\ inv' = [inv EXCEPT ![c] = Idle]
  /\ UNCHANGED <<tenant, req, queue, ui, env, pushes, ingested, history>>

(* The platform kills an invocation (a throw, the time limit); a request   *)
(* it had sent still runs, and the queue may deliver the task again.       *)
Crash(c) ==
  /\ crashes < MaxCrashes
  /\ crashes' = crashes + 1
  /\ inv[c].at # "idle"
  /\ inv' = [inv EXCEPT ![c] = Idle]
  /\ \/ UNCHANGED <<queue, redeliveries>>
     \/ /\ redeliveries < MaxRedeliveries
        /\ redeliveries' = redeliveries + 1
        /\ queue' = queue \cup {inv[c].task}
  /\ UNCHANGED <<pages, tenant, req, ui, kicks, pushes, ingested, history>>

-----------------------------------------------------------------------------
(* The backend.                                                            *)

(* A request that is refused or lost; the callers only log it. *)
Refuse(c) ==
  /\ BackendFails
  /\ req[c].path # "none" /\ req[c].at = "sent"
  /\ Send(c, NoRequest)
  /\ UNCHANGED <<tenant, queue, inv, ui, env, pushes, ingested, history>>

LoadTenant(c) ==
  /\ req[c].path # "none" /\ req[c].at = "sent"
  /\ Send(c, [req[c] EXCEPT !.at = "loaded", !.loaded = tenant])
  /\ UNCHANGED <<tenant, queue, inv, ui, env, pushes, ingested, history>>

(* The row as the handler of backfill_start leaves it. *)
Started(row) ==
  [row EXCEPT !.status = "running", !.processed = 0, !.error = FALSE]

Progressed_ErrorCompletes(row, r) ==
  LET counted == [row EXCEPT !.processed = @ + r.delta]
  IN IF r.error
     THEN [counted EXCEPT !.status = "completed", !.error = TRUE]
     ELSE IF r.done THEN [counted EXCEPT !.status = "completed"] ELSE counted

Progressed_CountsDown(row, r) == [row EXCEPT !.processed = @ - r.delta]

Progressed_SetsDelta(row, r) ==
  LET counted == [row EXCEPT !.processed = r.delta]
  IN IF r.error
     THEN [counted EXCEPT !.status = "failed", !.error = TRUE]
     ELSE IF r.done THEN [counted EXCEPT !.status = "completed"] ELSE counted

(* The row as the handler of backfill_progress leaves it. *)
Progressed(row, r) ==
  LET counted == [row EXCEPT !.processed = @ + r.delta]
  IN IF r.error
     THEN [counted EXCEPT !.status = "failed", !.error = TRUE]
     ELSE IF r.done THEN [counted EXCEPT !.status = "completed"] ELSE counted

Handled(r) ==
  IF r.path = "start" THEN Started(r.loaded) ELSE Progressed(r.loaded, r)

CommitTenant(c) ==
  /\ req[c].path # "none" /\ req[c].at = "loaded"
  /\ LET loaded == req[c].loaded
         row == Handled(req[c])
     IN tenant' = [tenant EXCEPT
          !.status = Flush(loaded.status, row.status, @),
          !.processed = Flush(loaded.processed, row.processed, @),
          !.error = Flush(loaded.error, row.error, @)]
  /\ Send(c, [req[c] EXCEPT !.at = "committed"])
  /\ sent' = IF req[c].path = "start" THEN 0 ELSE sent
  /\ unseen' = (tenant'.status = "completed"
                  /\ (unseen \/ tenant.status # "completed"))
  /\ UNCHANGED <<queue, inv, ui, env, pushes, ingested, mails>>

MailKind_AtCap(row) ==
  IF row.status = "failed" THEN "failure"
  ELSE IF row.processed > Cap THEN "cap" ELSE "completion"

(* fire_terminal_state_email: the mail for a terminal row. *)
MailKind(row) ==
  IF row.status = "failed" THEN "failure"
  ELSE IF row.processed >= Cap THEN "cap" ELSE "completion"

Crossed_OnlyCompleted(old, now) == old \notin Terminal /\ now = "completed"

(* The handler compares the status it loaded with the one it reads back    *)
(* after the commit (the commit expired the row).                          *)
Crossed(old, now) == old \notin Terminal /\ now \in Terminal

Answer(c) ==
  /\ req[c].path # "none" /\ req[c].at = "committed"
  /\ IF req[c].path = "progress" /\ Crossed(req[c].loaded.status, tenant.status)
     THEN /\ mails' = [mails EXCEPT ![MailKind(tenant)] = @ + 1]
          /\ sent' = sent + 1
     ELSE UNCHANGED <<mails, sent>>
  /\ Send(c, NoRequest)
  /\ UNCHANGED <<tenant, queue, inv, ui, env, pushes, ingested, unseen>>

(* The dashboard shows the completion banner. *)
BannerShown == tenant.status = "completed" /\ ~tenant.acknowledged

(* The customer dismisses the banner: backfill_acknowledge, one UPDATE of  *)
(* a column no other handler assigns.                                      *)
Acknowledge ==
  /\ BannerShown
  /\ tenant' = [tenant EXCEPT !.acknowledged = TRUE]
  /\ unseen' = FALSE
  /\ UNCHANGED <<req, queue, inv, ui, env, pushes, ingested, mails, sent>>

-----------------------------------------------------------------------------

Server(c) == LoadTenant(c) \/ CommitTenant(c) \/ Answer(c)

Consumer(c) ==
  \/ StopAtCap(c) \/ PageFails(c) \/ EmptyPage(c) \/ IngestPage(c)
  \/ ReportPage(c) \/ ReportDone(c) \/ PushContinuation(c) \/ Return(c)

Next ==
  \/ InstallTrigger \/ ClickStart \/ EnqueueFromUI \/ EnqueueFails
  \/ Acknowledge
  \/ \E c \in Callers : Server(c) \/ Refuse(c)
  \/ \E c \in Invocations :
       \/ Consumer(c) \/ Crash(c)
       \/ \E task \in queue : Deliver(c, task)

(* The platform delivers what is on the queue, runs what it has started,   *)
(* and the server answers.  Nobody is obliged to press the button, and     *)
(* nothing is obliged to fail.                                             *)
Fairness ==
  /\ WF_vars(EnqueueFromUI)
  /\ \A c \in Callers : WF_vars(Server(c))
  /\ \A c \in Invocations : WF_vars(Consumer(c))
  /\ WF_vars(\E c \in Invocations : \E task \in queue : Deliver(c, task))

Spec == Init /\ [][Next]_vars
FairSpec == Spec /\ Fairness

-----------------------------------------------------------------------------
(* Properties.                                                             *)

TypeOK ==
  /\ pages \in SiteSizes
  /\ tenant \in Tenants
  /\ req \in [Callers -> Requests]
  /\ queue \subseteq Tasks
  /\ inv \in [Invocations -> Walks]
  /\ ui \in {"idle", "push"}
  /\ kicks \in Nat /\ redeliveries \in Nat /\ crashes \in Nat
  /\ pushes \in Nat
  /\ ingested \subseteq Nat
  /\ mails \in [MailKinds -> Nat] /\ sent \in Nat
  /\ unseen \in BOOLEAN

(* The pages a walk is meant to cover: the site, or the cap. *)
Goal == IF pages < Cap THEN pages ELSE Cap

Covered(n) == 1 .. n \subseteq ingested

(* A task, and an invocation, stands at a token only if every page before  *)
(* it is committed, and its count is the token: what a continuation carries *)
(* is enough to resume the walk without a gap.                             *)
TaskCovered(task) ==
  task.token <= pages /\ task.already = task.token /\ Covered(task.token)

WalkCovered(walk) ==
  /\ TaskCovered(walk.task)
  /\ walk.token <= pages /\ walk.already = walk.token /\ Covered(walk.token)
  /\ walk.at = "report" => walk.token < pages /\ walk.token + 1 \in ingested
  /\ walk.at = "finish" => walk.token = pages

(* A request says the walk is done, or was made by a handler that found    *)
(* the tenant completed, only if the goal is covered.                      *)
RequestCovered(r) ==
  r.done \/ r.loaded.status = "completed" => Covered(Goal)

WalksLeaveNoGap ==
  /\ \A task \in queue : TaskCovered(task)
  /\ \A c \in Invocations : WalkCovered(inv[c])
  /\ \A c \in Callers : RequestCovered(req[c])

(* A tenant whose status is completed has had every page up to the end of  *)
(* the site, or up to the cap, committed by /sync/ingest: whatever was     *)
(* crashed, redelivered, refused or run twice on the way.                  *)
CompletedMeansWalked ==
  tenant.status = "completed" => Covered(Goal)

(* Walks that follow one another, none of them redelivered or refused: the *)
(* count the completion mail and the banner quote is the number of pages   *)
(* the backend committed.                                                  *)
CountIsExact ==
  tenant.status = "completed" => tenant.processed = Goal

(* A walk that has come to rest in a terminal status has mailed the        *)
(* administrator exactly once, and the mail is the one for its outcome.    *)
RestMeansOneMail ==
  Quiescent /\ tenant.status \in Terminal =>
    sent = 1 /\ mails[MailKind(tenant)] > 0

(* backfill_progress: "the email fires once, on the first crossing of the  *)
(* boundary", also when the platform retries the consumer: no more mails   *)
(* than the two producers started walks.                                   *)
OneMailPerWalk ==
  mails["completion"] + mails["cap"] + mails["failure"] <= kicks

(* The cap mail says the site has more issues than the cap. *)
CapMailMeansMore == mails["cap"] > 0 => pages > Cap

(* backfill_acknowledge: dismissing the banner suppresses it for "this     *)
(* backfill cycle": a completion the customer has not dismissed is shown.  *)
CompletionIsShown == unseen => BannerShown

(* startBackfill: "re-clicks during a run are no-ops": while a walk runs,  *)
(* no step takes back the progress it has reported.                        *)
ProgressIsKept ==
  [][tenant.status = "running" /\ tenant'.status = "running"
       => tenant'.processed >= tenant.processed]_vars

(* The consumer's promise that the status "always converges to a terminal  *)
(* status".                                                                *)
Converges == tenant.status = "running" ~> tenant.status \in Terminal

(* Walks that follow one another do what BackfillCycle promises. *)
Cycle == INSTANCE BackfillCycle WITH phase <- tenant.status, mails <- sent
CycleSpec == Cycle!Spec

=============================================================================
