----------------------------- MODULE IssueSync ------------------------------
(***************************************************************************)
(* How the issues of one tenant are kept in step with Jira.  A webhook     *)
(* handler fetches the issue an event names and posts it; the daily        *)
(* reconciliation, the dashboard's Sync button and the pages of a backfill *)
(* search Jira and post what they find; a deletion event removes the row.  *)
(* All posts go to /sync/ingest, which stamps the tenant's last_sync_at,   *)
(* the lower bound of the next search.                                     *)
(*                                                                         *)
(* A version of an issue is known by the time of its update: the clock     *)
(* stamps every change in Jira and every committed ingest.                 *)
(*                                                                         *)
(* An ingest is several steps of the server: for each issue the SELECT of  *)
(* its row and the flush of the new one, then the commit.  What may        *)
(* overlap is the constant Races.                                          *)
(***************************************************************************)
EXTENDS Integers, FiniteSets, UnitOfWork

CONSTANTS
  Issues,
  Handlers,     \* slots for running triggers, resolvers and their request
  MaxClock,     \* bound: the clock
  PerMinute,    \* stamps in one minute, the grain of a search's bound
  ReconcileMax, \* RECONCILE_MAX_ISSUES
  SyncMax,      \* MAX_ISSUES
  MaxRepeats,   \* bound: events delivered once more
  MaxRuns,      \* bound: reconciliations, syncs and backfill pages
  Loss,         \* a call to Jira or to the backend may fail
  Races         \* what may overlap

RaceKinds == {"requests", "sync", "deletion"}

ASSUME IssueSyncAssumption ==
  /\ IsFiniteSet(Issues)
  /\ MaxClock \in Nat /\ PerMinute \in Nat \ {0}
  /\ ReconcileMax \in Nat \ {0} /\ SyncMax \in Nat \ {0}
  /\ MaxRepeats \in Nat /\ MaxRuns \in Nat
  /\ Loss \in BOOLEAN
  /\ Races \subseteq RaceKinds

VARIABLES
  clock,
  jira,      \* per issue: the stamp of its current version, 0 before it exists
  gone,      \* issues deleted in Jira
  events,    \* per issue: created and updated events not yet delivered
  deletions, \* issues whose deleted event is not yet delivered
  row,       \* per issue: updated_at of the stored row, 0 if there is none
  lastSync,  \* the tenant's last_sync_at, 0 for NULL
  handler,   \* per slot: what runs in it
  missed,    \* history: issues of which the latest news was lost
  spent      \* repeats and runs used up

vars == <<clock, jira, gone, events, deletions, row, lastSync, handler, missed,
          spent>>
world == <<clock, jira, gone>>
inbox == <<events, deletions, spent>>
stored == <<row, lastSync, missed>>

-----------------------------------------------------------------------------

Kinds == {"webhook", "deletion", "reconcile", "sync", "backfill"}

(* Where a handler is: in the app up to its post, then in the server. *)
AppSteps == {"fetch", "search", "post", "delete"}
ServerSteps == {"check", "write", "stamp"}

Stamps == [Issues -> Nat]
None == [i \in Issues |-> 0]

Work == [kind : Kinds, at : AppSteps \cup ServerSteps \cup {"idle"},
         about : SUBSET Issues,  \* the issue of the event
         since : Nat,            \* the bound of the search
         carried : Stamps,       \* the versions in the payload, 0 if absent
         todo : SUBSET Issues,   \* payloads the server has not processed
         loaded : Stamps,        \* the row the server loaded, being written
         written : Stamps]       \* rows flushed, not yet committed

Idle == [kind |-> "webhook", at |-> "idle", about |-> {}, since |-> 0,
         carried |-> None, todo |-> {}, loaded |-> None, written |-> None]

Bounds == {"repeat", "run"}

Spend(bound, limit) ==
  /\ spent[bound] < limit
  /\ spent' = [spent EXCEPT ![bound] = @ + 1]

Init ==
  /\ clock = 0
  /\ jira = None /\ gone = {}
  /\ events = None /\ deletions = {}
  /\ row = None /\ lastSync = 0
  /\ handler = [h \in Handlers |-> Idle]
  /\ missed = {}
  /\ spent = [b \in Bounds |-> 0]

(* A search bound is an ISO time cut after the minute. *)
Minute(stamp) == (stamp \div PerMinute) * PerMinute

-----------------------------------------------------------------------------
(* Jira.                                                                   *)

Advance ==
  /\ clock < MaxClock
  /\ clock' = clock + 1

Tick ==
  /\ Advance
  /\ UNCHANGED <<jira, gone, inbox, stored, handler>>

JiraChange(i) ==
  /\ i \notin gone
  /\ Advance
  /\ jira' = [jira EXCEPT ![i] = clock + 1]
  /\ events' = [events EXCEPT ![i] = @ + 1]
  /\ missed' = missed \ {i}
  /\ UNCHANGED <<gone, deletions, row, lastSync, handler, spent>>

JiraDelete(i) ==
  /\ jira[i] # 0 /\ i \notin gone
  /\ "deletion" \in Races \/ \A h \in Handlers : handler[h].carried[i] = 0
  /\ gone' = gone \cup {i}
  /\ deletions' = deletions \cup {i}
  /\ missed' = missed \ {i}
  /\ UNCHANGED <<clock, jira, events, row, lastSync, handler, spent>>

-----------------------------------------------------------------------------
(* The Forge app.                                                          *)

Free(h) ==
  /\ handler[h].at = "idle"
  /\ "sync" \in Races \/ \A g \in Handlers :
       handler[g].at # "idle" => handler[g].kind # "sync"

Begin(h, kind, at, about, since) ==
  handler' = [handler EXCEPT ![h] = [Idle EXCEPT
    !.kind = kind, !.at = at, !.about = about, !.since = since]]

End(h) == handler' = [handler EXCEPT ![h] = Idle]

(* The platform may deliver an event once more. *)
Consumed(repeated) ==
  IF repeated THEN Spend("repeat", MaxRepeats) ELSE UNCHANGED spent

TakeEvent_Unasked(h, i, repeated) ==
  /\ Free(h)
  /\ Consumed(repeated)
  /\ events' = [events EXCEPT ![i] = IF repeated THEN @ ELSE @ - 1]
  /\ Begin(h, "webhook", "fetch", {i}, 0)
  /\ UNCHANGED <<world, deletions, stored>>

TakeEvent(h, i, repeated) ==
  /\ Free(h)
  /\ events[i] > 0
  /\ Consumed(repeated)
  /\ events' = [events EXCEPT ![i] = IF repeated THEN @ ELSE @ - 1]
  /\ Begin(h, "webhook", "fetch", {i}, 0)
  /\ UNCHANGED <<world, deletions, stored>>

TakeDeletion(h, i, repeated) ==
  /\ Free(h)
  /\ i \in deletions
  /\ Consumed(repeated)
  /\ deletions' = IF repeated THEN deletions ELSE deletions \ {i}
  /\ Begin(h, "deletion", "delete", {i}, 0)
  /\ UNCHANGED <<world, events, stored>>

(* The daily trigger reads the state; without a last sync it returns. *)
StartReconcile(h) ==
  /\ Free(h)
  /\ lastSync # 0
  /\ Spend("run", MaxRuns)
  /\ Begin(h, "reconcile", "search", {}, Minute(lastSync))
  /\ UNCHANGED <<world, events, deletions, stored>>

(* The Sync button; forced, or before the first sync, the bound is 30 days *)
(* ago, which is before every change the model makes.                      *)
StartSync(h, force) ==
  /\ Free(h)
  /\ "sync" \in Races \/ \A g \in Handlers : handler[g].at = "idle"
  /\ Spend("run", MaxRuns)
  /\ Begin(h, "sync", "search", {}, IF force THEN 0 ELSE Minute(lastSync))
  /\ UNCHANGED <<world, events, deletions, stored>>

StartBackfillPage(h) ==
  /\ Free(h)
  /\ Spend("run", MaxRuns)
  /\ Begin(h, "backfill", "search", {}, 0)
  /\ UNCHANGED <<world, events, deletions, stored>>

(* The handler carries the versions Jira has now to its post. *)
Carry(h, issues) ==
  handler' = [handler EXCEPT
    ![h].at = "post",
    ![h].carried = [i \in Issues |-> IF i \in issues THEN jira[i] ELSE 0]]

Fetch_KeepsGone(h) ==
  /\ handler[h].at = "fetch"
  /\ Carry(h, handler[h].about)
  /\ UNCHANGED <<world, inbox, stored>>

(* Jira answers 404 for a deleted issue, and the handler returns. *)
Fetch(h) ==
  /\ handler[h].at = "fetch"
  /\ IF handler[h].about \subseteq gone
     THEN End(h)
     ELSE Carry(h, handler[h].about)
  /\ UNCHANGED <<world, inbox, stored>>

(* ORDER BY updated DESC, cut at the limit. *)
Newest(issues, limit) ==
  {i \in issues : Cardinality({j \in issues : jira[j] > jira[i]}) < limit}

Results(work) ==
  LET found == {i \in Issues \ gone : jira[i] # 0 /\ jira[i] >= work.since}
  IN CASE work.kind = "reconcile" -> {Newest(found, ReconcileMax)}
       [] work.kind = "sync" -> {Newest(found, SyncMax)}
       [] OTHER -> SUBSET found

(* Only the Sync button posts an empty result. *)
Search(h) ==
  /\ handler[h].at = "search"
  /\ \E issues \in Results(handler[h]) :
       IF issues = {} /\ handler[h].kind # "sync"
       THEN End(h)
       ELSE Carry(h, issues)
  /\ UNCHANGED <<world, inbox, stored>>

(* A call that fails is logged, or shown to whoever pressed the button, and *)
(* the handler returns: the news an event brought is lost.                  *)
CallFails(h) ==
  /\ Loss
  /\ handler[h].at \in AppSteps
  /\ missed' = missed \cup handler[h].about
  /\ End(h)
  /\ UNCHANGED <<world, inbox, row, lastSync>>

-----------------------------------------------------------------------------
(* The backend.                                                            *)

ServerFree(h) ==
  "requests" \in Races \/ \A g \in Handlers \ {h} :
                            handler[g].at \notin ServerSteps

Post(h) ==
  /\ handler[h].at = "post"
  /\ ServerFree(h)
  /\ handler' = [handler EXCEPT
       ![h].at = "check",
       ![h].todo = {i \in Issues : handler[h].carried[i] # 0}]
  /\ UNCHANGED <<world, inbox, stored>>

Stale_IfStored(work, i) == work.kind # "sync" /\ row[i] # 0

Stale_Never(work, i) == FALSE

(* skip_if_stale, which every caller but the Sync button sets. *)
Stale(work, i) == work.kind # "sync" /\ row[i] >= work.carried[i]

Check(h, i) ==
  /\ handler[h].at = "check"
  /\ i \in handler[h].todo
  /\ handler' = [handler EXCEPT
       ![h].todo = @ \ {i},
       ![h].at = IF Stale(handler[h], i) THEN "check" ELSE "write",
       ![h].loaded = IF Stale(handler[h], i) THEN None
                     ELSE [None EXCEPT ![i] = row[i]],
       ![h].about = IF handler[h].kind = "webhook" THEN @ ELSE {i}]
  /\ UNCHANGED <<world, inbox, stored>>

(* The transaction of h waits for one that has flushed the same row. *)
WaitsFor(h, g) ==
  /\ g # h
  /\ handler[h].at = "write"
  /\ \E i \in handler[h].about : handler[g].written[i] # 0

Deadlocked(h) == \E g \in Handlers : WaitsFor(h, g) /\ WaitsFor(g, h)

(* The row is there, or not there, as it was when it was loaded. *)
StillThere(h) ==
  \A i \in handler[h].about : (row[i] = 0) <=> (handler[h].loaded[i] = 0)

(* A flush that fails (the row inserted or deleted in between, a deadlock) *)
(* leaves the session unusable: the request answers 500.                   *)
Write(h) ==
  /\ handler[h].at = "write"
  /\ Deadlocked(h) \/ \A g \in Handlers : ~WaitsFor(h, g)
  /\ IF StillThere(h) /\ ~Deadlocked(h)
     THEN /\ handler' = [handler EXCEPT
               ![h].at = "check",
               ![h].loaded = None,
               ![h].written = [i \in Issues |->
                 IF i \in handler[h].about
                 THEN Flush(handler[h].loaded[i], handler[h].carried[i], 0)
                 ELSE @[i]]]
          /\ UNCHANGED missed
     ELSE /\ End(h)
          /\ missed' = IF handler[h].kind = "webhook"
                       THEN missed \cup handler[h].about ELSE missed
  /\ UNCHANGED <<world, inbox, row, lastSync>>

(* The commit.  The evaluation of alert rules, when a webhook's tenant has *)
(* any, commits before last_sync_at is assigned.                           *)
Commit(h, early) ==
  /\ handler[h].at = "check"
  /\ handler[h].todo = {}
  /\ row' = [i \in Issues |-> IF handler[h].written[i] # 0
                              THEN handler[h].written[i] ELSE row[i]]
  /\ missed' = {i \in missed : i \in gone \/ row'[i] # jira[i]}
  /\ IF early
     THEN /\ handler[h].kind = "webhook"
          /\ handler' = [handler EXCEPT ![h].at = "stamp", ![h].written = None]
          /\ UNCHANGED lastSync
     ELSE /\ End(h)
          /\ lastSync' = clock
  /\ UNCHANGED <<world, inbox>>

Stamp(h) ==
  /\ handler[h].at = "stamp"
  /\ End(h)
  /\ lastSync' = clock
  /\ UNCHANGED <<world, inbox, row, missed>>

(* DELETE /sync/issues/{id}: the row, if there is one, and its children. *)
Delete(h) ==
  /\ handler[h].at = "delete"
  /\ ServerFree(h)
  /\ \A i \in handler[h].about : row[i] # 0 =>
       \A g \in Handlers : handler[g].written[i] = 0
  /\ row' = [i \in Issues |-> IF i \in handler[h].about THEN 0 ELSE row[i]]
  /\ missed' = missed \ handler[h].about
  /\ End(h)
  /\ UNCHANGED <<world, inbox, lastSync>>

-----------------------------------------------------------------------------

Server(h) ==
  \/ Post(h) \/ Write(h) \/ Stamp(h) \/ Delete(h)
  \/ \E early \in BOOLEAN : Commit(h, early)
  \/ \E i \in Issues : Check(h, i)

Step(h) == Fetch(h) \/ Search(h) \/ CallFails(h) \/ Server(h)

Take(h, i) ==
  \E repeated \in BOOLEAN :
    TakeEvent(h, i, repeated) \/ TakeDeletion(h, i, repeated)

Start(h) ==
  \/ StartReconcile(h) \/ StartBackfillPage(h)
  \/ \E force \in BOOLEAN : StartSync(h, force)

Next ==
  \/ Tick
  \/ \E i \in Issues : JiraChange(i) \/ JiraDelete(i)
  \/ \E h \in Handlers : Step(h) \/ Start(h) \/ \E i \in Issues : Take(h, i)

(* The platform delivers every event and runs what it has started.  The    *)
(* trigger, the button and Jira owe nothing.                               *)
Fairness ==
  /\ \A h \in Handlers : WF_vars(Step(h))
  /\ \A i \in Issues : WF_vars(\E h \in Handlers : Take(h, i))

Spec == Init /\ [][Next]_vars
FairSpec == Spec /\ Fairness

-----------------------------------------------------------------------------
(* Properties.                                                             *)

TypeOK ==
  /\ clock \in Nat
  /\ jira \in Stamps /\ gone \subseteq Issues
  /\ events \in Stamps /\ deletions \subseteq Issues
  /\ row \in Stamps /\ lastSync \in Nat
  /\ handler \in [Handlers -> Work]
  /\ missed \subseteq Issues
  /\ spent \in [Bounds -> Nat]

Behind(i) == i \notin gone /\ row[i] # jira[i]

(* A webhook handler is still to fetch the issue, or carries the version   *)
(* Jira has now.                                                           *)
Pursues(work, i) ==
  /\ work.kind = "webhook" /\ work.about = {i}
  /\ \/ work.at = "fetch"
     \/ work.at \in {"post", "check", "write"} /\ work.carried[i] = jira[i]

InHand(i) == events[i] > 0 \/ \E h \in Handlers : Pursues(handler[h], i)

Lingers(i) == i \in gone /\ row[i] # 0

Removes(work, i) == work.at = "delete" /\ work.about = {i}

DeletionInHand(i) ==
  i \in deletions \/ \E h \in Handlers : Removes(handler[h], i)

(* A row that differs from Jira's version, or outlives its issue, has an   *)
(* event or a handler under way that will repair it, unless the call that  *)
(* should have failed: no order of fetches and posts, no repeated event    *)
(* and no stale page of a search or of a backfill loses a change.          *)
NothingForgotten ==
  \A i \in Issues :
    /\ Behind(i) => InHand(i) \/ i \in missed
    /\ Lingers(i) => DeletionInHand(i) \/ i \in missed

(* process_issue_payload: skip_if_stale "defends against out-of-order      *)
(* webhook deliveries and duplicate events": no step replaces the row of a *)
(* living issue by an older version.                                       *)
NoRegress == [][\A i \in Issues : row'[i] < row[i] => i \in gone]_vars

(* webhooks.ts: the reconciliation searches from last_sync_at on "to catch *)
(* anything webhooks missed": a missed change is not before that bound.    *)
MissedIsFindable ==
  \A i \in missed : Behind(i) => jira[i] >= Minute(lastSync)

(* The sync does what Mirror promises. *)
Image == INSTANCE Mirror WITH source <- jira, dead <- gone, copy <- row
MirrorSpec == Image!Spec

=============================================================================
