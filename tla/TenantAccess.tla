---------------------------- MODULE TenantAccess ----------------------------
(***************************************************************************)
(* A request of the Forge app to the backend: its token is verified and    *)
(* its tenant row found or created on the event loop of one instance, then *)
(* its handler runs on a thread with a session of its own, whose           *)
(* transaction current_tenant binds to the tenant for the row-level        *)
(* security policies of Postgres.  A handler is the sequence of its        *)
(* statements: only what they need of the connection, the binding and the  *)
(* tenant row is kept of them.                                             *)
(*                                                                         *)
(* A site is one installation: installing again brings another id.  The    *)
(* cloud id of an installation, which upsert_forge_tenant may update, is   *)
(* left out.                                                               *)
(***************************************************************************)
EXTENDS Integers, FiniteSets, Sequences

CONSTANTS
  Sites,
  Instances,     \* processes of the backend, each with one event loop
  Slots,         \* requests there can be at a time
  Keys, Baked,   \* signing keys; those in the image
  PoolSize,      \* connections of an instance
  RoleBypasses,  \* the role of the backend is exempt from the policies
  Routes,
  MaxRequests, MaxTroubles,  \* bounds: troubles are rotations and restarts
  None

(* The statements of the handlers, from current_tenant on: queries and     *)
(* flushed writes on tables under a policy, commits, the reload of an      *)
(* attribute that a commit expired, queries for the tenant row itself.     *)
ListRules == <<"query">>
PutWipLimit == <<"query", "write", "commit", "reload">>
PutRule == <<"query", "write", "commit", "reload", "query", "commit", "reload">>
EvaluateDispatch == <<"query", "write", "commit", "reload", "write", "commit", "reload">>
Erase == <<"query", "write", "commit">>
Ingest == <<"query", "write", "commit", "tenant", "commit">>   \* no alert is new
IngestAndDispatch ==
  <<"query", "write", "commit", "reload", "write", "commit", "tenant", "commit">>
PutSettings == <<"tenant", "commit", "tenant">>
Uninstalled == <<"find", "delete">>

Program(route) ==
  CASE route = "list_rules" -> ListRules
    [] route = "put_wip_limit" -> PutWipLimit
    [] route = "put_rule" -> PutRule
    [] route = "evaluate_dispatch" -> EvaluateDispatch
    [] route = "erase" -> Erase
    [] route = "ingest" -> Ingest
    [] route = "ingest_and_dispatch" -> IngestAndDispatch
    [] route = "put_settings" -> PutSettings
    [] route = "uninstalled" -> Uninstalled

RouteNames == {"list_rules", "put_wip_limit", "put_rule", "evaluate_dispatch", "erase",
               "ingest", "ingest_and_dispatch", "put_settings", "uninstalled"}

ASSUME TenantAccessAssumption ==
  /\ Baked \subseteq Keys /\ Routes \subseteq RouteNames
  /\ PoolSize \in Nat \ {0} /\ RoleBypasses \in BOOLEAN
  /\ {MaxRequests, MaxTroubles} \subseteq Nat
  /\ None \notin Sites \cup Slots

VARIABLES
  installed,   \* the sites the app is installed on, at Atlassian
  signer, published,  \* the key that signs tokens, and the keys of the JWKS
  tenants,     \* the sites with a row in tenants
  rows,        \* the sites with rows in the tables under a policy
  cache,       \* per instance: the keys it has
  mayRefresh,  \* per instance: the minimum interval between fetches has passed
  asked,       \* history, per instance: what its last fetch returned
  loop,        \* per instance: the request that blocks its event loop
  guc,         \* per connection: app.current_tenant in its transaction
  req,         \* per slot: its request
  requests, troubles  \* counted for the bounds

vars == <<installed, signer, published, tenants, rows, cache, mayRefresh, asked,
          loop, guc, req, requests, troubles>>
external == <<installed, signer, published, requests, troubles>>
keys == <<cache, mayRefresh, asked>>

Conns == 1..PoolSize

Idle == [step |-> "idle"]

UnderWay ==
  [step : {"arrived", "select", "insert", "bind", "run", "end"},
   site : Sites, instance : Instances, route : RouteNames, key : Keys,
   at : Nat \ {0},        \* its next statement
   conn : Conns \cup {0}, \* the connection its session holds
   wrote : BOOLEAN,       \* flushed and not committed
   committed : BOOLEAN,
   error : {"none", "token", "conflict", "pool", "policy", "tenant"}]

Becomes(r, q) == req' = [req EXCEPT ![r] = q]

Active == {r \in Slots : req[r] # Idle}
Free(i) == {c \in Conns : \A r \in Active : req[r].instance # i \/ req[r].conn # c}

Init ==
  /\ installed = Sites
  /\ signer \in Baked /\ published = Baked
  /\ tenants = {} /\ rows = {}
  /\ cache = [i \in Instances |-> Baked]
  /\ mayRefresh = [i \in Instances |-> TRUE]
  /\ asked = [i \in Instances |-> {}]
  /\ loop = [i \in Instances |-> None]
  /\ guc = [i \in Instances |-> [c \in Conns |-> None]]
  /\ req = [r \in Slots |-> Idle]
  /\ requests = 0 /\ troubles = 0

-----------------------------------------------------------------------------
(* Atlassian: invocations, the uninstall event (which may be delivered     *)
(* again) and the rotation of the signing key.                             *)

Arrive(r, s, i, route) ==
  /\ req[r] = Idle /\ requests < MaxRequests
  /\ s \in installed \/ route = "uninstalled"
  /\ installed' = IF route = "uninstalled" THEN installed \ {s} ELSE installed
  /\ Becomes(r,
       [step |-> "arrived", site |-> s, instance |-> i, route |-> route, key |-> signer,
        at |-> 1, conn |-> 0, wrote |-> FALSE, committed |-> FALSE, error |-> "none"])
  /\ requests' = requests + 1
  /\ UNCHANGED <<signer, published, tenants, rows, keys, loop, guc, troubles>>

Rotate(k) ==
  /\ troubles < MaxTroubles /\ k # signer
  /\ signer' = k /\ published' = {k, signer}
  /\ troubles' = troubles + 1
  /\ UNCHANGED <<installed, tenants, rows, keys, loop, guc, req, requests>>

IntervalPasses(i) ==
  /\ ~mayRefresh[i]
  /\ mayRefresh' = [mayRefresh EXCEPT ![i] = TRUE]
  /\ UNCHANGED <<external, tenants, rows, cache, asked, loop, guc, req>>

(* A process dies and another takes its place: its requests are lost and   *)
(* its transactions rolled back.                                            *)
Restart(i) ==
  /\ troubles < MaxTroubles /\ troubles' = troubles + 1
  /\ cache' = [cache EXCEPT ![i] = Baked]
  /\ mayRefresh' = [mayRefresh EXCEPT ![i] = TRUE]
  /\ asked' = [asked EXCEPT ![i] = {}]
  /\ loop' = [loop EXCEPT ![i] = None]
  /\ guc' = [guc EXCEPT ![i] = [c \in Conns |-> None]]
  /\ req' = [r \in Slots |-> IF r \in Active /\ req[r].instance = i THEN Idle ELSE req[r]]
  /\ UNCHANGED <<installed, signer, published, tenants, rows, requests>>

-----------------------------------------------------------------------------
(* ForgeAuthMiddleware.dispatch, a coroutine without awaits up to the      *)
(* handler: it keeps the event loop.                                        *)

Merge_Replace(cached, document) == document

(* _merge_keys *)
Merge(cached, document) == cached \cup document

(* get_signing_key_from_jwt: a key that is not cached is looked for in a   *)
(* fetch, if the last attempt is long enough ago; the fetch may fail.       *)
Lookups(i, k) ==
  IF k \in cache[i] \/ ~mayRefresh[i]
  THEN {[keys |-> cache[i], mayRefresh |-> mayRefresh[i], asked |-> asked[i]]}
  ELSE {[keys |-> Merge(cache[i], document), mayRefresh |-> FALSE, asked |-> document] :
          document \in {published, {}}}

(* verify_fit, then the upsert unless the path is in NO_UPSERT_PATHS. *)
Verify(r) ==
  LET q == req[r]
      i == q.instance
  IN /\ q # Idle /\ q.step = "arrived" /\ loop[i] = None
     /\ \E found \in Lookups(i, q.key) :
          /\ cache' = [cache EXCEPT ![i] = found.keys]
          /\ mayRefresh' = [mayRefresh EXCEPT ![i] = found.mayRefresh]
          /\ asked' = [asked EXCEPT ![i] = found.asked]
          /\ \/ /\ q.key \notin found.keys
                /\ Becomes(r, [q EXCEPT !.step = "end", !.error = "token"])
                /\ UNCHANGED loop
             \/ /\ q.key \in found.keys /\ q.route = "uninstalled"
                /\ Becomes(r, [q EXCEPT !.step = "run"])
                /\ UNCHANGED loop
             \/ /\ q.key \in found.keys /\ q.route # "uninstalled"
                /\ Becomes(r, [q EXCEPT !.step = "select"])
                /\ loop' = [loop EXCEPT ![i] = r]
     /\ UNCHANGED <<external, tenants, rows, guc>>

(* The query of upsert_forge_tenant; a row that exists is all it takes. *)
SelectTenant(r) ==
  LET q == req[r]
      i == q.instance
  IN /\ q # Idle /\ q.step = "select"
     /\ \/ /\ q.site \in tenants /\ Free(i) # {}
           /\ Becomes(r, [q EXCEPT !.step = "bind"])
           /\ loop' = [loop EXCEPT ![i] = None]
        \/ /\ q.site \notin tenants
           /\ \E c \in Free(i) : Becomes(r, [q EXCEPT !.step = "insert", !.conn = c])
           /\ UNCHANGED loop
     /\ UNCHANGED <<external, tenants, rows, keys, guc>>

Released_SessionSetting(setting) == setting
Released_Blank(setting) == ""

(* What a connection keeps when its transaction ends: the setting was local *)
(* to the transaction.                                                       *)
Released(setting) == None

(* Its insert, commit and refresh.  Another instance may have been first. *)
InsertTenant(r) ==
  LET q == req[r]
  IN /\ q # Idle /\ q.step = "insert"
     /\ \/ /\ q.site \notin tenants
           /\ Becomes(r, [q EXCEPT !.step = "bind", !.conn = 0])
        \/ /\ q.site \in tenants
           /\ Becomes(r, [q EXCEPT !.step = "end", !.conn = 0, !.error = "conflict"])
     /\ tenants' = tenants \cup {q.site}
     /\ loop' = [loop EXCEPT ![q.instance] = None]
     /\ guc' = [guc EXCEPT ![q.instance][q.conn] = Released(@)]
     /\ UNCHANGED <<external, rows, keys>>

-----------------------------------------------------------------------------
(* The handler.  The loop has to start current_tenant and, when it has     *)
(* returned, the handler; the handler's session keeps its connection until *)
(* it commits, or until get_db closes it.                                   *)

Bind(r) ==
  LET q == req[r]
  IN /\ q # Idle /\ q.step = "bind" /\ loop[q.instance] = None
     /\ \E c \in Free(q.instance) :
          /\ guc' = [guc EXCEPT ![q.instance][c] = q.site]
          /\ Becomes(r, [q EXCEPT !.step = "run", !.conn = c])
     /\ UNCHANGED <<external, tenants, rows, keys, loop>>

(* The policy lets the session of q see and write its tenant's rows. *)
Passes(q, c) == RoleBypasses \/ guc[q.instance][c] = q.site

Deleted_Orphans(site) == rows

(* ON DELETE CASCADE from tenants. *)
Deleted(site) == rows \ {site}

(* A row that a foreign key of uncommitted rows points to is locked. *)
Locked(s) == \E r \in Active : req[r].wrote /\ req[r].site = s

Fails(r, c, error) ==
  /\ Becomes(r, [req[r] EXCEPT !.step = "end", !.conn = c, !.error = error])
  /\ UNCHANGED <<tenants, rows, guc>>

Goes(r, c, wrote) ==
  /\ Becomes(r, [req[r] EXCEPT !.at = @ + 1, !.conn = c, !.wrote = wrote])
  /\ UNCHANGED <<tenants, rows, guc>>

Query(r, c) == Goes(r, c, req[r].wrote)

(* A row fails the policy's WITH CHECK, or its foreign key to tenants. *)
Write(r, c) ==
  \/ ~Passes(req[r], c) /\ Fails(r, c, "policy")
  \/ Passes(req[r], c) /\ req[r].site \notin tenants /\ Fails(r, c, "tenant")
  \/ Passes(req[r], c) /\ req[r].site \in tenants /\ Goes(r, c, TRUE)

Commit(r, c) ==
  LET q == req[r]
  IN /\ rows' = IF q.wrote THEN rows \cup {q.site} ELSE rows
     /\ guc' = [guc EXCEPT ![q.instance][c] = Released(@)]
     /\ Becomes(r, [q EXCEPT !.at = @ + 1, !.conn = 0, !.wrote = FALSE,
                           !.committed = @ \/ q.wrote])
     /\ UNCHANGED tenants

(* A row that the policy hides is a row that is gone. *)
Reload(r, c) ==
  \/ ~Passes(req[r], c) /\ Fails(r, c, "policy")
  \/ Passes(req[r], c) /\ req[r].site \notin rows /\ Fails(r, c, "tenant")
  \/ Passes(req[r], c) /\ req[r].site \in rows /\ Goes(r, c, req[r].wrote)

Tenant(r, c) ==
  \/ req[r].site \notin tenants /\ Fails(r, c, "tenant")
  \/ req[r].site \in tenants /\ Goes(r, c, req[r].wrote)

(* delete_forge_tenant *)
Find(r, c) ==
  \/ /\ req[r].site \notin tenants
     /\ Becomes(r, [req[r] EXCEPT !.step = "end", !.conn = c])
     /\ UNCHANGED <<tenants, rows, guc>>
  \/ req[r].site \in tenants /\ Goes(r, c, FALSE)

Delete(r, c) ==
  LET q == req[r]
  IN /\ ~Locked(q.site)
     /\ tenants' = tenants \ {q.site}
     /\ rows' = Deleted(q.site)
     /\ Becomes(r, [q EXCEPT !.at = @ + 1, !.conn = 0])
     /\ guc' = [guc EXCEPT ![q.instance][c] = Released(@)]

Execute(r, c, statement) ==
  \/ statement = "query" /\ Query(r, c)
  \/ statement = "write" /\ Write(r, c)
  \/ statement = "commit" /\ Commit(r, c)
  \/ statement = "reload" /\ Reload(r, c)
  \/ statement = "tenant" /\ Tenant(r, c)
  \/ statement = "find" /\ Find(r, c)
  \/ statement = "delete" /\ Delete(r, c)

(* The connections the next statement may run on: that of the session, or  *)
(* else a free one.                                                         *)
Usable(q) == IF q.conn # 0 THEN {q.conn} ELSE Free(q.instance)

Running(q) == q.step = "run" /\ q.at <= Len(Program(q.route))
Over(q) == q.step = "end" \/ (q.step = "run" /\ q.at > Len(Program(q.route)))

Statement(r) ==
  LET q == req[r]
  IN /\ q # Idle /\ Running(q)
     /\ q.at = 1 => loop[q.instance] = None
     /\ \E c \in Usable(q) : Execute(r, c, Program(q.route)[q.at])
     /\ UNCHANGED <<external, keys, loop>>

PoolTimeout_Never(r) == FALSE

(* The pool gives up after its timeout. *)
PoolTimeout(r) ==
  LET q == req[r]
      i == q.instance
  IN /\ q # Idle /\ q.conn = 0 /\ Free(i) = {}
     /\ q.step \in {"select", "bind"} \/ Running(q)
     /\ q.step = "bind" => loop[i] = None
     /\ Becomes(r, [q EXCEPT !.step = "end", !.error = "pool"])
     /\ loop' = [loop EXCEPT ![i] = IF @ = r THEN None ELSE @]
     /\ UNCHANGED <<external, tenants, rows, keys, guc>>

(* The response, and get_db's close: the loop sees to both. *)
Answer(r) ==
  LET q == req[r]
  IN /\ q # Idle /\ Over(q) /\ loop[q.instance] = None
     /\ guc' = IF q.conn = 0 THEN guc ELSE [guc EXCEPT ![q.instance][q.conn] = Released(@)]
     /\ Becomes(r, Idle)
     /\ UNCHANGED <<external, tenants, rows, keys, loop>>

Handle(r) ==
  \/ Verify(r) \/ SelectTenant(r) \/ InsertTenant(r) \/ Bind(r)
  \/ Statement(r) \/ PoolTimeout(r) \/ Answer(r)

Next ==
  \/ \E r \in Slots, s \in Sites, i \in Instances, route \in Routes : Arrive(r, s, i, route)
  \/ \E k \in Keys : Rotate(k)
  \/ \E i \in Instances : IntervalPasses(i) \/ Restart(i)
  \/ \E r \in Slots : Handle(r)

Spec == Init /\ [][Next]_vars

(* Coroutines and threads that can go on do; the pool's timeout expires.   *)
(* A free connection or event loop may always go to another request first: *)
(* requests are finite, so this takes no strong fairness.                   *)
FairSpec == Spec /\ \A r \in Slots : WF_vars(Handle(r))
-----------------------------------------------------------------------------
TypeOK ==
  /\ installed \subseteq Sites /\ signer \in Keys /\ published \subseteq Keys
  /\ tenants \subseteq Sites /\ rows \subseteq Sites
  /\ cache \in [Instances -> SUBSET Keys]
  /\ mayRefresh \in [Instances -> BOOLEAN]
  /\ asked \in [Instances -> SUBSET Keys]
  /\ loop \in [Instances -> Slots \cup {None}]
  /\ guc \in [Instances -> [Conns -> Sites \cup {None}]]
  /\ req \in [Slots -> UnderWay \cup {Idle}]
  /\ requests \in Nat /\ troubles \in Nat

(* ADR-0026: whatever connection the pool hands out, before or after a     *)
(* commit, no statement runs under the binding of another tenant.           *)
StatementsAreIsolated ==
  \A r \in Active : req[r].conn # 0 =>
    guc[req[r].instance][req[r].conn] \in {None, req[r].site}

(* "CASCADE on every FK cleans up the rest": handlers of a tenant that is  *)
(* being uninstalled leave no rows behind, committed before or after.       *)
NoOrphans == rows \subseteq tenants

Refused(r) == r \in Active /\ req[r].error = "token"
RefusesUnknownKeys ==
  \A r \in Active : ~Refused(r) /\ Refused(r)' =>
    req[r].key \notin Baked \cup asked'[req[r].instance]

(* ADR-0029: a token is refused for its key only if neither the image nor  *)
(* what the instance fetched last had the key.                              *)
KnownKeysAreAccepted == [][RefusesUnknownKeys]_vars

(* A request that reached an instance is answered, even when all sessions  *)
(* hold connections and the event loop waits for one.                       *)
RequestsAreAnswered == \A r \in Slots : req[r] # Idle ~> req[r] = Idle

(* A handler whose work is committed is not cut off by the policies: what  *)
(* follows the commit, the response or the pushing of alerts, still sees    *)
(* the tenant's rows.                                                       *)
CommittedWorkIsFinished ==
  \A r \in Active : req[r].committed => req[r].error # "policy"
=============================================================================
