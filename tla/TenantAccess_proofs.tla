------------------------- MODULE TenantAccess_proofs ------------------------
(***************************************************************************)
(* Proofs about TenantAccess for every set of sites, instances, slots,     *)
(* keys and routes and every size of the pool: type correctness; no        *)
(* statement runs under another tenant's binding; an uninstall leaves no   *)
(* orphans; and no token is refused whose key the instance has seen.       *)
(***************************************************************************)
EXTENDS TenantAccess, TLAPS

-----------------------------------------------------------------------------
(* Type correctness. *)

LEMMA ActiveFacts ==
  ASSUME TypeOK, NEW r \in Slots, req[r] # Idle
  PROVE  /\ req[r] \in UnderWay /\ r \in Active
         /\ req[r].instance \in Instances /\ req[r].site \in Sites
         /\ req[r].key \in Keys
  BY DEF TypeOK, UnderWay, Active

(* Every action but a restart replaces one request. *)
LEMMA Replaced ==
  ASSUME TypeOK, NEW r \in Slots, NEW q \in UnderWay \cup {Idle}, Becomes(r, q)
  PROVE  /\ req' \in [Slots -> UnderWay \cup {Idle}] /\ req'[r] = q
         /\ \A t \in Slots \ {r} : req'[t] = req[t]
  BY DEF TypeOK, Becomes

LEMMA FreeType == ASSUME NEW i PROVE Free(i) \subseteq Conns
  BY DEF Free

LEMMA GucType ==
  ASSUME TypeOK, NEW i \in Instances, NEW c \in Conns, NEW s \in Sites \cup {None},
         guc' = [guc EXCEPT ![i][c] = s]
  PROVE  /\ guc' \in [Instances -> [Conns -> Sites \cup {None}]]
         /\ guc'[i][c] = s
         /\ \A j \in Instances, d \in Conns : j # i \/ d # c => guc'[j][d] = guc[j][d]
  BY DEF TypeOK

(* What an action makes of a request q: its step, its connection, whether  *)
(* it has written and committed, its error; never its site or instance.     *)
Successor(q, p) ==
  /\ p \in UnderWay
  /\ p.site = q.site /\ p.instance = q.instance /\ p.key = q.key /\ p.route = q.route

LEMMA StepSuccessor ==
  ASSUME NEW q \in UnderWay, NEW p \in {"select", "insert", "bind", "run", "end"},
         NEW c \in Conns \cup {0}, NEW e \in {"token", "conflict", "pool", "policy", "tenant"}
  PROVE  /\ Successor(q, [q EXCEPT !.step = p])
         /\ Successor(q, [q EXCEPT !.step = p, !.conn = c])
         /\ Successor(q, [q EXCEPT !.step = p, !.error = e])
         /\ Successor(q, [q EXCEPT !.step = p, !.conn = c, !.error = e])
  BY DEF UnderWay, Successor

LEMMA StatementSuccessor ==
  ASSUME NEW q \in UnderWay, NEW c \in Conns \cup {0}, NEW w \in BOOLEAN, NEW d \in BOOLEAN
  PROVE  /\ Successor(q, [q EXCEPT !.at = @ + 1, !.conn = c])
         /\ Successor(q, [q EXCEPT !.at = @ + 1, !.conn = c, !.wrote = w])
         /\ Successor(q, [q EXCEPT !.at = @ + 1, !.conn = c, !.wrote = w, !.committed = d])
  <1>1. q.at \in Nat \ {0}
    BY DEF UnderWay
  <1>2. q.at + 1 \in Nat \ {0}
    BY <1>1
  <1> DEFINE n == q.at + 1
  <1>3. n \in Nat \ {0}
    BY <1>2
  <1> HIDE DEF n
  <1>4. /\ Successor(q, [q EXCEPT !.at = n, !.conn = c])
        /\ Successor(q, [q EXCEPT !.at = n, !.conn = c, !.wrote = w])
        /\ Successor(q, [q EXCEPT !.at = n, !.conn = c, !.wrote = w, !.committed = d])
    BY <1>3, Zenon DEF UnderWay, Successor
  <1>5. QED
    BY <1>4 DEF n

-----------------------------------------------------------------------------
(* Connections.  A connection that a request holds is not another's, one   *)
(* that nobody holds is unbound, and one that is held is unbound or bound   *)
(* to the tenant of its holder.                                             *)

HeldBy(q) ==
  /\ q.step \in {"arrived", "select", "bind"} => q.conn = 0
  /\ q.step = "insert" => q.conn # 0

Holds(r, i, c) == r \in Active /\ req[r].instance = i /\ req[r].conn = c

ConnsApart ==
  \A i \in Instances, c \in Conns : \A r, t \in Slots :
    Holds(r, i, c) /\ Holds(t, i, c) => r = t

BoundByHolder ==
  \A i \in Instances, c \in Conns :
    guc[i][c] = None \/ \E r \in Slots : Holds(r, i, c) /\ guc[i][c] = req[r].site

ConnInv ==
  /\ ConnsApart /\ BoundByHolder
  /\ \A r \in Active : HeldBy(req[r])

(* The three ways in which a step treats connections: it keeps the one the *)
(* request has, or takes one; it ends the transaction on one; it binds one. *)
Keeps(r, p) ==
  /\ Becomes(r, p) /\ Successor(req[r], p) /\ HeldBy(p) /\ guc' = guc
  /\ p.conn \in Usable(req[r]) \/ p.conn = req[r].conn

Releases(r, p, c) ==
  /\ Becomes(r, p)
  /\ p = Idle \/ (Successor(req[r], p) /\ HeldBy(p) /\ p.conn = 0)
  /\ c \in Usable(req[r])
  /\ guc' = [guc EXCEPT ![req[r].instance][c] = None]

Binds(r, p, c) ==
  /\ Becomes(r, p) /\ Successor(req[r], p) /\ HeldBy(p) /\ p.conn = c
  /\ req[r].conn = 0 /\ c \in Free(req[r].instance)
  /\ guc' = [guc EXCEPT ![req[r].instance][c] = req[r].site]

Treats(r) ==
  /\ req[r] # Idle
  /\ \/ \E p : Keeps(r, p)
     \/ \E p, c : Releases(r, p, c)
     \/ \E p, c : Binds(r, p, c)
     \/ Becomes(r, Idle) /\ req[r].conn = 0 /\ guc' = guc

LEMMA UsableType ==
  ASSUME TypeOK, NEW r \in Slots, req[r] # Idle PROVE Usable(req[r]) \subseteq Conns
  BY ActiveFacts, FreeType DEF Usable, UnderWay

LEMMA VerifyTreats ==
  ASSUME TypeOK, ConnInv, NEW r \in Slots, Verify(r) PROVE Treats(r)
  <1> DEFINE q == req[r]
  <1>1. q # Idle /\ q \in UnderWay /\ q.conn = 0
    BY ActiveFacts DEF Verify, ConnInv, HeldBy
  <1>2. PICK p : /\ Becomes(r, p)
                 /\ \/ p = [q EXCEPT !.step = "end", !.error = "token"]
                    \/ p = [q EXCEPT !.step = "run"]
                    \/ p = [q EXCEPT !.step = "select"]
    BY DEF Verify
  <1>3. Successor(q, p) /\ p.conn = q.conn /\ p.step \in {"end", "run", "select"}
    BY <1>1, <1>2, StepSuccessor DEF UnderWay
  <1>4. HeldBy(p)
    BY <1>1, <1>3 DEF HeldBy
  <1>5. QED
    BY <1>1, <1>2, <1>3, <1>4 DEF Verify, Treats, Keeps

LEMMA SelectTenantTreats ==
  ASSUME TypeOK, ConnInv, NEW r \in Slots, SelectTenant(r) PROVE Treats(r)
  <1> DEFINE q == req[r]
  <1>1. q # Idle /\ q \in UnderWay /\ q.conn = 0 /\ guc' = guc
    BY ActiveFacts DEF SelectTenant, ConnInv, HeldBy
  <1>2. CASE Becomes(r, [q EXCEPT !.step = "bind"])
    <2>1. PICK p : Becomes(r, p) /\ p = [q EXCEPT !.step = "bind"]
      BY <1>2
    <2>2. Successor(q, p) /\ p.conn = 0
      BY <1>1, <2>1, StepSuccessor DEF UnderWay
    <2>3. QED
      BY <1>1, <2>1, <2>2 DEF Treats, Keeps, HeldBy, UnderWay
  <1>3. CASE \E c \in Free(q.instance) : Becomes(r, [q EXCEPT !.step = "insert", !.conn = c])
    <2>1. PICK c \in Free(q.instance) : Becomes(r, [q EXCEPT !.step = "insert", !.conn = c])
      BY <1>3
    <2>2. PICK p : Becomes(r, p) /\ p = [q EXCEPT !.step = "insert", !.conn = c]
      BY <2>1
    <2>3. c \in Conns /\ c # 0
      BY FreeType DEF Conns
    <2>4. Successor(q, p) /\ p.conn = c /\ p.step = "insert"
      BY <1>1, <2>2, <2>3, StepSuccessor DEF UnderWay
    <2>5. HeldBy(p) /\ c \in Usable(q)
      BY <1>1, <2>3, <2>4 DEF HeldBy, Usable
    <2>6. QED
      BY <1>1, <2>2, <2>4, <2>5 DEF Treats, Keeps
  <1>4. QED
    BY <1>2, <1>3 DEF SelectTenant

LEMMA InsertTenantTreats ==
  ASSUME TypeOK, ConnInv, NEW r \in Slots, InsertTenant(r) PROVE Treats(r)
  <1> DEFINE q == req[r]
  <1>1. q # Idle /\ q \in UnderWay /\ q.conn \in Usable(q)
    BY ActiveFacts DEF InsertTenant, ConnInv, HeldBy, Usable
  <1>2. guc' = [guc EXCEPT ![q.instance][q.conn] = None]
    BY DEF InsertTenant, Released
  <1>3. PICK p : /\ Becomes(r, p)
                 /\ \/ p = [q EXCEPT !.step = "bind", !.conn = 0]
                    \/ p = [q EXCEPT !.step = "end", !.conn = 0, !.error = "conflict"]
    BY DEF InsertTenant
  <1>4. Successor(q, p) /\ p.conn = 0 /\ p.step # "insert"
    <2>1. CASE p = [q EXCEPT !.step = "bind", !.conn = 0]
      BY <1>1, <2>1, StepSuccessor DEF UnderWay
    <2>2. CASE p = [q EXCEPT !.step = "end", !.conn = 0, !.error = "conflict"]
      BY <1>1, <2>2, StepSuccessor DEF UnderWay
    <2>3. QED
      BY <1>3, <2>1, <2>2
  <1>5. QED
    BY <1>1, <1>2, <1>3, <1>4 DEF Treats, Releases, HeldBy

LEMMA BindTreats ==
  ASSUME TypeOK, ConnInv, NEW r \in Slots, Bind(r) PROVE Treats(r)
  <1> DEFINE q == req[r]
  <1>1. q # Idle /\ q \in UnderWay /\ q.conn = 0
    BY ActiveFacts DEF Bind, ConnInv, HeldBy
  <1>2. PICK c \in Free(q.instance) :
          /\ guc' = [guc EXCEPT ![q.instance][c] = q.site]
          /\ Becomes(r, [q EXCEPT !.step = "run", !.conn = c])
    BY DEF Bind
  <1>3. PICK p : Becomes(r, p) /\ p = [q EXCEPT !.step = "run", !.conn = c]
    BY <1>2
  <1>4. c \in Conns
    BY FreeType
  <1>5. Successor(q, p) /\ p.conn = c /\ p.step = "run"
    BY <1>1, <1>3, <1>4, StepSuccessor DEF UnderWay
  <1>6. HeldBy(p)
    BY <1>5 DEF HeldBy
  <1>7. Binds(r, p, c)
    BY <1>1, <1>2, <1>3, <1>5, <1>6 DEF Binds
  <1>8. QED
    BY <1>1, <1>7 DEF Treats

LEMMA FailsKeeps ==
  ASSUME TypeOK, NEW r \in Slots, req[r] # Idle, NEW c \in Usable(req[r]),
         NEW e \in {"policy", "tenant"}, Fails(r, c, e)
  PROVE  \E p : Keeps(r, p) /\ p.wrote = req[r].wrote /\ p.error = e
                /\ p.committed = req[r].committed
  <1>1. PICK p : Becomes(r, p) /\ p = [req[r] EXCEPT !.step = "end", !.conn = c, !.error = e]
    BY DEF Fails
  <1>2. req[r] \in UnderWay /\ c \in Conns
    BY ActiveFacts, UsableType
  <1>3. Successor(req[r], p) /\ p.conn = c /\ p.step = "end"
    BY <1>1, <1>2, StepSuccessor DEF UnderWay
  <1>4. p.wrote = req[r].wrote /\ p.error = e /\ p.committed = req[r].committed
    BY <1>1, <1>2 DEF UnderWay
  <1>5. QED
    BY <1>1, <1>3, <1>4 DEF Fails, Keeps, HeldBy

LEMMA GoesKeeps ==
  ASSUME TypeOK, NEW r \in Slots, req[r] # Idle, req[r].step = "run",
         NEW c \in Usable(req[r]), NEW w \in BOOLEAN, Goes(r, c, w)
  PROVE  \E p : Keeps(r, p) /\ p.wrote = w /\ p.error = req[r].error
                /\ p.committed = req[r].committed
  <1>1. PICK p : Becomes(r, p) /\ p = [req[r] EXCEPT !.at = @ + 1, !.conn = c, !.wrote = w]
    BY DEF Goes
  <1>2. req[r] \in UnderWay /\ c \in Conns
    BY ActiveFacts, UsableType
  <1>3. Successor(req[r], p) /\ p.conn = c /\ p.step = "run"
    BY <1>1, <1>2, StatementSuccessor DEF UnderWay
  <1>4. p.wrote = w /\ p.error = req[r].error /\ p.committed = req[r].committed
    BY <1>1, <1>2 DEF UnderWay
  <1>5. QED
    BY <1>1, <1>3, <1>4 DEF Goes, Keeps, HeldBy

LEMMA CommitTreats ==
  ASSUME TypeOK, NEW r \in Slots, req[r] # Idle, req[r].step = "run",
         NEW c \in Usable(req[r]), Commit(r, c)
  PROVE  \E p : Releases(r, p, c) /\ p # Idle /\ ~p.wrote /\ p.error = req[r].error
  <1> DEFINE q == req[r]
             d == q.committed \/ q.wrote
  <1>1. PICK p : /\ Becomes(r, p)
                 /\ p = [q EXCEPT !.at = @ + 1, !.conn = 0, !.wrote = FALSE, !.committed = d]
    BY DEF Commit
  <1>2. q \in UnderWay /\ d \in BOOLEAN
    BY ActiveFacts DEF UnderWay
  <1>3. Successor(q, p) /\ p.conn = 0 /\ p.step = "run" /\ ~p.wrote /\ p.error = q.error
    <2> HIDE DEF d
    <2>1. Successor(q, p)
      BY <1>1, <1>2, StatementSuccessor
    <2>2. p.conn = 0 /\ p.step = "run" /\ ~p.wrote /\ p.error = q.error
      BY <1>1, <1>2 DEF UnderWay
    <2>3. QED
      BY <2>1, <2>2
  <1>4. guc' = [guc EXCEPT ![q.instance][c] = None]
    BY DEF Commit, Released
  <1>5. p # Idle
    BY <1>1, <1>3 DEF Idle
  <1>6. QED
    BY <1>1, <1>3, <1>4, <1>5 DEF Releases, HeldBy

LEMMA FindTreats ==
  ASSUME TypeOK, NEW r \in Slots, req[r] # Idle, req[r].step = "run",
         NEW c \in Usable(req[r]), Find(r, c)
  PROVE  \E p : Keeps(r, p) /\ (p.wrote => req[r].wrote) /\ p.error = req[r].error
  <1>1. CASE Becomes(r, [req[r] EXCEPT !.step = "end", !.conn = c]) /\ UNCHANGED guc
    <2>1. PICK p : Becomes(r, p) /\ p = [req[r] EXCEPT !.step = "end", !.conn = c]
      BY <1>1
    <2>2. req[r] \in UnderWay /\ c \in Conns
      BY ActiveFacts, UsableType
    <2>3. Successor(req[r], p) /\ p.conn = c /\ p.step = "end"
      BY <2>1, <2>2, StepSuccessor DEF UnderWay
    <2>4. p.wrote = req[r].wrote /\ p.error = req[r].error
      BY <2>1, <2>2 DEF UnderWay
    <2>5. QED
      BY <1>1, <2>1, <2>3, <2>4 DEF Keeps, HeldBy
  <1>2. CASE Goes(r, c, FALSE)
    BY <1>2, GoesKeeps
  <1>3. QED
    BY <1>1, <1>2 DEF Find

LEMMA DeleteTreats ==
  ASSUME TypeOK, NEW r \in Slots, req[r] # Idle, req[r].step = "run",
         NEW c \in Usable(req[r]), Delete(r, c)
  PROVE  \E p : Releases(r, p, c) /\ p # Idle /\ p.wrote = req[r].wrote
                /\ p.error = req[r].error
  <1> DEFINE q == req[r]
  <1>1. PICK p : Becomes(r, p) /\ p = [q EXCEPT !.at = @ + 1, !.conn = 0]
    BY DEF Delete
  <1>2. q \in UnderWay
    BY ActiveFacts
  <1>3. Successor(q, p) /\ p.conn = 0 /\ p.step = "run"
    BY <1>1, <1>2, StatementSuccessor DEF UnderWay
  <1>4. p.wrote = q.wrote /\ p.error = q.error
    BY <1>1, <1>2 DEF UnderWay
  <1>5. guc' = [guc EXCEPT ![q.instance][c] = None]
    BY DEF Delete, Released
  <1>6. p # Idle
    BY <1>1, <1>3 DEF Idle
  <1>7. QED
    BY <1>1, <1>3, <1>4, <1>5, <1>6 DEF Releases, HeldBy

LEMMA StatementTreats ==
  ASSUME TypeOK, NEW r \in Slots, Statement(r) PROVE Treats(r)
  <1>1. PICK c \in Usable(req[r]) : Execute(r, c, Program(req[r].route)[req[r].at])
    BY DEF Statement
  <1>2. req[r] # Idle /\ req[r].step = "run" /\ req[r] \in UnderWay
    BY ActiveFacts DEF Statement, Running
  <1>3. (\E p : Keeps(r, p)) \/ (\E p : Releases(r, p, c))
    <2>1. CASE \E e \in {"policy", "tenant"} : Fails(r, c, e)
      BY <1>2, <2>1, FailsKeeps
    <2>2. CASE \E w \in BOOLEAN : Goes(r, c, w)
      BY <1>2, <2>2, GoesKeeps
    <2>3. CASE Commit(r, c)
      BY <1>2, <2>3, CommitTreats
    <2>4. CASE Find(r, c)
      BY <1>2, <2>4, FindTreats
    <2>5. CASE Delete(r, c)
      BY <1>2, <2>5, DeleteTreats
    <2>6. req[r].wrote \in BOOLEAN
      BY <1>2 DEF UnderWay
    <2>7. QED
      BY <1>1, <2>1, <2>2, <2>3, <2>4, <2>5, <2>6 DEF Execute, Query, Write, Reload, Tenant
  <1>4. QED
    BY <1>2, <1>3 DEF Treats

LEMMA PoolTimeoutTreats ==
  ASSUME TypeOK, NEW r \in Slots, PoolTimeout(r) PROVE Treats(r)
  <1>1. req[r] # Idle /\ req[r] \in UnderWay /\ guc' = guc
    BY ActiveFacts DEF PoolTimeout
  <1>2. PICK p : Becomes(r, p) /\ p = [req[r] EXCEPT !.step = "end", !.error = "pool"]
    BY DEF PoolTimeout
  <1>3. Successor(req[r], p) /\ p.conn = req[r].conn /\ p.step = "end"
    BY <1>1, <1>2, StepSuccessor DEF UnderWay
  <1>4. QED
    BY <1>1, <1>2, <1>3 DEF Treats, Keeps, HeldBy

LEMMA AnswerTreats ==
  ASSUME TypeOK, NEW r \in Slots, Answer(r) PROVE Treats(r)
  <1>1. req[r] # Idle /\ req[r] \in UnderWay /\ Becomes(r, Idle)
    BY ActiveFacts DEF Answer
  <1>2. CASE req[r].conn = 0
    BY <1>1, <1>2 DEF Answer, Treats
  <1>3. CASE req[r].conn # 0
    BY <1>1, <1>3 DEF Answer, Treats, Releases, Released, Usable
  <1>4. QED
    BY <1>2, <1>3

LEMMA HandleTreats ==
  ASSUME TypeOK, ConnInv, NEW r \in Slots, Handle(r) PROVE Treats(r)
  BY VerifyTreats, SelectTenantTreats, InsertTenantTreats, BindTreats, StatementTreats,
     PoolTimeoutTreats, AnswerTreats DEF Handle

(* What such a step makes of who holds which connection. *)
LEMMA HoldsAfter ==
  ASSUME TypeOK, NEW r \in Slots, NEW p \in UnderWay \cup {Idle}, Becomes(r, p)
  PROVE  /\ \A t \in Slots \ {r} : \A i, c : Holds(t, i, c)' <=> Holds(t, i, c)
         /\ \A i, c : Holds(r, i, c)' <=> p # Idle /\ p.instance = i /\ p.conn = c
         /\ \A t \in Slots \ {r} : req'[t] = req[t]
         /\ req'[r] = p
  BY Replaced DEF Holds, Active

LEMMA FreeMeans ==
  ASSUME TypeOK, NEW r \in Slots, req[r] # Idle, NEW c \in Usable(req[r])
  PROVE  \A t \in Slots : Holds(t, req[r].instance, c) => t = r \/ (req[r].conn # 0 /\ req[r].conn = c)
  BY DEF Usable, Free, Holds

LEMMA ConnsStayApart ==
  ASSUME TypeOK, ConnInv, NEW r \in Slots, Treats(r) PROVE ConnsApart'
  <1>1. req[r] # Idle /\ req[r] \in UnderWay /\ r \in Active
    BY ActiveFacts DEF Treats
  <1>2. PICK p \in UnderWay \cup {Idle} :
          /\ Becomes(r, p)
          /\ \/ p = Idle
             \/ /\ p.instance = req[r].instance
                /\ p.conn = 0 \/ p.conn = req[r].conn \/ p.conn \in Usable(req[r])
    BY <1>1 DEF Treats, Keeps, Releases, Binds, Successor, Usable
  <1>3. SUFFICES ASSUME NEW i \in Instances, NEW c \in Conns, NEW s \in Slots, NEW t \in Slots,
                        Holds(s, i, c)', Holds(t, i, c)'
                 PROVE  s = t
    BY DEF ConnsApart
  <1>4. c # 0
    BY DEF Conns
  <1>5. ASSUME NEW u \in Slots \ {r}, Holds(u, i, c), Holds(r, i, c)' PROVE FALSE
    <2>1. p # Idle /\ p.instance = i /\ p.conn = c
      BY <1>2, <1>5, HoldsAfter
    <2>2. CASE c = req[r].conn
      BY <1>1, <1>2, <1>5, <2>1, <2>2 DEF ConnInv, ConnsApart, Holds
    <2>3. CASE c # req[r].conn
      <3>1. c \in Usable(req[r]) /\ i = req[r].instance
        BY <1>2, <1>4, <2>1, <2>3
      <3>2. QED
        BY <1>1, <1>5, <2>3, <3>1, FreeMeans
    <2>4. QED
      BY <2>2, <2>3
  <1>6. QED
    BY <1>2, <1>3, <1>5, HoldsAfter DEF ConnInv, ConnsApart

LEMMA StaysBound ==
  ASSUME TypeOK, ConnInv, NEW r \in Slots, Treats(r) PROVE BoundByHolder'
  <1>1. /\ req[r] # Idle /\ req[r] \in UnderWay /\ r \in Active
        /\ req[r].instance \in Instances /\ Usable(req[r]) \subseteq Conns
        /\ req[r].site \in Sites
    BY ActiveFacts, UsableType DEF Treats
  <1> SUFFICES ASSUME NEW i \in Instances, NEW c \in Conns, guc'[i][c] # None
               PROVE  \E t \in Slots : Holds(t, i, c)' /\ guc'[i][c] = req'[t].site
    BY DEF BoundByHolder
  <1>0. c # 0
    BY DEF Conns
  <1>2. ASSUME NEW p \in UnderWay \cup {Idle}, Becomes(r, p), guc'[i][c] = guc[i][c],
               p = Idle \/ Successor(req[r], p),
               ~Holds(r, i, c) \/ (p # Idle /\ p.conn = req[r].conn)
        PROVE  \E t \in Slots : Holds(t, i, c)' /\ guc'[i][c] = req'[t].site
    <2>1. PICK t \in Slots : Holds(t, i, c) /\ guc[i][c] = req[t].site
      BY <1>2 DEF ConnInv, BoundByHolder
    <2>2. CASE t = r
      <3>1. p # Idle /\ p.conn = req[r].conn /\ Successor(req[r], p)
        BY <1>2, <2>1, <2>2
      <3>2. Holds(r, i, c)' /\ req'[r] = p
        BY <1>2, <2>1, <2>2, <3>1, HoldsAfter DEF Holds, Successor
      <3>3. QED
        BY <1>2, <2>1, <2>2, <3>1, <3>2 DEF Successor
    <2>3. CASE t # r
      BY <1>2, <2>1, <2>3, HoldsAfter
    <2>4. QED
      BY <2>2, <2>3
  <1>3. CASE \E p : Keeps(r, p)
    <2>1. PICK p : Keeps(r, p)
      BY <1>3
    <2>2. p \in UnderWay /\ p # Idle
      BY <2>1 DEF Keeps, Successor, UnderWay, Idle
    <2>3. ~Holds(r, i, c) \/ p.conn = req[r].conn
      BY <1>0, <2>1 DEF Keeps, Usable, Holds
    <2>4. QED
      BY <1>2, <2>1, <2>2, <2>3 DEF Keeps
  <1>4. CASE \E p, d : Releases(r, p, d)
    <2>1. PICK p, d : Releases(r, p, d)
      BY <1>4
    <2>2. p \in UnderWay \cup {Idle}
      BY <2>1 DEF Releases, Successor
    <2>3. d \in Conns
      BY <1>1, <2>1 DEF Releases
    <2>4. i # req[r].instance \/ c # d
      BY <1>1, <2>1, <2>3, GucType DEF Releases
    <2>5. guc'[i][c] = guc[i][c]
      BY <1>1, <2>1, <2>3, <2>4, GucType DEF Releases
    <2>6. ~Holds(r, i, c)
      BY <1>0, <2>1, <2>4 DEF Releases, Usable, Holds
    <2>7. QED
      BY <1>2, <2>1, <2>2, <2>5, <2>6 DEF Releases
  <1>5. CASE \E p, d : Binds(r, p, d)
    <2>1. PICK p, d : Binds(r, p, d)
      BY <1>5
    <2>2. p \in UnderWay /\ p # Idle
      BY <2>1 DEF Binds, Successor, UnderWay, Idle
    <2>3. d \in Conns
      BY <1>1, <2>1, FreeType DEF Binds
    <2>4. CASE i = req[r].instance /\ c = d
      <3>1. Holds(r, i, c)' /\ req'[r] = p
        BY <2>1, <2>2, <2>4, HoldsAfter DEF Binds, Successor
      <3>2. guc'[i][c] = req[r].site
        BY <1>1, <2>1, <2>3, <2>4, GucType DEF Binds
      <3>3. QED
        BY <2>1, <3>1, <3>2 DEF Binds, Successor
    <2>5. CASE ~(i = req[r].instance /\ c = d)
      <3>1. guc'[i][c] = guc[i][c]
        BY <1>1, <2>1, <2>3, <2>5, GucType DEF Binds
      <3>2. ~Holds(r, i, c)
        BY <1>0, <2>1 DEF Binds, Holds
      <3>3. QED
        BY <1>2, <2>1, <2>2, <3>1, <3>2 DEF Binds
    <2>6. QED
      BY <2>4, <2>5
  <1>6. CASE Becomes(r, Idle) /\ req[r].conn = 0 /\ guc' = guc
    <2>1. ~Holds(r, i, c)
      BY <1>0, <1>6 DEF Holds
    <2>2. QED
      BY <1>2, <1>6, <2>1
  <1>7. QED
    BY <1>3, <1>4, <1>5, <1>6 DEF Treats

LEMMA StaysHeld ==
  ASSUME TypeOK, ConnInv, NEW r \in Slots, Treats(r) PROVE \A t \in Active' : HeldBy(req'[t])
  <1>1. PICK p \in UnderWay \cup {Idle} : Becomes(r, p) /\ (p = Idle \/ HeldBy(p))
    BY DEF Treats, Keeps, Releases, Binds, Successor
  <1>2. QED
    BY <1>1, HoldsAfter DEF ConnInv, Active

LEMMA ConnStep ==
  ASSUME TypeOK, ConnInv, NEW r \in Slots, Handle(r) PROVE ConnInv'
  BY HandleTreats, ConnsStayApart, StaysBound, StaysHeld DEF ConnInv

(* The request and the settings are of their types after such a step. *)
LEMMA TreatsType ==
  ASSUME TypeOK, NEW r \in Slots, Treats(r)
  PROVE  /\ req' \in [Slots -> UnderWay \cup {Idle}]
         /\ guc' \in [Instances -> [Conns -> Sites \cup {None}]]
  <1>1. /\ req[r] # Idle /\ req[r].instance \in Instances /\ req[r].site \in Sites
        /\ Usable(req[r]) \subseteq Conns
    BY ActiveFacts, UsableType DEF Treats
  <1>2. \E p \in UnderWay \cup {Idle} : Becomes(r, p)
    BY DEF Treats, Keeps, Releases, Binds, Successor
  <1>3. \/ guc' = guc
        \/ \E c \in Conns, s \in Sites \cup {None} :
             guc' = [guc EXCEPT ![req[r].instance][c] = s]
    BY <1>1, FreeType DEF Treats, Keeps, Releases, Binds
  <1>4. QED
    BY <1>1, <1>2, <1>3, Replaced, GucType DEF TypeOK

LEMMA LookupsType ==
  ASSUME TypeOK, NEW i \in Instances, NEW k, NEW found \in Lookups(i, k)
  PROVE  /\ found.keys \subseteq Keys /\ found.mayRefresh \in BOOLEAN
         /\ found.asked \subseteq Keys
         /\ Baked \cup asked[i] \subseteq cache[i] => Baked \cup found.asked \subseteq found.keys
  <1>1. CASE k \in cache[i] \/ ~mayRefresh[i]
    BY <1>1 DEF Lookups, TypeOK
  <1>2. CASE ~(k \in cache[i] \/ ~mayRefresh[i])
    <2>1. PICK document \in {published, {}} :
            found = [keys |-> Merge(cache[i], document), mayRefresh |-> FALSE,
                     asked |-> document]
      BY <1>2 DEF Lookups
    <2>2. QED
      BY <2>1 DEF Merge, TypeOK
  <1>3. QED
    BY <1>1, <1>2

LEMMA HandleType ==
  ASSUME TypeOK, ConnInv, NEW r \in Slots, Handle(r) PROVE TypeOK'
  <1>1. /\ req' \in [Slots -> UnderWay \cup {Idle}]
        /\ guc' \in [Instances -> [Conns -> Sites \cup {None}]]
    BY HandleTreats, TreatsType
  <1>2. /\ req[r] # Idle /\ req[r].instance \in Instances /\ req[r].site \in Sites
    BY HandleTreats, ActiveFacts DEF Treats
  <1>3. UNCHANGED external
    BY DEF Handle, Verify, SelectTenant, InsertTenant, Bind, Statement, PoolTimeout, Answer
  <1>4. loop' \in [Instances -> Slots \cup {None}]
    BY <1>2 DEF TypeOK, Handle, Verify, SelectTenant, InsertTenant, Bind, Statement,
                PoolTimeout, Answer
  <1>5. /\ cache' \in [Instances -> SUBSET Keys] /\ mayRefresh' \in [Instances -> BOOLEAN]
        /\ asked' \in [Instances -> SUBSET Keys]
    <2>1. CASE Verify(r)
      <3>1. PICK found \in Lookups(req[r].instance, req[r].key) :
              /\ cache' = [cache EXCEPT ![req[r].instance] = found.keys]
              /\ mayRefresh' = [mayRefresh EXCEPT ![req[r].instance] = found.mayRefresh]
              /\ asked' = [asked EXCEPT ![req[r].instance] = found.asked]
        BY <2>1 DEF Verify
      <3>2. /\ found.keys \subseteq Keys /\ found.mayRefresh \in BOOLEAN
            /\ found.asked \subseteq Keys
        BY <1>2, LookupsType
      <3>3. QED
        BY <3>1, <3>2 DEF TypeOK
    <2>2. CASE ~Verify(r)
      BY <2>2 DEF TypeOK, Handle, SelectTenant, InsertTenant, Bind, Statement, PoolTimeout,
                  Answer, keys
    <2>3. QED
      BY <2>1, <2>2
  <1>6. tenants' \subseteq Sites /\ rows' \subseteq Sites
    <2>1. CASE Statement(r)
      BY <1>2, <2>1 DEF TypeOK, Statement, Execute, Query, Write, Commit, Reload, Tenant, Find,
                        Delete, Deleted, Fails, Goes
    <2>2. CASE ~Statement(r)
      BY <1>2, <2>2 DEF TypeOK, Handle, Verify, SelectTenant, InsertTenant, Bind, PoolTimeout,
                        Answer
    <2>3. QED
      BY <2>1, <2>2
  <1>7. QED
    BY <1>1, <1>3, <1>4, <1>5, <1>6 DEF TypeOK, external

-----------------------------------------------------------------------------
(* The steps that are no handler's. *)

LEMMA InitInv == Init => TypeOK /\ ConnInv
  <1>1. Init => TypeOK
    BY TenantAccessAssumption DEF Init, TypeOK
  <1>2. Init => Active = {}
    BY DEF Init, Active
  <1>3. Init => ConnInv
    BY <1>2 DEF Init, ConnInv, ConnsApart, BoundByHolder, Holds
  <1>4. QED
    BY <1>1, <1>3

LEMMA ArriveInv ==
  ASSUME TypeOK, ConnInv, NEW r \in Slots, NEW s \in Sites, NEW i \in Instances,
         NEW route \in Routes, Arrive(r, s, i, route)
  PROVE  TypeOK' /\ ConnInv'
  <1> DEFINE q == [step |-> "arrived", site |-> s, instance |-> i, route |-> route,
                   key |-> signer, at |-> 1, conn |-> 0, wrote |-> FALSE,
                   committed |-> FALSE, error |-> "none"]
  <1>1. q \in UnderWay /\ HeldBy(q) /\ q.conn = 0
    BY TenantAccessAssumption DEF TypeOK, UnderWay, HeldBy
  <1>2. Becomes(r, q) /\ req[r] = Idle /\ guc' = guc
    BY DEF Arrive
  <1> HIDE DEF q
  <1>3. TypeOK'
    BY <1>1, <1>2, Replaced DEF Arrive, TypeOK, keys
  <1>4. \A j \in Instances, c \in Conns, t \in Slots :
          (Holds(t, j, c)' <=> Holds(t, j, c)) /\ (Holds(t, j, c) => req'[t] = req[t])
    <2> TAKE j \in Instances, c \in Conns, t \in Slots
    <2>1. ~Holds(r, j, c)
      BY <1>2 DEF Holds, Active
    <2>2. ~Holds(r, j, c)'
      BY <1>1, <1>2, HoldsAfter DEF Conns
    <2>3. QED
      BY <1>1, <1>2, <2>1, <2>2, HoldsAfter
  <1>5. ConnsApart' /\ BoundByHolder'
    BY <1>2, <1>4 DEF ConnInv, ConnsApart, BoundByHolder
  <1>6. \A t \in Active' : HeldBy(req'[t])
    BY <1>1, <1>2, HoldsAfter DEF ConnInv, Active
  <1>7. QED
    BY <1>3, <1>5, <1>6 DEF ConnInv

LEMMA RestartInv ==
  ASSUME TypeOK, ConnInv, NEW i \in Instances, Restart(i)
  PROVE  TypeOK' /\ ConnInv'
  <1>1. TypeOK'
    BY TenantAccessAssumption DEF Restart, TypeOK
  <1>2. \A t \in Slots : \A j, c : Holds(t, j, c)' <=> Holds(t, j, c) /\ j # i
    BY DEF Restart, Holds, Active
  <1>3. \A t \in Active' : t \in Active /\ req'[t] = req[t]
    BY DEF Restart, Active
  <1>4. \A j \in Instances, c \in Conns :
          guc'[j][c] = IF j = i THEN None ELSE guc[j][c]
    BY DEF Restart, TypeOK
  <1>5. ConnsApart'
    BY <1>2 DEF ConnInv, ConnsApart
  <1>6. BoundByHolder'
    <2> SUFFICES ASSUME NEW j \in Instances, NEW c \in Conns, guc'[j][c] # None
                 PROVE  \E t \in Slots : Holds(t, j, c)' /\ guc'[j][c] = req'[t].site
      BY DEF BoundByHolder
    <2>1. j # i /\ guc'[j][c] = guc[j][c]
      BY <1>4
    <2>2. PICK t \in Slots : Holds(t, j, c) /\ guc[j][c] = req[t].site
      BY <2>1 DEF ConnInv, BoundByHolder
    <2>3. Holds(t, j, c)'
      BY <1>2, <2>1, <2>2
    <2>4. req'[t] = req[t]
      BY <1>3, <2>3 DEF Holds
    <2>5. QED
      BY <2>1, <2>2, <2>3, <2>4
  <1>7. QED
    BY <1>1, <1>3, <1>5, <1>6 DEF ConnInv

LEMMA OtherInv ==
  ASSUME TypeOK, ConnInv,
         \/ \E k \in Keys : Rotate(k)
         \/ \E i \in Instances : IntervalPasses(i)
         \/ UNCHANGED vars
  PROVE  TypeOK' /\ ConnInv' /\ UNCHANGED <<tenants, rows, cache, asked, req>>
  <1>1. /\ UNCHANGED <<tenants, rows, cache, asked, req, guc, loop>>
        /\ mayRefresh' \in [Instances -> BOOLEAN]
        /\ signer' \in Keys /\ published' \subseteq Keys /\ UNCHANGED installed
        /\ requests' \in Nat /\ troubles' \in Nat
    <2>1. CASE \E k \in Keys : Rotate(k)
      BY <2>1 DEF TypeOK, Rotate, keys
    <2>2. CASE \E i \in Instances : IntervalPasses(i)
      BY <2>2 DEF TypeOK, IntervalPasses, external
    <2>3. CASE UNCHANGED vars
      BY <2>3 DEF TypeOK, vars
    <2>4. QED
      BY <2>1, <2>2, <2>3
  <1>2. TypeOK'
    BY <1>1 DEF TypeOK
  <1>3. ConnInv'
    BY <1>1 DEF ConnInv, ConnsApart, BoundByHolder, Holds, Active
  <1>4. QED
    BY <1>1, <1>2, <1>3

LEMMA NextInv == ASSUME TypeOK, ConnInv, [Next]_vars PROVE TypeOK' /\ ConnInv'
  <1>1. CASE \E r \in Slots : Handle(r)
    BY <1>1, HandleType, ConnStep
  <1>2. CASE \E r \in Slots, s \in Sites, i \in Instances, route \in Routes :
               Arrive(r, s, i, route)
    BY <1>2, ArriveInv
  <1>3. CASE \E i \in Instances : Restart(i)
    BY <1>3, RestartInv
  <1>4. QED
    BY <1>1, <1>2, <1>3, OtherInv DEF Next

(* Type correctness of every reachable state. *)
THEOREM TypeCorrect == Spec => []TypeOK
  <1>1. TypeOK /\ ConnInv /\ [Next]_vars => (TypeOK /\ ConnInv)'
    BY NextInv
  <1>2. QED
    BY InitInv, <1>1, PTL DEF Spec

(* No statement of a request runs on a connection bound to another tenant,  *)
(* whatever its transaction did before and whoever had the connection.      *)
THEOREM Isolation == Spec => []StatementsAreIsolated
  <1>1. TypeOK /\ ConnInv /\ [Next]_vars => (TypeOK /\ ConnInv)'
    BY NextInv
  <1>2. TypeOK /\ ConnInv => StatementsAreIsolated
    <2> SUFFICES ASSUME TypeOK, ConnInv, NEW r \in Active, req[r].conn # 0
                 PROVE  guc[req[r].instance][req[r].conn] \in {None, req[r].site}
      BY DEF StatementsAreIsolated
    <2> DEFINE i == req[r].instance
               c == req[r].conn
    <2>1. r \in Slots /\ req[r] # Idle /\ req[r] \in UnderWay /\ i \in Instances
      BY ActiveFacts DEF Active
    <2>2. c \in Conns /\ Holds(r, i, c)
      BY <2>1 DEF UnderWay, Holds
    <2>3. QED
      BY <2>1, <2>2 DEF ConnInv, ConnsApart, BoundByHolder
  <1>3. QED
    BY InitInv, <1>1, <1>2, PTL DEF Spec

-----------------------------------------------------------------------------
(* Rows.  A handler that has written rows of its tenant keeps the tenant's *)
(* row locked, so the uninstall finds its rows committed.                   *)

WrittenInv ==
  /\ rows \subseteq tenants
  /\ \A r \in Active : req[r].wrote => req[r].site \in tenants

(* The error a step may give to a request, and whether it writes. *)
Plain(r, p) ==
  \/ p = Idle
  \/ /\ Successor(req[r], p) /\ p.wrote = req[r].wrote
     /\ p.error # "policy" \/ p.error = req[r].error

LEMMA StepPlain ==
  ASSUME TypeOK, NEW r \in Slots, req[r] # Idle,
         NEW s \in {"select", "insert", "bind", "run", "end"}, NEW c \in Conns \cup {0},
         NEW e \in {"token", "conflict", "pool"}
  PROVE  /\ Plain(r, [req[r] EXCEPT !.step = s])
         /\ Plain(r, [req[r] EXCEPT !.step = s, !.conn = c])
         /\ Plain(r, [req[r] EXCEPT !.step = s, !.error = e])
         /\ Plain(r, [req[r] EXCEPT !.step = s, !.conn = c, !.error = e])
  <1> DEFINE q == req[r]
  <1>1. q \in UnderWay
    BY ActiveFacts
  <1> HIDE DEF q
  <1>2. /\ Plain(r, [q EXCEPT !.step = s])
        /\ Plain(r, [q EXCEPT !.step = s, !.conn = c])
        /\ Plain(r, [q EXCEPT !.step = s, !.error = e])
        /\ Plain(r, [q EXCEPT !.step = s, !.conn = c, !.error = e])
    BY <1>1, StepSuccessor DEF Plain, UnderWay, q
  <1>3. QED
    BY <1>2 DEF q

LEMMA OutsidePlain ==
  ASSUME TypeOK, NEW r \in Slots, Handle(r), ~Statement(r)
  PROVE  /\ \E p \in UnderWay \cup {Idle} : Becomes(r, p) /\ Plain(r, p)
         /\ rows' = rows /\ tenants \subseteq tenants'
  <1>1. rows' = rows /\ tenants \subseteq tenants'
    BY DEF Handle, Verify, SelectTenant, InsertTenant, Bind, PoolTimeout, Answer
  <1>2. req[r] # Idle
    BY DEF Handle, Verify, SelectTenant, InsertTenant, Bind, PoolTimeout, Answer
  <1>3. \E p : Becomes(r, p) /\ Plain(r, p)
    <2>1. CASE Verify(r)
      BY <1>2, <2>1, StepPlain DEF Verify
    <2>2. CASE SelectTenant(r)
      <3>1. CASE Becomes(r, [req[r] EXCEPT !.step = "bind"])
        BY <1>2, <3>1, StepPlain
      <3>2. CASE \E c \in Free(req[r].instance) :
                   Becomes(r, [req[r] EXCEPT !.step = "insert", !.conn = c])
        BY <1>2, <3>2, StepPlain, FreeType
      <3>3. QED
        BY <2>2, <3>1, <3>2 DEF SelectTenant
    <2>3. CASE InsertTenant(r)
      BY <1>2, <2>3, StepPlain DEF InsertTenant
    <2>4. CASE Bind(r)
      BY <1>2, <2>4, StepPlain, FreeType DEF Bind
    <2>5. CASE PoolTimeout(r)
      BY <1>2, <2>5, StepPlain DEF PoolTimeout
    <2>6. CASE Answer(r)
      BY <2>6 DEF Answer, Plain
    <2>7. QED
      BY <2>1, <2>2, <2>3, <2>4, <2>5, <2>6 DEF Handle
  <1>4. QED
    BY <1>1, <1>3 DEF Plain, Successor

LEMMA WrittenAfter ==
  ASSUME TypeOK, WrittenInv, NEW r \in Slots, NEW p \in UnderWay \cup {Idle},
         Becomes(r, p), rows' \subseteq tenants', tenants \subseteq tenants',
         p # Idle /\ p.wrote => p.site \in tenants'
  PROVE  WrittenInv'
  <1>1. \A t \in Active' : req'[t].wrote => req'[t].site \in tenants'
    BY HoldsAfter DEF WrittenInv, Active
  <1>2. QED
    BY <1>1 DEF WrittenInv

LEMMA StatementWritten ==
  ASSUME TypeOK, WrittenInv, NEW r \in Slots, Statement(r) PROVE WrittenInv'
  <1> DEFINE q == req[r]
  <1>1. PICK c \in Usable(q) : Execute(r, c, Program(q.route)[q.at])
    BY DEF Statement
  <1>2. /\ q # Idle /\ q.step = "run" /\ q \in UnderWay /\ r \in Active
        /\ q.wrote \in BOOLEAN
    BY ActiveFacts DEF Statement, Running, UnderWay
  <1>3. rows \subseteq tenants /\ (q.wrote => q.site \in tenants)
    BY <1>2 DEF WrittenInv
  <1>4. CASE \E e \in {"policy", "tenant"} : Fails(r, c, e)
    <2>1. PICK p : Keeps(r, p) /\ p.wrote = q.wrote
      BY <1>2, <1>4, FailsKeeps
    <2>2. QED
      BY <1>3, <1>4, <2>1, WrittenAfter DEF Keeps, Successor, Fails
  <1>5. CASE \E w \in BOOLEAN : Goes(r, c, w) /\ (w => q.site \in tenants)
    <2>1. PICK w \in BOOLEAN : Goes(r, c, w) /\ (w => q.site \in tenants)
      BY <1>5
    <2>2. PICK p : Keeps(r, p) /\ p.wrote = w
      BY <1>2, <2>1, GoesKeeps
    <2>3. QED
      BY <1>3, <2>1, <2>2, WrittenAfter DEF Keeps, Successor, Goes
  <1>6. CASE Commit(r, c)
    <2>1. PICK p : Releases(r, p, c) /\ p # Idle /\ ~p.wrote
      BY <1>2, <1>6, CommitTreats
    <2>2. rows' \subseteq tenants' /\ tenants' = tenants
      BY <1>3, <1>6 DEF Commit
    <2>3. QED
      BY <2>1, <2>2, WrittenAfter DEF Releases, Successor
  <1>7. CASE Find(r, c)
    <2>1. PICK p : Keeps(r, p) /\ (p.wrote => q.wrote)
      BY <1>2, <1>7, FindTreats
    <2>2. UNCHANGED <<tenants, rows>>
      BY <1>7 DEF Find, Goes
    <2>3. QED
      BY <1>3, <2>1, <2>2, WrittenAfter DEF Keeps, Successor
  <1>8. CASE Delete(r, c)
    <2>1. PICK p : Releases(r, p, c) /\ p # Idle /\ p.wrote = q.wrote
      BY <1>2, <1>8, DeleteTreats
    <2>2. \A t \in Active : req[t].wrote => req[t].site # q.site
      BY <1>8 DEF Delete, Locked
    <2>3. \A t \in Active' : req'[t].wrote => req'[t].site \in tenants'
      <3> SUFFICES ASSUME NEW t \in Active', req'[t].wrote PROVE req'[t].site \in tenants'
        OBVIOUS
      <3>1. t # r
        BY <1>2, <2>1, <2>2, HoldsAfter DEF Releases, Successor
      <3>2. req'[t] = req[t] /\ t \in Active
        BY <2>1, <3>1, HoldsAfter DEF Releases, Successor, Active
      <3>3. QED
        BY <1>8, <2>2, <3>2 DEF WrittenInv, Delete
    <2>4. rows' \subseteq tenants'
      BY <1>3, <1>8 DEF Delete, Deleted
    <2>5. QED
      BY <2>3, <2>4 DEF WrittenInv
  <1>9. QED
    <2>1. CASE Fails(r, c, "policy") \/ Fails(r, c, "tenant")
      BY <1>4, <2>1
    <2>2. CASE Goes(r, c, q.wrote)
      BY <1>2, <1>3, <1>5, <2>2
    <2>3. CASE q.site \in tenants /\ Goes(r, c, TRUE)
      BY <1>5, <2>3
    <2>4. QED
      BY <1>1, <1>6, <1>7, <1>8, <2>1, <2>2, <2>3
         DEF Execute, Query, Write, Reload, Tenant

LEMMA HandleWritten ==
  ASSUME TypeOK, WrittenInv, NEW r \in Slots, Handle(r) PROVE WrittenInv'
  <1>1. CASE Statement(r)
    BY <1>1, StatementWritten
  <1>2. CASE ~Statement(r)
    <2>1. PICK p \in UnderWay \cup {Idle} : Becomes(r, p) /\ Plain(r, p)
      BY <1>2, OutsidePlain
    <2>2. rows' = rows /\ tenants \subseteq tenants'
      BY <1>2, OutsidePlain
    <2>3. r \in Active
      BY DEF Active, Handle, Verify, SelectTenant, InsertTenant, Bind, Statement,
             PoolTimeout, Answer
    <2>4. QED
      BY <2>1, <2>2, <2>3, WrittenAfter DEF Plain, Successor, WrittenInv
  <1>3. QED
    BY <1>1, <1>2

LEMMA NextWritten ==
  ASSUME TypeOK, ConnInv, WrittenInv, [Next]_vars PROVE WrittenInv'
  <1>1. CASE \E r \in Slots : Handle(r)
    BY <1>1, HandleWritten
  <1>2. CASE \E r \in Slots, s \in Sites, i \in Instances, route \in Routes :
               Arrive(r, s, i, route)
    <2>1. PICK r \in Slots, s \in Sites, i \in Instances, route \in Routes :
            Arrive(r, s, i, route)
      BY <1>2
    <2>2. /\ UNCHANGED <<tenants, rows>>
          /\ \A t \in Slots : req'[t] = req[t] \/ ~req'[t].wrote
      BY <2>1 DEF Arrive, Becomes, TypeOK
    <2>3. QED
      BY <2>2 DEF WrittenInv, Active
  <1>3. CASE \E i \in Instances : Restart(i)
    BY <1>3 DEF WrittenInv, Active, Restart
  <1>4. CASE \/ \E k \in Keys : Rotate(k)
             \/ \E i \in Instances : IntervalPasses(i)
             \/ UNCHANGED vars
    BY <1>4, OtherInv DEF WrittenInv, Active
  <1>5. QED
    BY <1>1, <1>2, <1>3, <1>4 DEF Next

(* Whatever handlers are under way when a site is uninstalled, and however *)
(* they end, no row outlives its tenant.                                   *)
THEOREM UninstallLeavesNothing == Spec => []NoOrphans
  <1> DEFINE Inv == TypeOK /\ ConnInv /\ WrittenInv
  <1>1. Init => Inv
    BY InitInv DEF Init, WrittenInv, Active
  <1>2. Inv /\ [Next]_vars => Inv'
    BY NextInv, NextWritten
  <1>3. Inv => NoOrphans
    BY DEF WrittenInv, NoOrphans
  <1>4. QED
    BY <1>1, <1>2, <1>3, PTL DEF Spec

-----------------------------------------------------------------------------
(* Keys.  An instance has the keys of the image and those it fetched last. *)

KeysInv == \A i \in Instances : Baked \cup asked[i] \subseteq cache[i]

LEMMA VerifyKeys ==
  ASSUME TypeOK, KeysInv, NEW r \in Slots, Verify(r)
  PROVE  /\ KeysInv'
         /\ \A t \in Active : ~Refused(t) /\ Refused(t)' =>
               req[t].key \notin Baked \cup asked'[req[t].instance]
  <1> DEFINE q == req[r]
             i == req[r].instance
  <1>1. q # Idle /\ q \in UnderWay /\ i \in Instances /\ q.step = "arrived"
    BY ActiveFacts DEF Verify
  <1>2. PICK found \in Lookups(i, q.key) :
          /\ cache' = [cache EXCEPT ![i] = found.keys]
          /\ asked' = [asked EXCEPT ![i] = found.asked]
          /\ \/ q.key \notin found.keys
             \/ /\ q.key \in found.keys
                /\ \/ Becomes(r, [q EXCEPT !.step = "run"])
                   \/ Becomes(r, [q EXCEPT !.step = "select"])
          /\ \E p : Becomes(r, p)
    BY DEF Verify
  <1>3. Baked \cup found.asked \subseteq found.keys
    BY <1>1, LookupsType DEF KeysInv
  <1>4. /\ \A j \in Instances : cache'[j] = IF j = i THEN found.keys ELSE cache[j]
        /\ \A j \in Instances : asked'[j] = IF j = i THEN found.asked ELSE asked[j]
    BY <1>1, <1>2 DEF TypeOK
  <1>5. KeysInv'
    BY <1>3, <1>4 DEF KeysInv
  <1>6. ASSUME NEW t \in Active, ~Refused(t), Refused(t)'
        PROVE  req[t].key \notin Baked \cup asked'[req[t].instance]
    <2>1. t \in Slots
      BY DEF Active
    <2>2. t = r
      BY <1>2, <1>6, <2>1 DEF Becomes, TypeOK, Refused, Active
    <2>3. ASSUME q.key \in found.keys PROVE FALSE
      <3>1. q.error # "token"
        BY <1>6, <2>2 DEF Refused
      <3>2. req'[r].error = q.error
        <4>1. CASE Becomes(r, [q EXCEPT !.step = "run"])
          BY <1>1, <4>1 DEF Becomes, TypeOK, UnderWay
        <4>2. CASE Becomes(r, [q EXCEPT !.step = "select"])
          BY <1>1, <4>2 DEF Becomes, TypeOK, UnderWay
        <4>3. QED
          BY <1>2, <2>3, <4>1, <4>2
      <3>3. QED
        BY <1>6, <2>2, <3>1, <3>2 DEF Refused
    <2>4. q.key \notin Baked \cup found.asked
      BY <1>3, <2>3
    <2>5. QED
      BY <1>1, <1>4, <2>2, <2>4
  <1>7. QED
    BY <1>5, <1>6

(* No other step refuses a token. *)
LEMMA StatementRefuses ==
  ASSUME TypeOK, NEW r \in Slots, Statement(r)
  PROVE  \E p \in UnderWay : Becomes(r, p) /\ (p.error = "token" => req[r].error = "token")
  <1> DEFINE q == req[r]
  <1>1. PICK c \in Usable(q) : Execute(r, c, Program(q.route)[q.at])
    BY DEF Statement
  <1>2. q # Idle /\ q.step = "run" /\ q.wrote \in BOOLEAN
    BY ActiveFacts DEF Statement, Running, UnderWay
  <1>3. CASE \E e \in {"policy", "tenant"} : Fails(r, c, e)
    BY <1>2, <1>3, FailsKeeps DEF Keeps, Successor
  <1>4. CASE \E w \in BOOLEAN : Goes(r, c, w)
    BY <1>2, <1>4, GoesKeeps DEF Keeps, Successor
  <1>5. CASE Commit(r, c)
    BY <1>2, <1>5, CommitTreats DEF Releases, Successor
  <1>6. CASE Find(r, c)
    BY <1>2, <1>6, FindTreats DEF Keeps, Successor
  <1>7. CASE Delete(r, c)
    BY <1>2, <1>7, DeleteTreats DEF Releases, Successor
  <1>8. QED
    BY <1>1, <1>2, <1>3, <1>4, <1>5, <1>6, <1>7
       DEF Execute, Query, Write, Reload, Tenant

LEMMA HandleRefuses ==
  ASSUME TypeOK, NEW r \in Slots, Handle(r), ~Verify(r)
  PROVE  \E p \in UnderWay \cup {Idle} :
           Becomes(r, p) /\ (p # Idle /\ p.error = "token" => req[r].error = "token")
  <1> DEFINE q == req[r]
  <1>1. CASE Statement(r)
    BY <1>1, StatementRefuses
  <1>2. CASE Answer(r)
    BY <1>2 DEF Answer
  <1>3. CASE \/ SelectTenant(r) \/ InsertTenant(r) \/ Bind(r) \/ PoolTimeout(r)
    <2>1. q # Idle /\ q \in UnderWay
      BY <1>3, ActiveFacts DEF SelectTenant, InsertTenant, Bind, PoolTimeout
    <2>2. PICK p : /\ Becomes(r, p)
                   /\ \/ \E s \in {"bind", "end"} : p = [q EXCEPT !.step = s]
                      \/ \E s \in {"insert", "run", "bind"}, c \in Conns \cup {0} :
                           p = [q EXCEPT !.step = s, !.conn = c]
                      \/ p = [q EXCEPT !.step = "end", !.error = "pool"]
                      \/ p = [q EXCEPT !.step = "end", !.conn = 0, !.error = "conflict"]
      BY <1>3, FreeType DEF SelectTenant, InsertTenant, Bind, PoolTimeout
    <2>3. p \in UnderWay /\ (p.error = "token" => q.error = "token")
      <3>1. CASE \E s \in {"bind", "end"} : p = [q EXCEPT !.step = s]
        BY <2>1, <3>1 DEF UnderWay
      <3>2. CASE \E s \in {"insert", "run", "bind"}, c \in Conns \cup {0} :
                   p = [q EXCEPT !.step = s, !.conn = c]
        BY <2>1, <3>2 DEF UnderWay
      <3>3. CASE \/ p = [q EXCEPT !.step = "end", !.error = "pool"]
                 \/ p = [q EXCEPT !.step = "end", !.conn = 0, !.error = "conflict"]
        BY <2>1, <3>3 DEF UnderWay
      <3>4. QED
        BY <2>2, <3>1, <3>2, <3>3
    <2>4. QED
      BY <2>2, <2>3
  <1>4. QED
    BY <1>1, <1>2, <1>3 DEF Handle

LEMMA HandleKeys ==
  ASSUME TypeOK, KeysInv, NEW r \in Slots, Handle(r)
  PROVE  /\ KeysInv'
         /\ \A t \in Active : ~Refused(t) /\ Refused(t)' =>
               req[t].key \notin Baked \cup asked'[req[t].instance]
  <1>1. CASE ~Verify(r)
    <2>1. UNCHANGED keys
      BY <1>1 DEF Handle, SelectTenant, InsertTenant, Bind, Statement, PoolTimeout, Answer
    <2>2. ASSUME NEW t \in Active, ~Refused(t), Refused(t)' PROVE FALSE
      <3>1. t \in Slots
        BY DEF Active
      <3>2. PICK p \in UnderWay \cup {Idle} :
              Becomes(r, p) /\ (p # Idle /\ p.error = "token" => req[r].error = "token")
        BY <1>1, HandleRefuses
      <3>3. t # r => req'[t] = req[t]
        BY <3>1, <3>2, Replaced
      <3>4. req'[r] = p
        BY <3>2, Replaced
      <3>5. QED
        BY <2>2, <3>1, <3>2, <3>3, <3>4 DEF Refused, Active
    <2>3. QED
      BY <2>1, <2>2 DEF keys, KeysInv
  <1>2. QED
    BY <1>1, VerifyKeys

LEMMA NextKeys ==
  ASSUME TypeOK, ConnInv, KeysInv, [Next]_vars
  PROVE  /\ KeysInv'
         /\ \A t \in Active : ~Refused(t) /\ Refused(t)' =>
               req[t].key \notin Baked \cup asked'[req[t].instance]
  <1>1. CASE \E r \in Slots : Handle(r)
    BY <1>1, HandleKeys
  <1>2. CASE \E r \in Slots, s \in Sites, i \in Instances, route \in Routes :
               Arrive(r, s, i, route)
    <2>1. PICK r \in Slots, s \in Sites, i \in Instances, route \in Routes :
            Arrive(r, s, i, route)
      BY <1>2
    <2>2. UNCHANGED keys /\ \A t \in Active : req'[t] = req[t]
      BY <2>1 DEF Arrive, Becomes, TypeOK, Active
    <2>3. QED
      BY <2>2 DEF keys, KeysInv, Refused, Active
  <1>3. CASE \E i \in Instances : Restart(i)
    <2>1. PICK i \in Instances : Restart(i)
      BY <1>3
    <2>2. KeysInv'
      BY <2>1 DEF Restart, KeysInv, TypeOK
    <2>3. \A t \in Slots : Refused(t)' => Refused(t)
      BY <2>1 DEF Restart, Refused, Active
    <2>4. QED
      BY <2>2, <2>3 DEF Active
  <1>4. CASE \/ \E k \in Keys : Rotate(k)
             \/ \E i \in Instances : IntervalPasses(i)
             \/ UNCHANGED vars
    BY <1>4, OtherInv DEF KeysInv, Refused, Active
  <1>5. QED
    BY <1>1, <1>2, <1>3, <1>4 DEF Next

(* A token is refused for its key only if neither the image nor the last   *)
(* fetch of the instance had it: no merge loses a key.                     *)
THEOREM KeysAreKept == Spec => KnownKeysAreAccepted
  <1> DEFINE Inv == TypeOK /\ ConnInv /\ KeysInv
  <1>1. Init => Inv
    BY InitInv, TenantAccessAssumption DEF Init, KeysInv
  <1>2. Inv /\ [Next]_vars => Inv'
    BY NextInv, NextKeys
  <1>3. Inv /\ [Next]_vars => [RefusesUnknownKeys]_vars
    BY NextKeys DEF RefusesUnknownKeys
  <1>4. QED
    BY <1>1, <1>2, <1>3, PTL DEF Spec, KnownKeysAreAccepted
=============================================================================
