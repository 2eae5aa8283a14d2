--------------------------- MODULE SiteData_proofs ---------------------------
(***************************************************************************)
(* Proofs about SiteData, for every set of issues, sprints, accounts and   *)
(* slots, every history of the site, page size and limit, and every number *)
(* of ingests and cycles.                                                  *)
(***************************************************************************)
EXTENDS SiteData, FiniteSetTheorems, WellFoundedInduction, TLAPS

-----------------------------------------------------------------------------
(* Finite sets of numbers. *)

LEMMA LastExists ==
  ASSUME NEW S, IsFiniteSet(S), S \subseteq Int, S # {}
  PROVE  Max(S) \in S /\ \A y \in S : y <= Max(S)
  <1> DEFINE above(c) == {d \in S : d > c}
             T == {above(c) : c \in S}
             R == StrictSubsetOrdering(S)
  <1>1. IsWellFoundedOn(R, FiniteSubsetsOf(S))
    BY FS_StrictSubsetOrderingWellFounded
  <1>2. T \subseteq FiniteSubsetsOf(S) /\ T # {}
    <2>1. \A c \in S : above(c) \in SUBSET S /\ IsFiniteSet(above(c))
      BY FS_Subset
    <2>2. QED
      BY <2>1 DEF FiniteSubsetsOf
  <1> HIDE DEF R
  <1>3. \E x \in T : \A y \in T : ~ (<<y, x>> \in R)
    BY <1>1, <1>2, WFMin
  <1>4. PICK m \in S : \A c \in S : ~ (<<above(c), above(m)>> \in R)
    BY <1>3
  <1>5. ASSUME NEW c \in S, c > m PROVE FALSE
    <2>1. /\ above(c) \subseteq above(m) /\ above(c) # above(m)
          /\ above(c) \in SUBSET S /\ above(m) \in SUBSET S
      <3>1. \A d \in S : d > c => d > m
        BY <1>5
      <3>2. c \in above(m) /\ c \notin above(c)
        BY <1>5
      <3>3. above(c) \subseteq above(m)
        BY <3>1
      <3>4. QED
        BY <3>2, <3>3, Zenon
    <2>2. \A X, Y \in SUBSET S : X \subseteq Y /\ X # Y => <<X, Y>> \in R
      <3>1. SUFFICES ASSUME NEW X \in SUBSET S, NEW Y \in SUBSET S, X \subseteq Y, X # Y
                     PROVE  <<X, Y>> \in R
        OBVIOUS
      <3> DEFINE p == <<X, Y>>
      <3>2. p \in (SUBSET S) \X (SUBSET S)
        OBVIOUS
      <3>3. p[1] = X /\ p[2] = Y
        OBVIOUS
      <3> HIDE DEF p
      <3>4. p \in R
        BY <3>1, <3>2, <3>3, Zenon DEF R, StrictSubsetOrdering
      <3>5. QED
        BY <3>4, Zenon DEF p
    <2>3. <<above(c), above(m)>> \in R
      BY <2>1, <2>2, Zenon
    <2>4. QED
      BY <1>4, <2>3
  <1>6. \A y \in S : m >= y
    BY <1>5
  <1>7. QED
    BY <1>6 DEF Max

LEMMA FirstExists ==
  ASSUME NEW S, IsFiniteSet(S), S \subseteq Int, S # {}
  PROVE  \E m \in S : \A y \in S : m <= y
  <1> DEFINE N == {-c : c \in S}
             f == [c \in S |-> -c]
  <1>1. f \in Surjection(S, N)
    <2>1. f \in [S -> N] /\ \A x \in N : \E c \in S : f[c] = x
      OBVIOUS
    <2>2. QED
      BY <2>1 DEF Surjection
  <1>2. IsFiniteSet(N) /\ N \subseteq Int /\ N # {}
    <2>1. IsFiniteSet(N)
      BY <1>1, FS_Surjection, Zenon
    <2>2. PICK e \in S : TRUE
      OBVIOUS
    <2>3. -e \in N
      OBVIOUS
    <2>4. N \subseteq Int
      OBVIOUS
    <2>5. QED
      BY <2>1, <2>3, <2>4, Zenon
  <1>3. Max(N) \in N /\ \A y \in N : y <= Max(N)
    BY <1>2, LastExists
  <1>4. PICK m \in S : Max(N) = -m
    BY <1>3
  <1>5. ASSUME NEW y \in S PROVE m <= y
    <2>1. -y <= -m
      BY <1>3, <1>4
    <2>2. QED
      BY <2>1
  <1>6. QED
    BY <1>5

LEMMA FiniteImage ==
  ASSUME NEW S, IsFiniteSet(S), NEW f, f \in [S -> {f[c] : c \in S}]
  PROVE  IsFiniteSet({f[c] : c \in S})
  <1>1. f \in Surjection(S, {f[c] : c \in S})
    BY DEF Surjection
  <1>2. QED
    BY <1>1, FS_Surjection, Zenon

(* One of the first numbers is not used. *)
LEMMA FreshNumber ==
  ASSUME NEW U, IsFiniteSet(U)
  PROVE  \E t \in 1..(Cardinality(U) + 1) : t \notin U
  <1>1. SUFFICES ASSUME 1..(Cardinality(U) + 1) \subseteq U
                 PROVE  FALSE
    OBVIOUS
  <1>2. Cardinality(U) \in Nat
    BY FS_CardinalityType
  <1>3. Cardinality(1..(Cardinality(U) + 1)) = Cardinality(U) + 1
    BY <1>2, FS_Interval
  <1>4. Cardinality(1..(Cardinality(U) + 1)) <= Cardinality(U)
    BY <1>1, FS_Subset
  <1>5. QED
    BY <1>2, <1>3, <1>4

(* What a page takes: with an account all those before it, some account if *)
(* there is one, and all if they fit.                                        *)
LEMMA FirstOfTakes ==
  ASSUME NEW A, IsFiniteSet(A), A \subseteq Int, NEW n \in Nat \ {0}
  PROVE  /\ FirstOf(A, n) \subseteq A
         /\ \A c \in FirstOf(A, n), d \in A : d < c => d \in FirstOf(A, n)
         /\ A # {} => FirstOf(A, n) # {}
         /\ Cardinality(A) <= n => FirstOf(A, n) = A
  <1> DEFINE before(c) == {d \in A : d < c}
  <1>1. \A c \in A : /\ IsFiniteSet(before(c)) /\ Cardinality(before(c)) \in Nat
                     /\ Cardinality(before(c)) < Cardinality(A)
    <2>1. SUFFICES ASSUME NEW c \in A
                   PROVE  /\ IsFiniteSet(before(c)) /\ Cardinality(before(c)) \in Nat
                          /\ Cardinality(before(c)) < Cardinality(A)
      OBVIOUS
    <2>2. before(c) \in SUBSET A /\ c \notin before(c)
      OBVIOUS
    <2>3. IsFiniteSet(before(c)) /\ Cardinality(before(c)) <= Cardinality(A)
      BY <2>2, FS_Subset
    <2>4. Cardinality(before(c)) # Cardinality(A)
      BY <2>2, FS_Subset
    <2>5. Cardinality(before(c)) \in Nat /\ Cardinality(A) \in Nat
      BY <2>3, FS_CardinalityType
    <2>6. QED
      BY <2>3, <2>4, <2>5
  <1>2. Cardinality(A) \in Nat
    BY FS_CardinalityType
  <1>3. FirstOf(A, n) = {c \in A : Cardinality(before(c)) < n}
    BY DEF FirstOf
  <1>4. ASSUME NEW c \in FirstOf(A, n), NEW d \in A, d < c PROVE d \in FirstOf(A, n)
    <2>1. c \in A /\ Cardinality(before(c)) < n
      BY <1>3
    <2>2. before(d) \in SUBSET before(c)
      <3>1. c \in Int /\ d \in Int /\ \A e \in A : e \in Int
        BY <2>1
      <3>2. \A e \in A : e < d => e < c
        BY <3>1, <1>4
      <3>3. QED
        BY <3>2
    <2>3. Cardinality(before(d)) <= Cardinality(before(c))
      BY <1>1, <2>1, <2>2, FS_Subset
    <2>4. Cardinality(before(d)) < n
      <3>1. Cardinality(before(d)) \in Nat /\ Cardinality(before(c)) \in Nat
        BY <1>1, <2>1
      <3> HIDE DEF before
      <3>2. QED
        BY <3>1, <2>1, <2>3
    <2>5. QED
      BY <2>4, <1>3
  <1>5. A # {} => FirstOf(A, n) # {}
    <2>1. SUFFICES ASSUME A # {} PROVE FirstOf(A, n) # {}
      OBVIOUS
    <2>2. PICK m \in A : \A y \in A : m <= y
      BY <2>1, FirstExists
    <2>3. before(m) = {}
      <3>1. m \in Int /\ \A y \in A : y \in Int
        OBVIOUS
      <3>2. \A y \in A : ~(y < m)
        BY <2>2, <3>1
      <3>3. QED
        BY <3>2
    <2>4. Cardinality(before(m)) = 0
      BY <2>3, FS_EmptySet
    <2>5. Cardinality(before(m)) < n
      BY <2>4
    <2>6. QED
      BY <2>5, <1>3
  <1>6. ASSUME Cardinality(A) <= n PROVE FirstOf(A, n) = A
    <2>1. ASSUME NEW c \in A PROVE Cardinality(before(c)) < n
      <3>1. Cardinality(before(c)) \in Nat /\ Cardinality(before(c)) < Cardinality(A)
        BY <1>1
      <3> HIDE DEF before
      <3>2. QED
        BY <3>1, <1>2, <1>6
    <2>2. QED
      BY <2>1, <1>3
  <1>7. QED
    BY <1>3, <1>4, <1>5, <1>6

-----------------------------------------------------------------------------
(* The type invariant.  A request that is not idle and has not come to its *)
(* end has a payload; a row it loaded is still there; what it builds and    *)
(* deletes is finite, as the stored batches are.                            *)

Whole(r) ==
  /\ r.at \notin {"idle", "finish"} => r.todo # <<>>
  /\ r.loaded # Null => r.todo # <<>> /\ row[Head(r.todo).issue] # Null
  /\ IsFiniteSet(r.new) /\ IsFiniteSet(r.snapshot)

TypeInv ==
  /\ TypeOK
  /\ IsFiniteSet(batches)
  /\ eraser.target \subseteq Stored
  /\ \A s \in Slots : Whole(req[s])

LEMMA FactsOfConstants ==
  /\ \A i \in Issues : Len(History[i]) \in Nat /\ DOMAIN History[i] = 1..Len(History[i])
  /\ \A i \in Issues, n \in Nat : n \in DOMAIN History[i] =>
       /\ History[i][n].moves \in Nat /\ History[i][n].sprints \subseteq SprintIds
       /\ History[i][n].parsed \subseteq SprintIds
       /\ History[i][n].account \in Accounts \cup {Null}
  /\ Accounts \subseteq Nat \ {0} /\ PageSize \in Nat \ {0} /\ EraseLimit \in Nat
  /\ IsFiniteSet(Issues) /\ IsFiniteSet(Slots) /\ IsFiniteSet({})
  /\ Null \notin Accounts /\ Null \notin States /\ Null \notin Causes /\ Null \notin Rows
  <1> DEFINE V == [moves : Nat, sprints : SUBSET SprintIds, parsed : SUBSET SprintIds,
                   account : Accounts \cup {Null}]
  <1>1. \A i \in Issues : History[i] \in Seq(V)
    BY SiteDataAssumption
  <1> HIDE DEF V
  <1>2. \A i \in Issues : Len(History[i]) \in Nat /\ DOMAIN History[i] = 1..Len(History[i])
    BY <1>1
  <1>3. \A i \in Issues, n \in Nat : n \in DOMAIN History[i] => History[i][n] \in V
    BY <1>1
  <1>4. \A v \in V : /\ v.moves \in Nat /\ v.sprints \subseteq SprintIds
                    /\ v.parsed \subseteq SprintIds /\ v.account \in Accounts \cup {Null}
    BY DEF V
  <1>5. Null \notin Rows
    BY SiteDataAssumption, Zenon DEF Rows
  <1>6. /\ Accounts \subseteq Nat \ {0} /\ PageSize \in Nat \ {0} /\ EraseLimit \in Nat
        /\ IsFiniteSet(Issues) /\ IsFiniteSet(Slots)
        /\ Null \notin Accounts /\ Null \notin States /\ Null \notin Causes
    BY SiteDataAssumption DEF States, Causes
  <1>7. QED
    BY <1>2, <1>3, <1>4, <1>5, <1>6, FS_EmptySet, Zenon

LEMMA AccountsAreNumbers ==
  \A c \in Accounts : c \in Nat /\ c \in Int /\ c > 0 /\ c # Null
  BY FactsOfConstants

LEMMA IdleIsOne ==
  /\ Idle \in Requests /\ Whole(Idle)
  /\ Resting \in Cycles
  <1>1. Idle \in Requests
    BY DEF Idle, Requests, Nothing, Steps
  <1>2. Whole(Idle)
    BY FS_EmptySet DEF Idle, Whole
  <1>3. Resting \in Cycles
    BY DEF Resting, Cycles
  <1>4. QED
    BY <1>1, <1>2, <1>3

LEMMA InitTypes ==
  Init => TypeInv
  <1>1. SUFFICES ASSUME Init PROVE TypeInv
    OBVIOUS
  <1>2. TypeOK
    <2>1. /\ jira \in [Issues -> Nat] /\ ended \subseteq SprintIds
          /\ \A i \in Issues : jira[i] \in 0..Len(History[i])
      BY <1>1, FactsOfConstants DEF Init
    <2>2. /\ row \in [Issues -> Rows \cup {Null}] /\ batches \subseteq Batch
          /\ sprints \in [SprintIds -> States \cup {Null}]
          /\ members \subseteq Issues \X SprintIds
      BY <1>1 DEF Init, Nothing
    <2>3. req \in [Slots -> Requests] /\ eraser \in Cycles
      BY <1>1, IdleIsOne DEF Init
    <2>4. /\ raised \subseteq Issues /\ loose \subseteq Issues /\ fresh \subseteq Issues
          /\ lost \subseteq Causes /\ spent \in Nat
      BY <1>1 DEF Init
    <2>5. QED
      BY <2>1, <2>2, <2>3, <2>4 DEF TypeOK
  <1>3. IsFiniteSet(batches)
    BY <1>1, FS_EmptySet DEF Init
  <1>4. \A s \in Slots : Whole(req[s])
    BY <1>1, IdleIsOne DEF Init
  <1>5. eraser.target \subseteq Stored
    BY <1>1 DEF Init, Resting
  <1>6. QED
    BY <1>2, <1>3, <1>4, <1>5 DEF TypeInv

(* The fields of a request, and of the payload it is at. *)
LEMMA RequestFacts ==
  ASSUME TypeInv, NEW s \in Slots
  PROVE  /\ req[s] \in Requests /\ Whole(req[s])
         /\ req[s].todo # <<>> =>
              /\ Current(s) \in Payload /\ About(s) \in Issues
              /\ Current(s).updated \in Nat /\ Current(s).updated \in DOMAIN History[About(s)]
              /\ Version(s).moves \in Nat /\ Version(s).sprints \subseteq SprintIds
              /\ Version(s).parsed \subseteq SprintIds
              /\ Version(s).account \in Accounts \cup {Null}
              /\ row[About(s)] \in Rows \cup {Null}
              /\ Tail(req[s].todo) \in Seq(Payload)
  <1>1. req[s] \in Requests /\ Whole(req[s]) /\ row \in [Issues -> Rows \cup {Null}]
    BY DEF TypeInv, TypeOK
  <1>2. ASSUME req[s].todo # <<>>
        PROVE  Current(s) \in Payload /\ Tail(req[s].todo) \in Seq(Payload)
    <2>1. req[s].todo \in Seq(Payload)
      BY <1>1 DEF Requests
    <2>2. QED
      BY <1>2, <2>1 DEF Current
  <1>3. ASSUME Current(s) \in Payload
        PROVE  /\ About(s) \in Issues
               /\ Current(s).updated \in Nat /\ Current(s).updated \in DOMAIN History[About(s)]
    BY <1>3 DEF Payload, About
  <1>4. QED
    BY <1>1, <1>2, <1>3, FactsOfConstants DEF Version

LEMMA TurnedTypes ==
  ASSUME NEW r \in Requests, r.todo # <<>>, Whole(r)
  PROVE  Turned(r) \in Requests /\ Whole(Turned(r))
  <1>1. r.todo \in Seq(Payload)
    BY DEF Requests
  <1>2. Tail(r.todo) \in Seq(Payload) /\ (Len(r.todo) # 1 => Tail(r.todo) # <<>>)
    <2>1. Tail(r.todo) \in Seq(Payload) /\ Len(r.todo) \in Nat \ {0}
      BY <1>1
    <2>2. Len(Tail(r.todo)) = Len(r.todo) - 1
      BY <1>1
    <2>3. Len(r.todo) # 1 => Len(Tail(r.todo)) # 0
      BY <2>1, <2>2
    <2>4. Len(<<>>) = 0
      OBVIOUS
    <2>5. Len(r.todo) # 1 => Tail(r.todo) # <<>>
      BY <2>3, <2>4, Zenon
    <2>6. QED
      BY <2>1, <2>5
  <1>3. Turned(r) \in Requests
    <2> DEFINE at == IF Len(r.todo) = 1 THEN "finish" ELSE "check"
               rest == Tail(r.todo)
    <2>1. at \in Steps
      BY DEF Steps
    <2>2. Turned(r) = [r EXCEPT !.at = at, !.todo = rest, !.loaded = Null,
                                !.snapshot = {}, !.absent = {}]
      BY DEF Turned, Requests
    <2>3. rest \in Seq(Payload)
      BY <1>2
    <2> HIDE DEF at, rest
    <2> DEFINE r1 == [r EXCEPT !.at = at, !.todo = rest]
               r2 == [r1 EXCEPT !.loaded = Null, !.snapshot = {}]
    <2>4. r1 \in Requests
      BY <2>1, <2>3 DEF Requests
    <2>5. Turned(r) = [r2 EXCEPT !.absent = {}]
      BY <2>2
    <2> HIDE DEF r1
    <2>6. r2 \in Requests
      BY <2>4 DEF Requests
    <2> HIDE DEF r2
    <2>7. QED
      BY <2>5, <2>6 DEF Requests
  <1>4. /\ Turned(r).todo = Tail(r.todo) /\ Turned(r).loaded = Null
        /\ Turned(r).at = (IF Len(r.todo) = 1 THEN "finish" ELSE "check")
        /\ Turned(r).new = r.new /\ Turned(r).snapshot = {}
    BY DEF Turned, Requests
  <1>5. Whole(Turned(r))
    BY <1>2, <1>4, FS_EmptySet DEF Whole
  <1>6. QED
    BY <1>3, <1>5

LEMMA PoisonedTypes ==
  ASSUME NEW r \in Requests, Whole(r), NEW cause \in Causes
  PROVE  Poisoned(r, cause) \in Requests /\ Whole(Poisoned(r, cause))
  <1>1. Poisoned(r, cause) \in Requests
    <2>1. "finish" \in Steps /\ <<>> \in Seq(Payload) /\ cause \in Causes \cup {Null}
      BY DEF Steps
    <2> DEFINE none == <<>>
    <2>2. none \in Seq(Payload)
      BY <2>1
    <2>3. Poisoned(r, cause) = [r EXCEPT !.at = "finish", !.todo = none, !.poisoned = cause,
                                         !.loaded = Null, !.snapshot = {}, !.absent = {}]
      BY DEF Poisoned
    <2> HIDE DEF none
    <2> DEFINE r1 == [r EXCEPT !.at = "finish", !.todo = none]
               r2 == [r1 EXCEPT !.poisoned = cause, !.loaded = Null]
    <2>4. r1 \in Requests
      BY <2>1, <2>2 DEF Requests
    <2>5. Poisoned(r, cause) = [r2 EXCEPT !.snapshot = {}, !.absent = {}]
      BY <2>3
    <2> HIDE DEF r1
    <2>6. r2 \in Requests
      BY <2>1, <2>4 DEF Requests
    <2> HIDE DEF r2
    <2>7. QED
      BY <2>5, <2>6 DEF Requests
  <1>2. /\ Poisoned(r, cause).at = "finish" /\ Poisoned(r, cause).loaded = Null
        /\ Poisoned(r, cause).new = r.new /\ Poisoned(r, cause).snapshot = {}
    BY DEF Poisoned, Requests
  <1>3. Whole(Poisoned(r, cause))
    BY <1>2, FS_EmptySet DEF Whole
  <1>4. QED
    BY <1>1, <1>3

LEMMA FlushedTypes ==
  ASSUME NEW r \in Requests, Whole(r)
  PROVE  Flushed(r) \in Requests /\ Whole(Flushed(r))
  <1>1. r.held \in [SprintIds -> States \cup {Null}] /\ r.dirty \in [SprintIds -> States \cup {Null}]
    BY DEF Requests
  <1>2. Flushed(r) \in Requests
    BY <1>1 DEF Flushed, Requests, Nothing
  <1>3. Whole(Flushed(r))
    BY DEF Flushed, Requests, Whole
  <1>4. QED
    BY <1>2, <1>3

LEMMA ProceedsTypes ==
  ASSUME TypeInv, NEW s \in Slots, NEW r \in Requests, Whole(r), Proceeds(s, r)
  PROVE  TypeInv'
  <1>1. /\ req' = [req EXCEPT ![s] = r]
        /\ UNCHANGED <<jira, ended, row, batches, sprints, members, eraser, raised, loose,
                       fresh, lost, spent>>
    BY DEF Proceeds, world, tables
  <1>2. req \in [Slots -> Requests]
    BY DEF TypeInv, TypeOK
  <1>3. TypeOK'
    BY <1>1, <1>2 DEF TypeInv, TypeOK
  <1>4. \A o \in Slots : Whole(req'[o])
    BY <1>1, <1>2 DEF TypeInv
  <1>5. (\A o \in Slots : Whole(req[o]))'
    BY <1>1, <1>4 DEF Whole
  <1>6. QED
    BY <1>1, <1>3, <1>5 DEF TypeInv, Stored

LEMMA CheckTypes ==
  ASSUME TypeInv, NEW s \in Slots, Check(s)
  PROVE  TypeInv'
  <1> DEFINE r == req[s]
             next == [r EXCEPT !.loaded = row[About(s)],
                               !.at = IF row[About(s)] = Null THEN "load" ELSE "upsert"]
  <1>1. /\ r.at = "check"
        /\ Proceeds(s, Turned(r)) \/ Proceeds(s, next)
    BY DEF Check
  <1>2. r \in Requests /\ Whole(r) /\ r.todo # <<>> /\ row[About(s)] \in Rows \cup {Null}
    BY <1>1, RequestFacts DEF Whole
  <1>3. next \in Requests /\ Whole(next)
    <2>1. next \in Requests
      <3> DEFINE at == IF row[About(s)] = Null THEN "load" ELSE "upsert"
      <3>1. at \in Steps /\ next = [r EXCEPT !.loaded = row[About(s)], !.at = at]
        BY DEF Steps
      <3> HIDE DEF at
      <3>2. QED
        BY <1>2, <3>1 DEF Requests
    <2>2. /\ next.todo = r.todo /\ next.loaded = row[Head(r.todo).issue]
          /\ next.new = r.new /\ next.snapshot = r.snapshot
      BY <1>2 DEF Requests, About, Current
    <2>3. QED
      BY <1>2, <2>1, <2>2 DEF Whole
  <1>4. Turned(r) \in Requests /\ Whole(Turned(r))
    BY <1>2, TurnedTypes
  <1>5. QED
    BY <1>1, <1>3, <1>4, ProceedsTypes

LEMMA LoadTypes ==
  ASSUME TypeInv, NEW s \in Slots, Load(s)
  PROVE  TypeInv'
  <1> DEFINE r == req[s]
             next == [r EXCEPT !.loaded = row[About(s)], !.at = "upsert"]
  <1>1. r.at = "load" /\ Proceeds(s, next)
    BY DEF Load
  <1>2. r \in Requests /\ Whole(r) /\ r.todo # <<>> /\ row[About(s)] \in Rows \cup {Null}
    BY <1>1, RequestFacts DEF Whole
  <1>3. next \in Requests
    BY <1>2 DEF Requests, Steps
  <1>4. /\ next.todo = r.todo /\ next.loaded = row[Head(r.todo).issue]
        /\ next.new = r.new /\ next.snapshot = r.snapshot
    BY <1>2 DEF Requests, About, Current
  <1>5. Whole(next)
    BY <1>2, <1>4 DEF Whole
  <1>6. QED
    BY <1>1, <1>3, <1>5, ProceedsTypes

LEMMA WrittenTypes ==
  ASSUME TypeInv, NEW s \in Slots, req[s].todo # <<>>
  PROVE  Written(s) \in Rows
  <1> DEFINE loaded == req[s].loaded
             now == row[About(s)]
  <1>1. req[s] \in Requests /\ Whole(req[s]) /\ Current(s).updated \in Nat
        /\ Version(s).account \in Accounts \cup {Null} /\ now \in Rows \cup {Null}
    BY RequestFacts
  <1>2. CASE loaded = Null
    BY <1>1, <1>2 DEF Written, Rows
  <1>3. CASE loaded # Null
    <2>1. now # Null
      BY <1>1, <1>3 DEF Whole, About, Current
    <2>2. now.updated \in Nat /\ now.account \in Accounts \cup {Null}
      BY <1>1, <2>1 DEF Rows
    <2>3. QED
      BY <1>1, <1>3, <2>2 DEF Written, Rows
  <1>4. QED
    BY <1>2, <1>3

(* What the upsert leaves of a request that does not fail. *)
Upserted(s) ==
  [Flushed(req[s]) EXCEPT
     !.rows[About(s)] = IF Changes(s) THEN Written(s) ELSE @,
     !.bare = IF Changes(s) THEN @ ELSE @ \cup {About(s)},
     !.wrote = IF (IF req[s].loaded = Null THEN TRUE ELSE req[s].loaded.account # Version(s).account)
                 THEN @ \cup {About(s)} ELSE @,
     !.at = "transitions"]

LEMMA UpsertIs ==
  ASSUME NEW s \in Slots, Upsert(s)
  PROVE  /\ req[s].at = "upsert" /\ CanFlush(s)
         /\ Changes(s) => \A o \in Others(s) : req[o].rows[About(s)] = Null
         /\ \/ /\ req[s].loaded = Null /\ row[About(s)] # Null
               /\ Proceeds(s, Poisoned([req[s] EXCEPT !.errors = TRUE], "row"))
            \/ /\ ~(req[s].loaded = Null /\ row[About(s)] # Null)
               /\ req' = Noted(s, Upserted(s))
         /\ UNCHANGED <<world, tables, eraser, raised, loose, fresh, lost, spent>>
  BY DEF Upsert, Upserted, Proceeds

LEMMA UpsertedTypes ==
  ASSUME TypeInv, NEW s \in Slots, req[s].todo # <<>>
  PROVE  Upserted(s) \in Requests /\ Whole(Upserted(s))
  <1> DEFINE i == About(s)
             f == Flushed(req[s])
             rows == [f.rows EXCEPT ![i] = IF Changes(s) THEN Written(s) ELSE @]
             bare == IF Changes(s) THEN f.bare ELSE f.bare \cup {i}
             wrote == IF (IF req[s].loaded = Null THEN TRUE ELSE req[s].loaded.account # Version(s).account)
                        THEN f.wrote \cup {i} ELSE f.wrote
  <1>1. f \in Requests /\ Whole(f) /\ i \in Issues /\ Written(s) \in Rows
    BY RequestFacts, FlushedTypes, WrittenTypes
  <1>2. /\ rows \in [Issues -> Rows \cup {Null}] /\ bare \in SUBSET Issues
        /\ wrote \in SUBSET Issues /\ "transitions" \in Steps
    <2>1. f.rows \in [Issues -> Rows \cup {Null}] /\ f.bare \in SUBSET Issues /\ f.wrote \in SUBSET Issues
      BY <1>1 DEF Requests
    <2> HIDE DEF f
    <2>2. QED
      BY <1>1, <2>1 DEF Steps
  <1>3. Upserted(s) = [f EXCEPT !.rows = rows, !.bare = bare, !.wrote = wrote, !.at = "transitions"]
    BY DEF Upserted
  <1> HIDE DEF f, rows, bare, wrote
  <1> DEFINE r1 == [f EXCEPT !.rows = rows, !.bare = bare]
  <1>4. r1 \in Requests
    BY <1>1, <1>2 DEF Requests
  <1>5. Upserted(s) = [r1 EXCEPT !.wrote = wrote, !.at = "transitions"]
    BY <1>3
  <1>6. r1.todo = f.todo /\ r1.loaded = f.loaded /\ r1.new = f.new /\ r1.snapshot = f.snapshot
    BY <1>1 DEF Requests
  <1> HIDE DEF r1
  <1>7. Upserted(s) \in Requests
    BY <1>2, <1>4, <1>5 DEF Requests
  <1>8. /\ Upserted(s).todo = f.todo /\ Upserted(s).loaded = f.loaded
        /\ Upserted(s).new = f.new /\ Upserted(s).snapshot = f.snapshot
    BY <1>4, <1>5, <1>6 DEF Requests
  <1>9. f.todo # <<>>
    BY RequestFacts DEF f, Flushed, Requests
  <1>10. Whole(Upserted(s))
    BY <1>1, <1>8, <1>9 DEF Whole
  <1>11. QED
    BY <1>7, <1>10

LEMMA UpsertTypes ==
  ASSUME TypeInv, NEW s \in Slots, Upsert(s)
  PROVE  TypeInv'
  <1> DEFINE r == req[s]
             i == About(s)
  <1>1. r.at = "upsert" /\ r \in Requests /\ Whole(r) /\ r.todo # <<>> /\ i \in Issues
    <2>1. r.at = "upsert"
      BY UpsertIs
    <2>2. r \in Requests /\ Whole(r) /\ r.todo # <<>>
      BY <2>1, RequestFacts DEF Whole
    <2>3. QED
      BY <2>1, <2>2, RequestFacts
  <1>2. CASE Proceeds(s, Poisoned([r EXCEPT !.errors = TRUE], "row"))
    <2> DEFINE e == [r EXCEPT !.errors = TRUE]
    <2>1. e \in Requests
      BY <1>1 DEF Requests
    <2>2. Whole(e)
      BY <1>1 DEF Requests, Whole
    <2>3. "row" \in Causes
      BY DEF Causes
    <2>4. Poisoned(e, "row") \in Requests /\ Whole(Poisoned(e, "row"))
      BY <2>1, <2>2, <2>3, PoisonedTypes
    <2>5. QED
      BY <1>2, <2>4, ProceedsTypes
  <1>3. CASE /\ req' = Noted(s, Upserted(s))
             /\ UNCHANGED <<world, tables, eraser, raised, loose, fresh, lost, spent>>
    <2>1. Upserted(s) \in Requests /\ Whole(Upserted(s))
      BY <1>1, UpsertedTypes
    <2>2. ASSUME NEW q \in Requests, Whole(q)
          PROVE  [q EXCEPT !.loose = @ \cup {i}] \in Requests /\ Whole([q EXCEPT !.loose = @ \cup {i}])
      <3>1. [q EXCEPT !.loose = @ \cup {i}] \in Requests
        BY <1>1 DEF Requests
      <3>2. QED
        BY <2>2, <3>1 DEF Requests, Whole
    <2>3. \A o \in Slots : req[o] \in Requests /\ Whole(req[o])
      BY RequestFacts
    <2>4. req' \in [Slots -> Requests] /\ \A o \in Slots : Whole(req'[o])
      <3>1. \A o \in Slots : \/ req'[o] = Upserted(s)
                             \/ req'[o] = [Upserted(s) EXCEPT !.loose = @ \cup {i}]
                             \/ req'[o] = req[o]
                             \/ req'[o] = [req[o] EXCEPT !.loose = @ \cup {i}]
        BY <1>3 DEF Noted
      <3>2. DOMAIN req' = Slots /\ req' = [o \in Slots |-> req'[o]]
        BY <1>3 DEF Noted
      <3>3. \A o \in Slots : req'[o] \in Requests /\ Whole(req'[o])
        BY <2>1, <2>2, <2>3, <3>1
      <3>4. QED
        BY <3>2, <3>3
    <2>5. UNCHANGED <<jira, ended, row, batches, sprints, members, eraser, raised, loose,
                      fresh, lost, spent>>
      BY <1>3 DEF world, tables
    <2>6. TypeOK'
      BY <2>4, <2>5 DEF TypeInv, TypeOK
    <2>7. (\A o \in Slots : Whole(req[o]))'
      BY <2>4, <2>5 DEF Whole
    <2>8. QED
      BY <2>5, <2>6, <2>7 DEF TypeInv, Stored
  <1>4. QED
    BY <1>2, <1>3, UpsertIs

LEMMA BeginDeleteTypes ==
  ASSUME TypeInv, NEW s \in Slots, NEW table \in Tables, NEW before \in Steps, NEW after \in Steps,
         before \notin {"idle", "finish"}, BeginDelete(s, table, before, after)
  PROVE  TypeInv'
  <1> DEFINE r == req[s]
             seen == Of(About(s), table)
             next == [r EXCEPT !.snapshot = seen, !.at = after]
  <1>1. r.at = before /\ Proceeds(s, next)
    BY DEF BeginDelete
  <1>2. r \in Requests /\ Whole(r) /\ r.todo # <<>>
    BY <1>1, RequestFacts DEF Whole
  <1>3. seen \subseteq Batch /\ IsFiniteSet(seen)
    <2>1. seen \in SUBSET batches /\ IsFiniteSet(batches) /\ batches \subseteq Batch
      BY DEF Of, TypeInv, TypeOK
    <2>2. QED
      BY <2>1, FS_Subset
  <1> HIDE DEF seen
  <1>4. next \in Requests
    BY <1>2, <1>3 DEF Requests
  <1>5. /\ next.todo = r.todo /\ next.loaded = r.loaded /\ next.new = r.new
        /\ next.snapshot = seen
    BY <1>2 DEF Requests
  <1>6. Whole(next)
    BY <1>2, <1>3, <1>5 DEF Whole
  <1>7. QED
    BY <1>1, <1>4, <1>6, ProceedsTypes

(* A number that tags no batch: there are finitely many. *)
LEMMA UnusedIsNat ==
  ASSUME TypeInv
  PROVE  Unused \in Nat
  <1> DEFINE each == [s \in Slots |-> req[s].new \cup req[s].snapshot]
             built == UNION {req[s].new \cup req[s].snapshot : s \in Slots}
             all == batches \cup built
             tag == [b \in all |-> b.tag]
             used == {b.tag : b \in all}
  <1>1. \A s \in Slots : IsFiniteSet(req[s].new \cup req[s].snapshot)
    BY RequestFacts, FS_Union DEF Whole
  <1>2. IsFiniteSet(built)
    <2>1. each \in [Slots -> {each[s] : s \in Slots}]
      OBVIOUS
    <2> HIDE DEF each
    <2>2. IsFiniteSet({each[s] : s \in Slots})
      BY <2>1, FactsOfConstants, FiniteImage
    <2> USE DEF each
    <2>3. {each[s] : s \in Slots} = {req[s].new \cup req[s].snapshot : s \in Slots}
      OBVIOUS
    <2>4. \A T \in {req[s].new \cup req[s].snapshot : s \in Slots} : IsFiniteSet(T)
      BY <1>1
    <2> HIDE DEF each
    <2>5. QED
      BY <2>2, <2>3, <2>4, FS_UNION
  <1>3. IsFiniteSet(all)
    BY <1>2, FS_Union DEF TypeInv
  <1> HIDE DEF built, all
  <1>4. IsFiniteSet(used)
    <2>1. tag \in [all -> {tag[b] : b \in all}]
      OBVIOUS
    <2>2. {tag[b] : b \in all} = used
      OBVIOUS
    <2> HIDE DEF tag
    <2>3. QED
      BY <1>3, <2>1, <2>2, FiniteImage
  <1>5. \E t \in 1..(Cardinality(used) + 1) : t \notin used
    BY <1>4, FreshNumber
  <1>6. Unused = CHOOSE t \in 1..(Cardinality(used) + 1) : t \notin used
    BY DEF Unused, all, built
  <1> HIDE DEF used
  <1>7. Unused \in 1..(Cardinality(used) + 1)
    BY <1>5, <1>6
  <1>8. Cardinality(used) \in Nat
    BY <1>4, FS_CardinalityType
  <1>9. QED
    BY <1>7, <1>8

LEMMA DeletedIsOne ==
  ASSUME TypeInv, NEW s \in Slots
  PROVE  Deleted(s) \subseteq Batch
  BY RequestFacts DEF TypeInv, TypeOK, Deleted, Requests

LEMMA ReplaceTransitionsTypes ==
  ASSUME TypeInv, NEW s \in Slots, ReplaceTransitions(s)
  PROVE  TypeInv'
  <1> DEFINE r == req[s]
             built == [issue |-> About(s), table |-> "transitions", updated |-> 0,
                       moves |-> Version(s).moves, tag |-> Unused]
             made == IF built.moves = 0 THEN r.new ELSE r.new \cup {built}
             next == [r EXCEPT !.dead = Deleted(s), !.snapshot = {}, !.at = "slices",
                               !.new = made]
             e == [r EXCEPT !.errors = TRUE]
  <1>1. /\ r.at = "replacing"
        /\ Proceeds(s, Poisoned(e, "transitions")) \/ Proceeds(s, next)
    BY DEF ReplaceTransitions
  <1>2. r \in Requests /\ Whole(r) /\ r.todo # <<>>
    BY <1>1, RequestFacts DEF Whole
  <1>3. e \in Requests /\ Whole(e) /\ "transitions" \in Causes
    <2>1. e \in Requests
      BY <1>2 DEF Requests
    <2>2. QED
      BY <1>2, <2>1 DEF Requests, Whole, Causes
  <1>4. Poisoned(e, "transitions") \in Requests /\ Whole(Poisoned(e, "transitions"))
    BY <1>3, PoisonedTypes
  <1>5. built \in Batch
    BY <1>2, RequestFacts, UnusedIsNat DEF Batch, Tables
  <1>6. made \in SUBSET Batch /\ IsFiniteSet(made) /\ "slices" \in Steps
    <2>1. r.new \in SUBSET Batch /\ IsFiniteSet(r.new)
      BY <1>2 DEF Requests, Whole
    <2>2. IsFiniteSet(r.new \cup {built})
      BY <2>1, FS_AddElement
    <2> HIDE DEF built
    <2>3. QED
      BY <1>5, <2>1, <2>2 DEF Steps
  <1>7. Deleted(s) \in SUBSET Batch
    BY DeletedIsOne
  <1> HIDE DEF built, made
  <1> DEFINE r1 == [r EXCEPT !.dead = Deleted(s), !.snapshot = {}]
  <1>8. r1 \in Requests /\ next = [r1 EXCEPT !.at = "slices", !.new = made]
    BY <1>2, <1>7 DEF Requests
  <1>9. r1.todo = r.todo /\ r1.loaded = r.loaded /\ r1.snapshot = {}
    BY <1>2 DEF Requests
  <1> HIDE DEF r1, next
  <1>10. next \in Requests
    BY <1>6, <1>8 DEF Requests
  <1>11. next.todo = r.todo /\ next.loaded = r.loaded /\ next.snapshot = {} /\ next.new = made
    BY <1>8, <1>9 DEF Requests
  <1>12. Whole(next)
    BY <1>2, <1>6, <1>11, FS_EmptySet DEF Whole
  <1> USE DEF next
  <1>13. QED
    BY <1>1, <1>4, <1>10, <1>12, ProceedsTypes

LEMMA RaiseTypes ==
  ASSUME TypeInv, NEW s \in Slots, Raise(s)
  PROVE  TypeInv'
  <1> DEFINE r == req[s]
             next == [Turned(r) EXCEPT !.errors = TRUE, !.raised = @ \cup {About(s)}]
  <1>1. r.at = "slices" /\ Proceeds(s, next)
    BY DEF Raise
  <1>2. r \in Requests /\ Whole(r) /\ r.todo # <<>>
    BY <1>1, RequestFacts DEF Whole
  <1>3. Turned(r) \in Requests /\ Whole(Turned(r)) /\ About(s) \in Issues
    BY <1>2, TurnedTypes, RequestFacts
  <1>4. next \in Requests
    BY <1>3 DEF Requests
  <1>5. Whole(next)
    BY <1>3 DEF Requests, Whole
  <1>6. QED
    BY <1>1, <1>4, <1>5, ProceedsTypes

(* What a transaction sees of an issue's batches is finite, and so are its *)
(* moves: one of them, or none, is the largest.                             *)
LEMMA MovesSeen ==
  ASSUME TypeInv, NEW s \in Slots
  PROVE  LET moves == {b.moves : b \in Seen(s, "transitions")}
         IN /\ moves \subseteq Nat
            /\ Max(moves \cup {0}) \in moves \cup {0}
            /\ \A n \in moves : n <= Max(moves \cup {0})
  <1> DEFINE seen == Seen(s, "transitions")
             f == [b \in seen |-> b.moves]
             moves == {b.moves : b \in seen}
             own == {b \in req[s].new : b.issue = About(s) /\ b.table = "transitions"}
             stored == Of(About(s), "transitions") \ req[s].dead
  <1>1. /\ stored \in SUBSET batches /\ own \in SUBSET req[s].new /\ seen = stored \cup own
        /\ batches \subseteq Batch /\ req[s].new \subseteq Batch
        /\ IsFiniteSet(batches) /\ IsFiniteSet(req[s].new)
    <2>1. batches \subseteq Batch /\ req[s].new \subseteq Batch
          /\ IsFiniteSet(batches) /\ IsFiniteSet(req[s].new)
      BY RequestFacts DEF TypeInv, TypeOK, Requests, Whole
    <2>2. QED
      BY <2>1 DEF Seen, Of
  <1>2. IsFiniteSet(seen) /\ seen \subseteq Batch
    <2>1. IsFiniteSet(stored) /\ IsFiniteSet(own)
      BY <1>1, FS_Subset
    <2> HIDE DEF stored, own, seen
    <2>2. IsFiniteSet(stored \cup own)
      BY <2>1, FS_Union
    <2>3. QED
      BY <1>1, <2>2
  <1> HIDE DEF seen, stored, own
  <1>3. moves \subseteq Nat
    BY <1>2 DEF Batch
  <1>4. IsFiniteSet(moves)
    <2>1. f \in [seen -> {f[b] : b \in seen}] /\ {f[b] : b \in seen} = moves
      OBVIOUS
    <2> HIDE DEF f, moves
    <2>2. QED
      BY <1>2, <2>1, FiniteImage
  <1> HIDE DEF moves
  <1>5. IsFiniteSet(moves \cup {0}) /\ moves \cup {0} \subseteq Int /\ moves \cup {0} # {}
    BY <1>3, <1>4, FS_AddElement
  <1>6. Max(moves \cup {0}) \in moves \cup {0} /\ \A n \in moves \cup {0} : n <= Max(moves \cup {0})
    BY <1>5, LastExists
  <1>7. QED
    BY <1>3, <1>6 DEF moves, seen

LEMMA ReplaceSlicesTypes ==
  ASSUME TypeInv, NEW s \in Slots, ReplaceSlices(s)
  PROVE  TypeInv'
  <1> DEFINE r == req[s]
             most == Max({b.moves : b \in Seen(s, "transitions")} \cup {0})
             built == [issue |-> About(s), table |-> "slices", updated |-> Current(s).updated,
                       moves |-> most, tag |-> Unused]
             made == r.new \cup {built}
             next == [r EXCEPT !.dead = Deleted(s), !.snapshot = {}, !.at = "sprints",
                               !.new = made]
  <1>1. r.at = "reslicing" /\ Proceeds(s, next)
    BY DEF ReplaceSlices
  <1>2. r \in Requests /\ Whole(r) /\ r.todo # <<>>
    BY <1>1, RequestFacts DEF Whole
  <1>3. most \in Nat
    BY MovesSeen
  <1> HIDE DEF most
  <1>4. built \in Batch
    BY <1>2, <1>3, RequestFacts, UnusedIsNat DEF Batch, Tables
  <1>5. made \in SUBSET Batch /\ IsFiniteSet(made) /\ "sprints" \in Steps
    <2>1. r.new \in SUBSET Batch /\ IsFiniteSet(r.new)
      BY <1>2 DEF Requests, Whole
    <2>2. IsFiniteSet(r.new \cup {built})
      BY <2>1, FS_AddElement
    <2> HIDE DEF built
    <2>3. QED
      BY <1>4, <2>1, <2>2 DEF Steps
  <1>6. Deleted(s) \in SUBSET Batch
    BY DeletedIsOne
  <1> HIDE DEF built, made
  <1> DEFINE r1 == [r EXCEPT !.dead = Deleted(s), !.snapshot = {}]
  <1>7. r1 \in Requests /\ next = [r1 EXCEPT !.at = "sprints", !.new = made]
    BY <1>2, <1>6 DEF Requests
  <1>8. r1.todo = r.todo /\ r1.loaded = r.loaded /\ r1.snapshot = {}
    BY <1>2 DEF Requests
  <1> HIDE DEF r1, next
  <1>9. next \in Requests
    BY <1>5, <1>7 DEF Requests
  <1>10. next.todo = r.todo /\ next.loaded = r.loaded /\ next.snapshot = {} /\ next.new = made
    BY <1>7, <1>8 DEF Requests
  <1>11. Whole(next)
    BY <1>2, <1>5, <1>10, FS_EmptySet DEF Whole
  <1> USE DEF next
  <1>12. QED
    BY <1>1, <1>9, <1>11, ProceedsTypes

(* set_issue_sprints leaves a request as it was but for the memberships.   *)
LEMMA JoinedTypes ==
  ASSUME TypeInv, NEW s \in Slots, req[s].todo # <<>>, NEW r \in Requests, Whole(r)
  PROVE  /\ Joined(r, s) \in Requests /\ Whole(Joined(r, s))
         /\ Joined(r, s).todo = r.todo
  <1> DEFINE i == About(s)
             target == {<<i, x>> : x \in Version(s).sprints}
             existing == MembersOf(i)
             processed == Processed(r, s)
             joins == processed.joins \cup (target \ existing)
             leaves == processed.leaves \cup (existing \ target)
  <1>1. /\ i \in Issues /\ Version(s).sprints \subseteq SprintIds /\ Current(s) \in Payload
        /\ members \subseteq Issues \X SprintIds
    BY RequestFacts DEF TypeInv, TypeOK
  <1>2. processed \in Requests
    <2>1. r.stored \cup {Current(s)} \in SUBSET Payload
      BY <1>1 DEF Requests
    <2>2. PICK stored : stored = r.stored \cup {Current(s)}
      OBVIOUS
    <2>3. processed = [r EXCEPT !.stored = stored]
      BY <2>2 DEF Processed
    <2> HIDE DEF processed
    <2>4. QED
      BY <2>1, <2>2, <2>3 DEF Requests
  <1>3. /\ processed.todo = r.todo /\ processed.loaded = r.loaded /\ processed.at = r.at
        /\ processed.new = r.new /\ processed.snapshot = r.snapshot
    BY DEF Processed, Requests
  <1> HIDE DEF processed
  <1>4. target \subseteq Issues \X SprintIds
    BY <1>1
  <1>5. joins \in SUBSET (Issues \X SprintIds) /\ leaves \in SUBSET (Issues \X SprintIds)
    <2>1. /\ processed.joins \in SUBSET (Issues \X SprintIds)
          /\ processed.leaves \in SUBSET (Issues \X SprintIds)
      BY <1>2 DEF Requests
    <2>2. existing \subseteq Issues \X SprintIds
      BY <1>1 DEF MembersOf
    <2> HIDE DEF target, existing
    <2>3. QED
      BY <1>4, <2>1, <2>2
  <1>6. Joined(r, s) = processed
        \/ Joined(r, s) = [processed EXCEPT !.joins = joins, !.leaves = leaves]
    BY DEF Joined, processed
  <1> HIDE DEF joins, leaves
  <1>7. CASE Joined(r, s) = processed
    BY <1>2, <1>3, <1>7 DEF Whole
  <1>8. CASE Joined(r, s) = [processed EXCEPT !.joins = joins, !.leaves = leaves]
    <2>1. Joined(r, s) \in Requests
      BY <1>2, <1>5, <1>8 DEF Requests
    <2>2. /\ Joined(r, s).todo = r.todo /\ Joined(r, s).loaded = r.loaded /\ Joined(r, s).at = r.at
          /\ Joined(r, s).new = r.new /\ Joined(r, s).snapshot = r.snapshot
      BY <1>2, <1>3, <1>8 DEF Requests
    <2>3. QED
      BY <2>1, <2>2 DEF Whole
  <1>9. QED
    BY <1>6, <1>7, <1>8

LEMMA StateOfIsOne ==
  ASSUME NEW s \in Slots, NEW x
  PROVE  StateOf(s, x) \in States
  BY DEF StateOf, States

LEMMA FindSprintsTypes ==
  ASSUME TypeInv, NEW s \in Slots, FindSprints(s)
  PROVE  TypeInv'
  <1> DEFINE r == req[s]
             missing == {x \in Version(s).parsed : Known(s, x) = Null}
             changed == {x \in Version(s).parsed \ missing : Known(s, x) # StateOf(s, x)}
             dirty == [x \in SprintIds |-> IF x \in changed THEN StateOf(s, x) ELSE r.dirty[x]]
             found == [r EXCEPT !.dirty = dirty]
             absent == [found EXCEPT !.absent = missing, !.at = "inserting"]
  <1>1. r.at = "sprints" /\ (Proceeds(s, Turned(Joined(found, s))) \/ Proceeds(s, absent))
    BY DEF FindSprints
  <1>2. r \in Requests /\ Whole(r) /\ r.todo # <<>> /\ Version(s).parsed \subseteq SprintIds
    <2>1. r \in Requests /\ Whole(r) /\ r.todo # <<>>
      BY <1>1, RequestFacts DEF Whole
    <2>2. QED
      BY <2>1, RequestFacts
  <1>3. dirty \in [SprintIds -> States \cup {Null}]
    <2>1. r.dirty \in [SprintIds -> States \cup {Null}]
      BY <1>2 DEF Requests
    <2>2. QED
      BY <2>1, StateOfIsOne
  <1>4. missing \in SUBSET SprintIds /\ "inserting" \in Steps
    BY <1>2 DEF Steps
  <1> HIDE DEF dirty, missing
  <1>5. found \in Requests /\ Whole(found) /\ found.todo = r.todo
    <2>1. found \in Requests
      BY <1>2, <1>3 DEF Requests
    <2>2. QED
      BY <1>2, <2>1 DEF Requests, Whole
  <1> HIDE DEF found
  <1>6. absent \in Requests /\ Whole(absent)
    <2>1. absent \in Requests
      BY <1>4, <1>5 DEF Requests
    <2>2. /\ absent.todo = found.todo /\ absent.loaded = found.loaded
          /\ absent.new = found.new /\ absent.snapshot = found.snapshot
      BY <1>5 DEF Requests
    <2>3. QED
      BY <1>2, <1>5, <2>1, <2>2 DEF Whole
  <1>7. Joined(found, s) \in Requests /\ Whole(Joined(found, s)) /\ Joined(found, s).todo # <<>>
    BY <1>2, <1>5, JoinedTypes
  <1>8. Turned(Joined(found, s)) \in Requests /\ Whole(Turned(Joined(found, s)))
    BY <1>7, TurnedTypes
  <1>9. QED
    BY <1>1, <1>6, <1>8, ProceedsTypes

LEMMA InsertSprintsTypes ==
  ASSUME TypeInv, NEW s \in Slots, InsertSprints(s)
  PROVE  TypeInv'
  <1> DEFINE r == req[s]
             f == Flushed(r)
             held == [x \in SprintIds |-> IF x \in r.absent THEN StateOf(s, x) ELSE f.held[x]]
             full == [f EXCEPT !.held = held]
  <1>1. r.at = "inserting"
        /\ (Proceeds(s, Poisoned(r, "sprint")) \/ Proceeds(s, Turned(Joined(full, s))))
    BY DEF InsertSprints
  <1>2. r \in Requests /\ Whole(r) /\ r.todo # <<>>
    BY <1>1, RequestFacts DEF Whole
  <1>3. f \in Requests /\ Whole(f) /\ f.todo = r.todo
    <2>1. f.todo = r.todo
      BY <1>2 DEF Flushed, Requests
    <2>2. QED
      BY <1>2, <2>1, FlushedTypes
  <1> HIDE DEF f
  <1>4. held \in [SprintIds -> States \cup {Null}]
    <2>1. f.held \in [SprintIds -> States \cup {Null}]
      BY <1>3 DEF Requests
    <2>2. QED
      BY <2>1, StateOfIsOne
  <1> HIDE DEF held
  <1>5. full \in Requests /\ Whole(full) /\ full.todo = f.todo
    <2>1. full \in Requests
      BY <1>3, <1>4 DEF Requests
    <2>2. QED
      BY <1>3, <2>1 DEF Requests, Whole
  <1> HIDE DEF full
  <1>6. Joined(full, s) \in Requests /\ Whole(Joined(full, s)) /\ Joined(full, s).todo # <<>>
    BY <1>2, <1>3, <1>5, JoinedTypes
  <1>7. Turned(Joined(full, s)) \in Requests /\ Whole(Turned(Joined(full, s)))
    BY <1>6, TurnedTypes
  <1>8. "sprint" \in Causes
    BY DEF Causes
  <1>9. Poisoned(r, "sprint") \in Requests /\ Whole(Poisoned(r, "sprint"))
    BY <1>2, <1>8, PoisonedTypes
  <1>10. QED
    BY <1>1, <1>7, <1>9, ProceedsTypes

(* A list of the issues that were created: each of them once.              *)
LEMMA CreatedInOrder ==
  ASSUME TypeInv
  PROVE  LET all == SetToSeq(Created)
         IN /\ all \in [1..Cardinality(Created) -> Created] /\ Cardinality(Created) \in Nat
            /\ \A k, n \in DOMAIN all : all[k] = all[n] => k = n
  <1>1. Created \in SUBSET Issues
    BY DEF Created
  <1>2. IsFiniteSet(Created)
    BY <1>1, FactsOfConstants, FS_Subset
  <1>3. Cardinality(Created) \in Nat /\ ExistsBijection(1..Cardinality(Created), Created)
    BY <1>2, FS_CardinalityType
  <1>4. \E f \in [1..Cardinality(Created) -> Created] : IsInjective(f)
    BY <1>3 DEF ExistsBijection, Bijection, Injection, IsInjective
  <1>5. /\ SetToSeq(Created) \in [1..Cardinality(Created) -> Created]
        /\ IsInjective(SetToSeq(Created))
    BY <1>4 DEF SetToSeq
  <1>6. QED
    BY <1>3, <1>5 DEF IsInjective

LEMMA FetchedIsOne ==
  ASSUME TypeInv, NEW i \in Created
  PROVE  Fetched(i) \in Payload /\ Fetched(i).issue = i
  <1>1. i \in Issues /\ jira[i] \in Nat /\ jira[i] \in 1..Len(History[i]) /\ ended \subseteq SprintIds
    BY FactsOfConstants DEF TypeInv, TypeOK, Created
  <1>2. jira[i] \in DOMAIN History[i]
    BY <1>1, FactsOfConstants
  <1>3. QED
    BY <1>1, <1>2 DEF Fetched, Payload

LEMMA ReceiveTypes ==
  ASSUME TypeInv, NEW s \in Slots, NEW kind \in {"webhook", "bulk"}, NEW payloads \in Seq(Payload),
         Receive(s, kind, payloads)
  PROVE  TypeInv'
  <1> DEFINE r == [Idle EXCEPT !.kind = kind, !.at = "check", !.todo = payloads]
  <1>1. /\ payloads # <<>> /\ req' = [req EXCEPT ![s] = r] /\ spent' = spent + 1
        /\ UNCHANGED <<jira, ended, row, batches, sprints, members, eraser, raised, loose,
                       fresh, lost>>
    BY DEF Receive, world, tables
  <1>2. r \in Requests
    BY IdleIsOne DEF Requests, Steps
  <1>3. r.todo = payloads /\ r.loaded = Null /\ r.new = {} /\ r.snapshot = {}
    BY DEF Idle
  <1>4. Whole(r)
    BY <1>1, <1>3, FS_EmptySet DEF Whole
  <1> HIDE DEF r
  <1>5. TypeOK'
    BY <1>1, <1>2 DEF TypeInv, TypeOK
  <1>6. \A o \in Slots : Whole(req'[o])
    BY <1>1, <1>4 DEF TypeInv, TypeOK
  <1>7. (\A o \in Slots : Whole(req[o]))'
    BY <1>1, <1>6 DEF Whole
  <1>8. QED
    BY <1>1, <1>5, <1>7 DEF TypeInv, Stored

LEMMA BeginTypes ==
  ASSUME TypeInv, NEW s \in Slots, Webhook(s) \/ Bulk(s)
  PROVE  TypeInv'
  <1>1. CASE Webhook(s)
    <2>1. PICK i \in Created : Receive(s, "webhook", <<Fetched(i)>>)
      BY <1>1 DEF Webhook
    <2>2. <<Fetched(i)>> \in Seq(Payload)
      BY FetchedIsOne
    <2>3. QED
      BY <2>1, <2>2, ReceiveTypes
  <1>2. CASE Bulk(s)
    <2> DEFINE all == SetToSeq(Created)
               payloads == [k \in DOMAIN all |-> Fetched(all[k])]
    <2>1. Receive(s, "bulk", payloads)
      BY <1>2 DEF Bulk
    <2>2. /\ all \in [1..Cardinality(Created) -> Created] /\ Cardinality(Created) \in Nat
      BY CreatedInOrder
    <2> HIDE DEF all
    <2>3. \A k \in DOMAIN all : Fetched(all[k]) \in Payload
      BY <2>2, FetchedIsOne
    <2>4. payloads \in [1..Cardinality(Created) -> Payload]
      BY <2>2, <2>3
    <2> HIDE DEF payloads
    <2>5. payloads \in Seq(Payload)
      BY <2>2, <2>4
    <2>6. QED
      BY <2>1, <2>5, ReceiveTypes
  <1>3. QED
    BY <1>1, <1>2

LEMMA EndTypes ==
  ASSUME TypeInv, NEW s \in Slots, Fail(s) \/ Abort(s)
  PROVE  TypeInv'
  <1>1. /\ req' = [req EXCEPT ![s] = Idle] /\ lost' \subseteq Causes
        /\ UNCHANGED <<jira, ended, row, batches, sprints, members, eraser, raised, loose,
                       fresh, spent>>
    <2>1. req[s].poisoned \in Causes \cup {Null} /\ lost \subseteq Causes
      BY RequestFacts DEF Requests, TypeInv, TypeOK
    <2>2. QED
      BY <2>1 DEF Fail, Abort, Ends, world, tables, Causes
  <1>2. TypeOK'
    BY <1>1, IdleIsOne DEF TypeInv, TypeOK
  <1>3. \A o \in Slots : Whole(req'[o])
    BY <1>1, IdleIsOne DEF TypeInv, TypeOK
  <1>4. (\A o \in Slots : Whole(req[o]))'
    BY <1>1, <1>3 DEF Whole
  <1>5. QED
    BY <1>1, <1>2, <1>4 DEF TypeInv, Stored

LEMMA CommitTypes ==
  ASSUME TypeInv, NEW s \in Slots, Commit(s)
  PROVE  TypeInv'
  <1> DEFINE r == Flushed(req[s])
             rebuilt == {b.issue : b \in {n \in r.new : n.table = "slices"}}
  <1>1. /\ row' = [i \in Issues |-> IF r.rows[i] # Null THEN r.rows[i] ELSE row[i]]
        /\ batches' = (batches \ r.dead) \cup r.new
        /\ sprints' = [x \in SprintIds |-> IF r.held[x] # Null THEN r.held[x] ELSE sprints[x]]
        /\ members' = (members \ r.leaves) \cup r.joins
        /\ raised' = (raised \ rebuilt) \cup r.raised
        /\ loose' = (loose \ rebuilt) \cup r.loose
        /\ fresh' = (IF eraser.at = "idle" THEN fresh ELSE fresh \cup r.wrote)
        /\ req' = [req EXCEPT ![s] = Idle] /\ lost' = lost \cup {}
        /\ UNCHANGED <<jira, ended, eraser, spent>>
    BY DEF Commit, Ends, world
  <1> HIDE DEF rebuilt
  <1>2. r \in Requests /\ Whole(r)
    BY RequestFacts, FlushedTypes
  <1> HIDE DEF r
  <1>3. /\ r.rows \in [Issues -> Rows \cup {Null}] /\ r.new \subseteq Batch
        /\ r.held \in [SprintIds -> States \cup {Null}] /\ r.joins \subseteq Issues \X SprintIds
        /\ r.raised \subseteq Issues /\ r.loose \subseteq Issues /\ r.wrote \subseteq Issues
        /\ IsFiniteSet(r.new)
    BY <1>2 DEF Requests, Whole
  <1>4. /\ row' \in [Issues -> Rows \cup {Null}] /\ batches' \subseteq Batch
        /\ sprints' \in [SprintIds -> States \cup {Null}]
        /\ members' \subseteq Issues \X SprintIds
        /\ raised' \subseteq Issues /\ loose' \subseteq Issues /\ fresh' \subseteq Issues
        /\ lost' \subseteq Causes
    BY <1>1, <1>3 DEF TypeInv, TypeOK
  <1>5. req' \in [Slots -> Requests]
    BY <1>1, IdleIsOne DEF TypeInv, TypeOK
  <1>6. TypeOK'
    BY <1>1, <1>4, <1>5 DEF TypeInv, TypeOK
  <1>7. IsFiniteSet(batches')
    <2>1. IsFiniteSet(batches \ r.dead)
      BY FS_Subset DEF TypeInv
    <2>2. QED
      BY <1>1, <1>3, <2>1, FS_Union
  <1>8. \A i \in Issues : row[i] # Null => row'[i] # Null
    BY <1>1, <1>3
  <1>9. \A o \in Slots : /\ req'[o] = Idle \/ req'[o] = req[o]
    BY <1>1 DEF TypeInv, TypeOK
  <1>10. \A o \in Slots : req[o].todo # <<>> => Head(req[o].todo).issue \in Issues
    BY RequestFacts DEF About, Current
  <1>11. (\A o \in Slots : Whole(req[o]))'
    <2>1. SUFFICES ASSUME NEW o \in Slots PROVE Whole(req[o])'
      OBVIOUS
    <2>2. CASE req'[o] = Idle
      BY <2>2, FS_EmptySet DEF Whole, Idle
    <2>3. CASE req'[o] = req[o]
      BY <2>3, <1>8, <1>10, RequestFacts DEF Whole
    <2>4. QED
      BY <1>9, <2>2, <2>3
  <1>12. Stored \subseteq Stored'
    BY <1>8 DEF Stored
  <1>13. QED
    BY <1>1, <1>6, <1>7, <1>11, <1>12 DEF TypeInv

LEMMA AssigneesAreFinite ==
  ASSUME TypeInv
  PROVE  /\ IsFiniteSet(Assignees) /\ Assignees \subseteq Accounts
         /\ \A i \in Stored : row[i] \in Rows
  <1> DEFINE f == [i \in Stored |-> row[i].account]
             named == {row[i].account : i \in Stored}
  <1>1. Stored \in SUBSET Issues /\ \A i \in Stored : row[i] \in Rows
    BY DEF Stored, TypeInv, TypeOK
  <1>2. IsFiniteSet(Stored)
    BY <1>1, FactsOfConstants, FS_Subset
  <1>3. IsFiniteSet(named)
    <2>1. f \in [Stored -> {f[i] : i \in Stored}] /\ {f[i] : i \in Stored} = named
      OBVIOUS
    <2> HIDE DEF f, named
    <2>2. QED
      BY <1>2, <2>1, FiniteImage
  <1>4. named \subseteq Accounts \cup {Null}
    BY <1>1 DEF Rows
  <1> HIDE DEF named
  <1>5. named \ {Null} \in SUBSET named
    OBVIOUS
  <1>6. IsFiniteSet(named \ {Null})
    BY <1>3, <1>5, FS_Subset
  <1>7. Assignees = named \ {Null}
    BY DEF Assignees, named
  <1>8. QED
    BY <1>1, <1>4, <1>6, <1>7

(* A page holds accounts beyond the cursor: all of them up to the next     *)
(* cursor, or all if there is none.                                          *)
LEMMA PageIsWhole ==
  ASSUME TypeInv, NEW cursor \in Nat
  PROVE  LET page == PageAfter(cursor)
         IN /\ page.accounts \subseteq Accounts
            /\ page.next \in Accounts \cup {Null}
            /\ page.next = Null => page.accounts = After(cursor)
            /\ page.next # Null => \A c \in After(cursor) : c <= page.next => c \in page.accounts
  <1> DEFINE after == After(cursor)
             first == FirstOf(after, PageSize)
             page == PageAfter(cursor)
  <1>1. IsFiniteSet(after) /\ after \subseteq Accounts /\ after \subseteq Int
    <2>1. after \in SUBSET Assignees
      BY DEF After
    <2>2. IsFiniteSet(after)
      BY <2>1, AssigneesAreFinite, FS_Subset
    <2>3. after \subseteq Accounts
      BY <2>1, AssigneesAreFinite
    <2> HIDE DEF after
    <2>4. after \subseteq Int
      BY <2>3, AccountsAreNumbers
    <2>5. QED
      BY <2>2, <2>3, <2>4
  <1>2. page = [accounts |-> first,
                next |-> IF Cardinality(after) > PageSize THEN Max(first) ELSE Null]
    BY DEF PageAfter
  <1> HIDE DEF after
  <1>3. /\ first \subseteq after
        /\ \A c \in first, d \in after : d < c => d \in first
        /\ after # {} => first # {}
        /\ Cardinality(after) <= PageSize => first = after
    BY <1>1, FactsOfConstants, FirstOfTakes
  <1> HIDE DEF first, page
  <1>4. Cardinality(after) \in Nat /\ PageSize \in Nat \ {0}
    BY <1>1, FactsOfConstants, FS_CardinalityType
  <1>5. CASE Cardinality(after) > PageSize
    <2>1. after # {}
      BY <1>4, <1>5, FS_EmptySet
    <2>2. IsFiniteSet(first)
      BY <1>1, <1>3, FS_Subset
    <2>3. first \subseteq Int /\ first # {}
      BY <1>1, <1>3, <2>1
    <2>4. Max(first) \in first
      BY <2>2, <2>3, LastExists
    <2>5. page.next = Max(first) /\ page.next # Null /\ page.accounts = first
      <3>1. page.next = Max(first) /\ page.accounts = first
        BY <1>2, <1>5
      <3>2. Max(first) # Null
        BY <2>4, <1>3, <1>1, FactsOfConstants
      <3>3. QED
        BY <3>1, <3>2
    <2>6. \A c \in after : c <= page.next => c \in page.accounts
      <3>1. SUFFICES ASSUME NEW c \in after, c <= Max(first) PROVE c \in first
        BY <2>5
      <3>2. c \in Int /\ Max(first) \in Int
        BY <1>1, <2>3, <2>4
      <3>3. c < Max(first) \/ c = Max(first)
        BY <3>1, <3>2
      <3>4. QED
        BY <3>3, <2>4, <1>3
    <2>7. QED
      BY <1>1, <1>3, <2>4, <2>5, <2>6 DEF page, after
  <1>6. CASE ~(Cardinality(after) > PageSize)
    <2>1. page.next = Null /\ page.accounts = after
      BY <1>2, <1>3, <1>4, <1>6
    <2>2. QED
      BY <1>1, <2>1 DEF page, after
  <1>7. QED
    BY <1>5, <1>6

LEMMA CycleTypes ==
  ASSUME TypeInv,
         StartCycle \/ FetchPage \/ Report \/ EraseBegin \/ CycleFails
  PROVE  TypeInv'
  <1>1. eraser \in Cycles /\ fresh \subseteq Issues /\ spent \in Nat
    BY DEF TypeInv, TypeOK
  <1>2. eraser' \in Cycles
    <2>1. CASE StartCycle
      BY <2>1, IdleIsOne DEF StartCycle, Cycles
    <2>2. CASE FetchPage
      <3> DEFINE page == PageAfter(eraser.cursor)
                 cursor == IF page.next = Null THEN 0 ELSE page.next
                 at == IF page.next = Null THEN "report" ELSE "fetch"
      <3>1. eraser.cursor \in Nat
        <4>1. eraser.cursor \in Accounts \cup {0}
          BY <1>1 DEF Cycles
        <4>2. QED
          BY <4>1, AccountsAreNumbers
      <3>2. page.accounts \subseteq Accounts /\ page.next \in Accounts \cup {Null}
        BY <3>1, PageIsWhole
      <3>3. cursor \in Accounts \cup {0} /\ at \in {"fetch", "report"}
        BY <3>2
      <3>4. eraser' = [eraser EXCEPT !.found = @ \cup page.accounts, !.cursor = cursor, !.at = at]
        BY <2>2 DEF FetchPage, CycleStep
      <3> HIDE DEF page, cursor, at
      <3>5. QED
        BY <1>1, <3>2, <3>3, <3>4 DEF Cycles
    <2>3. CASE Report
      BY <1>1, <2>3 DEF Report, CycleStep, Cycles
    <2>4. CASE EraseBegin
      <3> DEFINE at == IF eraser.erasing = {} THEN "done" ELSE "erasing"
                 target == {i \in Stored : row[i].account \in eraser.erasing}
      <3>1. at \in {"done", "erasing"} /\ target \subseteq Issues
        BY DEF Stored
      <3>2. eraser' = [eraser EXCEPT !.at = at, !.target = target]
        BY <2>4 DEF EraseBegin, CycleStep
      <3> HIDE DEF at, target
      <3>3. QED
        BY <1>1, <3>1, <3>2 DEF Cycles
    <2>5. CASE CycleFails
      BY <2>5, IdleIsOne DEF CycleFails
    <2>6. QED
      BY <2>1, <2>2, <2>3, <2>4, <2>5
  <1>3. /\ UNCHANGED <<jira, ended, row, batches, sprints, members, req, raised, loose, lost>>
        /\ fresh' \in {fresh, {}} /\ spent' \in {spent, spent + 1}
    BY DEF StartCycle, FetchPage, Report, EraseBegin, CycleFails, CycleStep, world, tables
  <1>4. TypeOK'
    BY <1>1, <1>2, <1>3 DEF TypeInv, TypeOK
  <1>5. (\A o \in Slots : Whole(req[o]))'
    BY <1>3 DEF TypeInv, Whole
  <1>6. eraser'.target \subseteq Stored
    <2>1. eraser.target \subseteq Stored /\ eraser \in Cycles
      BY <1>1 DEF TypeInv
    <2>2. CASE StartCycle \/ CycleFails
      <3>1. eraser'.target = {}
        <4>1. CASE StartCycle
          BY <4>1 DEF StartCycle, Resting
        <4>2. CASE CycleFails
          BY <4>2 DEF CycleFails, Resting
        <4>3. QED
          BY <2>2, <4>1, <4>2
      <3>2. QED
        BY <3>1
    <2>3. CASE FetchPage \/ Report
      BY <2>1, <2>3 DEF FetchPage, Report, CycleStep, Cycles
    <2>4. CASE EraseBegin
      BY <2>1, <2>4 DEF EraseBegin, CycleStep, Cycles
    <2>5. QED
      BY <2>2, <2>3, <2>4
  <1>7. QED
    BY <1>3, <1>4, <1>5, <1>6 DEF TypeInv, Stored

LEMMA EraseEndTypes ==
  ASSUME TypeInv, EraseEnd
  PROVE  TypeInv'
  <1>1. /\ row' = [i \in Issues |->
                     IF i \in eraser.target /\ row[i].account \in eraser.erasing
                       THEN [row[i] EXCEPT !.account = Null] ELSE row[i]]
        /\ eraser' = [eraser EXCEPT !.at = "done", !.target = {}]
        /\ UNCHANGED <<jira, ended, batches, sprints, members, req, raised, loose, fresh, lost, spent>>
    BY DEF EraseEnd, world
  <1>2. eraser' \in Cycles /\ eraser'.target = {}
    BY <1>1 DEF TypeInv, TypeOK, Cycles
  <1>3. \A i \in Issues : \/ row'[i] = row[i]
                          \/ row[i] \in Rows /\ row'[i] = [row[i] EXCEPT !.account = Null]
    BY <1>1 DEF TypeInv, TypeOK, Stored
  <1>4. \A i \in Issues : /\ row'[i] \in Rows \cup {Null}
                          /\ row[i] # Null => row'[i] # Null
    <2>1. SUFFICES ASSUME NEW i \in Issues
                   PROVE  /\ row'[i] \in Rows \cup {Null}
                          /\ row[i] # Null => row'[i] # Null
      OBVIOUS
    <2>2. CASE row'[i] = row[i]
      BY <2>2 DEF TypeInv, TypeOK
    <2>3. CASE row[i] \in Rows /\ row'[i] = [row[i] EXCEPT !.account = Null]
      <3>1. row'[i] \in Rows
        BY <2>3 DEF Rows
      <3>2. QED
        BY <3>1, FactsOfConstants
    <2>4. QED
      BY <1>3, <2>2, <2>3
  <1>5. row' \in [Issues -> Rows \cup {Null}]
    BY <1>1, <1>4
  <1>6. TypeOK'
    BY <1>1, <1>2, <1>5 DEF TypeInv, TypeOK
  <1>7. \A o \in Slots : req[o].todo # <<>> => Head(req[o].todo).issue \in Issues
    BY RequestFacts DEF About, Current
  <1>8. (\A o \in Slots : Whole(req[o]))'
    BY <1>1, <1>4, <1>7 DEF TypeInv, Whole
  <1>9. QED
    BY <1>1, <1>2, <1>6, <1>8 DEF TypeInv

LEMMA WorldTypes ==
  ASSUME TypeInv,
         (\E i \in Issues : IssueChanges(i)) \/ (\E x \in SprintIds : SprintEnds(x))
  PROVE  TypeInv'
  <1>1. UNCHANGED <<row, batches, sprints, members, req, eraser, raised, loose, fresh, lost, spent>>
    BY DEF IssueChanges, SprintEnds, tables
  <1>2. /\ jira' \in [Issues -> Nat] /\ ended' \subseteq SprintIds
        /\ \A i \in Issues : jira'[i] \in 0..Len(History[i])
    <2>1. /\ jira \in [Issues -> Nat] /\ ended \subseteq SprintIds
          /\ \A i \in Issues : jira[i] \in 0..Len(History[i]) /\ Len(History[i]) \in Nat
      BY FactsOfConstants DEF TypeInv, TypeOK
    <2>2. ASSUME NEW i \in Issues, IssueChanges(i)
          PROVE  /\ jira' \in [Issues -> Nat] /\ ended' = ended
                 /\ \A c \in Issues : jira'[c] \in 0..Len(History[c])
      BY <2>1, <2>2 DEF IssueChanges
    <2>3. ASSUME NEW x \in SprintIds, SprintEnds(x)
          PROVE  jira' = jira /\ ended' \subseteq SprintIds
      BY <2>1, <2>3 DEF SprintEnds
    <2>4. QED
      BY <2>1, <2>2, <2>3
  <1>3. TypeOK'
    BY <1>1, <1>2 DEF TypeInv, TypeOK
  <1>4. (\A o \in Slots : Whole(req[o]))'
    BY <1>1 DEF TypeInv, Whole
  <1>5. QED
    BY <1>1, <1>3, <1>4 DEF TypeInv, Stored

LEMMA StepTypes ==
  TypeInv /\ [Next]_vars => TypeInv'
  <1> SUFFICES ASSUME TypeInv, [Next]_vars PROVE TypeInv'
    OBVIOUS
  <1>1. CASE \E i \in Issues : IssueChanges(i)
    BY <1>1, WorldTypes
  <1>2. CASE \E x \in SprintIds : SprintEnds(x)
    BY <1>2, WorldTypes
  <1>3. ASSUME NEW s \in Slots, Webhook(s) \/ Bulk(s) PROVE TypeInv'
    BY <1>3, BeginTypes
  <1>4. ASSUME NEW s \in Slots, Process(s) PROVE TypeInv'
    <2>1. CASE Check(s)
      BY <2>1, CheckTypes
    <2>2. CASE Load(s)
      BY <2>2, LoadTypes
    <2>3. CASE Upsert(s)
      BY <2>3, UpsertTypes
    <2>4. CASE BeginTransitions(s)
      BY <2>4, BeginDeleteTypes DEF BeginTransitions, Tables, Steps
    <2>5. CASE ReplaceTransitions(s)
      BY <2>5, ReplaceTransitionsTypes
    <2>6. CASE Raise(s)
      BY <2>6, RaiseTypes
    <2>7. CASE BeginSlices(s)
      BY <2>7, BeginDeleteTypes DEF BeginSlices, Tables, Steps
    <2>8. CASE ReplaceSlices(s)
      BY <2>8, ReplaceSlicesTypes
    <2>9. CASE FindSprints(s)
      BY <2>9, FindSprintsTypes
    <2>10. CASE InsertSprints(s)
      BY <2>10, InsertSprintsTypes
    <2>11. QED
      BY <1>4, <2>1, <2>2, <2>3, <2>4, <2>5, <2>6, <2>7, <2>8, <2>9, <2>10 DEF Process
  <1>5. ASSUME NEW s \in Slots, Fail(s) \/ Abort(s) PROVE TypeInv'
    BY <1>5, EndTypes
  <1>6. ASSUME NEW s \in Slots, Commit(s) PROVE TypeInv'
    BY <1>6, CommitTypes
  <1>7. CASE StartCycle \/ FetchPage \/ Report \/ EraseBegin \/ CycleFails
    BY <1>7, CycleTypes
  <1>8. CASE EraseEnd
    BY <1>8, EraseEndTypes
  <1>9. CASE UNCHANGED vars
    BY <1>9 DEF vars, world, tables, TypeInv, TypeOK, Whole, Stored
  <1>10. QED
    BY <1>1, <1>2, <1>3, <1>4, <1>5, <1>6, <1>7, <1>8, <1>9 DEF Next

(* The tables, the requests and the cycle keep their types: a row that is  *)
(* stored stays stored, so the columns an UPDATE does not send have a value *)
(* to keep (ingestion_service.py:125).                                       *)
THEOREM TypeCorrect == Spec => []TypeOK
  <1>1. Init => TypeInv
    BY InitTypes
  <1>2. TypeInv /\ [Next]_vars => TypeInv'
    BY StepTypes
  <1>3. TypeInv => TypeOK
    BY DEF TypeInv
  <1>4. QED
    BY <1>1, <1>2, <1>3, PTL DEF Spec

-----------------------------------------------------------------------------
(* What an ingest holds of an issue.  It writes the row, or leaves it, at  *)
(* the upsert, and from then on works on the issue until it ends.           *)

Working(s, i) == req[s].rows[i] # Null \/ i \in req[s].bare

AtWork == {"transitions", "replacing", "slices", "reslicing", "sprints", "inserting"}

(* The version of an issue its commit leaves. *)
Leaves(s, i) == IF req[s].rows[i] # Null THEN req[s].rows[i].updated ELSE row[i].updated

Built(s, i, table) == {b \in req[s].new : b.issue = i /\ b.table = table}

(* It works on one payload at a time, each of another issue.               *)
OneByOne(s) ==
  /\ req[s].at \in {"idle", "finish"} => req[s].todo = <<>>
  /\ \A j, k \in DOMAIN req[s].todo : req[s].todo[j].issue = req[s].todo[k].issue => j = k
  /\ \A k \in DOMAIN req[s].todo :
       /\ Working(s, req[s].todo[k].issue) <=> k = 1 /\ req[s].at \in AtWork
       /\ req[s].todo[k].issue \notin req[s].raised /\ req[s].poisoned = Null

(* What it holds is of the issues it works on.                              *)
HoldsOwn(s) ==
  /\ \A b \in req[s].new \cup req[s].dead : Working(s, b.issue)
  /\ req[s].at \in {"replacing", "reslicing"} => \A b \in req[s].snapshot : b.issue = About(s)
  /\ \A m \in req[s].joins \cup req[s].leaves : \E p \in req[s].stored : p.issue = m[1]
  /\ \A p \in req[s].stored :
       Working(s, p.issue) /\ \A k \in DOMAIN req[s].todo : req[s].todo[k].issue # p.issue
  /\ \A i \in req[s].bare : row[i] # Null

(* Two ingests write one row only in turn; what one writes without the      *)
(* account has the account of the stored row.                               *)
RowLocks ==
  /\ \A s, o \in Slots, i \in Issues :
       s # o => req[s].rows[i] = Null \/ req[o].rows[i] = Null
  /\ \A s \in Slots, i \in Issues :
       req[s].rows[i] # Null /\ i \notin req[s].wrote =>
         row[i] # Null /\ req[s].rows[i].account = row[i].account

(* Two that work on one issue both know it. *)
Overlaps ==
  \A s, o \in Slots, i \in Issues :
    s # o /\ Working(s, i) /\ Working(o, i) => i \in req[s].loose

(* How far the children of an issue are that no other ingest works on.      *)
Reached(s, i) == IF req[s].todo # <<>> /\ About(s) = i THEN req[s].at ELSE "finish"

Progress(s, i) ==
  LET v == Leaves(s, i)
      moves == History[i][v].moves
      at == Reached(s, i)
  IN /\ at # "finish" => v = Current(s).updated
     /\ at = "replacing" => Of(i, "transitions") \subseteq req[s].snapshot
     /\ at = "reslicing" => Of(i, "slices") \subseteq req[s].snapshot
     /\ at \in {"transitions", "replacing"} => Built(s, i, "transitions") = {}
     /\ at \notin {"transitions", "replacing"} =>
          /\ Of(i, "transitions") \subseteq req[s].dead
          /\ \A b, c \in Built(s, i, "transitions") : b = c
          /\ {b.moves : b \in Built(s, i, "transitions")} = {moves} \ {0}
     /\ at \in {"transitions", "replacing", "slices", "reslicing"} => Built(s, i, "slices") = {}
     /\ at \in {"sprints", "inserting", "finish"} =>
          /\ Of(i, "slices") \subseteq req[s].dead
          /\ \E b \in Built(s, i, "slices") :
               Built(s, i, "slices") = {b} /\ b.updated = v /\ b.moves = moves

ProgressOf(s) ==
  \A i \in Issues :
    Working(s, i) /\ i \notin req[s].loose \cup req[s].raised /\ req[s].poisoned = Null =>
      Progress(s, i)

(* What it has stored is what its commit will leave. *)
SprintsLeft(s, i) ==
  {m[2] : m \in {n \in (members \ req[s].leaves) \cup req[s].joins : n[1] = i}}

Settled(s, p) ==
  /\ Parses(p.issue, p.updated) =>
       SprintsLeft(s, p.issue) = History[p.issue][p.updated].sprints
  /\ ~Parses(p.issue, p.updated) =>
       \A m \in req[s].joins \cup req[s].leaves : m[1] # p.issue

WillStore(s) ==
  \A p \in req[s].stored : p.issue \notin req[s].loose =>
    Leaves(s, p.issue) = p.updated /\ Settled(s, p)

SlotInv(s) == OneByOne(s) /\ HoldsOwn(s) /\ ProgressOf(s) /\ WillStore(s)

IngestInv ==
  /\ \A s \in Slots : SlotInv(s)
  /\ RowLocks /\ Overlaps

(* An account that was closed when the cycle began, and that an issue names *)
(* which no ingest has written since, is on its way.                        *)
EraseInv ==
  \A i \in Stored \ fresh :
    LET c == row[i].account
    IN eraser.at # "idle" /\ c \in eraser.shut =>
         /\ eraser.at = "fetch" /\ c <= eraser.cursor => c \in eraser.found
         /\ eraser.at = "report" => c \in eraser.found
         /\ eraser.at \in {"erase", "erasing"} => c \in eraser.erasing
         /\ eraser.at = "erasing" => i \in eraser.target
         /\ eraser.at # "done"

-----------------------------------------------------------------------------
(* A step keeps what a request holds that it does not touch, if it leaves   *)
(* alone the issues only that request works on.                              *)

LEMMA OthersKeep ==
  ASSUME TypeInv, NEW o \in Slots, SlotInv(o),
         NEW more, req'[o] = [req[o] EXCEPT !.loose = more], req[o].loose \subseteq more,
         \A i \in Issues : row[i] # Null => row'[i] # Null,
         \A i \in Issues : Working(o, i) /\ i \notin req[o].loose =>
           /\ row[i] # Null => row'[i].updated = row[i].updated
           /\ \A table \in Tables : Of(i, table)' = Of(i, table)
           /\ MembersOf(i)' = MembersOf(i)
  PROVE  SlotInv(o)'
  <1>1. req[o] \in Requests
    BY RequestFacts
  <1>2. /\ req'[o].at = req[o].at /\ req'[o].todo = req[o].todo
        /\ req'[o].snapshot = req[o].snapshot /\ req'[o].rows = req[o].rows
        /\ req'[o].dead = req[o].dead /\ req'[o].new = req[o].new
        /\ req'[o].joins = req[o].joins /\ req'[o].leaves = req[o].leaves
        /\ req'[o].stored = req[o].stored /\ req'[o].raised = req[o].raised
        /\ req'[o].bare = req[o].bare /\ req'[o].poisoned = req[o].poisoned
        /\ req'[o].loose = more
    BY <1>1 DEF Requests
  <1>3. \A i \in Issues : Working(o, i)' <=> Working(o, i)
    BY <1>2 DEF Working
  <1>4. req[o].todo \in Seq(Payload) /\ req[o].stored \subseteq Payload /\ req[o].bare \subseteq Issues
        /\ req[o].new \subseteq Batch /\ req[o].dead \subseteq Batch
    BY <1>1 DEF Requests
  <1>5. \A k \in DOMAIN req[o].todo : req[o].todo[k].issue \in Issues
    BY <1>4 DEF Payload
  <1>6. \A p \in req[o].stored : p.issue \in Issues
    BY <1>4 DEF Payload
  <1>7. \A b \in req[o].new \cup req[o].dead : b.issue \in Issues
    BY <1>4 DEF Batch
  <1>8. OneByOne(o)'
    BY <1>2, <1>3, <1>5 DEF SlotInv, OneByOne
  <1>9. HoldsOwn(o)'
    <2>1. HoldsOwn(o)
      BY DEF SlotInv
    <2>2. About(o)' = About(o)
      BY <1>2 DEF About, Current
    <2>3. \A b \in req'[o].new \cup req'[o].dead : Working(o, b.issue)'
      BY <1>2, <1>3, <1>7, <2>1 DEF HoldsOwn
    <2>4. \A p \in req'[o].stored :
            Working(o, p.issue)' /\ \A k \in DOMAIN req'[o].todo : req'[o].todo[k].issue # p.issue
      BY <1>2, <1>3, <1>6, <2>1 DEF HoldsOwn
    <2>5. \A i \in req'[o].bare : row'[i] # Null
      BY <1>2, <1>4, <2>1 DEF HoldsOwn
    <2>6. /\ req'[o].at \in {"replacing", "reslicing"} => \A b \in req'[o].snapshot : b.issue = About(o)'
          /\ \A m \in req'[o].joins \cup req'[o].leaves : \E p \in req'[o].stored : p.issue = m[1]
      BY <1>2, <2>1, <2>2 DEF HoldsOwn
    <2>7. QED
      BY <2>3, <2>4, <2>5, <2>6 DEF HoldsOwn
  <1>10. ASSUME NEW i \in Issues, Working(o, i), i \notin req[o].loose
         PROVE  /\ Leaves(o, i)' = Leaves(o, i)
                /\ \A table \in Tables : Of(i, table)' = Of(i, table)
                /\ MembersOf(i)' = MembersOf(i)
    <2>1. req[o].rows[i] = Null => row[i] # Null
      BY <1>10 DEF Working, SlotInv, HoldsOwn
    <2>2. QED
      BY <1>2, <1>10, <2>1 DEF Leaves
  <1>11. ProgressOf(o)'
    <2>1. SUFFICES ASSUME NEW i \in Issues, Working(o, i), i \notin req[o].loose \cup req[o].raised,
                          req[o].poisoned = Null
                   PROVE  Progress(o, i)'
      BY <1>2, <1>3 DEF ProgressOf
    <2>2. Progress(o, i)
      BY <2>1 DEF SlotInv, ProgressOf
    <2>3. /\ Leaves(o, i)' = Leaves(o, i)
          /\ Of(i, "transitions")' = Of(i, "transitions") /\ Of(i, "slices")' = Of(i, "slices")
      BY <1>10, <2>1 DEF Tables
    <2>4. /\ Reached(o, i)' = Reached(o, i) /\ Current(o)' = Current(o)
          /\ Built(o, i, "transitions")' = Built(o, i, "transitions")
          /\ Built(o, i, "slices")' = Built(o, i, "slices")
      BY <1>2 DEF Reached, Current, About, Built
    <2>5. QED
      BY <1>2, <2>2, <2>3, <2>4 DEF Progress
  <1>12. WillStore(o)'
    <2>1. SUFFICES ASSUME NEW p \in req[o].stored, p.issue \notin req[o].loose
                   PROVE  Leaves(o, p.issue)' = p.updated /\ Settled(o, p)'
      BY <1>2 DEF WillStore
    <2> DEFINE i == p.issue
    <2>2. i \in Issues /\ Working(o, i)
      BY <1>6 DEF SlotInv, HoldsOwn
    <2>3. Leaves(o, i) = p.updated /\ Settled(o, p)
      BY <2>1 DEF SlotInv, WillStore
    <2> HIDE DEF i
    <2>4. Leaves(o, i)' = Leaves(o, i) /\ MembersOf(i)' = MembersOf(i)
      BY <1>10, <2>1, <2>2 DEF i
    <2>5. {n \in (members' \ req'[o].leaves) \cup req'[o].joins : n[1] = i}
            = {n \in (members \ req[o].leaves) \cup req[o].joins : n[1] = i}
      BY <1>2, <2>4 DEF MembersOf
    <2>6. SprintsLeft(o, i)' = SprintsLeft(o, i)
      BY <2>5 DEF SprintsLeft
    <2>7. QED
      BY <1>2, <2>3, <2>4, <2>6 DEF i, Settled
  <1>13. QED
    BY <1>8, <1>9, <1>11, <1>12 DEF SlotInv

(* A step of a request that takes up no other issue, or lets go of all.     *)
LEMMA OneSteps ==
  ASSUME TypeInv, IngestInv, NEW s \in Slots, NEW r \in Requests,
         req' = [req EXCEPT ![s] = r], UNCHANGED <<row, batches, members>>,
         \/ /\ r.rows = req[s].rows /\ r.bare = req[s].bare /\ r.wrote = req[s].wrote
            /\ r.loose = req[s].loose
         \/ r.rows = Nothing(Issues) /\ r.bare = {},
         SlotInv(s)'
  PROVE  IngestInv'
  <1>1. req \in [Slots -> Requests] /\ req'[s] = r /\ \A o \in Others(s) : req'[o] = req[o]
    BY DEF TypeInv, TypeOK, Others
  <1>2. ASSUME NEW o \in Slots, o # s PROVE SlotInv(o)'
    <2>1. req'[o] = [req[o] EXCEPT !.loose = req[o].loose]
      <3>1. req'[o] = req[o] /\ req[o] \in Requests
        BY <1>1, <1>2 DEF Others
      <3>2. QED
        BY <3>1 DEF Requests
    <2>2. SlotInv(o)
      BY DEF IngestInv
    <2>3. \A i \in Issues : /\ row' = row /\ MembersOf(i)' = MembersOf(i)
                            /\ \A table \in Tables : Of(i, table)' = Of(i, table)
      BY DEF MembersOf, Of
    <2> DEFINE more == req[o].loose
    <2>4. req'[o] = [req[o] EXCEPT !.loose = more] /\ req[o].loose \subseteq more
      BY <2>1
    <2> HIDE DEF more
    <2>5. QED
      BY <2>2, <2>3, <2>4, OthersKeep
  <1>3. \A o \in Slots : SlotInv(o)'
    BY <1>2
  <1>4. \A o \in Slots, i \in Issues :
          /\ req'[o].rows[i] # Null => /\ req'[o].rows[i] = req[o].rows[i]
                                       /\ req'[o].wrote = req[o].wrote
          /\ Working(o, i)' => Working(o, i) /\ req'[o].loose = req[o].loose
    <2>1. SUFFICES ASSUME NEW o \in Slots, NEW i \in Issues
                   PROVE  /\ req'[o].rows[i] # Null => /\ req'[o].rows[i] = req[o].rows[i]
                                                       /\ req'[o].wrote = req[o].wrote
                          /\ Working(o, i)' => Working(o, i) /\ req'[o].loose = req[o].loose
      OBVIOUS
    <2>2. CASE o # s
      BY <1>1, <2>2 DEF Others, Working
    <2>3. CASE o = s
      BY <1>1, <2>3 DEF Working, Nothing
    <2>4. QED
      BY <2>2, <2>3
  <1>5. RowLocks' /\ Overlaps'
    BY <1>4 DEF IngestInv, RowLocks, Overlaps
  <1>6. QED
    BY <1>3, <1>5 DEF IngestInv

(* A request that works on nothing. *)
HoldsNothing(s) ==
  /\ req[s].rows = Nothing(Issues) /\ req[s].bare = {}
  /\ req[s].new = {} /\ req[s].dead = {} /\ req[s].joins = {} /\ req[s].leaves = {}
  /\ req[s].stored = {} /\ req[s].at \in {"idle", "check"}
  /\ req[s].raised = {} /\ req[s].poisoned = Null
  /\ req[s].at = "idle" => req[s].todo = <<>>
  /\ \A k \in DOMAIN req[s].todo : req[s].todo[k].issue \in Issues
  /\ \A j, k \in DOMAIN req[s].todo : req[s].todo[j].issue = req[s].todo[k].issue => j = k

LEMMA NothingHeld ==
  \A s \in Slots : HoldsNothing(s) => SlotInv(s)
  <1> SUFFICES ASSUME NEW s \in Slots, HoldsNothing(s) PROVE SlotInv(s)
    OBVIOUS
  <1> USE DEF HoldsNothing
  <1>1. \A i \in Issues : ~Working(s, i)
    BY DEF Working, Nothing
  <1>2. OneByOne(s)
    BY <1>1 DEF OneByOne, AtWork
  <1>3. HoldsOwn(s)
    BY DEF HoldsOwn
  <1>4. ProgressOf(s)
    BY <1>1 DEF ProgressOf
  <1>5. WillStore(s)
    BY DEF WillStore
  <1>6. QED
    BY <1>2, <1>3, <1>4, <1>5 DEF SlotInv

LEMMA NothingHeldNext ==
  ASSUME NEW s \in Slots, HoldsNothing(s)'
  PROVE  SlotInv(s)'
  <1> USE DEF HoldsNothing
  <1>1. \A i \in Issues : ~Working(s, i)'
    BY DEF Working, Nothing
  <1>2. OneByOne(s)'
    BY <1>1 DEF OneByOne, AtWork
  <1>3. HoldsOwn(s)'
    BY DEF HoldsOwn
  <1>4. ProgressOf(s)'
    BY <1>1 DEF ProgressOf
  <1>5. WillStore(s)'
    BY DEF WillStore
  <1>6. QED
    BY <1>2, <1>3, <1>4, <1>5 DEF SlotInv

LEMMA InitIngests ==
  ASSUME Init
  PROVE  IngestInv
  <1>1. \A s \in Slots : req[s] = Idle
    BY DEF Init
  <1>2. \A s \in Slots : SlotInv(s)
    <2>1. SUFFICES ASSUME NEW s \in Slots PROVE SlotInv(s)
      OBVIOUS
    <2>2. /\ req[s].rows = Nothing(Issues) /\ req[s].bare = {}
          /\ req[s].new = {} /\ req[s].dead = {} /\ req[s].joins = {} /\ req[s].leaves = {}
          /\ req[s].stored = {} /\ req[s].at = "idle" /\ req[s].todo = <<>>
          /\ req[s].raised = {} /\ req[s].poisoned = Null
      BY <1>1 DEF Idle
    <2>3. DOMAIN req[s].todo = {}
      BY <2>2
    <2>4. HoldsNothing(s)
      BY <2>2, <2>3 DEF HoldsNothing
    <2>5. QED
      BY <2>4, NothingHeld
  <1>3. \A s \in Slots, i \in Issues : req[s].rows[i] = Null /\ ~Working(s, i)
    BY <1>1 DEF Idle, Nothing, Working
  <1>4. QED
    BY <1>2, <1>3 DEF IngestInv, RowLocks, Overlaps

LEMMA EndIngests ==
  ASSUME TypeInv, IngestInv, NEW s \in Slots, Fail(s) \/ Abort(s)
  PROVE  IngestInv'
  <1>1. /\ req' = [req EXCEPT ![s] = Idle]
        /\ UNCHANGED <<row, batches, members>>
    BY DEF Fail, Abort, Ends, tables
  <1>2. Idle \in Requests /\ Idle.rows = Nothing(Issues) /\ Idle.bare = {}
    BY IdleIsOne DEF Idle
  <1>3. req'[s] = Idle
    BY <1>1 DEF TypeInv, TypeOK
  <1>4. SlotInv(s)'
    <2>1. /\ req'[s].rows = Nothing(Issues) /\ req'[s].bare = {}
          /\ req'[s].new = {} /\ req'[s].dead = {} /\ req'[s].joins = {} /\ req'[s].leaves = {}
          /\ req'[s].stored = {} /\ req'[s].at = "idle" /\ req'[s].todo = <<>>
          /\ req'[s].raised = {} /\ req'[s].poisoned = Null
      BY <1>3 DEF Idle
    <2>2. DOMAIN req'[s].todo = {}
      BY <2>1
    <2>3. HoldsNothing(s)'
      BY <2>1, <2>2 DEF HoldsNothing
    <2>4. QED
      BY <2>3, NothingHeldNext
  <1>5. QED
    BY <1>1, <1>2, <1>4, OneSteps

LEMMA BeginIngests ==
  ASSUME TypeInv, IngestInv, NEW s \in Slots, Webhook(s) \/ Bulk(s)
  PROVE  IngestInv'
  <1>1. ASSUME NEW kind \in {"webhook", "bulk"}, NEW payloads \in Seq(Payload),
               Receive(s, kind, payloads),
               \A j, k \in DOMAIN payloads : payloads[j].issue = payloads[k].issue => j = k
        PROVE  IngestInv'
    <2> DEFINE r == [Idle EXCEPT !.kind = kind, !.at = "check", !.todo = payloads]
    <2>1. req' = [req EXCEPT ![s] = r] /\ UNCHANGED <<row, batches, members>>
      BY <1>1 DEF Receive, tables
    <2>2. r \in Requests
      BY IdleIsOne DEF Requests, Steps
    <2>3. /\ r.rows = Nothing(Issues) /\ r.bare = {} /\ r.new = {} /\ r.dead = {}
          /\ r.joins = {} /\ r.leaves = {} /\ r.stored = {} /\ r.at = "check" /\ r.todo = payloads
          /\ r.raised = {} /\ r.poisoned = Null
      BY DEF Idle
    <2> HIDE DEF r
    <2>4. req'[s] = r
      BY <2>1 DEF TypeInv, TypeOK
    <2>5. \A k \in DOMAIN payloads : payloads[k].issue \in Issues
      BY DEF Payload
    <2>6. HoldsNothing(s)'
      BY <1>1, <2>3, <2>4, <2>5 DEF HoldsNothing
    <2>7. SlotInv(s)'
      BY <2>6, NothingHeldNext
    <2>8. QED
      BY <2>1, <2>2, <2>3, <2>7, OneSteps
  <1>2. CASE Webhook(s)
    <2>1. PICK i \in Created : Receive(s, "webhook", <<Fetched(i)>>)
      BY <1>2 DEF Webhook
    <2>2. <<Fetched(i)>> \in Seq(Payload)
      BY FetchedIsOne
    <2>3. \A j, k \in DOMAIN <<Fetched(i)>> : j = k
      OBVIOUS
    <2>4. QED
      BY <1>1, <2>1, <2>2, <2>3
  <1>3. CASE Bulk(s)
    <2> DEFINE all == SetToSeq(Created)
               payloads == [k \in DOMAIN all |-> Fetched(all[k])]
    <2>1. Receive(s, "bulk", payloads)
      BY <1>3 DEF Bulk
    <2>2. /\ all \in [1..Cardinality(Created) -> Created] /\ Cardinality(Created) \in Nat
          /\ \A k, n \in DOMAIN all : all[k] = all[n] => k = n
      BY CreatedInOrder
    <2> HIDE DEF all
    <2>3. \A k \in DOMAIN all : Fetched(all[k]) \in Payload /\ Fetched(all[k]).issue = all[k]
      BY <2>2, FetchedIsOne
    <2>4. payloads \in [1..Cardinality(Created) -> Payload]
      BY <2>2, <2>3
    <2>5. \A j, k \in DOMAIN payloads : payloads[j].issue = payloads[k].issue => j = k
      BY <2>2, <2>3
    <2> HIDE DEF payloads
    <2>6. payloads \in Seq(Payload)
      BY <2>2, <2>4
    <2>7. QED
      BY <1>1, <2>1, <2>5, <2>6
  <1>4. QED
    BY <1>2, <1>3

-----------------------------------------------------------------------------
(* A request goes on with its next payload. *)

LEMMA TailOf ==
  ASSUME NEW S, NEW q \in Seq(S), q # <<>>
  PROVE  /\ Len(q) \in Nat /\ 1 \in DOMAIN q /\ Head(q) = q[1]
         /\ Len(q) = 1 => Tail(q) = <<>>
         /\ Len(q) # 1 => 2 \in DOMAIN q /\ Tail(q) # <<>> /\ Head(Tail(q)) = q[2]
         /\ \A k \in DOMAIN Tail(q) : /\ k \in Nat \ {0} /\ k + 1 \in DOMAIN q
                                      /\ Tail(q)[k] = q[k + 1]
  <1>1. Len(q) \in Nat \ {0} /\ DOMAIN q = 1..Len(q) /\ Head(q) = q[1]
    OBVIOUS
  <1>2. /\ Len(Tail(q)) = Len(q) - 1 /\ Tail(q) \in Seq(S)
        /\ \A k \in 1..(Len(q) - 1) : Tail(q)[k] = q[k + 1]
    OBVIOUS
  <1>3. DOMAIN Tail(q) = 1..(Len(q) - 1)
    BY <1>2
  <1>4. \A k \in DOMAIN Tail(q) : k \in Nat \ {0} /\ k + 1 \in DOMAIN q /\ Tail(q)[k] = q[k + 1]
    BY <1>1, <1>2, <1>3
  <1>5. \A e \in Seq(S) : Len(e) = 0 <=> e = <<>>
    OBVIOUS
  <1>6. ASSUME Len(q) # 1 PROVE 2 \in DOMAIN q /\ Tail(q) # <<>> /\ Head(Tail(q)) = q[2]
    <2>1. Len(q) - 1 # 0 /\ 2 \in DOMAIN q
      BY <1>1, <1>6
    <2>2. Tail(q) # <<>>
      BY <1>2, <1>5, <2>1
    <2>3. 1 \in 1..(Len(q) - 1)
      BY <1>1, <1>6
    <2>4. Tail(q)[1] = q[2]
      BY <1>2, <2>3
    <2>5. Head(Tail(q)) = Tail(q)[1]
      BY <1>2, <2>2
    <2>6. QED
      BY <2>1, <2>2, <2>4, <2>5
  <1>7. Len(q) = 1 => Tail(q) = <<>>
    <2>1. Len(q) = 1 => Len(Tail(q)) = 0
      BY <1>1, <1>2
    <2>2. QED
      BY <1>2, <1>5, <2>1
  <1>8. QED
    BY <1>1, <1>4, <1>6, <1>7

(* What is known of the payload a request is at. *)
LEMMA AtIts ==
  ASSUME TypeInv, NEW s \in Slots, OneByOne(s), req[s].todo # <<>>
  PROVE  /\ About(s) \in Issues /\ (Working(s, About(s)) <=> req[s].at \in AtWork)
         /\ Reached(s, About(s)) = req[s].at
         /\ \A i \in Issues : i # About(s) => Reached(s, i) = "finish"
         /\ \A k \in DOMAIN req[s].todo : req[s].todo[k].issue = About(s) => k = 1
  <1>1. About(s) \in Issues /\ req[s].todo \in Seq(Payload)
    BY RequestFacts DEF Requests
  <1>2. 1 \in DOMAIN req[s].todo /\ Head(req[s].todo) = req[s].todo[1]
    BY <1>1, TailOf
  <1>3. QED
    BY <1>1, <1>2 DEF OneByOne, Reached, About, Current

LEMMA TurnedKeeps ==
  ASSUME TypeInv, NEW s \in Slots, SlotInv(s), req[s].todo # <<>>, NEW q,
         UNCHANGED <<row, batches, members>>, req'[s] = q,
         /\ q.todo = Tail(req[s].todo)
         /\ q.at = (IF Len(req[s].todo) = 1 THEN "finish" ELSE "check")
         /\ q.rows = req[s].rows /\ q.bare = req[s].bare /\ q.loose = req[s].loose
         /\ q.new = req[s].new /\ q.dead = req[s].dead /\ q.poisoned = req[s].poisoned
         /\ req[s].raised \subseteq q.raised /\ q.raised \subseteq req[s].raised \cup {About(s)},
         About(s) \in q.raised \/ req[s].at \notin AtWork \/ req[s].at \in {"sprints", "inserting"}
  PROVE  /\ OneByOne(s)' /\ ProgressOf(s)'
         /\ \A i : Working(s, i)' <=> Working(s, i)
         /\ \A i : Leaves(s, i)' = Leaves(s, i)
         /\ \A k \in DOMAIN req'[s].todo :
              /\ req'[s].todo[k].issue # About(s)
              /\ \E j \in DOMAIN req[s].todo : req'[s].todo[k] = req[s].todo[j]
         /\ \A b \in req'[s].new \cup req'[s].dead : Working(s, b.issue)'
         /\ req'[s].at \notin {"replacing", "reslicing"}
         /\ \A i \in req'[s].bare : row'[i] # Null
  <1>1. req[s].todo \in Seq(Payload) /\ OneByOne(s) /\ HoldsOwn(s) /\ ProgressOf(s)
    BY RequestFacts DEF Requests, SlotInv
  <1>2. /\ Len(req[s].todo) \in Nat /\ 1 \in DOMAIN req[s].todo
        /\ Head(req[s].todo) = req[s].todo[1]
        /\ Len(req[s].todo) = 1 => q.todo = <<>>
        /\ Len(req[s].todo) # 1 => 2 \in DOMAIN req[s].todo /\ q.todo # <<>>
                                   /\ Head(q.todo) = req[s].todo[2]
        /\ \A k \in DOMAIN q.todo : /\ k \in Nat \ {0} /\ k + 1 \in DOMAIN req[s].todo
                                    /\ q.todo[k] = req[s].todo[k + 1]
    BY <1>1, TailOf
  <1>3. /\ \A i : Working(s, i)' <=> Working(s, i)
        /\ \A i : Leaves(s, i)' = Leaves(s, i)
    BY DEF Working, Leaves
  <1>4. \A k \in DOMAIN q.todo : k + 1 # 1 /\ (\A j \in DOMAIN q.todo : k + 1 = j + 1 => k = j)
    BY <1>2
  <1>5. \A k \in DOMAIN q.todo : q.todo[k].issue # About(s) /\ ~Working(s, q.todo[k].issue)
    BY <1>1, <1>2, <1>4 DEF OneByOne, About, Current
  <1>6. q.at \notin AtWork /\ (q.at \in {"idle", "finish"} => q.todo = <<>>)
    BY <1>2 DEF AtWork
  <1>7. OneByOne(s)'
    <2>1. \A j, k \in DOMAIN q.todo : q.todo[j].issue = q.todo[k].issue => j = k
      BY <1>1, <1>2, <1>4 DEF OneByOne
    <2>2. \A k \in DOMAIN q.todo : q.todo[k].issue \notin q.raised /\ q.poisoned = Null
      <3>1. \A k \in DOMAIN q.todo :
              q.todo[k].issue \notin req[s].raised /\ req[s].poisoned = Null
        BY <1>1, <1>2 DEF OneByOne
      <3>2. QED
        BY <1>5, <3>1
    <2>3. QED
      BY <1>3, <1>5, <1>6, <2>1, <2>2 DEF OneByOne
  <1>8. ProgressOf(s)'
    <2>1. SUFFICES ASSUME NEW i \in Issues, Working(s, i), i \notin req[s].loose \cup q.raised,
                          req[s].poisoned = Null
                   PROVE  Progress(s, i)'
      BY <1>3 DEF ProgressOf
    <2>2. Progress(s, i)
      BY <1>1, <2>1 DEF ProgressOf
    <2>3. Reached(s, i)' = "finish"
      <3>1. CASE Len(req[s].todo) = 1
        BY <1>2, <3>1 DEF Reached
      <3>2. CASE Len(req[s].todo) # 1
        <4>1. 1 \in DOMAIN q.todo /\ Head(q.todo) = q.todo[1]
          <5>1. q.todo \in Seq(Payload) /\ q.todo # <<>>
            BY <1>1, <1>2, <3>2
          <5>2. QED
            BY <5>1, TailOf
        <4>2. ~Working(s, About(s)')
          BY <1>5, <4>1 DEF About, Current
        <4>3. About(s)' # i
          BY <2>1, <4>2
        <4>4. QED
          BY <4>3 DEF Reached
      <3>3. QED
        BY <3>1, <3>2
    <2>4. Reached(s, i) \in {"sprints", "inserting", "finish"}
      BY <1>1, <2>1, AtIts
    <2>5. /\ Leaves(s, i)' = Leaves(s, i)
          /\ Of(i, "transitions")' = Of(i, "transitions") /\ Of(i, "slices")' = Of(i, "slices")
          /\ Built(s, i, "transitions")' = Built(s, i, "transitions")
          /\ Built(s, i, "slices")' = Built(s, i, "slices")
      BY <1>3 DEF Of, Built
    <2>6. QED
      BY <2>2, <2>3, <2>4, <2>5 DEF Progress
  <1>9. QED
    BY <1>1, <1>2, <1>3, <1>5, <1>6, <1>7, <1>8 DEF HoldsOwn, AtWork

LEMMA TurnedOnly ==
  ASSUME TypeInv, NEW s \in Slots, SlotInv(s), req[s].todo # <<>>, NEW q,
         UNCHANGED <<row, batches, members>>, req'[s] = q,
         /\ q.todo = Tail(req[s].todo)
         /\ q.at = (IF Len(req[s].todo) = 1 THEN "finish" ELSE "check")
         /\ q.rows = req[s].rows /\ q.bare = req[s].bare /\ q.loose = req[s].loose
         /\ q.new = req[s].new /\ q.dead = req[s].dead /\ q.poisoned = req[s].poisoned
         /\ req[s].raised \subseteq q.raised /\ q.raised \subseteq req[s].raised \cup {About(s)}
         /\ q.joins = req[s].joins /\ q.leaves = req[s].leaves /\ q.stored = req[s].stored,
         About(s) \in q.raised \/ req[s].at \notin AtWork
  PROVE  SlotInv(s)'
  <1>1. /\ OneByOne(s)' /\ ProgressOf(s)'
        /\ \A i : Working(s, i)' <=> Working(s, i)
        /\ \A i : Leaves(s, i)' = Leaves(s, i)
        /\ \A k \in DOMAIN q.todo : \E j \in DOMAIN req[s].todo : q.todo[k] = req[s].todo[j]
        /\ \A b \in q.new \cup q.dead : Working(s, b.issue)'
        /\ \A i \in q.bare : row'[i] # Null
    BY TurnedKeeps
  <1>2. HoldsOwn(s) /\ WillStore(s)
    BY DEF SlotInv
  <1>3. HoldsOwn(s)'
    BY <1>1, <1>2 DEF HoldsOwn
  <1>4. WillStore(s)'
    BY <1>1, <1>2 DEF WillStore, Settled, SprintsLeft
  <1>5. QED
    BY <1>1, <1>3, <1>4 DEF SlotInv

LEMMA TurnedAndStored ==
  ASSUME TypeInv, NEW s \in Slots, SlotInv(s), req[s].todo # <<>>, NEW q,
         UNCHANGED <<row, batches, members>>, req'[s] = q,
         req[s].at \in {"sprints", "inserting"},
         /\ q.todo = Tail(req[s].todo)
         /\ q.at = (IF Len(req[s].todo) = 1 THEN "finish" ELSE "check")
         /\ q.rows = req[s].rows /\ q.bare = req[s].bare /\ q.loose = req[s].loose
         /\ q.new = req[s].new /\ q.dead = req[s].dead /\ q.poisoned = req[s].poisoned
         /\ q.raised = req[s].raised,
         NEW target, target = {<<About(s), x>> : x \in Version(s).sprints},
         Parses(About(s), Current(s).updated) =>
           /\ q.joins = req[s].joins \cup (target \ MembersOf(About(s)))
           /\ q.leaves = req[s].leaves \cup (MembersOf(About(s)) \ target),
         ~Parses(About(s), Current(s).updated) =>
           q.joins = req[s].joins /\ q.leaves = req[s].leaves,
         q.stored = req[s].stored \cup {Current(s)}
  PROVE  SlotInv(s)'
  <1>0. PICK i, p : i = About(s) /\ p = Current(s)
    OBVIOUS
  <1>1. /\ OneByOne(s)' /\ ProgressOf(s)'
        /\ \A c : Working(s, c)' <=> Working(s, c)
        /\ \A c : Leaves(s, c)' = Leaves(s, c)
        /\ \A k \in DOMAIN q.todo : /\ q.todo[k].issue # i
                                    /\ \E j \in DOMAIN req[s].todo : q.todo[k] = req[s].todo[j]
        /\ \A b \in q.new \cup q.dead : Working(s, b.issue)'
        /\ \A c \in q.bare : row'[c] # Null
    BY <1>0, TurnedKeeps
  <1>2. OneByOne(s) /\ HoldsOwn(s) /\ WillStore(s) /\ ProgressOf(s)
    BY DEF SlotInv
  <1>3. /\ i \in Issues /\ Working(s, i) /\ Reached(s, i) = req[s].at /\ p.issue = i
    BY <1>0, <1>2, AtIts DEF AtWork, About
  <1>4. /\ 1 \in DOMAIN req[s].todo /\ req[s].todo[1] = p
    <2>1. req[s].todo \in Seq(Payload)
      BY RequestFacts DEF Requests
    <2>2. QED
      BY <1>0, <2>1, TailOf DEF Current
  <1>5. /\ i \notin req[s].raised /\ req[s].poisoned = Null
        /\ \A c \in req[s].stored : c.issue # i
    BY <1>2, <1>3, <1>4 DEF OneByOne, HoldsOwn
  <1>6. i \notin req[s].loose => Leaves(s, i) = p.updated
    <2>1. i \notin req[s].loose => Progress(s, i)
      BY <1>2, <1>3, <1>5 DEF ProgressOf
    <2>2. QED
      BY <1>0, <1>3, <2>1 DEF Progress
  <1>7. \A m \in req[s].joins \cup req[s].leaves : m[1] # i
    BY <1>2, <1>5 DEF HoldsOwn
  <1>8. \A m \in target \cup MembersOf(i) : m[1] = i
    BY <1>0 DEF MembersOf
  <1>14. \A m \in q.joins \cup q.leaves : m \in req[s].joins \cup req[s].leaves \/ m[1] = i
    BY <1>0, <1>8
  <1>9. HoldsOwn(s)'
    <2>1. /\ \A m \in q.joins \cup q.leaves : \E c \in q.stored : c.issue = m[1]
      <3>1. \A m \in req[s].joins \cup req[s].leaves : \E c \in req[s].stored : c.issue = m[1]
        BY <1>2 DEF HoldsOwn
      <3>2. QED
        BY <1>0, <1>3, <1>14, <3>1
    <2>2. \A c \in q.stored :
            Working(s, c.issue)' /\ \A k \in DOMAIN q.todo : q.todo[k].issue # c.issue
      BY <1>0, <1>1, <1>2, <1>3 DEF HoldsOwn
    <2>3. q.at \notin {"replacing", "reslicing"}
      OBVIOUS
    <2>4. QED
      BY <1>1, <2>1, <2>2, <2>3 DEF HoldsOwn
  <1>10. \A c \in req[s].stored : Settled(s, c) => Settled(s, c)'
    <2>1. SUFFICES ASSUME NEW c, c.issue # i, Settled(s, c)
                   PROVE  Settled(s, c)'
      BY <1>5
    <2>2. {n \in (members \ q.leaves) \cup q.joins : n[1] = c.issue}
            = {n \in (members \ req[s].leaves) \cup req[s].joins : n[1] = c.issue}
      BY <1>0, <1>8, <2>1
    <2>3. SprintsLeft(s, c.issue)' = SprintsLeft(s, c.issue)
      BY <2>2 DEF SprintsLeft
    <2>4. QED
      BY <1>14, <2>1, <2>3 DEF Settled
  <1>11. ASSUME Parses(i, p.updated) PROVE SprintsLeft(s, i)' = Version(s).sprints
    <2>1. {n \in (members \ q.leaves) \cup q.joins : n[1] = i} = target
      <3>1. \A n \in target : n[1] = i
        BY <1>8
      <3>2. /\ MembersOf(i) = {m \in members : m[1] = i}
            /\ q.joins = req[s].joins \cup (target \ MembersOf(i))
            /\ q.leaves = req[s].leaves \cup (MembersOf(i) \ target)
        BY <1>0, <1>11 DEF MembersOf
      <3>3. ASSUME NEW n \in (members \ q.leaves) \cup q.joins, n[1] = i
            PROVE  n \in target
        BY <1>7, <3>2, <3>3
      <3>4. ASSUME NEW n \in target
            PROVE  n \in (members \ q.leaves) \cup q.joins
        BY <1>7, <3>1, <3>2, <3>4
      <3>5. QED
        BY <3>1, <3>3, <3>4
    <2>2. {m[2] : m \in target} = Version(s).sprints
      <3>1. PICK c, X : c = About(s) /\ X = Version(s).sprints
        OBVIOUS
      <3>2. target = {<<c, x>> : x \in X}
        BY <3>1
      <3>3. \A x \in X : <<c, x>> \in target /\ <<c, x>>[2] = x
        BY <3>2
      <3>4. \A m \in target : m[2] \in X
        BY <3>2
      <3>5. {m[2] : m \in target} = X
        <4>1. \A x \in X : \E m \in target : x = m[2]
          <5>1. SUFFICES ASSUME NEW x \in X PROVE \E m \in target : x = m[2]
            OBVIOUS
          <5>2. <<c, x>> \in target /\ x = <<c, x>>[2]
            BY <3>3
          <5>3. QED
            BY <5>2, Zenon
        <4>2. \A y : y \in {m[2] : m \in target} <=> \E m \in target : y = m[2]
          OBVIOUS
        <4>3. \A y : y \in {m[2] : m \in target} <=> y \in X
          BY <3>4, <4>1, <4>2
        <4>4. QED
          BY <4>3
      <3>6. QED
        BY <3>1, <3>5
    <2>3. QED
      BY <2>1, <2>2 DEF SprintsLeft
  <1>12. WillStore(s)'
    <2>1. SUFFICES ASSUME NEW c \in q.stored, c.issue \notin req[s].loose
                   PROVE  Leaves(s, c.issue)' = c.updated /\ Settled(s, c)'
      BY DEF WillStore
    <2>2. CASE c \in req[s].stored
      <3>1. Leaves(s, c.issue) = c.updated /\ Settled(s, c)
        BY <1>2, <2>1, <2>2 DEF WillStore
      <3>2. QED
        BY <1>1, <1>10, <2>2, <3>1
    <2>3. CASE c = p
      <3>1. Version(s).sprints = History[c.issue][c.updated].sprints /\ c.issue = i
        BY <1>0, <1>3, <2>3 DEF Version
      <3>2. Leaves(s, i)' = p.updated
        BY <1>1, <1>3, <1>6, <2>1, <2>3
      <3>3. ~Parses(i, p.updated) => \A m \in q.joins \cup q.leaves : m[1] # i
        BY <1>0, <1>7
      <3>4. Settled(s, c)'
        BY <1>11, <2>3, <3>1, <3>3 DEF Settled
      <3>5. QED
        BY <2>3, <3>1, <3>2, <3>4
    <2>4. QED
      BY <1>0, <2>1, <2>2, <2>3
  <1>13. QED
    BY <1>1, <1>9, <1>12 DEF SlotInv

(* A request goes on with the payload it is at. *)
LEMMA WorkGoesOn ==
  ASSUME TypeInv, NEW s \in Slots, SlotInv(s), req[s].todo # <<>>, NEW q \in Requests,
         UNCHANGED <<row, batches, members>>, req'[s] = q,
         /\ q.todo = req[s].todo /\ q.rows = req[s].rows /\ q.bare = req[s].bare
         /\ q.loose = req[s].loose /\ q.raised = req[s].raised /\ q.poisoned = req[s].poisoned
         /\ q.joins = req[s].joins /\ q.leaves = req[s].leaves /\ q.stored = req[s].stored,
         req[s].new \subseteq q.new, req[s].dead \subseteq q.dead,
         \A b \in q.new : b \in req[s].new \/ (b.issue = About(s) /\ req[s].at \in AtWork),
         \A b \in q.dead : b \in req[s].dead \/ (b.issue = About(s) /\ req[s].at \in AtWork),
         q.at \notin {"idle", "finish"}, q.at \in AtWork <=> req[s].at \in AtWork,
         q.at \in {"replacing", "reslicing"} => \A b \in q.snapshot : b.issue = About(s),
         \A i \in Issues :
           /\ i = About(s) /\ req[s].at \in AtWork /\ i \notin req[s].loose
           /\ Progress(s, i) /\ Reached(s, i) = req[s].at /\ Reached(s, i)' = q.at
           => Progress(s, i)'
  PROVE  SlotInv(s)'
  <1>1. /\ OneByOne(s) /\ HoldsOwn(s) /\ ProgressOf(s) /\ WillStore(s)
        /\ q.todo = req[s].todo /\ req[s] \in Requests
    BY RequestFacts DEF SlotInv
  <1>2. /\ About(s)' = About(s) /\ Current(s)' = Current(s)
        /\ \A i : Working(s, i)' <=> Working(s, i)
        /\ \A i : Leaves(s, i)' = Leaves(s, i)
        /\ \A i : SprintsLeft(s, i)' = SprintsLeft(s, i)
    BY DEF About, Current, Working, Leaves, SprintsLeft
  <1>3. OneByOne(s)'
    BY <1>1, <1>2 DEF OneByOne
  <1>4. HoldsOwn(s)'
    <2>1. \A b \in q.new \cup q.dead : Working(s, b.issue)
      BY <1>1, AtIts DEF HoldsOwn
    <2>2. \A p \in q.stored :
            Working(s, p.issue) /\ \A k \in DOMAIN q.todo : q.todo[k].issue # p.issue
      BY <1>1 DEF HoldsOwn
    <2>3. \A m \in q.joins \cup q.leaves : \E p \in q.stored : p.issue = m[1]
      BY <1>1 DEF HoldsOwn
    <2>4. \A i \in q.bare : row'[i] # Null
      BY <1>1 DEF HoldsOwn
    <2>5. QED
      BY <1>2, <2>1, <2>2, <2>3, <2>4 DEF HoldsOwn
  <1>5. ProgressOf(s)'
    <2>1. SUFFICES ASSUME NEW i \in Issues, Working(s, i), i \notin req[s].loose \cup req[s].raised,
                          req[s].poisoned = Null
                   PROVE  Progress(s, i)'
      BY <1>2 DEF ProgressOf
    <2>2. Progress(s, i)
      BY <1>1, <2>1 DEF ProgressOf
    <2>3. CASE i = About(s)
      <3>1. Reached(s, i) = req[s].at /\ Reached(s, i)' = q.at
        BY <1>1, <1>2, <2>3 DEF Reached
      <3>2. req[s].at \in AtWork
        BY <1>1, <2>1, <2>3, AtIts
      <3>3. QED
        BY <2>1, <2>2, <2>3, <3>1, <3>2
    <2>4. CASE i # About(s)
      <3>1. Reached(s, i) = "finish" /\ Reached(s, i)' = "finish"
        BY <1>1, <1>2, <2>4 DEF Reached
      <3>2. /\ Built(s, i, "transitions")' = Built(s, i, "transitions")
            /\ Built(s, i, "slices")' = Built(s, i, "slices")
            /\ Of(i, "transitions")' = Of(i, "transitions") /\ Of(i, "slices")' = Of(i, "slices")
        BY <2>4 DEF Built, Of
      <3>3. QED
        BY <1>2, <2>2, <3>1, <3>2 DEF Progress
    <2>5. QED
      BY <2>3, <2>4
  <1>6. WillStore(s)'
    BY <1>1, <1>2 DEF WillStore, Settled
  <1>7. QED
    BY <1>3, <1>4, <1>5, <1>6 DEF SlotInv

(* A request whose transaction is lost. *)
LEMMA PoisonedKeeps ==
  ASSUME TypeInv, IngestInv, NEW s \in Slots, NEW cause \in Causes, NEW r \in Requests, Whole(r),
         /\ r.rows = req[s].rows /\ r.bare = req[s].bare /\ r.loose = req[s].loose
         /\ r.wrote = req[s].wrote
         /\ r.new = req[s].new /\ r.dead = req[s].dead
         /\ r.joins = req[s].joins /\ r.leaves = req[s].leaves /\ r.stored = req[s].stored,
         Proceeds(s, Poisoned(r, cause))
  PROVE  IngestInv'
  <1> DEFINE q == Poisoned(r, cause)
  <1>1. /\ q \in Requests
        /\ q.at = "finish" /\ q.todo = <<>> /\ q.poisoned = cause
        /\ q.rows = req[s].rows /\ q.bare = req[s].bare /\ q.loose = req[s].loose
        /\ q.wrote = req[s].wrote
        /\ q.new = req[s].new /\ q.dead = req[s].dead
        /\ q.joins = req[s].joins /\ q.leaves = req[s].leaves /\ q.stored = req[s].stored
    <2>1. q \in Requests
      BY PoisonedTypes
    <2>2. q.at = "finish" /\ q.todo = <<>> /\ q.poisoned = cause
      BY DEF Poisoned, Requests
    <2>3. /\ q.rows = r.rows /\ q.bare = r.bare /\ q.loose = r.loose /\ q.wrote = r.wrote
          /\ q.new = r.new /\ q.dead = r.dead
      BY DEF Poisoned, Requests
    <2>4. q.joins = r.joins /\ q.leaves = r.leaves /\ q.stored = r.stored
      BY DEF Poisoned, Requests
    <2> HIDE DEF q
    <2>5. QED
      BY <2>1, <2>2, <2>3, <2>4
  <1>2. req' = [req EXCEPT ![s] = q] /\ UNCHANGED <<row, batches, members>>
    BY DEF Proceeds, tables
  <1> HIDE DEF q
  <1>3. req'[s] = q
    BY <1>2 DEF TypeInv, TypeOK
  <1>4. SlotInv(s)'
    <2>1. DOMAIN q.todo = {}
      BY <1>1
    <2>2. /\ \A i : Working(s, i)' <=> Working(s, i)
          /\ \A i : Leaves(s, i)' = Leaves(s, i)
          /\ \A i : SprintsLeft(s, i)' = SprintsLeft(s, i)
      BY <1>1, <1>2, <1>3 DEF Working, Leaves, SprintsLeft
    <2>3. HoldsOwn(s) /\ WillStore(s)
      BY DEF IngestInv, SlotInv
    <2>4. OneByOne(s)'
      BY <1>1, <1>3, <2>1 DEF OneByOne
    <2>5. HoldsOwn(s)'
      BY <1>1, <1>2, <1>3, <2>1, <2>2, <2>3 DEF HoldsOwn
    <2>6. cause # Null
      BY FactsOfConstants
    <2>7. ProgressOf(s)'
      BY <1>1, <1>3, <2>6 DEF ProgressOf
    <2>8. WillStore(s)'
      BY <1>1, <1>3, <2>2, <2>3 DEF WillStore, Settled
    <2>9. QED
      BY <2>4, <2>5, <2>7, <2>8 DEF SlotInv
  <1>5. QED
    BY <1>1, <1>2, <1>4, OneSteps

LEMMA TurnedFacts ==
  ASSUME NEW r \in Requests
  PROVE  /\ Turned(r).todo = Tail(r.todo)
         /\ Turned(r).at = (IF Len(r.todo) = 1 THEN "finish" ELSE "check")
         /\ Turned(r).rows = r.rows /\ Turned(r).bare = r.bare /\ Turned(r).loose = r.loose
         /\ Turned(r).wrote = r.wrote /\ Turned(r).raised = r.raised
         /\ Turned(r).new = r.new /\ Turned(r).dead = r.dead /\ Turned(r).poisoned = r.poisoned
         /\ Turned(r).joins = r.joins /\ Turned(r).leaves = r.leaves /\ Turned(r).stored = r.stored
  <1>1. /\ Turned(r).todo = Tail(r.todo)
        /\ Turned(r).at = (IF Len(r.todo) = 1 THEN "finish" ELSE "check")
    BY DEF Turned, Requests
  <1>2. /\ Turned(r).rows = r.rows /\ Turned(r).bare = r.bare /\ Turned(r).loose = r.loose
        /\ Turned(r).wrote = r.wrote /\ Turned(r).raised = r.raised
    BY DEF Turned, Requests
  <1>3. /\ Turned(r).new = r.new /\ Turned(r).dead = r.dead /\ Turned(r).poisoned = r.poisoned
        /\ Turned(r).joins = r.joins /\ Turned(r).leaves = r.leaves /\ Turned(r).stored = r.stored
    BY DEF Turned, Requests
  <1>4. QED
    BY <1>1, <1>2, <1>3

LEMMA ProceedsIs ==
  ASSUME TypeInv, NEW s \in Slots, NEW q, Proceeds(s, q)
  PROVE  /\ req' = [req EXCEPT ![s] = q] /\ req'[s] = q
         /\ UNCHANGED <<row, batches, members>>
         /\ UNCHANGED <<eraser, fresh, raised, loose>>
  BY DEF Proceeds, TypeInv, TypeOK, world, tables

LEMMA CheckIngests ==
  ASSUME TypeInv, IngestInv, NEW s \in Slots, Check(s) \/ Load(s)
  PROVE  IngestInv'
  <1> DEFINE r == req[s]
  <1>1. r.at \in {"check", "load"} /\ r \in Requests /\ Whole(r) /\ r.todo # <<>> /\ SlotInv(s)
        /\ r.at \notin AtWork
    <2>1. r.at \in {"check", "load"}
      BY DEF Check, Load
    <2>2. QED
      BY <2>1, RequestFacts DEF Whole, IngestInv, AtWork
  <1>2. CASE Proceeds(s, Turned(r))
    <2> DEFINE q == Turned(r)
    <2>1. q \in Requests
      BY <1>1, TurnedTypes
    <2>2. /\ q.todo = Tail(r.todo)
          /\ q.at = (IF Len(r.todo) = 1 THEN "finish" ELSE "check")
          /\ q.rows = r.rows /\ q.bare = r.bare /\ q.loose = r.loose
          /\ q.wrote = r.wrote /\ q.raised = r.raised
          /\ q.new = r.new /\ q.dead = r.dead /\ q.poisoned = r.poisoned
          /\ q.joins = r.joins /\ q.leaves = r.leaves /\ q.stored = r.stored
      BY <1>1, TurnedFacts
    <2> HIDE DEF q
    <2>3. /\ req' = [req EXCEPT ![s] = q] /\ req'[s] = q
          /\ UNCHANGED <<row, batches, members>>
      BY <1>2, ProceedsIs DEF q
    <2>4. SlotInv(s)'
      BY <1>1, <2>2, <2>3, TurnedOnly
    <2>5. QED
      BY <2>1, <2>2, <2>3, <2>4, OneSteps
  <1>3. ASSUME NEW loaded \in Rows \cup {Null}, NEW at \in {"load", "upsert"},
               Proceeds(s, [r EXCEPT !.loaded = loaded, !.at = at])
        PROVE  IngestInv'
    <2> DEFINE q == [r EXCEPT !.loaded = loaded, !.at = at]
    <2>1. q \in Requests
      <3>1. at \in Steps
        BY DEF Steps
      <3>2. QED
        BY <1>1, <3>1 DEF Requests
    <2>2. /\ q.todo = r.todo /\ q.at = at
          /\ q.rows = r.rows /\ q.bare = r.bare /\ q.loose = r.loose
          /\ q.wrote = r.wrote /\ q.raised = r.raised
          /\ q.new = r.new /\ q.dead = r.dead /\ q.poisoned = r.poisoned
          /\ q.joins = r.joins /\ q.leaves = r.leaves /\ q.stored = r.stored
      BY <1>1 DEF Requests
    <2> HIDE DEF q
    <2>3. /\ req' = [req EXCEPT ![s] = q] /\ req'[s] = q
          /\ UNCHANGED <<row, batches, members>>
      BY <1>3, ProceedsIs DEF q
    <2>4. q.at \notin AtWork /\ q.at \notin {"idle", "finish", "replacing", "reslicing"}
      BY <2>2 DEF AtWork
    <2>5. ASSUME NEW i \in Issues, i = About(s), r.at \in AtWork
          PROVE  Progress(s, i)'
      BY <1>1, <2>5
    <2>6. /\ r.new \subseteq q.new /\ r.dead \subseteq q.dead
          /\ \A b \in q.new : b \in r.new \/ (b.issue = About(s) /\ r.at \in AtWork)
          /\ \A b \in q.dead : b \in r.dead \/ (b.issue = About(s) /\ r.at \in AtWork)
      BY <2>2
    <2>7. SlotInv(s)'
      BY <1>1, <2>1, <2>2, <2>3, <2>4, <2>5, <2>6, WorkGoesOn
    <2>8. QED
      BY <2>1, <2>2, <2>3, <2>7, OneSteps
  <1>4. row[About(s)] \in Rows \cup {Null}
    BY <1>1, RequestFacts
  <1>5. CASE Load(s)
    BY <1>3, <1>4, <1>5 DEF Load
  <1>6. CASE Check(s)
    <2> DEFINE at == IF row[About(s)] = Null THEN "load" ELSE "upsert"
    <2>1. at \in {"load", "upsert"}
      OBVIOUS
    <2>2. Proceeds(s, Turned(r)) \/ Proceeds(s, [r EXCEPT !.loaded = row[About(s)], !.at = at])
      BY <1>6 DEF Check
    <2> HIDE DEF at
    <2>3. QED
      BY <1>2, <1>3, <1>4, <2>1, <2>2
  <1>7. QED
    BY <1>5, <1>6

LEMMA RaiseIngests ==
  ASSUME TypeInv, IngestInv, NEW s \in Slots, Raise(s)
  PROVE  IngestInv'
  <1> DEFINE r == req[s]
             q == [Turned(r) EXCEPT !.errors = TRUE, !.raised = @ \cup {About(s)}]
  <1>1. r.at = "slices" /\ r \in Requests /\ Whole(r) /\ r.todo # <<>> /\ SlotInv(s)
    <2>1. r.at = "slices"
      BY DEF Raise
    <2>2. QED
      BY <2>1, RequestFacts DEF Whole, IngestInv
  <1>2. Turned(r) \in Requests /\ About(s) \in Issues
    BY <1>1, TurnedTypes, RequestFacts
  <1>3. q \in Requests
    BY <1>2 DEF Requests
  <1>4. /\ q.todo = Turned(r).todo /\ q.at = Turned(r).at
        /\ q.rows = Turned(r).rows /\ q.bare = Turned(r).bare /\ q.loose = Turned(r).loose
        /\ q.wrote = Turned(r).wrote /\ q.raised = Turned(r).raised \cup {About(s)}
        /\ q.new = Turned(r).new /\ q.dead = Turned(r).dead /\ q.poisoned = Turned(r).poisoned
        /\ q.joins = Turned(r).joins /\ q.leaves = Turned(r).leaves /\ q.stored = Turned(r).stored
    BY <1>2 DEF Requests
  <1>5. /\ req' = [req EXCEPT ![s] = q] /\ req'[s] = q
        /\ UNCHANGED <<row, batches, members>>
    BY ProceedsIs DEF Raise
  <1> HIDE DEF q
  <1>6. /\ q.todo = Tail(r.todo)
        /\ q.at = (IF Len(r.todo) = 1 THEN "finish" ELSE "check")
        /\ q.rows = r.rows /\ q.bare = r.bare /\ q.loose = r.loose
        /\ q.wrote = r.wrote /\ q.raised = r.raised \cup {About(s)}
        /\ q.new = r.new /\ q.dead = r.dead /\ q.poisoned = r.poisoned
        /\ q.joins = r.joins /\ q.leaves = r.leaves /\ q.stored = r.stored
    BY <1>1, <1>4, TurnedFacts
  <1>7. SlotInv(s)'
    BY <1>1, <1>5, <1>6, TurnedOnly
  <1>8. QED
    BY <1>3, <1>5, <1>6, <1>7, OneSteps

LEMMA BeginDeleteIngests ==
  ASSUME TypeInv, IngestInv, NEW s \in Slots, BeginTransitions(s) \/ BeginSlices(s)
  PROVE  IngestInv'
  <1> DEFINE r == req[s]
  <1>1. PICK table, at, i :
             /\ i = About(s) /\ Proceeds(s, [r EXCEPT !.snapshot = Of(i, table), !.at = at])
             /\ \/ r.at = "transitions" /\ table = "transitions" /\ at = "replacing"
                \/ r.at = "slices" /\ table = "slices" /\ at = "reslicing"
    BY DEF BeginTransitions, BeginSlices, BeginDelete
  <1> DEFINE seen == Of(i, table)
             q == [r EXCEPT !.snapshot = seen, !.at = at]
  <1>2. r \in Requests /\ r.todo # <<>> /\ SlotInv(s)
    BY <1>1, RequestFacts DEF Whole, IngestInv
  <1>3. seen \in SUBSET Batch /\ (\A b \in seen : b.issue = i)
        /\ at \in Steps /\ at \in AtWork /\ r.at \in AtWork
    BY <1>1 DEF Of, TypeInv, TypeOK, Steps, AtWork
  <1>4. /\ req' = [req EXCEPT ![s] = q] /\ req'[s] = q
        /\ UNCHANGED <<row, batches, members>>
    BY <1>1, ProceedsIs
  <1>5. Of(i, "transitions")' = Of(i, "transitions") /\ Of(i, "slices")' = Of(i, "slices")
    BY <1>4 DEF Of
  <1> HIDE DEF seen
  <1>6. q \in Requests
    BY <1>2, <1>3 DEF Requests
  <1>7. /\ q.todo = r.todo /\ q.at = at /\ q.snapshot = seen
        /\ q.rows = r.rows /\ q.bare = r.bare /\ q.loose = r.loose
        /\ q.wrote = r.wrote /\ q.raised = r.raised
        /\ q.new = r.new /\ q.dead = r.dead /\ q.poisoned = r.poisoned
        /\ q.joins = r.joins /\ q.leaves = r.leaves /\ q.stored = r.stored
    BY <1>2 DEF Requests
  <1> HIDE DEF q
  <1>8. /\ Leaves(s, i)' = Leaves(s, i) /\ Current(s)' = Current(s)
        /\ Built(s, i, "transitions")' = Built(s, i, "transitions")
        /\ Built(s, i, "slices")' = Built(s, i, "slices")
    BY <1>4, <1>7 DEF Leaves, Current, Built
  <1>9. ASSUME NEW c \in Issues, c = About(s), Progress(s, c),
               Reached(s, c) = r.at, Reached(s, c)' = q.at
        PROVE  Progress(s, c)'
    <2>1. c = i
      BY <1>1, <1>9
    <2>2. CASE r.at = "transitions"
      BY <1>1, <1>4, <1>5, <1>7, <1>8, <1>9, <2>1, <2>2 DEF Progress, seen
    <2>3. CASE r.at = "slices"
      BY <1>1, <1>4, <1>5, <1>7, <1>8, <1>9, <2>1, <2>3 DEF Progress, seen
    <2>4. QED
      BY <1>1, <2>2, <2>3
  <1>10. q.at \notin {"idle", "finish"} /\ q.at \in AtWork /\ \A b \in q.snapshot : b.issue = About(s)
    BY <1>1, <1>3, <1>7
  <1>11. SlotInv(s)'
    BY <1>2, <1>3, <1>4, <1>6, <1>7, <1>9, <1>10, WorkGoesOn
  <1>12. QED
    BY <1>4, <1>6, <1>7, <1>11, OneSteps

(* The DELETE of an issue's batches takes what it saw of them, and that is *)
(* of the issue.                                                            *)
LEMMA DeletedAreIts ==
  ASSUME TypeInv, NEW s \in Slots, HoldsOwn(s), req[s].at \in {"replacing", "reslicing"}
  PROVE  /\ req[s].dead \subseteq Deleted(s)
         /\ \A b \in Deleted(s) : b \in req[s].dead \/ b.issue = About(s)
         /\ \A i, table : Of(i, table) \subseteq req[s].snapshot => Of(i, table) \subseteq Deleted(s)
         /\ \A i, table : Of(i, table) \subseteq req[s].dead => Of(i, table) \subseteq Deleted(s)
  BY DEF Deleted, HoldsOwn, Of

LEMMA ReplaceTransitionsIngests ==
  ASSUME TypeInv, IngestInv, NEW s \in Slots, ReplaceTransitions(s)
  PROVE  IngestInv'
  <1> DEFINE r == req[s]
             built == [issue |-> About(s), table |-> "transitions", updated |-> 0,
                       moves |-> Version(s).moves, tag |-> Unused]
             made == IF built.moves = 0 THEN r.new ELSE r.new \cup {built}
             gone == Deleted(s)
             q == [r EXCEPT !.dead = gone, !.snapshot = {}, !.at = "slices", !.new = made]
             e == [r EXCEPT !.errors = TRUE]
  <1>1. /\ r.at = "replacing"
        /\ Proceeds(s, Poisoned(e, "transitions")) \/ Proceeds(s, q)
    BY DEF ReplaceTransitions
  <1>2. r \in Requests /\ Whole(r) /\ r.todo # <<>> /\ SlotInv(s)
    BY <1>1, RequestFacts DEF Whole, IngestInv
  <1>3. CASE Proceeds(s, Poisoned(e, "transitions"))
    <2>1. e \in Requests
      BY <1>2 DEF Requests
    <2>2. /\ e.at = r.at /\ e.todo = r.todo /\ e.loaded = r.loaded
          /\ e.new = r.new /\ e.snapshot = r.snapshot
      BY <1>2 DEF Requests
    <2>3. /\ e.rows = r.rows /\ e.bare = r.bare /\ e.loose = r.loose /\ e.wrote = r.wrote
          /\ e.dead = r.dead /\ e.joins = r.joins /\ e.leaves = r.leaves /\ e.stored = r.stored
      BY <1>2 DEF Requests
    <2> HIDE DEF e
    <2>4. Whole(e) /\ "transitions" \in Causes
      BY <1>2, <2>2 DEF Whole, Causes
    <2>5. QED
      BY <1>3, <2>1, <2>2, <2>3, <2>4, PoisonedKeeps
  <1>4. CASE Proceeds(s, q)
    <2>1. PICK i, n : i = About(s) /\ n = Version(s).moves
      OBVIOUS
    <2>2. built \in Batch /\ built.issue = i /\ built.table = "transitions" /\ built.moves = n
      BY <1>2, <2>1, RequestFacts, UnusedIsNat DEF Batch, Tables
    <2>3. made = IF n = 0 THEN r.new ELSE r.new \cup {built}
      BY <2>2
    <2>4. /\ gone \in SUBSET Batch /\ r.dead \subseteq gone
          /\ \A b \in gone : b \in r.dead \/ b.issue = i
          /\ Of(i, "transitions") \subseteq r.snapshot => Of(i, "transitions") \subseteq gone
      BY <1>1, <1>2, <2>1, DeletedAreIts, DeletedIsOne DEF SlotInv
    <2>5. made \in SUBSET Batch /\ "slices" \in Steps
      <3>1. r.new \in SUBSET Batch
        BY <1>2 DEF Requests
      <3> HIDE DEF built, made
      <3>2. QED
        BY <2>2, <2>3, <3>1 DEF Steps
    <2> HIDE DEF built, made, gone
    <2> DEFINE r1 == [r EXCEPT !.dead = gone, !.snapshot = {}]
    <2>6. r1 \in Requests /\ q = [r1 EXCEPT !.at = "slices", !.new = made]
      BY <1>2, <2>4 DEF Requests
    <2>7. /\ r1.todo = r.todo /\ r1.dead = gone /\ r1.snapshot = {}
          /\ r1.rows = r.rows /\ r1.bare = r.bare /\ r1.loose = r.loose
          /\ r1.wrote = r.wrote /\ r1.raised = r.raised /\ r1.poisoned = r.poisoned
          /\ r1.joins = r.joins /\ r1.leaves = r.leaves /\ r1.stored = r.stored
      BY <1>2 DEF Requests
    <2> HIDE DEF r1, q
    <2>8. q \in Requests
      BY <2>5, <2>6 DEF Requests
    <2>9. /\ q.todo = r1.todo /\ q.dead = r1.dead /\ q.new = made /\ q.at = "slices"
          /\ q.rows = r1.rows /\ q.bare = r1.bare /\ q.loose = r1.loose
          /\ q.wrote = r1.wrote /\ q.raised = r1.raised /\ q.poisoned = r1.poisoned
          /\ q.joins = r1.joins /\ q.leaves = r1.leaves /\ q.stored = r1.stored
      BY <2>6 DEF Requests
    <2>10. /\ q.todo = r.todo /\ q.dead = gone
           /\ q.rows = r.rows /\ q.bare = r.bare /\ q.loose = r.loose
           /\ q.wrote = r.wrote /\ q.raised = r.raised /\ q.poisoned = r.poisoned
           /\ q.joins = r.joins /\ q.leaves = r.leaves /\ q.stored = r.stored
      BY <2>7, <2>9
    <2>11. /\ req' = [req EXCEPT ![s] = q] /\ req'[s] = q
           /\ UNCHANGED <<row, batches, members>>
      BY <1>4, ProceedsIs
    <2>12. /\ Leaves(s, i)' = Leaves(s, i) /\ Current(s)' = Current(s)
           /\ Of(i, "transitions")' = Of(i, "transitions")
      BY <2>10, <2>11 DEF Leaves, Current, Of
    <2>13. ASSUME NEW c \in Issues, c = About(s), Progress(s, c),
                  Reached(s, c) = r.at, Reached(s, c)' = q.at
           PROVE  Progress(s, c)'
      <3>1. /\ Leaves(s, i) = Current(s).updated /\ Of(i, "transitions") \subseteq r.snapshot
            /\ Built(s, i, "transitions") = {} /\ Built(s, i, "slices") = {}
        BY <1>1, <2>1, <2>13 DEF Progress
      <3>2. Built(s, i, "transitions")' = IF n = 0 THEN {} ELSE {built}
        BY <2>2, <2>3, <2>9, <2>11, <3>1 DEF Built
      <3>3. Built(s, i, "slices")' = {}
        BY <2>2, <2>3, <2>9, <2>11, <3>1 DEF Built
      <3>4. {b.moves : b \in Built(s, i, "transitions")'} = {n} \ {0}
        BY <2>2, <3>2
      <3>5. History[i][Leaves(s, i)'].moves = n
        BY <2>1, <2>12, <3>1 DEF Version
      <3>6. Of(i, "transitions")' \subseteq q.dead
        BY <2>4, <2>10, <2>12, <3>1
      <3>7. c = i
        BY <2>1, <2>13
      <3>8. QED
        BY <2>9, <2>11, <2>12, <2>13, <3>1, <3>2, <3>3, <3>4, <3>5, <3>6, <3>7 DEF Progress
    <2>14. q.at \in AtWork /\ r.at \in AtWork /\ q.at \notin {"idle", "finish", "replacing", "reslicing"}
      BY <1>1, <2>9 DEF AtWork
    <2>15. /\ r.new \subseteq q.new /\ r.dead \subseteq q.dead
           /\ \A b \in q.new : b \in r.new \/ (b.issue = About(s) /\ r.at \in AtWork)
           /\ \A b \in q.dead : b \in r.dead \/ (b.issue = About(s) /\ r.at \in AtWork)
      BY <2>1, <2>2, <2>3, <2>4, <2>9, <2>10, <2>14
    <2>16. SlotInv(s)'
      BY <1>2, <2>8, <2>10, <2>11, <2>13, <2>14, <2>15, WorkGoesOn
    <2>17. QED
      BY <2>8, <2>10, <2>11, <2>16, OneSteps
  <1>5. QED
    BY <1>1, <1>3, <1>4

LEMMA ReplaceSlicesIngests ==
  ASSUME TypeInv, IngestInv, NEW s \in Slots, ReplaceSlices(s)
  PROVE  IngestInv'
  <1> DEFINE r == req[s]
             most == Max({b.moves : b \in Seen(s, "transitions")} \cup {0})
             built == [issue |-> About(s), table |-> "slices", updated |-> Current(s).updated,
                       moves |-> most, tag |-> Unused]
             made == r.new \cup {built}
             gone == Deleted(s)
             q == [r EXCEPT !.dead = gone, !.snapshot = {}, !.at = "sprints", !.new = made]
  <1>1. r.at = "reslicing" /\ Proceeds(s, q)
    BY DEF ReplaceSlices
  <1>2. r \in Requests /\ Whole(r) /\ r.todo # <<>> /\ SlotInv(s)
    BY <1>1, RequestFacts DEF Whole, IngestInv
  <1>3. PICK i, n, v : i = About(s) /\ n = Version(s).moves /\ v = Current(s).updated
    OBVIOUS
  <1>4. /\ most \in Nat
        /\ \A moves : moves = {b.moves : b \in Seen(s, "transitions")} =>
             most \in moves \cup {0} /\ \A m \in moves : m <= most
    BY MovesSeen
  <1> HIDE DEF most
  <1>5. /\ built \in Batch /\ built.issue = i /\ built.table = "slices"
        /\ built.moves = most /\ built.updated = v
    BY <1>2, <1>3, <1>4, RequestFacts, UnusedIsNat DEF Batch, Tables
  <1>6. /\ gone \in SUBSET Batch /\ r.dead \subseteq gone
        /\ \A b \in gone : b \in r.dead \/ b.issue = i
        /\ Of(i, "transitions") \subseteq r.dead => Of(i, "transitions") \subseteq gone
        /\ Of(i, "slices") \subseteq r.snapshot => Of(i, "slices") \subseteq gone
    BY <1>1, <1>2, <1>3, DeletedAreIts, DeletedIsOne DEF SlotInv
  <1>7. made \in SUBSET Batch /\ "sprints" \in Steps
    <2>1. r.new \in SUBSET Batch
      BY <1>2 DEF Requests
    <2> HIDE DEF built
    <2>2. QED
      BY <1>5, <2>1 DEF Steps
  <1>8. /\ built \in made /\ r.new \subseteq made /\ \A b \in made : b \in r.new \/ b = built
    OBVIOUS
  <1> HIDE DEF built, made, gone
  <1> DEFINE r1 == [r EXCEPT !.dead = gone, !.snapshot = {}]
  <1>9. r1 \in Requests /\ q = [r1 EXCEPT !.at = "sprints", !.new = made]
    BY <1>2, <1>6 DEF Requests
  <1>10. /\ r1.todo = r.todo /\ r1.dead = gone
         /\ r1.rows = r.rows /\ r1.bare = r.bare /\ r1.loose = r.loose
         /\ r1.wrote = r.wrote /\ r1.raised = r.raised /\ r1.poisoned = r.poisoned
         /\ r1.joins = r.joins /\ r1.leaves = r.leaves /\ r1.stored = r.stored
    BY <1>2 DEF Requests
  <1> HIDE DEF r1, q
  <1>11. q \in Requests
    BY <1>7, <1>9 DEF Requests
  <1>12. /\ q.todo = r1.todo /\ q.dead = r1.dead /\ q.new = made /\ q.at = "sprints"
         /\ q.rows = r1.rows /\ q.bare = r1.bare /\ q.loose = r1.loose
         /\ q.wrote = r1.wrote /\ q.raised = r1.raised /\ q.poisoned = r1.poisoned
         /\ q.joins = r1.joins /\ q.leaves = r1.leaves /\ q.stored = r1.stored
    BY <1>9 DEF Requests
  <1>13. /\ q.todo = r.todo /\ q.dead = gone
         /\ q.rows = r.rows /\ q.bare = r.bare /\ q.loose = r.loose
         /\ q.wrote = r.wrote /\ q.raised = r.raised /\ q.poisoned = r.poisoned
         /\ q.joins = r.joins /\ q.leaves = r.leaves /\ q.stored = r.stored
    BY <1>10, <1>12
  <1>14. /\ req' = [req EXCEPT ![s] = q] /\ req'[s] = q
         /\ UNCHANGED <<row, batches, members>>
    BY <1>1, ProceedsIs
  <1>15. /\ Leaves(s, i)' = Leaves(s, i) /\ Current(s)' = Current(s)
         /\ Of(i, "transitions")' = Of(i, "transitions") /\ Of(i, "slices")' = Of(i, "slices")
    BY <1>13, <1>14 DEF Leaves, Current, Of
  <1>16. ASSUME NEW c \in Issues, c = About(s), Progress(s, c),
                Reached(s, c) = r.at, Reached(s, c)' = q.at
         PROVE  Progress(s, c)'
    <2>1. /\ Leaves(s, i) = v /\ Of(i, "slices") \subseteq r.snapshot
          /\ Of(i, "transitions") \subseteq r.dead
          /\ \A b, d \in Built(s, i, "transitions") : b = d
          /\ Built(s, i, "slices") = {}
      BY <1>1, <1>3, <1>16 DEF Progress
    <2>2. {b.moves : b \in Built(s, i, "transitions")} = {n} \ {0} /\ History[i][v].moves = n
      BY <1>1, <1>3, <1>16, <2>1 DEF Progress, Version
    <2>3. Seen(s, "transitions") = Built(s, i, "transitions")
      BY <1>3, <2>1 DEF Seen, Built
    <2>4. most = n
      <3>1. most \in ({n} \ {0}) \cup {0} /\ \A m \in {n} \ {0} : m <= most
        BY <1>4, <2>2, <2>3
      <3>2. n \in Nat
        BY <1>2, <1>3, RequestFacts
      <3>3. QED
        BY <3>1, <3>2
    <2>5. Built(s, i, "slices")' = {built}
      BY <1>5, <1>8, <1>12, <1>14, <2>1 DEF Built
    <2>6. Built(s, i, "transitions")' = Built(s, i, "transitions")
      BY <1>5, <1>8, <1>12, <1>14 DEF Built
    <2>7. c = i
      BY <1>3, <1>16
    <2>8. Of(i, "transitions")' \subseteq q.dead /\ Of(i, "slices")' \subseteq q.dead
      BY <1>6, <1>13, <1>15, <2>1
    <2>9. /\ \A b, d \in Built(s, i, "transitions")' : b = d
          /\ {b.moves : b \in Built(s, i, "transitions")'} = {n} \ {0}
          /\ \E b \in Built(s, i, "slices")' :
               Built(s, i, "slices")' = {b} /\ b.updated = v /\ b.moves = n
      BY <1>5, <2>1, <2>2, <2>4, <2>5, <2>6
    <2>10. Leaves(s, i)' = v /\ Current(s)'.updated = v
      BY <1>3, <1>15, <2>1
    <2>11. Reached(s, c)' = "sprints"
      BY <1>12, <1>16
    <2>12. QED
      BY <1>14, <2>2, <2>7, <2>8, <2>9, <2>10, <2>11 DEF Progress
  <1>17. q.at \in AtWork /\ r.at \in AtWork /\ q.at \notin {"idle", "finish", "replacing", "reslicing"}
    BY <1>1, <1>12 DEF AtWork
  <1>18. /\ r.new \subseteq q.new /\ r.dead \subseteq q.dead
         /\ \A b \in q.new : b \in r.new \/ (b.issue = About(s) /\ r.at \in AtWork)
         /\ \A b \in q.dead : b \in r.dead \/ (b.issue = About(s) /\ r.at \in AtWork)
    BY <1>3, <1>5, <1>6, <1>8, <1>12, <1>13, <1>17
  <1>19. SlotInv(s)'
    BY <1>2, <1>11, <1>13, <1>14, <1>16, <1>17, <1>18, WorkGoesOn
  <1>20. QED
    BY <1>11, <1>13, <1>14, <1>19, OneSteps

(* set_issue_sprints, of a request that is at its payload. *)
LEMMA JoinedStores ==
  ASSUME TypeInv, IngestInv, NEW s \in Slots, req[s].todo # <<>>,
         req[s].at \in {"sprints", "inserting"}, NEW r \in Requests, Whole(r),
         /\ r.todo = req[s].todo
         /\ r.rows = req[s].rows /\ r.bare = req[s].bare /\ r.loose = req[s].loose
         /\ r.wrote = req[s].wrote /\ r.raised = req[s].raised
         /\ r.new = req[s].new /\ r.dead = req[s].dead /\ r.poisoned = req[s].poisoned
         /\ r.joins = req[s].joins /\ r.leaves = req[s].leaves /\ r.stored = req[s].stored,
         Proceeds(s, Turned(Joined(r, s)))
  PROVE  IngestInv'
  <1> DEFINE j == Joined(r, s)
             q == Turned(j)
             target == {<<About(s), x>> : x \in Version(s).sprints}
  <1>1. j \in Requests /\ Whole(j) /\ j.todo = r.todo
    BY JoinedTypes
  <1>2. /\ j.rows = r.rows /\ j.bare = r.bare /\ j.loose = r.loose
        /\ j.wrote = r.wrote /\ j.raised = r.raised
        /\ j.new = r.new /\ j.dead = r.dead /\ j.poisoned = r.poisoned
    BY DEF Joined, Processed, Requests
  <1>3. /\ Parses(About(s), Current(s).updated) =>
             /\ j.joins = r.joins \cup (target \ MembersOf(About(s)))
             /\ j.leaves = r.leaves \cup (MembersOf(About(s)) \ target)
        /\ ~Parses(About(s), Current(s).updated) => j.joins = r.joins /\ j.leaves = r.leaves
        /\ j.stored = r.stored \cup {Current(s)}
    BY DEF Joined, Processed, Requests
  <1> HIDE DEF j
  <1>4. q \in Requests
    BY <1>1, TurnedTypes
  <1>5. /\ q.todo = Tail(j.todo)
        /\ q.at = (IF Len(j.todo) = 1 THEN "finish" ELSE "check")
        /\ q.rows = j.rows /\ q.bare = j.bare /\ q.loose = j.loose
        /\ q.wrote = j.wrote /\ q.raised = j.raised
        /\ q.new = j.new /\ q.dead = j.dead /\ q.poisoned = j.poisoned
        /\ q.joins = j.joins /\ q.leaves = j.leaves /\ q.stored = j.stored
    BY <1>1, TurnedFacts
  <1>6. /\ req' = [req EXCEPT ![s] = q] /\ req'[s] = q
        /\ UNCHANGED <<row, batches, members>>
    BY ProceedsIs DEF j
  <1>7. PICK T : T = target
    OBVIOUS
  <1> HIDE DEF q
  <1>8. /\ q.todo = Tail(req[s].todo)
        /\ q.at = (IF Len(req[s].todo) = 1 THEN "finish" ELSE "check")
        /\ q.rows = req[s].rows /\ q.bare = req[s].bare /\ q.loose = req[s].loose
        /\ q.wrote = req[s].wrote /\ q.raised = req[s].raised
        /\ q.new = req[s].new /\ q.dead = req[s].dead /\ q.poisoned = req[s].poisoned
    BY <1>1, <1>2, <1>5
  <1>9. /\ Parses(About(s), Current(s).updated) =>
             /\ q.joins = req[s].joins \cup (T \ MembersOf(About(s)))
             /\ q.leaves = req[s].leaves \cup (MembersOf(About(s)) \ T)
        /\ ~Parses(About(s), Current(s).updated) =>
             q.joins = req[s].joins /\ q.leaves = req[s].leaves
        /\ q.stored = req[s].stored \cup {Current(s)}
    BY <1>3, <1>5, <1>7
  <1>10. SlotInv(s)'
    BY <1>6, <1>7, <1>8, <1>9, TurnedAndStored DEF IngestInv
  <1>11. QED
    BY <1>4, <1>6, <1>8, <1>10, OneSteps

LEMMA FindSprintsIngests ==
  ASSUME TypeInv, IngestInv, NEW s \in Slots, FindSprints(s)
  PROVE  IngestInv'
  <1> DEFINE r == req[s]
             missing == {x \in Version(s).parsed : Known(s, x) = Null}
             changed == {x \in Version(s).parsed \ missing : Known(s, x) # StateOf(s, x)}
             dirty == [x \in SprintIds |-> IF x \in changed THEN StateOf(s, x) ELSE r.dirty[x]]
             found == [r EXCEPT !.dirty = dirty]
             q == [found EXCEPT !.absent = missing, !.at = "inserting"]
  <1>1. r.at = "sprints" /\ (Proceeds(s, Turned(Joined(found, s))) \/ Proceeds(s, q))
    BY DEF FindSprints
  <1>2. r \in Requests /\ Whole(r) /\ r.todo # <<>> /\ Version(s).parsed \subseteq SprintIds
    <2>1. r \in Requests /\ Whole(r) /\ r.todo # <<>>
      BY <1>1, RequestFacts DEF Whole
    <2>2. QED
      BY <2>1, RequestFacts
  <1>3. dirty \in [SprintIds -> States \cup {Null}]
    <2>1. r.dirty \in [SprintIds -> States \cup {Null}]
      BY <1>2 DEF Requests
    <2>2. QED
      BY <2>1, StateOfIsOne
  <1>4. missing \in SUBSET SprintIds /\ "inserting" \in Steps
    BY <1>2 DEF Steps
  <1> HIDE DEF dirty, missing
  <1>5. found \in Requests /\ Whole(found)
    <2>1. found \in Requests
      BY <1>2, <1>3 DEF Requests
    <2>2. QED
      BY <1>2, <2>1 DEF Requests, Whole
  <1>6. /\ found.todo = r.todo
        /\ found.rows = r.rows /\ found.bare = r.bare /\ found.loose = r.loose
        /\ found.wrote = r.wrote /\ found.raised = r.raised
        /\ found.new = r.new /\ found.dead = r.dead /\ found.poisoned = r.poisoned
        /\ found.joins = r.joins /\ found.leaves = r.leaves /\ found.stored = r.stored
    BY <1>2 DEF Requests
  <1> HIDE DEF found
  <1>7. CASE Proceeds(s, Turned(Joined(found, s)))
    BY <1>1, <1>2, <1>5, <1>6, <1>7, JoinedStores
  <1>8. CASE Proceeds(s, q)
    <2>1. q \in Requests
      BY <1>4, <1>5 DEF Requests
    <2>2. /\ q.todo = found.todo /\ q.at = "inserting"
          /\ q.rows = found.rows /\ q.bare = found.bare /\ q.loose = found.loose
          /\ q.wrote = found.wrote /\ q.raised = found.raised
          /\ q.new = found.new /\ q.dead = found.dead /\ q.poisoned = found.poisoned
          /\ q.joins = found.joins /\ q.leaves = found.leaves /\ q.stored = found.stored
      BY <1>5 DEF Requests
    <2> HIDE DEF q
    <2>3. /\ q.todo = r.todo
          /\ q.rows = r.rows /\ q.bare = r.bare /\ q.loose = r.loose
          /\ q.wrote = r.wrote /\ q.raised = r.raised
          /\ q.new = r.new /\ q.dead = r.dead /\ q.poisoned = r.poisoned
          /\ q.joins = r.joins /\ q.leaves = r.leaves /\ q.stored = r.stored
      BY <1>6, <2>2
    <2>4. /\ req' = [req EXCEPT ![s] = q] /\ req'[s] = q
          /\ UNCHANGED <<row, batches, members>>
      BY <1>8, ProceedsIs
    <2>5. ASSUME NEW c \in Issues, Progress(s, c), Reached(s, c) = r.at, Reached(s, c)' = q.at
          PROVE  Progress(s, c)'
      <3>1. /\ Leaves(s, c)' = Leaves(s, c) /\ Current(s)' = Current(s)
            /\ Built(s, c, "transitions")' = Built(s, c, "transitions")
            /\ Built(s, c, "slices")' = Built(s, c, "slices")
            /\ Of(c, "transitions")' = Of(c, "transitions") /\ Of(c, "slices")' = Of(c, "slices")
        BY <2>3, <2>4 DEF Leaves, Current, Built, Of
      <3>2. QED
        BY <1>1, <2>2, <2>3, <2>4, <2>5, <3>1 DEF Progress
    <2>6. q.at \in AtWork /\ r.at \in AtWork /\ q.at \notin {"idle", "finish", "replacing", "reslicing"}
      BY <1>1, <2>2 DEF AtWork
    <2>7. SlotInv(s)
      BY DEF IngestInv
    <2>8. SlotInv(s)'
      BY <1>2, <2>1, <2>3, <2>4, <2>5, <2>6, <2>7, WorkGoesOn
    <2>9. QED
      BY <2>1, <2>3, <2>4, <2>8, OneSteps
  <1>9. QED
    BY <1>1, <1>7, <1>8

LEMMA FlushedFacts ==
  ASSUME NEW r \in Requests
  PROVE  /\ Flushed(r).todo = r.todo /\ Flushed(r).at = r.at /\ Flushed(r).loaded = r.loaded
         /\ Flushed(r).rows = r.rows /\ Flushed(r).bare = r.bare /\ Flushed(r).loose = r.loose
         /\ Flushed(r).wrote = r.wrote /\ Flushed(r).raised = r.raised
         /\ Flushed(r).new = r.new /\ Flushed(r).dead = r.dead /\ Flushed(r).poisoned = r.poisoned
         /\ Flushed(r).joins = r.joins /\ Flushed(r).leaves = r.leaves
         /\ Flushed(r).stored = r.stored
  <1>1. /\ Flushed(r).todo = r.todo /\ Flushed(r).at = r.at /\ Flushed(r).loaded = r.loaded
        /\ Flushed(r).rows = r.rows /\ Flushed(r).bare = r.bare /\ Flushed(r).loose = r.loose
    BY DEF Flushed, Requests
  <1>2. /\ Flushed(r).wrote = r.wrote /\ Flushed(r).raised = r.raised
        /\ Flushed(r).new = r.new /\ Flushed(r).dead = r.dead /\ Flushed(r).poisoned = r.poisoned
    BY DEF Flushed, Requests
  <1>3. /\ Flushed(r).joins = r.joins /\ Flushed(r).leaves = r.leaves
        /\ Flushed(r).stored = r.stored
    BY DEF Flushed, Requests
  <1>4. QED
    BY <1>1, <1>2, <1>3

LEMMA InsertSprintsIngests ==
  ASSUME TypeInv, IngestInv, NEW s \in Slots, InsertSprints(s)
  PROVE  IngestInv'
  <1> DEFINE r == req[s]
             f == Flushed(r)
             held == [x \in SprintIds |-> IF x \in r.absent THEN StateOf(s, x) ELSE f.held[x]]
             full == [f EXCEPT !.held = held]
  <1>1. r.at = "inserting"
        /\ (Proceeds(s, Poisoned(r, "sprint")) \/ Proceeds(s, Turned(Joined(full, s))))
    BY DEF InsertSprints
  <1>2. r \in Requests /\ Whole(r) /\ r.todo # <<>>
    BY <1>1, RequestFacts DEF Whole
  <1>3. CASE Proceeds(s, Poisoned(r, "sprint"))
    <2>1. "sprint" \in Causes
      BY DEF Causes
    <2>2. QED
      BY <1>2, <1>3, <2>1, PoisonedKeeps
  <1>4. CASE Proceeds(s, Turned(Joined(full, s)))
    <2>1. f \in Requests /\ Whole(f)
      BY <1>2, FlushedTypes
    <2>2. /\ f.todo = r.todo
          /\ f.rows = r.rows /\ f.bare = r.bare /\ f.loose = r.loose
          /\ f.wrote = r.wrote /\ f.raised = r.raised
          /\ f.new = r.new /\ f.dead = r.dead /\ f.poisoned = r.poisoned
          /\ f.joins = r.joins /\ f.leaves = r.leaves /\ f.stored = r.stored
      BY <1>2, FlushedFacts
    <2> HIDE DEF f
    <2>3. held \in [SprintIds -> States \cup {Null}]
      <3>1. f.held \in [SprintIds -> States \cup {Null}]
        BY <2>1 DEF Requests
      <3>2. QED
        BY <3>1, StateOfIsOne
    <2> HIDE DEF held
    <2>4. full \in Requests /\ Whole(full)
      <3>1. full \in Requests
        BY <2>1, <2>3 DEF Requests
      <3>2. QED
        BY <2>1, <3>1 DEF Requests, Whole
    <2>5. /\ full.todo = f.todo
          /\ full.rows = f.rows /\ full.bare = f.bare /\ full.loose = f.loose
          /\ full.wrote = f.wrote /\ full.raised = f.raised
          /\ full.new = f.new /\ full.dead = f.dead /\ full.poisoned = f.poisoned
          /\ full.joins = f.joins /\ full.leaves = f.leaves /\ full.stored = f.stored
      BY <2>1 DEF Requests
    <2> HIDE DEF full
    <2>6. /\ full.todo = r.todo
          /\ full.rows = r.rows /\ full.bare = r.bare /\ full.loose = r.loose
          /\ full.wrote = r.wrote /\ full.raised = r.raised
          /\ full.new = r.new /\ full.dead = r.dead /\ full.poisoned = r.poisoned
          /\ full.joins = r.joins /\ full.leaves = r.leaves /\ full.stored = r.stored
      BY <2>2, <2>5
    <2>7. QED
      BY <1>1, <1>2, <1>4, <2>4, <2>6, JoinedStores
  <1>5. QED
    BY <1>1, <1>3, <1>4

-----------------------------------------------------------------------------
(* The upsert takes up an issue.  Whoever works on it already is told of it *)
(* if no lock keeps the two apart.                                          *)

LEMMA UpsertedFacts ==
  ASSUME TypeInv, NEW s \in Slots, req[s].todo # <<>>
  PROVE  /\ Upserted(s).todo = req[s].todo /\ Upserted(s).at = "transitions"
         /\ Upserted(s).loose = req[s].loose /\ Upserted(s).raised = req[s].raised
         /\ Upserted(s).new = req[s].new /\ Upserted(s).dead = req[s].dead
         /\ Upserted(s).poisoned = req[s].poisoned /\ Upserted(s).stored = req[s].stored
         /\ Upserted(s).joins = req[s].joins /\ Upserted(s).leaves = req[s].leaves
         /\ \A c \in Issues \ {About(s)} : Upserted(s).rows[c] = req[s].rows[c]
         /\ Changes(s) => /\ Upserted(s).rows[About(s)] = Written(s)
                          /\ Upserted(s).bare = req[s].bare
         /\ ~Changes(s) => /\ Upserted(s).rows[About(s)] = req[s].rows[About(s)]
                           /\ Upserted(s).bare = req[s].bare \cup {About(s)}
         /\ req[s].wrote \subseteq Upserted(s).wrote
         /\ About(s) \notin Upserted(s).wrote =>
              req[s].loaded # Null /\ req[s].loaded.account = Version(s).account
  <1> DEFINE r == req[s]
             i == About(s)
             f == Flushed(r)
             rows == [f.rows EXCEPT ![i] = IF Changes(s) THEN Written(s) ELSE @]
             bare == IF Changes(s) THEN f.bare ELSE f.bare \cup {i}
             wrote == IF (IF r.loaded = Null THEN TRUE ELSE r.loaded.account # Version(s).account)
                        THEN f.wrote \cup {i} ELSE f.wrote
  <1>1. f \in Requests /\ i \in Issues /\ r \in Requests
    BY RequestFacts, FlushedTypes
  <1>2. /\ f.todo = r.todo /\ f.rows = r.rows /\ f.bare = r.bare /\ f.loose = r.loose
        /\ f.wrote = r.wrote /\ f.raised = r.raised
        /\ f.new = r.new /\ f.dead = r.dead /\ f.poisoned = r.poisoned
        /\ f.joins = r.joins /\ f.leaves = r.leaves /\ f.stored = r.stored
    BY <1>1, FlushedFacts
  <1>3. Upserted(s) = [f EXCEPT !.rows = rows, !.bare = bare, !.wrote = wrote, !.at = "transitions"]
    BY DEF Upserted
  <1>4. f.rows \in [Issues -> Rows \cup {Null}]
    BY <1>1 DEF Requests
  <1> HIDE DEF f
  <1>5. /\ \A c \in Issues \ {i} : rows[c] = r.rows[c]
        /\ rows[i] = IF Changes(s) THEN Written(s) ELSE r.rows[i]
        /\ Changes(s) => bare = r.bare
        /\ ~Changes(s) => bare = r.bare \cup {i}
        /\ r.wrote \subseteq wrote
        /\ i \notin wrote => r.loaded # Null /\ r.loaded.account = Version(s).account
    BY <1>1, <1>2, <1>4
  <1> HIDE DEF rows, bare, wrote
  <1> DEFINE u == Upserted(s)
  <1>6. u.rows = rows /\ u.bare = bare /\ u.wrote = wrote /\ u.at = "transitions"
    BY <1>1, <1>3 DEF Requests
  <1>7. /\ u.todo = f.todo /\ u.loose = f.loose /\ u.raised = f.raised
        /\ u.new = f.new /\ u.dead = f.dead /\ u.poisoned = f.poisoned
    BY <1>1, <1>3 DEF Requests
  <1>8. u.joins = f.joins /\ u.leaves = f.leaves /\ u.stored = f.stored
    BY <1>1, <1>3 DEF Requests
  <1> HIDE DEF u
  <1>9. /\ u.todo = r.todo /\ u.loose = r.loose /\ u.raised = r.raised
        /\ u.new = r.new /\ u.dead = r.dead /\ u.poisoned = r.poisoned
        /\ u.joins = r.joins /\ u.leaves = r.leaves /\ u.stored = r.stored
    BY <1>2, <1>7, <1>8
  <1>10. /\ \A c \in Issues \ {i} : u.rows[c] = r.rows[c]
         /\ Changes(s) => u.rows[i] = Written(s) /\ u.bare = r.bare
         /\ ~Changes(s) => u.rows[i] = r.rows[i] /\ u.bare = r.bare \cup {i}
         /\ r.wrote \subseteq u.wrote
         /\ i \notin u.wrote => r.loaded # Null /\ r.loaded.account = Version(s).account
    BY <1>5, <1>6
  <1>11. QED
    BY <1>6, <1>9, <1>10 DEF u

(* A request that leaves the issue alone, or writes it without the account, *)
(* loaded its row.                                                          *)
LEMMA WrittenFacts ==
  ASSUME TypeInv, NEW s \in Slots, req[s].todo # <<>>
  PROVE  /\ Written(s) # Null
         /\ req[s].loaded # Null => row[About(s)] # Null
         /\ ~Changes(s) => /\ req[s].loaded # Null
                           /\ req[s].loaded.updated = Current(s).updated
         /\ Changes(s) /\ ~Loose(s) => Written(s).updated = Current(s).updated
         /\ ~Changes(s) /\ ~Loose(s) => row[About(s)].updated = Current(s).updated
         /\ req[s].loaded # Null /\ req[s].loaded.account = Version(s).account =>
              Written(s).account = row[About(s)].account
  <1>1. Written(s) # Null /\ (req[s].loaded # Null => row[About(s)] # Null)
    BY WrittenTypes, FactsOfConstants, RequestFacts DEF Whole, About, Current
  <1>2. ~Changes(s) => /\ req[s].loaded # Null
                       /\ req[s].loaded.updated = Current(s).updated
    BY DEF Changes
  <1>3. req[s].loaded # Null /\ req[s].loaded.updated = Current(s).updated /\ ~Loose(s) =>
          row[About(s)].updated = req[s].loaded.updated
    BY DEF Loose
  <1>4. Changes(s) /\ ~Loose(s) => Written(s).updated = Current(s).updated
    BY <1>3 DEF Written
  <1>5. req[s].loaded # Null /\ req[s].loaded.account = Version(s).account =>
          Written(s).account = row[About(s)].account
    BY DEF Written
  <1>6. QED
    BY <1>1, <1>2, <1>3, <1>4, <1>5

LEMMA NotedFacts ==
  ASSUME TypeInv, NEW s \in Slots, NEW u \in Requests, req' = Noted(s, u)
  PROVE  /\ req'[s] = [u EXCEPT !.loose = IF Loose(s) THEN u.loose \cup {About(s)} ELSE u.loose]
         /\ \A o \in Others(s) :
              \E more : /\ req'[o] = [req[o] EXCEPT !.loose = more]
                        /\ req[o].loose \subseteq more
                        /\ Loose(s) /\ Working(o, About(s)) => About(s) \in more
  <1>1. req'[s] = [u EXCEPT !.loose = IF Loose(s) THEN u.loose \cup {About(s)} ELSE u.loose]
    <2>1. u = [u EXCEPT !.loose = u.loose]
      BY DEF Requests
    <2>2. QED
      BY <2>1 DEF Noted
  <1>2. ASSUME NEW o \in Others(s)
        PROVE  \E more : /\ req'[o] = [req[o] EXCEPT !.loose = more]
                         /\ req[o].loose \subseteq more
                         /\ Loose(s) /\ Working(o, About(s)) => About(s) \in more
    <2> DEFINE told == Loose(s) /\ Working(o, About(s))
               more == IF told THEN req[o].loose \cup {About(s)} ELSE req[o].loose
    <2>1. o \in Slots /\ o # s /\ req[o] \in Requests
      BY RequestFacts DEF Others
    <2>2. req[o] = [req[o] EXCEPT !.loose = req[o].loose]
      BY <2>1 DEF Requests
    <2>3. req'[o] = IF told THEN [req[o] EXCEPT !.loose = @ \cup {About(s)}] ELSE req[o]
      BY <2>1 DEF Noted, Working
    <2>4. req'[o] = [req[o] EXCEPT !.loose = more]
      BY <2>2, <2>3
    <2>5. req[o].loose \subseteq more /\ (told => About(s) \in more)
      OBVIOUS
    <2> HIDE DEF more
    <2>6. QED
      BY <2>4, <2>5
  <1>3. QED
    BY <1>1, <1>2

LEMMA UpsertIngests ==
  ASSUME TypeInv, IngestInv, NEW s \in Slots, Upsert(s)
  PROVE  IngestInv'
  <1> DEFINE r == req[s]
             u == Upserted(s)
  <1>1. /\ r.at = "upsert" /\ r \in Requests /\ Whole(r) /\ r.todo # <<>> /\ SlotInv(s)
        /\ r.at \notin AtWork
    <2>1. r.at = "upsert"
      BY UpsertIs
    <2>2. QED
      BY <2>1, RequestFacts DEF Whole, IngestInv, AtWork
  <1>2. CASE Proceeds(s, Poisoned([r EXCEPT !.errors = TRUE], "row"))
    <2> DEFINE e == [r EXCEPT !.errors = TRUE]
    <2>1. e \in Requests
      BY <1>1 DEF Requests
    <2>2. /\ e.at = r.at /\ e.todo = r.todo /\ e.loaded = r.loaded
          /\ e.new = r.new /\ e.snapshot = r.snapshot
      BY <1>1 DEF Requests
    <2>3. /\ e.rows = r.rows /\ e.bare = r.bare /\ e.loose = r.loose /\ e.wrote = r.wrote
          /\ e.dead = r.dead /\ e.joins = r.joins /\ e.leaves = r.leaves /\ e.stored = r.stored
      BY <1>1 DEF Requests
    <2>4. Proceeds(s, Poisoned(e, "row"))
      BY <1>2
    <2> HIDE DEF e
    <2>5. Whole(e) /\ "row" \in Causes
      BY <1>1, <2>2 DEF Whole, Causes
    <2>6. QED
      BY <2>1, <2>2, <2>3, <2>4, <2>5, PoisonedKeeps
  <1>3. CASE /\ req' = Noted(s, u)
             /\ UNCHANGED <<world, tables, eraser, raised, loose, fresh, lost, spent>>
    <2>1. u \in Requests
      BY <1>1, UpsertedTypes
    <2>2. PICK i, v : i = About(s) /\ v = Current(s).updated
      OBVIOUS
    <2>3. /\ u.todo = r.todo /\ u.at = "transitions"
          /\ u.loose = r.loose /\ u.raised = r.raised
          /\ u.new = r.new /\ u.dead = r.dead /\ u.poisoned = r.poisoned
          /\ u.joins = r.joins /\ u.leaves = r.leaves /\ u.stored = r.stored
      BY <1>1, UpsertedFacts
    <2>4. /\ \A c \in Issues \ {i} : u.rows[c] = r.rows[c]
          /\ Changes(s) => u.rows[i] = Written(s) /\ u.bare = r.bare
          /\ ~Changes(s) => u.rows[i] = r.rows[i] /\ u.bare = r.bare \cup {i}
          /\ r.wrote \subseteq u.wrote
          /\ i \notin u.wrote => r.loaded # Null /\ r.loaded.account = Version(s).account
      BY <1>1, <2>2, UpsertedFacts
    <2> HIDE DEF u
    <2> DEFINE noted == IF Loose(s) THEN u.loose \cup {i} ELSE u.loose
               q == [u EXCEPT !.loose = noted]
    <2>5. req'[s] = q /\ UNCHANGED <<row, batches, members>>
      BY <1>3, <2>1, <2>2, NotedFacts DEF tables
    <2>6. \A o \in Others(s) :
            \E more : /\ req'[o] = [req[o] EXCEPT !.loose = more]
                      /\ req[o].loose \subseteq more
                      /\ Loose(s) /\ Working(o, i) => i \in more
      BY <1>3, <2>1, <2>2, NotedFacts
    <2> HIDE DEF noted
    <2>7. /\ q.todo = r.todo /\ q.at = "transitions" /\ q.loose = noted
          /\ q.raised = r.raised /\ q.rows = u.rows /\ q.bare = u.bare /\ q.wrote = u.wrote
      BY <2>1, <2>3 DEF Requests
    <2>8. /\ q.new = r.new /\ q.dead = r.dead /\ q.poisoned = r.poisoned
          /\ q.joins = r.joins /\ q.leaves = r.leaves /\ q.stored = r.stored
      BY <2>1, <2>3 DEF Requests
    <2>9. r.loose \subseteq noted /\ (i \notin noted => ~Loose(s)) /\ (Loose(s) => i \in noted)
      BY <2>3 DEF noted
    <2> HIDE DEF q
    <2>10. /\ i \in Issues /\ ~Working(s, i)
           /\ \A c \in Issues : c # i => Reached(s, c) = "finish"
           /\ \A k \in DOMAIN r.todo : r.todo[k].issue = i => k = 1
      BY <1>1, <2>2, AtIts DEF SlotInv
    <2>11. r.todo[1].issue = i /\ 1 \in DOMAIN r.todo /\ \A k \in DOMAIN r.todo : r.todo[k].issue \in Issues
      <3>1. r.todo \in Seq(Payload)
        BY <1>1 DEF Requests
      <3>2. 1 \in DOMAIN r.todo /\ Head(r.todo) = r.todo[1]
        BY <1>1, <3>1, TailOf
      <3>3. \A k \in DOMAIN r.todo : r.todo[k].issue \in Issues
        BY <3>1 DEF Payload
      <3>4. QED
        BY <2>2, <3>2, <3>3 DEF About, Current
    <2>12. /\ Written(s) # Null /\ (r.loaded # Null => row[i] # Null)
           /\ ~Changes(s) => r.loaded # Null
           /\ Changes(s) /\ ~Loose(s) => Written(s).updated = v
           /\ ~Changes(s) /\ ~Loose(s) => row[i].updated = v
           /\ r.loaded # Null /\ r.loaded.account = Version(s).account =>
                Written(s).account = row[i].account
      BY <1>1, <2>2, WrittenFacts
    <2>13. \A c \in Issues : Working(s, c)' <=> Working(s, c) \/ c = i
      BY <2>4, <2>5, <2>7, <2>10, <2>12 DEF Working
    <2>14. OneByOne(s) /\ HoldsOwn(s) /\ ProgressOf(s) /\ WillStore(s)
      BY <1>1 DEF SlotInv
    <2>15. OneByOne(s)'
      <3>1. \A k \in DOMAIN r.todo :
              /\ Working(s, r.todo[k].issue)' <=> k = 1
              /\ r.todo[k].issue \notin r.raised /\ r.poisoned = Null
        <4>1. SUFFICES ASSUME NEW k \in DOMAIN r.todo
                       PROVE  /\ Working(s, r.todo[k].issue)' <=> k = 1
                              /\ r.todo[k].issue \notin r.raised /\ r.poisoned = Null
          OBVIOUS
        <4>2. PICK c \in Issues : c = r.todo[k].issue
          BY <2>11
        <4>3. (c = i <=> k = 1) /\ (Working(s, c)' <=> Working(s, c) \/ c = i)
          BY <2>10, <2>11, <2>13, <4>2
        <4>4. ~Working(s, c) /\ c \notin r.raised /\ r.poisoned = Null
          BY <1>1, <2>14, <4>2 DEF OneByOne
        <4>5. Working(s, r.todo[k].issue)' <=> Working(s, c)'
          BY <2>5, <2>7, <4>2 DEF Working
        <4>6. QED
          BY <4>2, <4>3, <4>4, <4>5
      <3>2. QED
        BY <2>5, <2>7, <2>8, <2>14, <3>1 DEF OneByOne, AtWork
    <2>16. HoldsOwn(s)'
      <3>1. /\ \A b \in r.new \cup r.dead : b.issue \in Issues
            /\ \A p \in r.stored : p.issue \in Issues
        <4>1. r.new \subseteq Batch /\ r.dead \subseteq Batch /\ r.stored \subseteq Payload
          BY <1>1 DEF Requests
        <4>2. QED
          BY <4>1 DEF Batch, Payload
      <3>2. \A b \in r.new \cup r.dead : Working(s, b.issue)'
        BY <2>13, <2>14, <3>1 DEF HoldsOwn
      <3>3. \A p \in r.stored :
              Working(s, p.issue)' /\ \A k \in DOMAIN r.todo : r.todo[k].issue # p.issue
        BY <2>13, <2>14, <3>1 DEF HoldsOwn
      <3>4. \A c \in u.bare : row[c] # Null
        BY <2>4, <2>12, <2>14 DEF HoldsOwn
      <3>5. \A m \in r.joins \cup r.leaves : \E p \in r.stored : p.issue = m[1]
        BY <2>14 DEF HoldsOwn
      <3>6. QED
        BY <2>5, <2>7, <2>8, <3>2, <3>3, <3>4, <3>5 DEF HoldsOwn
    <2>17. \A c \in Issues : c # i => Leaves(s, c)' = Leaves(s, c)
      BY <2>4, <2>5, <2>7 DEF Leaves
    <2>18. ProgressOf(s)'
      <3>1. SUFFICES ASSUME NEW c \in Issues, Working(s, c) \/ c = i, c \notin noted \cup r.raised,
                            r.poisoned = Null
                     PROVE  Progress(s, c)'
        BY <2>5, <2>7, <2>8, <2>13 DEF ProgressOf
      <3>2. Current(s)' = Current(s)
        BY <2>5, <2>7 DEF Current
      <3>3. CASE c = i
        <4>1. ~Loose(s)
          BY <2>9, <3>1, <3>3
        <4>2. r.rows[i] = Null /\ \A b \in r.new : b.issue # i
          BY <2>10, <2>14 DEF Working, HoldsOwn
        <4>3. Leaves(s, i)' = v
          BY <2>4, <2>5, <2>7, <2>12, <4>1, <4>2 DEF Leaves
        <4>4. Built(s, i, "transitions")' = {} /\ Built(s, i, "slices")' = {}
          BY <2>5, <2>8, <4>2 DEF Built
        <4>5. Reached(s, i)' = "transitions"
          BY <1>1, <2>2, <2>5, <2>7 DEF Reached, About, Current
        <4>6. QED
          BY <2>2, <3>2, <3>3, <4>3, <4>4, <4>5 DEF Progress
      <3>4. CASE c # i
        <4>1. Progress(s, c)
          BY <2>9, <2>14, <3>1, <3>4 DEF ProgressOf
        <4>2. Reached(s, c)' = "finish" /\ Reached(s, c) = "finish"
          <5>1. About(s)' = i
            BY <2>2, <2>5, <2>7 DEF About, Current
          <5>2. QED
            BY <2>10, <3>4, <5>1 DEF Reached
        <4>3. /\ Built(s, c, "transitions")' = Built(s, c, "transitions")
              /\ Built(s, c, "slices")' = Built(s, c, "slices")
              /\ Of(c, "transitions")' = Of(c, "transitions") /\ Of(c, "slices")' = Of(c, "slices")
          BY <2>5, <2>8 DEF Built, Of
        <4>4. QED
          BY <2>5, <2>8, <2>17, <3>4, <4>1, <4>2, <4>3 DEF Progress
      <3>5. QED
        BY <3>3, <3>4
    <2>19. WillStore(s)'
      <3>1. SUFFICES ASSUME NEW p \in r.stored, p.issue \notin noted
                     PROVE  Leaves(s, p.issue)' = p.updated /\ Settled(s, p)'
        BY <2>5, <2>7, <2>8 DEF WillStore
      <3>2. p.issue # i /\ p.issue \in Issues
        <4>1. r.stored \subseteq Payload
          BY <1>1 DEF Requests
        <4>2. QED
          BY <2>11, <2>14, <4>1 DEF HoldsOwn, Payload
      <3>3. Leaves(s, p.issue) = p.updated /\ Settled(s, p)
        BY <2>9, <2>14, <3>1 DEF WillStore
      <3>4. Settled(s, p)' <=> Settled(s, p)
        BY <2>5, <2>8 DEF Settled, SprintsLeft
      <3>5. QED
        BY <2>17, <3>2, <3>3, <3>4
    <2>20. SlotInv(s)'
      BY <2>15, <2>16, <2>18, <2>19 DEF SlotInv
    <2>21. ASSUME NEW o \in Others(s)
           PROVE  /\ SlotInv(o)'
                  /\ req'[o].rows = req[o].rows /\ req'[o].bare = req[o].bare
                  /\ req'[o].wrote = req[o].wrote /\ req[o].loose \subseteq req'[o].loose
                  /\ Loose(s) /\ Working(o, i) => i \in req'[o].loose
      <3>1. PICK more : /\ req'[o] = [req[o] EXCEPT !.loose = more]
                        /\ req[o].loose \subseteq more
                        /\ Loose(s) /\ Working(o, i) => i \in more
        BY <2>6
      <3>2. o \in Slots /\ req[o] \in Requests
        BY RequestFacts DEF Others
      <3>3. /\ req'[o].rows = req[o].rows /\ req'[o].bare = req[o].bare
            /\ req'[o].wrote = req[o].wrote /\ req'[o].loose = more
        BY <3>1, <3>2 DEF Requests
      <3>4. \A c \in Issues : /\ row' = row /\ MembersOf(c)' = MembersOf(c)
                              /\ \A table \in Tables : Of(c, table)' = Of(c, table)
        BY <2>5 DEF MembersOf, Of
      <3>5. SlotInv(o)
        BY <3>2 DEF IngestInv
      <3>6. SlotInv(o)'
        BY <3>1, <3>2, <3>4, <3>5, OthersKeep
      <3>7. QED
        BY <3>1, <3>3, <3>6
    <2>22. \A o \in Slots : o = s \/ o \in Others(s)
      BY DEF Others
    <2>23. \A o \in Slots : SlotInv(o)'
      BY <2>20, <2>21, <2>22
    <2>24. Changes(s) => \A o \in Others(s) : req[o].rows[i] = Null
      BY <2>2, UpsertIs
    <2>25. RowLocks'
      <3>1. RowLocks
        BY DEF IngestInv
      <3>2. \A c \in Issues : c # i \/ ~Changes(s) => q.rows[c] = r.rows[c]
        BY <2>4, <2>7
      <3>3. ASSUME NEW o \in Slots, NEW d \in Slots, NEW c \in Issues, o # d
            PROVE  req'[o].rows[c] = Null \/ req'[d].rows[c] = Null
        BY <2>5, <2>21, <2>22, <2>24, <3>1, <3>2, <3>3 DEF RowLocks
      <3>4. ASSUME NEW o \in Slots, NEW c \in Issues, req'[o].rows[c] # Null, c \notin req'[o].wrote
            PROVE  row'[c] # Null /\ req'[o].rows[c].account = row'[c].account
        <4>1. CASE o # s
          BY <2>5, <2>21, <2>22, <3>1, <3>4, <4>1 DEF RowLocks
        <4>2. CASE o = s /\ (c # i \/ ~Changes(s))
          BY <2>4, <2>5, <2>7, <3>1, <3>2, <3>4, <4>2 DEF RowLocks
        <4>3. CASE o = s /\ c = i /\ Changes(s)
          BY <2>4, <2>5, <2>7, <2>12, <3>4, <4>3
        <4>4. QED
          BY <4>1, <4>2, <4>3
      <3>5. QED
        BY <3>3, <3>4 DEF RowLocks
    <2>26. Overlaps'
      <3>1. Overlaps
        BY DEF IngestInv
      <3>2. \A o \in Others(s) : Working(o, i) => Loose(s)
        BY <2>2, <2>24 DEF Working, Loose
      <3>3. \A o \in Others(s) : \A c \in Issues : Working(o, c)' <=> Working(o, c)
        BY <2>21 DEF Working
      <3>4. req'[s].loose = noted
        BY <2>5, <2>7
      <3>5. ASSUME NEW o \in Slots, NEW d \in Slots, NEW c \in Issues, o # d,
                   Working(o, c)', Working(d, c)'
            PROVE  c \in req'[o].loose
        <4>1. CASE o # s /\ d # s
          <5>1. o \in Others(s) /\ d \in Others(s)
            BY <2>22, <4>1
          <5>2. QED
            BY <2>21, <3>1, <3>3, <3>5, <5>1 DEF Overlaps
        <4>2. CASE o = s
          <5>1. d \in Others(s) /\ Working(d, c)
            BY <2>22, <3>3, <3>5, <4>2
          <5>2. Working(s, c) \/ c = i
            BY <2>13, <3>5, <4>2
          <5>3. QED
            BY <2>9, <3>1, <3>2, <3>4, <4>2, <3>5, <5>1, <5>2 DEF Overlaps
        <4>3. CASE o # s /\ d = s
          <5>1. o \in Others(s) /\ Working(o, c)
            BY <2>22, <3>3, <3>5, <4>3
          <5>2. Working(s, c) \/ c = i
            BY <2>13, <3>5, <4>3
          <5>3. QED
            BY <2>21, <3>1, <3>2, <3>5, <4>3, <5>1, <5>2 DEF Overlaps
        <4>4. QED
          BY <4>1, <4>2, <4>3
      <3>6. QED
        BY <3>5 DEF Overlaps
    <2>27. QED
      BY <2>23, <2>25, <2>26 DEF IngestInv
  <1>4. QED
    BY <1>2, <1>3, UpsertIs

-----------------------------------------------------------------------------
(* A commit stores what the request holds, and leaves alone the issues it   *)
(* does not work on.                                                        *)

LEMMA CommitIs ==
  ASSUME TypeInv, NEW s \in Slots, Commit(s)
  PROVE  /\ req[s].at = "finish" /\ req[s].poisoned = Null
         /\ req' = [req EXCEPT ![s] = Idle]
         /\ row' = [i \in Issues |-> IF req[s].rows[i] # Null THEN req[s].rows[i] ELSE row[i]]
         /\ batches' = (batches \ req[s].dead) \cup req[s].new
         /\ members' = (members \ req[s].leaves) \cup req[s].joins
         /\ raised' = (raised \ {b.issue : b \in {n \in req[s].new : n.table = "slices"}})
                        \cup req[s].raised
         /\ loose' = (loose \ {b.issue : b \in {n \in req[s].new : n.table = "slices"}})
                       \cup req[s].loose
         /\ fresh' = (IF eraser.at = "idle" THEN fresh ELSE fresh \cup req[s].wrote)
         /\ eraser' = eraser
  <1> DEFINE f == Flushed(req[s])
  <1>1. /\ req[s].at = "finish" /\ f.poisoned = Null /\ req' = [req EXCEPT ![s] = Idle]
        /\ row' = [i \in Issues |-> IF f.rows[i] # Null THEN f.rows[i] ELSE row[i]]
        /\ batches' = (batches \ f.dead) \cup f.new
        /\ members' = (members \ f.leaves) \cup f.joins
        /\ raised' = (raised \ {b.issue : b \in {n \in f.new : n.table = "slices"}}) \cup f.raised
        /\ loose' = (loose \ {b.issue : b \in {n \in f.new : n.table = "slices"}}) \cup f.loose
        /\ fresh' = (IF eraser.at = "idle" THEN fresh ELSE fresh \cup f.wrote)
        /\ eraser' = eraser
    BY DEF Commit, Ends
  <1>2. /\ f.rows = req[s].rows /\ f.loose = req[s].loose
        /\ f.wrote = req[s].wrote /\ f.raised = req[s].raised
        /\ f.new = req[s].new /\ f.dead = req[s].dead /\ f.poisoned = req[s].poisoned
        /\ f.joins = req[s].joins /\ f.leaves = req[s].leaves
    BY RequestFacts, FlushedFacts
  <1> HIDE DEF f
  <1>3. QED
    BY <1>1, <1>2

LEMMA CommitLeavesAlone ==
  ASSUME TypeInv, NEW s \in Slots, HoldsOwn(s), Commit(s), NEW i \in Issues
  PROVE  /\ row[i] # Null => row'[i] # Null
         /\ ~Working(s, i) => /\ row'[i] = row[i]
                              /\ \A table : Of(i, table)' = Of(i, table)
                              /\ MembersOf(i)' = MembersOf(i)
                              /\ i \notin {b.issue : b \in {n \in req[s].new : n.table = "slices"}}
         /\ Working(s, i) => /\ row'[i] # Null /\ row'[i].updated = Leaves(s, i)
  <1>1. /\ row'[i] = IF req[s].rows[i] # Null THEN req[s].rows[i] ELSE row[i]
        /\ batches' = (batches \ req[s].dead) \cup req[s].new
        /\ members' = (members \ req[s].leaves) \cup req[s].joins
    BY CommitIs
  <1>2. Working(s, i) => row'[i] # Null /\ row'[i].updated = Leaves(s, i)
    BY <1>1 DEF Working, Leaves, HoldsOwn
  <1>3. ASSUME ~Working(s, i)
        PROVE  /\ row'[i] = row[i]
               /\ \A table : Of(i, table)' = Of(i, table)
               /\ MembersOf(i)' = MembersOf(i)
               /\ i \notin {b.issue : b \in {n \in req[s].new : n.table = "slices"}}
    <2>1. row'[i] = row[i]
      BY <1>1, <1>3 DEF Working
    <2>2. \A b \in req[s].new \cup req[s].dead : b.issue # i
      BY <1>3 DEF HoldsOwn
    <2>3. \A m \in req[s].joins \cup req[s].leaves : m[1] # i
      BY <1>3 DEF HoldsOwn
    <2>4. \A table : Of(i, table)' = Of(i, table)
      BY <1>1, <2>2 DEF Of
    <2>5. MembersOf(i)' = MembersOf(i)
      BY <1>1, <2>3 DEF MembersOf
    <2>6. QED
      BY <2>1, <2>2, <2>4, <2>5
  <1>4. QED
    BY <1>1, <1>2, <1>3

LEMMA CommitIngests ==
  ASSUME TypeInv, IngestInv, NEW s \in Slots, Commit(s)
  PROVE  IngestInv'
  <1>1. req' = [req EXCEPT ![s] = Idle] /\ HoldsOwn(s)
    BY CommitIs DEF IngestInv, SlotInv
  <1>2. req'[s] = Idle /\ \A o \in Others(s) : o \in Slots /\ o # s /\ req'[o] = req[o]
    BY <1>1 DEF TypeInv, TypeOK, Others
  <1>3. \A o \in Slots : o = s \/ o \in Others(s)
    BY DEF Others
  <1>4. SlotInv(s)'
    <2>1. /\ req'[s].rows = Nothing(Issues) /\ req'[s].bare = {}
          /\ req'[s].new = {} /\ req'[s].dead = {} /\ req'[s].joins = {} /\ req'[s].leaves = {}
          /\ req'[s].stored = {} /\ req'[s].at = "idle" /\ req'[s].todo = <<>>
          /\ req'[s].raised = {} /\ req'[s].poisoned = Null
      BY <1>2 DEF Idle
    <2>2. DOMAIN req'[s].todo = {}
      BY <2>1
    <2>3. HoldsNothing(s)'
      BY <2>1, <2>2 DEF HoldsNothing
    <2>4. QED
      BY <2>3, NothingHeldNext
  <1>5. ASSUME NEW o \in Others(s) PROVE SlotInv(o)'
    <2>1. o \in Slots /\ o # s /\ req'[o] = req[o] /\ SlotInv(o)
      BY <1>2 DEF IngestInv
    <2>2. PICK more : more = req[o].loose
      OBVIOUS
    <2>3. req'[o] = [req[o] EXCEPT !.loose = more] /\ req[o].loose \subseteq more
      <3>1. req[o] \in Requests
        BY <2>1, RequestFacts
      <3>2. QED
        BY <2>1, <2>2, <3>1 DEF Requests
    <2>4. \A i \in Issues : row[i] # Null => row'[i] # Null
      BY <1>1, CommitLeavesAlone
    <2>5. ASSUME NEW i \in Issues, Working(o, i), i \notin req[o].loose
          PROVE  /\ row[i] # Null => row'[i].updated = row[i].updated
                 /\ \A table \in Tables : Of(i, table)' = Of(i, table)
                 /\ MembersOf(i)' = MembersOf(i)
      <3>1. ~Working(s, i)
        BY <2>1, <2>5 DEF IngestInv, Overlaps
      <3>2. QED
        BY <1>1, <3>1, CommitLeavesAlone
    <2>6. QED
      BY <2>1, <2>3, <2>4, <2>5, OthersKeep
  <1>6. \A o \in Slots : SlotInv(o)'
    BY <1>3, <1>4, <1>5
  <1>7. \A i \in Issues : req'[s].rows[i] = Null /\ ~Working(s, i)'
    BY <1>2 DEF Idle, Nothing, Working
  <1>8. \A o \in Others(s), i \in Issues : Working(o, i)' <=> Working(o, i)
    BY <1>2 DEF Working
  <1>9. \A i \in Issues : req[s].rows[i] = Null => row'[i] = row[i]
    BY CommitIs
  <1>10. RowLocks'
    <2>1. RowLocks
      BY DEF IngestInv
    <2>2. \A o, d \in Slots, i \in Issues :
            o # d => req'[o].rows[i] = Null \/ req'[d].rows[i] = Null
      BY <1>2, <1>3, <1>7, <2>1 DEF RowLocks
    <2>3. ASSUME NEW o \in Slots, NEW i \in Issues, req'[o].rows[i] # Null, i \notin req'[o].wrote
          PROVE  row'[i] # Null /\ req'[o].rows[i].account = row'[i].account
      <3>1. o \in Others(s) /\ o # s /\ req'[o] = req[o]
        BY <1>2, <1>3, <1>7, <2>3
      <3>2. row'[i] = row[i]
        BY <1>9, <2>1, <2>3, <3>1 DEF RowLocks
      <3>3. QED
        BY <2>1, <2>3, <3>1, <3>2 DEF RowLocks
    <2>4. QED
      BY <2>2, <2>3 DEF RowLocks
  <1>11. Overlaps'
    BY <1>2, <1>3, <1>7, <1>8 DEF IngestInv, Overlaps
  <1>12. QED
    BY <1>6, <1>10, <1>11 DEF IngestInv

(* The erasure takes an account from rows that no ingest has written.       *)
LEMMA EraseEndIs ==
  ASSUME TypeInv, EraseEnd
  PROVE  /\ UNCHANGED <<batches, members, req, raised, loose, fresh>>
         /\ eraser.at = "erasing" /\ eraser' = [eraser EXCEPT !.at = "done", !.target = {}]
         /\ \A i \in Issues :
              /\ row[i] # Null <=> row'[i] # Null
              /\ row[i] # Null => row'[i].updated = row[i].updated
              /\ (\E s \in Slots : req[s].rows[i] # Null) => row'[i] = row[i]
              /\ \/ row'[i] = row[i] /\ ~(i \in eraser.target /\ row[i].account \in eraser.erasing)
                 \/ row[i] # Null /\ row'[i].account = Null
  <1>1. /\ UNCHANGED <<batches, members, req, raised, loose, fresh>>
        /\ eraser.at = "erasing" /\ eraser' = [eraser EXCEPT !.at = "done", !.target = {}]
        /\ \A i \in eraser.target, s \in Slots : req[s].rows[i] = Null
        /\ row' = [i \in Issues |->
                     IF i \in eraser.target /\ row[i].account \in eraser.erasing
                       THEN [row[i] EXCEPT !.account = Null] ELSE row[i]]
    BY DEF EraseEnd
  <1>2. \A i \in eraser.target : row[i] \in Rows
    BY DEF TypeInv, TypeOK, Stored
  <1>3. ASSUME NEW i \in Issues
        PROVE  /\ row[i] # Null <=> row'[i] # Null
               /\ row[i] # Null => row'[i].updated = row[i].updated
               /\ (\E s \in Slots : req[s].rows[i] # Null) => row'[i] = row[i]
               /\ \/ row'[i] = row[i] /\ ~(i \in eraser.target /\ row[i].account \in eraser.erasing)
                  \/ row[i] # Null /\ row'[i].account = Null
    <2>1. CASE i \in eraser.target /\ row[i].account \in eraser.erasing
      <3>1. row[i] \in Rows /\ row'[i] = [row[i] EXCEPT !.account = Null]
        BY <1>1, <1>2, <2>1
      <3>2. row'[i] \in Rows /\ row'[i].account = Null /\ row'[i].updated = row[i].updated
        BY <3>1 DEF Rows
      <3>3. QED
        BY <1>1, <2>1, <3>1, <3>2, FactsOfConstants
    <2>2. CASE ~(i \in eraser.target /\ row[i].account \in eraser.erasing)
      <3>1. row'[i] = row[i]
        BY <1>1, <2>2
      <3>2. QED
        BY <2>2, <3>1
    <2>3. QED
      BY <2>1, <2>2
  <1>4. QED
    BY <1>1, <1>3

LEMMA EraseEndIngests ==
  ASSUME TypeInv, IngestInv, EraseEnd
  PROVE  IngestInv'
  <1>1. /\ UNCHANGED <<batches, members, req>>
        /\ \A i \in Issues :
              /\ row[i] # Null => row'[i] # Null
              /\ row[i] # Null => row'[i].updated = row[i].updated
              /\ (\E s \in Slots : req[s].rows[i] # Null) => row'[i] = row[i]
    BY EraseEndIs
  <1>2. ASSUME NEW o \in Slots PROVE SlotInv(o)'
    <2>1. PICK more : more = req[o].loose
      OBVIOUS
    <2>2. req'[o] = [req[o] EXCEPT !.loose = more] /\ req[o].loose \subseteq more
      <3>1. req[o] \in Requests
        BY RequestFacts
      <3>2. QED
        BY <1>1, <2>1, <3>1 DEF Requests
    <2>3. \A i \in Issues : /\ MembersOf(i)' = MembersOf(i)
                            /\ \A table \in Tables : Of(i, table)' = Of(i, table)
      BY <1>1 DEF MembersOf, Of
    <2>4. SlotInv(o)
      BY DEF IngestInv
    <2>5. QED
      BY <1>1, <2>2, <2>3, <2>4, OthersKeep
  <1>3. RowLocks'
    BY <1>1 DEF IngestInv, RowLocks
  <1>4. Overlaps'
    BY <1>1 DEF IngestInv, Overlaps, Working
  <1>5. QED
    BY <1>2, <1>3, <1>4 DEF IngestInv

(* What happens in Jira, and the cycle but for its end, touches no ingest.  *)
LEMMA SameIngests ==
  ASSUME IngestInv, UNCHANGED <<row, batches, members, req>>
  PROVE  IngestInv'
  <1>1. /\ \A s \in Slots : \A i : (Working(s, i)' <=> Working(s, i)) /\ Leaves(s, i)' = Leaves(s, i)
        /\ \A s \in Slots : \A i : Reached(s, i)' = Reached(s, i)
        /\ \A s \in Slots : \A i : SprintsLeft(s, i)' = SprintsLeft(s, i)
        /\ \A s \in Slots : \A i, table : Built(s, i, table)' = Built(s, i, table)
        /\ \A i, table : Of(i, table)' = Of(i, table)
        /\ \A s \in Slots : About(s)' = About(s) /\ Current(s)' = Current(s)
    BY DEF Working, Leaves, Reached, SprintsLeft, Built, Of, About, Current
  <1>2. ASSUME NEW s \in Slots PROVE SlotInv(s)'
    <2>1. OneByOne(s) /\ HoldsOwn(s) /\ ProgressOf(s) /\ WillStore(s)
      BY DEF IngestInv, SlotInv
    <2>2. OneByOne(s)'
      BY <1>1, <2>1 DEF OneByOne
    <2>3. HoldsOwn(s)'
      BY <1>1, <2>1 DEF HoldsOwn
    <2>4. ProgressOf(s)'
      <3>1. \A i : Progress(s, i) => Progress(s, i)'
        BY <1>1 DEF Progress
      <3>2. QED
        BY <1>1, <2>1, <3>1 DEF ProgressOf
    <2>5. WillStore(s)'
      BY <1>1, <2>1 DEF WillStore, Settled
    <2>6. QED
      BY <2>2, <2>3, <2>4, <2>5 DEF SlotInv
  <1>3. RowLocks' /\ Overlaps'
    BY <1>1 DEF IngestInv, RowLocks, Overlaps
  <1>4. QED
    BY <1>2, <1>3 DEF IngestInv

LEMMA ProcessIngests ==
  ASSUME TypeInv, IngestInv, NEW s \in Slots, Process(s)
  PROVE  /\ IngestInv'
         /\ UNCHANGED <<row, batches, members, eraser, raised, loose, fresh>>
  <1>1. CASE Check(s) \/ Load(s)
    <2>1. IngestInv'
      BY <1>1, CheckIngests
    <2>2. QED
      BY <1>1, <2>1 DEF Check, Load, Proceeds, tables
  <1>2. CASE Upsert(s)
    BY <1>2, UpsertIngests DEF Upsert, tables
  <1>3. CASE BeginTransitions(s) \/ BeginSlices(s)
    <2>1. IngestInv'
      BY <1>3, BeginDeleteIngests
    <2>2. QED
      BY <1>3, <2>1 DEF BeginTransitions, BeginSlices, BeginDelete, Proceeds, tables
  <1>4. CASE ReplaceTransitions(s)
    BY <1>4, ReplaceTransitionsIngests DEF ReplaceTransitions, Proceeds, tables
  <1>5. CASE Raise(s)
    BY <1>5, RaiseIngests DEF Raise, Proceeds, tables
  <1>6. CASE ReplaceSlices(s)
    BY <1>6, ReplaceSlicesIngests DEF ReplaceSlices, Proceeds, tables
  <1>7. CASE FindSprints(s)
    BY <1>7, FindSprintsIngests DEF FindSprints, Proceeds, tables
  <1>8. CASE InsertSprints(s)
    BY <1>8, InsertSprintsIngests DEF InsertSprints, Proceeds, tables
  <1>9. QED
    BY <1>1, <1>2, <1>3, <1>4, <1>5, <1>6, <1>7, <1>8 DEF Process

(* The steps of Next, by what they do to the tables. *)
LEMMA StepIngests ==
  ASSUME TypeInv, IngestInv, [Next]_vars
  PROVE  /\ IngestInv'
         /\ \/ \E s \in Slots : Commit(s)
            \/ EraseEnd
            \/ /\ StartCycle \/ FetchPage \/ Report \/ EraseBegin \/ CycleFails
               /\ UNCHANGED <<row, batches, members, req, raised, loose>>
            \/ UNCHANGED <<row, batches, members, eraser, raised, loose, fresh>>
  <1>1. ASSUME NEW s \in Slots, Webhook(s) \/ Bulk(s)
        PROVE  IngestInv' /\ UNCHANGED <<row, batches, members, eraser, raised, loose, fresh>>
    <2>1. IngestInv'
      BY <1>1, BeginIngests
    <2>2. QED
      BY <1>1, <2>1 DEF Webhook, Bulk, Receive, tables
  <1>2. ASSUME NEW s \in Slots, Fail(s) \/ Abort(s)
        PROVE  IngestInv' /\ UNCHANGED <<row, batches, members, eraser, raised, loose, fresh>>
    <2>1. IngestInv'
      BY <1>2, EndIngests
    <2>2. QED
      BY <1>2, <2>1 DEF Fail, Abort, Ends, tables
  <1>3. ASSUME NEW s \in Slots, Process(s)
        PROVE  IngestInv' /\ UNCHANGED <<row, batches, members, eraser, raised, loose, fresh>>
    BY <1>3, ProcessIngests
  <1>4. ASSUME NEW s \in Slots, Commit(s) PROVE IngestInv'
    BY <1>4, CommitIngests
  <1>5. ASSUME StartCycle \/ FetchPage \/ Report \/ EraseBegin \/ CycleFails
        PROVE  IngestInv' /\ UNCHANGED <<row, batches, members, req, raised, loose>>
    <2>1. UNCHANGED <<row, batches, members, req, raised, loose>>
      BY <1>5 DEF StartCycle, FetchPage, Report, EraseBegin, CycleFails, CycleStep, tables
    <2>2. QED
      BY <2>1, SameIngests
  <1>6. ASSUME (\E i \in Issues : IssueChanges(i)) \/ (\E x \in SprintIds : SprintEnds(x))
                  \/ UNCHANGED vars
        PROVE  IngestInv' /\ UNCHANGED <<row, batches, members, eraser, raised, loose, fresh>>
    <2>1. UNCHANGED <<row, batches, members, req, eraser, raised, loose, fresh>>
      BY <1>6 DEF IssueChanges, SprintEnds, vars, tables
    <2>2. QED
      BY <2>1, SameIngests
  <1>7. EraseEnd => IngestInv'
    BY EraseEndIngests
  <1>8. QED
    BY <1>1, <1>2, <1>3, <1>4, <1>5, <1>6, <1>7 DEF Next

-----------------------------------------------------------------------------
(* The children of a stored issue. *)

LEMMA CommitChildren ==
  ASSUME TypeInv, IngestInv, ChildrenAreOneBuild, NEW s \in Slots, Commit(s)
  PROVE  ChildrenAreOneBuild'
  <1> DEFINE rebuilt == {b.issue : b \in {n \in req[s].new : n.table = "slices"}}
  <1>1. /\ req[s].at = "finish" /\ req[s].poisoned = Null
        /\ batches' = (batches \ req[s].dead) \cup req[s].new
        /\ raised' = (raised \ rebuilt) \cup req[s].raised
        /\ loose' = (loose \ rebuilt) \cup req[s].loose
    BY CommitIs
  <1>2. OneByOne(s) /\ HoldsOwn(s) /\ ProgressOf(s)
    BY DEF IngestInv, SlotInv
  <1> HIDE DEF rebuilt
  <1>3. SUFFICES ASSUME NEW i \in Issues, row'[i] # Null, i \notin raised' \cup loose'
                 PROVE  /\ \E b \in Of(i, "slices")' :
                             /\ Of(i, "slices")' = {b} /\ b.updated = row'[i].updated
                             /\ b.moves = History[i][row'[i].updated].moves
                        /\ {b.moves : b \in Of(i, "transitions")'}
                             = {History[i][row'[i].updated].moves} \ {0}
                        /\ Cardinality(Of(i, "transitions")') <= 1
    BY DEF ChildrenAreOneBuild, Stored
  <1>4. CASE ~Working(s, i)
    <2>1. row'[i] = row[i] /\ (\A table : Of(i, table)' = Of(i, table)) /\ i \notin rebuilt
      BY <1>2, <1>4, CommitLeavesAlone DEF rebuilt
    <2>2. i \in Stored \ (raised \cup loose)
      BY <1>1, <1>3, <2>1 DEF Stored
    <2>3. QED
      BY <2>1, <2>2 DEF ChildrenAreOneBuild
  <1>5. CASE Working(s, i)
    <2>1. i \notin req[s].loose \cup req[s].raised
      BY <1>1, <1>3
    <2>2. Progress(s, i) /\ Reached(s, i) = "finish"
      BY <1>1, <1>2, <1>5, <2>1 DEF ProgressOf, OneByOne, Reached
    <2>3. row'[i].updated = Leaves(s, i)
      BY <1>2, <1>5, CommitLeavesAlone
    <2>4. PICK v : v = Leaves(s, i)
      OBVIOUS
    <2>5. /\ Of(i, "transitions") \subseteq req[s].dead /\ Of(i, "slices") \subseteq req[s].dead
          /\ \A b, c \in Built(s, i, "transitions") : b = c
          /\ {b.moves : b \in Built(s, i, "transitions")} = {History[i][v].moves} \ {0}
          /\ \E b \in Built(s, i, "slices") :
               Built(s, i, "slices") = {b} /\ b.updated = v /\ b.moves = History[i][v].moves
      BY <2>2, <2>4 DEF Progress
    <2>6. /\ Of(i, "transitions")' = Built(s, i, "transitions")
          /\ Of(i, "slices")' = Built(s, i, "slices")
      BY <1>1, <2>5 DEF Of, Built
    <2>7. Cardinality(Built(s, i, "transitions")) <= 1
      <3>1. CASE Built(s, i, "transitions") = {}
        BY <3>1, FS_EmptySet
      <3>2. CASE Built(s, i, "transitions") # {}
        <4>1. PICK b : Built(s, i, "transitions") = {b}
          BY <2>5, <3>2
        <4>2. Cardinality({b}) = 1
          BY FS_Singleton
        <4>3. QED
          BY <4>1, <4>2
      <3>3. QED
        BY <3>1, <3>2
    <2>8. QED
      BY <2>3, <2>4, <2>5, <2>6, <2>7
  <1>6. QED
    BY <1>4, <1>5

LEMMA StepChildren ==
  ASSUME TypeInv, IngestInv, ChildrenAreOneBuild, [Next]_vars
  PROVE  ChildrenAreOneBuild'
  <1>1. CASE \E s \in Slots : Commit(s)
    BY <1>1, CommitChildren
  <1>2. CASE EraseEnd
    <2>1. UNCHANGED <<batches, raised, loose>>
          /\ \A i \in Issues : /\ row[i] # Null <=> row'[i] # Null
                               /\ row[i] # Null => row'[i].updated = row[i].updated
      BY <1>2, EraseEndIs
    <2>2. Stored' = Stored /\ (\A i \in Stored : row'[i].updated = row[i].updated)
          /\ \A i, table : Of(i, table)' = Of(i, table)
      BY <2>1 DEF Stored, Of
    <2>3. QED
      BY <2>1, <2>2 DEF ChildrenAreOneBuild
  <1>3. CASE UNCHANGED <<row, batches, raised, loose>>
    BY <1>3 DEF ChildrenAreOneBuild, Stored, Of
  <1>4. QED
    BY <1>1, <1>2, <1>3, StepIngests

(* What ingests that overlap leave of an issue's children is what one of    *)
(* them built, of the version the row holds (ingestion_service.py:263).      *)
THEOREM ChildrenOfOneBuild == Spec => []ChildrenAreOneBuild
  <1> DEFINE IInv == TypeInv /\ IngestInv /\ ChildrenAreOneBuild
  <1>1. Init => IInv
    <2>1. Init => ChildrenAreOneBuild
      BY DEF Init, ChildrenAreOneBuild, Stored, Nothing
    <2>2. QED
      BY <2>1, InitTypes, InitIngests
  <1>2. IInv /\ [Next]_vars => IInv'
    BY StepTypes, StepIngests, StepChildren
  <1>3. QED
    BY <1>1, <1>2, PTL DEF Spec

-----------------------------------------------------------------------------
(* What an ingest answers. *)

LEMMA CommitAnswers ==
  ASSUME TypeInv, IngestInv, NEW s \in Slots, Commit(s),
         NEW p \in req[s].stored, p.issue \notin loose'
  PROVE  /\ row'[p.issue] # Null /\ row'[p.issue].updated = p.updated
         /\ IF Parses(p.issue, p.updated)
              THEN {m[2] : m \in MembersOf(p.issue)'} = History[p.issue][p.updated].sprints
              ELSE MembersOf(p.issue)' = MembersOf(p.issue)
  <1>1. /\ members' = (members \ req[s].leaves) \cup req[s].joins
        /\ p.issue \notin req[s].loose
    BY CommitIs
  <1>2. HoldsOwn(s) /\ WillStore(s)
    BY DEF IngestInv, SlotInv
  <1>3. p.issue \in Issues
    <2>1. req[s].stored \subseteq Payload
      BY RequestFacts DEF Requests
    <2>2. QED
      BY <2>1 DEF Payload
  <1>4. Working(s, p.issue)
    BY <1>2 DEF HoldsOwn
  <1>5. row'[p.issue] # Null /\ row'[p.issue].updated = Leaves(s, p.issue)
    BY <1>2, <1>3, <1>4, CommitLeavesAlone
  <1>6. Leaves(s, p.issue) = p.updated /\ Settled(s, p)
    BY <1>1, <1>2 DEF WillStore
  <1>7. SprintsLeft(s, p.issue) = {m[2] : m \in MembersOf(p.issue)'}
    BY <1>1 DEF SprintsLeft, MembersOf
  <1>8. ~Parses(p.issue, p.updated) => MembersOf(p.issue)' = MembersOf(p.issue)
    BY <1>1, <1>6 DEF Settled, MembersOf
  <1>9. QED
    BY <1>5, <1>6, <1>7, <1>8 DEF Settled

(* Whatever else ran meanwhile, what a request reports as processed is what  *)
(* its commit leaves, unless a build of it overlapped one that no lock kept   *)
(* apart (forge_sync.py:306).                                                *)
THEOREM AnswersAreTrue == Spec => AnswerMeansStored
  <1> DEFINE IInv == TypeInv /\ IngestInv
  <1>1. Init => IInv
    BY InitTypes, InitIngests
  <1>2. IInv /\ [Next]_vars => IInv'
    BY StepTypes, StepIngests
  <1>3. IInv => AnswerIsTrue
    BY CommitAnswers DEF AnswerIsTrue
  <1>4. QED
    BY <1>1, <1>2, <1>3, PTL DEF Spec, AnswerMeansStored

-----------------------------------------------------------------------------
(* The erasure of closed accounts. *)

LEMMA StepErase ==
  ASSUME TypeInv, IngestInv, EraseInv, [Next]_vars
  PROVE  EraseInv'
  <1>1. /\ eraser \in Cycles /\ eraser.shut \subseteq Accounts
        /\ row \in [Issues -> Rows \cup {Null}]
    BY DEF TypeInv, TypeOK, Cycles
  <1>2. CASE \E s \in Slots : Commit(s)
    <2>1. PICK s \in Slots : Commit(s)
      BY <1>2
    <2>2. /\ row' = [i \in Issues |-> IF req[s].rows[i] # Null THEN req[s].rows[i] ELSE row[i]]
          /\ fresh' = (IF eraser.at = "idle" THEN fresh ELSE fresh \cup req[s].wrote)
          /\ eraser' = eraser
      BY <2>1, CommitIs
    <2>3. SUFFICES ASSUME eraser.at # "idle", NEW i \in Issues, row'[i] # Null, i \notin fresh'
                   PROVE  i \in Stored \ fresh /\ row'[i].account = row[i].account
      BY <2>2 DEF EraseInv, Stored
    <2>4. i \notin fresh /\ i \notin req[s].wrote
      BY <2>2, <2>3
    <2>5. CASE req[s].rows[i] # Null
      BY <2>2, <2>4, <2>5 DEF IngestInv, RowLocks, Stored
    <2>6. CASE req[s].rows[i] = Null
      BY <2>2, <2>3, <2>4, <2>6 DEF Stored
    <2>7. QED
      BY <2>5, <2>6
  <1>3. CASE EraseEnd
    <2>1. /\ fresh' = fresh /\ eraser.at = "erasing" /\ eraser'.at = "done"
          /\ eraser'.shut = eraser.shut
          /\ \A i \in Issues :
               /\ row[i] # Null <=> row'[i] # Null
               /\ \/ row'[i] = row[i] /\ ~(i \in eraser.target /\ row[i].account \in eraser.erasing)
                  \/ row[i] # Null /\ row'[i].account = Null
      BY <1>1, <1>3, EraseEndIs DEF Cycles
    <2>2. ASSUME NEW i \in Issues, row'[i] # Null, i \notin fresh'
          PROVE  row'[i].account \notin eraser.shut
      <3>1. CASE row'[i] = row[i] /\ ~(i \in eraser.target /\ row[i].account \in eraser.erasing)
        <4>1. i \in Stored \ fresh
          BY <2>1, <2>2 DEF Stored
        <4>2. QED
          BY <2>1, <3>1, <4>1 DEF EraseInv
      <3>2. CASE row'[i].account = Null
        BY <1>1, <3>2, AccountsAreNumbers
      <3>3. QED
        BY <2>1, <3>1, <3>2
    <2>3. QED
      BY <2>1, <2>2 DEF EraseInv, Stored
  <1>4. CASE UNCHANGED <<row, eraser, fresh>>
    BY <1>4 DEF EraseInv, Stored
  <1>5. CASE /\ StartCycle \/ FetchPage \/ Report \/ EraseBegin \/ CycleFails
             /\ UNCHANGED row
    <2>1. Stored' = Stored
      BY <1>5 DEF Stored
    <2>2. CASE StartCycle
      <3>1. /\ eraser'.at = "fetch" /\ eraser'.cursor = 0 /\ eraser'.found = {}
            /\ eraser'.shut \subseteq Accounts
        BY <2>2 DEF StartCycle, Resting
      <3>2. \A c \in eraser'.shut : ~(c <= eraser'.cursor)
        BY <3>1, AccountsAreNumbers
      <3>3. QED
        BY <1>5, <3>1, <3>2 DEF EraseInv
    <2>3. CASE FetchPage
      <3> DEFINE page == PageAfter(eraser.cursor)
                 next == page.next
                 taken == page.accounts
      <3>1. eraser.cursor \in Nat
        <4>1. eraser.cursor \in Accounts \cup {0}
          BY <1>1 DEF Cycles
        <4>2. QED
          BY <4>1, AccountsAreNumbers
      <3>2. /\ next \in Accounts \cup {Null}
            /\ next = Null => taken = After(eraser.cursor)
            /\ next # Null => \A c \in After(eraser.cursor) : c <= next => c \in taken
        BY <3>1, PageIsWhole
      <3>3. /\ eraser.at = "fetch" /\ fresh' = fresh
            /\ eraser' = [eraser EXCEPT !.found = @ \cup taken,
                                        !.cursor = IF next = Null THEN 0 ELSE next,
                                        !.at = IF next = Null THEN "report" ELSE "fetch"]
        BY <2>3 DEF FetchPage, CycleStep
      <3> HIDE DEF page, next, taken
      <3>4. /\ eraser'.found = eraser.found \cup taken /\ eraser'.shut = eraser.shut
            /\ eraser'.cursor = (IF next = Null THEN 0 ELSE next)
            /\ eraser'.at = (IF next = Null THEN "report" ELSE "fetch")
        BY <1>1, <3>3 DEF Cycles
      <3>5. ASSUME NEW i \in Stored \ fresh, row[i].account \in eraser.shut
            PROVE  /\ eraser'.at = "fetch" /\ row[i].account <= eraser'.cursor =>
                        row[i].account \in eraser'.found
                   /\ eraser'.at = "report" => row[i].account \in eraser'.found
        <4>1. PICK c : c = row[i].account
          OBVIOUS
        <4>2. c \in Accounts /\ c \in Int /\ c # Null
          BY <1>1, <3>5, <4>1, AccountsAreNumbers
        <4>3. c \in Assignees
          BY <3>5, <4>1, <4>2 DEF Assignees
        <4>4. c <= eraser.cursor => c \in eraser.found
          BY <3>3, <3>5, <4>1 DEF EraseInv
        <4>5. ~(c <= eraser.cursor) => c \in After(eraser.cursor)
          BY <3>1, <4>2, <4>3 DEF After
        <4>6. QED
          BY <3>2, <3>4, <4>1, <4>4, <4>5
      <3>6. QED
        BY <1>5, <2>1, <3>3, <3>4, <3>5 DEF EraseInv
    <2>4. CASE Report
      <3>1. /\ eraser.at = "report" /\ eraser'.at = "erase" /\ fresh' = fresh
            /\ eraser'.shut = eraser.shut
            /\ eraser'.erasing = eraser.erasing \cup (eraser.found \cap eraser.shut)
        BY <1>1, <2>4 DEF Report, CycleStep, Cycles
      <3>2. QED
        BY <1>5, <2>1, <3>1 DEF EraseInv
    <2>5. CASE EraseBegin
      <3> DEFINE target == {i \in Stored : row[i].account \in eraser.erasing}
                 at == IF eraser.erasing = {} THEN "done" ELSE "erasing"
      <3>1. /\ eraser.at = "erase" /\ fresh' = fresh
            /\ eraser' = [eraser EXCEPT !.at = at, !.target = target]
        BY <2>5 DEF EraseBegin, CycleStep
      <3>2. /\ at = (IF eraser.erasing = {} THEN "done" ELSE "erasing")
            /\ \A i \in Stored : row[i].account \in eraser.erasing => i \in target
        OBVIOUS
      <3> HIDE DEF target, at
      <3>3. /\ eraser'.at = at /\ eraser'.shut = eraser.shut
            /\ eraser'.erasing = eraser.erasing /\ eraser'.target = target
        BY <1>1, <3>1 DEF Cycles
      <3>4. QED
        BY <1>5, <2>1, <3>1, <3>2, <3>3 DEF EraseInv
    <2>6. CASE CycleFails
      <3>1. eraser'.at = "idle"
        BY <2>6 DEF CycleFails, Resting
      <3>2. QED
        BY <3>1 DEF EraseInv
    <2>7. QED
      BY <1>5, <2>2, <2>3, <2>4, <2>5, <2>6
  <1>6. QED
    BY <1>2, <1>3, <1>4, <1>5, StepIngests

(* A cycle that ends has erased every account that was closed when it began *)
(* and that no ingest has written since, whatever its pages and whatever    *)
(* ingests ran between them (personal-data.ts:131, personal_data.py:76).     *)
THEOREM ErasureIsComplete == Spec => []ClosedAccountsAreErased
  <1> DEFINE IInv == TypeInv /\ IngestInv /\ EraseInv
  <1>1. Init => IInv
    <2>1. Init => EraseInv
      BY DEF Init, EraseInv, Stored, Nothing
    <2>2. QED
      BY <2>1, InitTypes, InitIngests
  <1>2. IInv /\ [Next]_vars => IInv'
    BY StepTypes, StepIngests, StepErase
  <1>3. IInv => ClosedAccountsAreErased
    BY DEF EraseInv, ClosedAccountsAreErased
  <1>4. QED
    BY <1>1, <1>2, <1>3, PTL DEF Spec

=============================================================================
