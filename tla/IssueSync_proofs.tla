-------------------------- MODULE IssueSync_proofs --------------------------
(***************************************************************************)
(* Proofs about IssueSync for every set of issues, handler slots, limits   *)
(* and bounds.  Type correctness holds whatever overlaps; that no change   *)
(* is forgotten, no row goes back and every step is one of Mirror is       *)
(* proved for Races = {}: ingests do not overlap one another, the Sync     *)
(* button runs alone, and an issue is not deleted while a handler carries  *)
(* it.  The runs show what happens without the first of these.             *)
(***************************************************************************)
EXTENDS IssueSync, TLAPS

-----------------------------------------------------------------------------
(* Type correctness. *)

LEMMA MinuteType == ASSUME NEW stamp \in Nat PROVE Minute(stamp) \in Nat
  <1>1. PerMinute \in Nat \ {0}
    BY IssueSyncAssumption
  <1>2. stamp \div PerMinute \in Nat
    BY <1>1
  <1>3. QED
    BY <1>1, <1>2 DEF Minute

LEMMA IdleType == None \in Stamps /\ Idle \in Work
  <1>1. None \in Stamps
    BY DEF None, Stamps
  <1>2. QED
    BY <1>1 DEF Idle, Work, Kinds

LEMMA EndType ==
  ASSUME TypeOK, NEW h \in Handlers, End(h)
  PROVE  handler' \in [Handlers -> Work]
  BY IdleType DEF End, TypeOK

LEMMA BeginType ==
  ASSUME TypeOK, NEW h \in Handlers, NEW kind \in Kinds,
         NEW at \in AppSteps, NEW about \in SUBSET Issues, NEW since \in Nat,
         Begin(h, kind, at, about, since)
  PROVE  handler' \in [Handlers -> Work]
  <1>1. [Idle EXCEPT !.kind = kind, !.at = at, !.about = about,
                     !.since = since] \in Work
    BY IdleType DEF Work
  <1>2. QED
    BY <1>1 DEF Begin, TypeOK

LEMMA CarryType ==
  ASSUME TypeOK, NEW h \in Handlers, NEW issues, Carry(h, issues)
  PROVE  handler' \in [Handlers -> Work]
  <1> DEFINE carried == [i \in Issues |-> IF i \in issues THEN jira[i] ELSE 0]
  <1>1. carried \in Stamps
    BY DEF TypeOK, Stamps
  <1>2. \A w \in Work :
          [w EXCEPT !.at = "post", !.carried = carried] \in Work
    BY <1>1 DEF Work, AppSteps
  <1> HIDE DEF carried
  <1>3. handler' = [handler EXCEPT
          ![h] = [handler[h] EXCEPT !.at = "post", !.carried = carried]]
    BY DEF Carry, carried, TypeOK
  <1>4. QED
    BY <1>2, <1>3 DEF TypeOK

LEMMA SpendType ==
  ASSUME TypeOK, NEW bound \in Bounds, NEW limit, Spend(bound, limit)
  PROVE  spent' \in [Bounds -> Nat]
  BY DEF Spend, TypeOK

LEMMA TakeType ==
  ASSUME TypeOK, NEW h \in Handlers, NEW i \in Issues, NEW repeated \in BOOLEAN,
         TakeEvent(h, i, repeated) \/ TakeDeletion(h, i, repeated)
  PROVE  TypeOK'
  <1>1. spent' \in [Bounds -> Nat]
    <2>1. CASE repeated
      BY <2>1, SpendType DEF TakeEvent, TakeDeletion, Consumed, Bounds
    <2>2. CASE ~repeated
      BY <2>2 DEF TakeEvent, TakeDeletion, Consumed, TypeOK
    <2>3. QED
      BY <2>1, <2>2
  <1>2. handler' \in [Handlers -> Work]
    <2>1. {i} \in SUBSET Issues /\ "fetch" \in AppSteps /\ "delete" \in AppSteps
          /\ "webhook" \in Kinds /\ "deletion" \in Kinds
      BY DEF AppSteps, Kinds
    <2>2. QED
      BY <2>1, BeginType DEF TakeEvent, TakeDeletion
  <1>3. events' \in Stamps
    <2>1. CASE TakeEvent(h, i, repeated)
      <3>1. events[i] \in Nat /\ events[i] > 0
        BY <2>1 DEF TakeEvent, TypeOK, Stamps
      <3>2. (IF repeated THEN events[i] ELSE events[i] - 1) \in Nat
        BY <3>1
      <3>3. QED
        BY <2>1, <3>2 DEF TakeEvent, TypeOK, Stamps
    <2>2. CASE TakeDeletion(h, i, repeated)
      BY <2>2 DEF TakeDeletion, TypeOK
    <2>3. QED
      BY <2>1, <2>2
  <1>4. deletions' \subseteq Issues
    BY DEF TakeEvent, TakeDeletion, TypeOK
  <1>5. UNCHANGED <<world, stored>>
    BY DEF TakeEvent, TakeDeletion
  <1>6. QED
    BY <1>1, <1>2, <1>3, <1>4, <1>5 DEF world, stored, TypeOK

LEMMA StartType ==
  ASSUME TypeOK, NEW h \in Handlers, Start(h) PROVE TypeOK'
  <1>1. spent' \in [Bounds -> Nat]
    BY SpendType
    DEF Start, StartReconcile, StartSync, StartBackfillPage, Bounds
  <1>2. handler' \in [Handlers -> Work]
    <2>1. {} \in SUBSET Issues /\ "search" \in AppSteps /\ 0 \in Nat
          /\ "reconcile" \in Kinds /\ "sync" \in Kinds /\ "backfill" \in Kinds
      BY DEF AppSteps, Kinds
    <2>2. Minute(lastSync) \in Nat
      BY MinuteType DEF TypeOK
    <2>3. \A force \in BOOLEAN : (IF force THEN 0 ELSE Minute(lastSync)) \in Nat
      BY <2>2
    <2>4. ASSUME StartReconcile(h) PROVE handler' \in [Handlers -> Work]
      BY <2>1, <2>2, <2>4, BeginType DEF StartReconcile
    <2>5. ASSUME NEW force \in BOOLEAN, StartSync(h, force)
          PROVE  handler' \in [Handlers -> Work]
      BY <2>1, <2>3, <2>5, BeginType DEF StartSync
    <2>6. ASSUME StartBackfillPage(h) PROVE handler' \in [Handlers -> Work]
      BY <2>1, <2>6, BeginType DEF StartBackfillPage
    <2>7. QED
      BY <2>4, <2>5, <2>6 DEF Start
  <1>3. UNCHANGED <<world, events, deletions, stored>>
    BY DEF Start, StartReconcile, StartSync, StartBackfillPage
  <1>4. QED
    BY <1>1, <1>2, <1>3 DEF world, stored, TypeOK

LEMMA JiraType ==
  ASSUME TypeOK, \/ Tick
                 \/ \E i \in Issues : JiraChange(i) \/ JiraDelete(i)
  PROVE  TypeOK'
  <1>1. CASE Tick
    BY <1>1 DEF Tick, Advance, inbox, stored, TypeOK
  <1>2. ASSUME NEW i \in Issues, JiraChange(i) PROVE TypeOK'
    <2>1. clock' \in Nat /\ jira' \in Stamps /\ events' \in Stamps
      BY <1>2 DEF JiraChange, Advance, TypeOK, Stamps
    <2>2. missed' \subseteq Issues
      BY <1>2 DEF JiraChange, TypeOK
    <2>3. QED
      BY <1>2, <2>1, <2>2 DEF JiraChange, TypeOK
  <1>3. ASSUME NEW i \in Issues, JiraDelete(i) PROVE TypeOK'
    BY <1>3 DEF JiraDelete, TypeOK
  <1>4. QED
    BY <1>1, <1>2, <1>3

(* Records the server leaves behind. *)
LEMMA PostType ==
  ASSUME TypeOK, NEW h \in Handlers, Post(h)
  PROVE  handler' \in [Handlers -> Work]
  <1>1. \A w \in Work, todo \in SUBSET Issues :
          [w EXCEPT !.at = "check", !.todo = todo] \in Work
    BY DEF Work, ServerSteps
  <1> DEFINE todo == {i \in Issues : handler[h].carried[i] # 0}
  <1>2. handler' = [handler EXCEPT
          ![h] = [handler[h] EXCEPT !.at = "check", !.todo = todo]]
    BY DEF Post, TypeOK
  <1>3. todo \in SUBSET Issues /\ handler[h] \in Work
    BY DEF TypeOK
  <1> HIDE DEF todo
  <1>4. [handler[h] EXCEPT !.at = "check", !.todo = todo] \in Work
    BY <1>1, <1>3
  <1>5. QED
    BY <1>2, <1>4 DEF TypeOK

LEMMA CheckType ==
  ASSUME TypeOK, NEW h \in Handlers, NEW i \in Issues, Check(h, i)
  PROVE  handler' \in [Handlers -> Work]
  <1>1. \A w \in Work, todo \in SUBSET Issues, at \in {"check", "write"},
           loaded \in Stamps, about \in SUBSET Issues :
          [w EXCEPT !.todo = todo, !.at = at, !.loaded = loaded,
                    !.about = about] \in Work
    BY DEF Work, ServerSteps
  <1>2. handler[h] \in Work
    BY DEF TypeOK
  <1>3. /\ handler[h].todo \ {i} \in SUBSET Issues
        /\ handler[h].about \in SUBSET Issues /\ {i} \in SUBSET Issues
    BY <1>2 DEF Work
  <1>4. [None EXCEPT ![i] = row[i]] \in Stamps
    BY IdleType DEF TypeOK, Stamps
  <1> DEFINE stale == Stale(handler[h], i)
             todo == handler[h].todo \ {i}
             at == IF stale THEN "check" ELSE "write"
             loaded == IF stale THEN None ELSE [None EXCEPT ![i] = row[i]]
             about == IF handler[h].kind = "webhook"
                      THEN handler[h].about ELSE {i}
             new == [handler[h] EXCEPT !.todo = todo, !.at = at,
                       !.loaded = loaded, !.about = about]
  <1>5. handler' = [handler EXCEPT ![h] = new]
    BY DEF Check, TypeOK
  <1>6. /\ todo \in SUBSET Issues /\ at \in {"check", "write"}
        /\ loaded \in Stamps /\ about \in SUBSET Issues
    BY <1>3, <1>4, IdleType
  <1> HIDE DEF todo, at, loaded, about
  <1>7. new \in Work
    BY <1>1, <1>2, <1>6
  <1> HIDE DEF new
  <1>8. QED
    BY <1>5, <1>7 DEF TypeOK

(* The rows a transaction has flushed after it has written those of S. *)
Flushed(w, S) ==
  [i \in Issues |-> IF i \in S
                    THEN Flush(w.loaded[i], w.carried[i], 0)
                    ELSE w.written[i]]

LEMMA WriteCases ==
  ASSUME TypeOK, NEW h \in Handlers, Write(h)
  PROVE  \/ /\ handler' = [handler EXCEPT ![h] = [handler[h] EXCEPT
                 !.at = "check", !.loaded = None,
                 !.written = Flushed(handler[h], handler[h].about)]]
            /\ UNCHANGED missed
         \/ /\ End(h)
            /\ missed' = IF handler[h].kind = "webhook"
                         THEN missed \cup handler[h].about ELSE missed
  BY DEF Write, TypeOK, Flushed

LEMMA WriteType ==
  ASSUME TypeOK, NEW h \in Handlers, Write(h)
  PROVE  handler' \in [Handlers -> Work] /\ missed' \subseteq Issues
  <1>1. handler[h] \in Work
    BY DEF TypeOK
  <1>2. Flushed(handler[h], handler[h].about) \in Stamps
    BY <1>1 DEF Work, Stamps, Flushed, Flush
  <1>3. \A w \in Work, written \in Stamps :
          [w EXCEPT !.at = "check", !.loaded = None,
                    !.written = written] \in Work
    BY IdleType DEF Work, ServerSteps
  <1>4. handler[h].about \subseteq Issues
    BY <1>1 DEF Work
  <1>5. QED
    BY <1>1, <1>2, <1>3, <1>4, WriteCases, EndType DEF TypeOK

LEMMA CommitType ==
  ASSUME TypeOK, NEW h \in Handlers, NEW early \in BOOLEAN, Commit(h, early)
  PROVE  TypeOK'
  <1>1. row' \in Stamps
    BY DEF Commit, TypeOK, Work, Stamps
  <1>2. missed' \subseteq Issues
    BY DEF Commit, TypeOK
  <1>3. lastSync' \in Nat
    BY DEF Commit, TypeOK
  <1>4. handler' \in [Handlers -> Work]
    <2>1. \A w \in Work : [w EXCEPT !.at = "stamp", !.written = None] \in Work
      BY IdleType DEF Work, ServerSteps
    <2>2. \/ End(h)
          \/ handler' = [handler EXCEPT
               ![h] = [handler[h] EXCEPT !.at = "stamp", !.written = None]]
      BY DEF Commit, TypeOK
    <2>3. QED
      BY <2>1, <2>2, EndType DEF TypeOK
  <1>5. QED
    BY <1>1, <1>2, <1>3, <1>4 DEF Commit, world, inbox, TypeOK

LEMMA StepType == ASSUME TypeOK, NEW h \in Handlers, Step(h) PROVE TypeOK'
  <1>1. CASE Fetch(h)
    BY <1>1, EndType, CarryType DEF Fetch, world, inbox, stored, TypeOK
  <1>2. CASE Search(h)
    <2>1. handler' \in [Handlers -> Work]
      BY <1>2, EndType, CarryType DEF Search
    <2>2. QED
      BY <1>2, <2>1 DEF Search, world, inbox, stored, TypeOK
  <1>3. CASE CallFails(h)
    <2>1. handler[h].about \subseteq Issues
      BY DEF TypeOK, Work
    <2>2. QED
      BY <1>3, <2>1, EndType DEF CallFails, world, inbox, TypeOK
  <1>4. CASE Post(h)
    BY <1>4, PostType DEF Post, world, inbox, stored, TypeOK
  <1>5. CASE Write(h)
    BY <1>5, WriteType DEF Write, world, inbox, TypeOK
  <1>6. CASE Stamp(h)
    BY <1>6, EndType DEF Stamp, world, inbox, TypeOK
  <1>7. CASE Delete(h)
    <2>1. row' \in Stamps
      BY <1>7 DEF Delete, TypeOK, Stamps
    <2>2. QED
      BY <1>7, <2>1, EndType DEF Delete, world, inbox, TypeOK
  <1>8. ASSUME NEW i \in Issues, Check(h, i) PROVE TypeOK'
    BY <1>8, CheckType DEF Check, world, inbox, stored, TypeOK
  <1>9. QED
    BY <1>1, <1>2, <1>3, <1>4, <1>5, <1>6, <1>7, <1>8, CommitType
    DEF Step, Server

LEMMA InitTypeOK == Init => TypeOK
  BY IdleType DEF Init, TypeOK

LEMMA NextTypeOK == ASSUME TypeOK, [Next]_vars PROVE TypeOK'
  <1>1. CASE UNCHANGED vars
    BY <1>1 DEF vars, TypeOK
  <1>2. CASE Next
    BY <1>2, JiraType, StepType, StartType, TakeType DEF Next, Take
  <1>3. QED
    BY <1>1, <1>2

(* Every reachable state is type correct, whatever overlaps. *)
THEOREM TypeCorrect == Spec => []TypeOK
  <1>1. Init => TypeOK
    BY InitTypeOK
  <1>2. TypeOK /\ [Next]_vars => TypeOK'
    BY NextTypeOK
  <1>3. QED
    BY <1>1, <1>2, PTL DEF Spec

-----------------------------------------------------------------------------
(* The inductive invariant behind NothingForgotten, for Races = {}.        *)

(* What a handler's record may look like at each of its steps. *)
Shape(w) ==
  /\ w.at = "fetch" => w.kind = "webhook"
  /\ w.at = "search" => w.kind # "webhook"
  /\ w.at = "delete" => w.kind = "deletion"
  /\ w.at \in {"delete", "write"} \/ (w.kind = "webhook" /\ w.at # "idle")
       => \E i \in Issues : w.about = {i}
  /\ w.about = {} \/ \E i \in Issues : w.about = {i}
  /\ w.kind = "webhook" => \A i \in Issues : w.carried[i] # 0 => w.about = {i}
  /\ w.at \notin {"post", "check", "write", "stamp"} =>
       \A i \in Issues : w.carried[i] = 0
  /\ w.at \notin {"check", "write"} => \A i \in Issues : w.written[i] = 0
  /\ w.at = "check" => \A i \in w.todo : w.carried[i] # 0
  /\ w.at = "write" => \A i \in w.about \cup w.todo : w.carried[i] # 0
  /\ \A i \in Issues : w.written[i] # 0 => w.written[i] = w.carried[i]

(* What is carried is a version the issue, which is not deleted, has had;  *)
(* what is to be deleted is deleted in Jira.                               *)
Carries(w) ==
  /\ \A i \in Issues :
       w.carried[i] <= jira[i] /\ (w.carried[i] # 0 => i \notin gone)
  /\ w.at = "delete" => w.about \subseteq gone

(* What the server has read still holds, and what it has flushed is no     *)
(* older than the row it will replace.                                     *)
Current(w) ==
  /\ \A i \in Issues : w.written[i] # 0 => row[i] <= w.written[i]
  /\ w.at = "write" => \A i \in w.about :
       w.loaded[i] = row[i] /\ (w.kind # "sync" => row[i] < w.carried[i])
  /\ w.at = "check" /\ w.kind = "webhook" => \A i \in w.about :
       i \in w.todo \/ w.written[i] = w.carried[i] \/ row[i] >= w.carried[i]

(* A sync runs alone, and nothing it carries is older than the row. *)
Alone(h) ==
  handler[h].kind = "sync" /\ handler[h].at # "idle" =>
    /\ \A g \in Handlers \ {h} : handler[g].at = "idle"
    /\ \A i \in Issues :
         handler[h].carried[i] # 0 => row[i] <= handler[h].carried[i]

Exclusive ==
  \A g, h \in Handlers :
    handler[g].at \in ServerSteps /\ handler[h].at \in ServerSteps => g = h

Ordered == \A i \in Issues : row[i] <= jira[i] /\ jira[i] <= clock

SyncInv ==
  /\ TypeOK
  /\ \A h \in Handlers : Shape(handler[h])
  /\ \A h \in Handlers : Carries(handler[h])
  /\ \A h \in Handlers : Current(handler[h])
  /\ \A h \in Handlers : Alone(h)
  /\ Exclusive
  /\ Ordered
  /\ deletions \subseteq gone
  /\ NothingForgotten

LEMMA IdleShape == Shape(Idle)
  BY DEF Shape, Idle, None

(* A step of h that changes neither Jira nor a row keeps the invariant if  *)
(* what it leaves in its own slot is sound and it drops no pursuit without *)
(* saying so.                                                              *)
LEMMA QuietStep ==
  ASSUME SyncInv, TypeOK', NEW h \in Handlers,
         UNCHANGED <<clock, jira, gone, row, events, deletions>>,
         \A g \in Handlers : g # h => handler'[g] = handler[g],
         Shape(handler'[h]), Carries(handler[h])', Current(handler[h])',
         handler'[h].at \in ServerSteps =>
           handler[h].at \in ServerSteps \/
             \A g \in Handlers \ {h} : handler[g].at \notin ServerSteps,
         handler'[h].at # "idle" =>
           \A g \in Handlers \ {h} :
             handler[g].at = "idle" \/ handler[g].kind # "sync",
         handler'[h].at # "idle" /\ handler'[h].kind = "sync" =>
           /\ \A g \in Handlers \ {h} : handler[g].at = "idle"
           /\ \A i \in Issues : handler'[h].carried[i] # 0 =>
                row[i] <= handler'[h].carried[i],
         missed \subseteq missed',
         \A i \in Issues : Behind(i) /\ Pursues(handler[h], i) =>
           Pursues(handler'[h], i) \/ i \in missed',
         \A i \in Issues : Removes(handler[h], i) =>
           Removes(handler'[h], i) \/ i \in missed'
  PROVE  SyncInv'
  <1>1. \A g \in Handlers : Shape(handler'[g])
    BY DEF SyncInv
  <1>2. \A g \in Handlers : Carries(handler[g])'
    BY DEF SyncInv, Carries
  <1>3. \A g \in Handlers : Current(handler[g])'
    BY DEF SyncInv, Current
  <1>4. \A g \in Handlers : Alone(g)'
    BY DEF SyncInv, Alone
  <1>5. Exclusive'
    BY DEF SyncInv, Exclusive
  <1>6. Ordered' /\ (deletions \subseteq gone)'
    BY DEF SyncInv, Ordered
  <1>7. NothingForgotten'
    <2>1. ASSUME NEW i \in Issues, Behind(i)'
          PROVE  InHand(i)' \/ i \in missed'
      <3>1. Behind(i)
        BY <2>1 DEF Behind
      <3>2. InHand(i) \/ i \in missed
        BY <3>1 DEF SyncInv, NothingForgotten
      <3>3. \A g \in Handlers : g # h /\ Pursues(handler[g], i) =>
              Pursues(handler[g], i)'
        BY DEF Pursues
      <3>4. Pursues(handler[h], i) => Pursues(handler[h], i)' \/ i \in missed'
        BY <3>1 DEF Pursues
      <3>5. QED
        BY <3>2, <3>3, <3>4 DEF InHand
    <2>2. ASSUME NEW i \in Issues, Lingers(i)'
          PROVE  DeletionInHand(i)' \/ i \in missed'
      <3>1. DeletionInHand(i) \/ i \in missed
        BY <2>2 DEF SyncInv, NothingForgotten, Lingers
      <3>2. \A g \in Handlers : g # h /\ Removes(handler[g], i) =>
              Removes(handler[g], i)'
        BY DEF Removes
      <3>3. Removes(handler[h], i) => Removes(handler[h], i)' \/ i \in missed'
        BY DEF Removes
      <3>4. QED
        BY <3>1, <3>2, <3>3 DEF DeletionInHand
    <2>3. QED
      BY <2>1, <2>2 DEF NothingForgotten
  <1>8. QED
    BY <1>1, <1>2, <1>3, <1>4, <1>5, <1>6, <1>7 DEF SyncInv

(* A handler that returns. *)
LEMMA EndFacts ==
  ASSUME TypeOK, TypeOK', NEW h \in Handlers, End(h)
  PROVE  /\ handler'[h] = Idle /\ handler'[h].at = "idle"
         /\ \A g \in Handlers : g # h => handler'[g] = handler[g]
         /\ Shape(handler[h])' /\ Carries(handler[h])' /\ Current(handler[h])'
  <1>1. /\ handler'[h] = Idle
        /\ \A g \in Handlers : g # h => handler'[g] = handler[g]
    BY DEF End, TypeOK
  <1>2. \A i \in Issues : jira'[i] \in Nat
    BY DEF TypeOK, Stamps
  <1>3. /\ Idle.at = "idle" /\ Idle.kind = "webhook"
        /\ \A i \in Issues : Idle.carried[i] = 0 /\ Idle.written[i] = 0
    BY DEF Idle, None
  <1>4. QED
    BY <1>1, <1>2, <1>3, IdleShape DEF Carries, Current, Shape

(* A handler that begins. *)
LEMMA BeginFacts ==
  ASSUME TypeOK, TypeOK', NEW h \in Handlers, NEW kind, NEW at, NEW about,
         NEW since, Begin(h, kind, at, about, since)
  PROVE  /\ handler'[h].kind = kind /\ handler'[h].at = at
         /\ handler'[h].about = about
         /\ \A i \in Issues : /\ handler'[h].carried[i] = 0
                              /\ handler'[h].written[i] = 0
         /\ \A g \in Handlers : g # h => handler'[g] = handler[g]
  <1>1. /\ handler'[h] = [Idle EXCEPT !.kind = kind, !.at = at,
                            !.about = about, !.since = since]
        /\ \A g \in Handlers : g # h => handler'[g] = handler[g]
    BY DEF Begin, TypeOK
  <1>2. QED
    BY <1>1 DEF Idle, None

LEMMA StartKeeps ==
  ASSUME SyncInv, TypeOK', Races = {}, NEW h \in Handlers, Start(h)
  PROVE  SyncInv'
  <1>1. PICK kind, since :
          /\ kind \in {"reconcile", "sync", "backfill"}
          /\ Free(h) /\ Begin(h, kind, "search", {}, since)
          /\ kind = "sync" => \A g \in Handlers : handler[g].at = "idle"
    BY DEF Start, StartReconcile, StartSync, StartBackfillPage
  <1>2. UNCHANGED <<clock, jira, gone, row, events, deletions, missed>>
    BY DEF Start, StartReconcile, StartSync, StartBackfillPage, world, stored
  <1>3. TypeOK
    BY DEF SyncInv
  <1>4. /\ handler'[h].kind = kind /\ handler'[h].at = "search"
        /\ handler'[h].about = {}
        /\ \A i \in Issues : /\ handler'[h].carried[i] = 0
                             /\ handler'[h].written[i] = 0
        /\ \A g \in Handlers : g # h => handler'[g] = handler[g]
    BY <1>1, <1>3, BeginFacts
  <1>5. Shape(handler'[h])
    BY <1>1, <1>4 DEF Shape
  <1>6. Carries(handler[h])' /\ Current(handler[h])'
    <2>1. \A i \in Issues : jira'[i] \in Nat
      BY DEF TypeOK, Stamps
    <2>2. QED
      BY <1>4, <2>1 DEF Carries, Current
  <1>7. /\ handler[h].at = "idle"
        /\ \A g \in Handlers \ {h} :
             handler[g].at = "idle" \/ handler[g].kind # "sync"
    BY <1>1 DEF Free
  <1>8. \A i \in Issues : ~Pursues(handler[h], i) /\ ~Removes(handler[h], i)
    BY <1>7 DEF Pursues, Removes
  <1>9. QED
    BY <1>1, <1>2, <1>4, <1>5, <1>6, <1>7, <1>8, QuietStep DEF ServerSteps

(* A handler that has what it will post. *)
LEMMA CarryFacts ==
  ASSUME TypeOK, NEW h \in Handlers, NEW issues \in SUBSET Issues,
         Carry(h, issues)
  PROVE  /\ handler'[h].at = "post"
         /\ handler'[h].kind = handler[h].kind
         /\ handler'[h].about = handler[h].about
         /\ handler'[h].written = handler[h].written
         /\ \A i \in Issues : handler'[h].carried[i] =
                                IF i \in issues THEN jira[i] ELSE 0
         /\ \A g \in Handlers : g # h => handler'[g] = handler[g]
  <1> DEFINE carried == [i \in Issues |-> IF i \in issues THEN jira[i] ELSE 0]
  <1>1. handler' = [handler EXCEPT
          ![h] = [handler[h] EXCEPT !.at = "post", !.carried = carried]]
    BY DEF Carry, TypeOK
  <1>2. handler[h] \in Work
    BY DEF TypeOK
  <1>3. \A i \in Issues : carried[i] = IF i \in issues THEN jira[i] ELSE 0
    OBVIOUS
  <1> HIDE DEF carried
  <1>4. QED
    BY <1>1, <1>2, <1>3 DEF TypeOK, Work

LEMMA CarryKeeps ==
  ASSUME SyncInv, TypeOK', NEW h \in Handlers, NEW issues \in SUBSET Issues,
         Carry(h, issues), handler[h].at \in {"fetch", "search"},
         UNCHANGED <<clock, jira, gone, row, events, deletions, missed>>,
         \A i \in issues : i \notin gone,
         handler[h].at = "fetch" => issues = handler[h].about
  PROVE  SyncInv'
  <1>1. TypeOK /\ Shape(handler[h]) /\ Alone(h)
    BY DEF SyncInv
  <1>2. /\ handler'[h].at = "post" /\ handler'[h].kind = handler[h].kind
        /\ handler'[h].about = handler[h].about
        /\ handler'[h].written = handler[h].written
        /\ \A i \in Issues : handler'[h].carried[i] =
                               IF i \in issues THEN jira[i] ELSE 0
        /\ \A g \in Handlers : g # h => handler'[g] = handler[g]
    BY <1>1, CarryFacts
  <1>3. \A i \in Issues : jira[i] \in Nat /\ row[i] \in Nat /\ row[i] <= jira[i]
    BY DEF SyncInv, TypeOK, Stamps, Ordered
  <1>4. Shape(handler'[h])
    <2>1. handler[h].kind = "webhook" => handler[h].at = "fetch"
      BY <1>1 DEF Shape
    <2>2. QED
      BY <1>1, <1>2, <2>1 DEF Shape
  <1>5. Carries(handler[h])'
    BY <1>2, <1>3 DEF Carries
  <1>6. Current(handler[h])'
    BY <1>1, <1>2 DEF Current, Shape
  <1>7. \A g \in Handlers \ {h} :
          handler[g].at = "idle" \/ handler[g].kind # "sync"
    BY DEF SyncInv, Alone
  <1>8. \A i \in Issues : ~Removes(handler[h], i)
    BY DEF Removes
  <1>9. ASSUME NEW i \in Issues, Pursues(handler[h], i)
        PROVE  Pursues(handler'[h], i)
    BY <1>2, <1>9 DEF Pursues
  <1>10. handler'[h].at \notin ServerSteps
    BY <1>2 DEF ServerSteps
  <1>11. handler'[h].kind = "sync" =>
           /\ \A g \in Handlers \ {h} : handler[g].at = "idle"
           /\ \A i \in Issues : handler'[h].carried[i] # 0 =>
                row[i] <= handler'[h].carried[i]
    BY <1>1, <1>2, <1>3 DEF Alone
  <1>12. QED
    BY <1>2, <1>4, <1>5, <1>6, <1>7, <1>8, <1>9, <1>10, <1>11, QuietStep

LEMMA ResultsAlive ==
  ASSUME NEW work, NEW issues \in Results(work)
  PROVE  issues \in SUBSET Issues /\ \A i \in issues : i \notin gone
  <1> DEFINE found ==
        {i \in Issues \ gone : jira[i] # 0 /\ jira[i] >= work.since}
  <1>1. \A limit : Newest(found, limit) \subseteq found
    BY DEF Newest
  <1>2. issues \subseteq found
    BY <1>1 DEF Results
  <1>3. QED
    BY <1>2

(* A handler that returns before it is in the server, or after its commit. *)
LEMMA EndKeeps ==
  ASSUME SyncInv, TypeOK', NEW h \in Handlers, End(h),
         UNCHANGED <<clock, jira, gone, row, events, deletions>>,
         missed \subseteq missed',
         \A i \in Issues : Behind(i) /\ Pursues(handler[h], i) => i \in missed',
         \A i \in Issues : Removes(handler[h], i) => i \in missed'
  PROVE  SyncInv'
  <1>1. TypeOK
    BY DEF SyncInv
  <1>2. /\ handler'[h] = Idle /\ handler'[h].at = "idle"
        /\ \A g \in Handlers : g # h => handler'[g] = handler[g]
        /\ Shape(handler[h])' /\ Carries(handler[h])' /\ Current(handler[h])'
    BY <1>1, EndFacts
  <1>3. Shape(handler'[h])
    BY <1>2, IdleShape
  <1>4. QED
    BY <1>2, <1>3, QuietStep DEF ServerSteps

LEMMA FetchKeeps ==
  ASSUME SyncInv, TypeOK', NEW h \in Handlers, Fetch(h) PROVE SyncInv'
  <1>1. /\ handler[h].at = "fetch"
        /\ UNCHANGED <<clock, jira, gone, row, events, deletions, missed>>
    BY DEF Fetch, world, inbox, stored
  <1>2. PICK i \in Issues : handler[h].about = {i}
    BY <1>1 DEF SyncInv, Shape
  <1>3. CASE i \in gone
    <2>1. End(h)
      BY <1>2, <1>3 DEF Fetch
    <2>2. \A j \in Issues : Pursues(handler[h], j) => ~Behind(j)
      BY <1>2, <1>3 DEF Pursues, Behind
    <2>3. \A j \in Issues : ~Removes(handler[h], j)
      BY <1>1 DEF Removes
    <2>4. QED
      BY <1>1, <2>1, <2>2, <2>3, EndKeeps
  <1>4. CASE i \notin gone
    <2>1. Carry(h, {i})
      BY <1>2, <1>4 DEF Fetch
    <2>2. QED
      BY <1>1, <1>2, <1>4, <2>1, CarryKeeps
  <1>5. QED
    BY <1>3, <1>4

LEMMA SearchKeeps ==
  ASSUME SyncInv, TypeOK', NEW h \in Handlers, Search(h) PROVE SyncInv'
  <1>1. /\ handler[h].at = "search"
        /\ UNCHANGED <<clock, jira, gone, row, events, deletions, missed>>
    BY DEF Search, world, inbox, stored
  <1>2. PICK issues \in Results(handler[h]) : End(h) \/ Carry(h, issues)
    BY DEF Search
  <1>3. issues \in SUBSET Issues /\ \A i \in issues : i \notin gone
    BY ResultsAlive
  <1>4. \A i \in Issues : ~Pursues(handler[h], i) /\ ~Removes(handler[h], i)
    BY <1>1 DEF Pursues, Removes
  <1>5. QED
    BY <1>1, <1>2, <1>3, <1>4, EndKeeps, CarryKeeps

(* A failed call drops what it was about, and says so. *)
LEMMA CallFailsKeeps ==
  ASSUME SyncInv, TypeOK', NEW h \in Handlers, CallFails(h) PROVE SyncInv'
  <1>1. /\ End(h) /\ missed' = missed \cup handler[h].about
        /\ UNCHANGED <<clock, jira, gone, row, events, deletions>>
    BY DEF CallFails, world, inbox
  <1>2. \A i \in Issues : Pursues(handler[h], i) \/ Removes(handler[h], i) =>
                            i \in handler[h].about
    BY DEF Pursues, Removes
  <1>3. QED
    BY <1>1, <1>2, EndKeeps

LEMMA StampKeeps ==
  ASSUME SyncInv, TypeOK', NEW h \in Handlers, Stamp(h) PROVE SyncInv'
  <1>1. /\ End(h) /\ handler[h].at = "stamp"
        /\ UNCHANGED <<clock, jira, gone, row, events, deletions, missed>>
    BY DEF Stamp, world, inbox
  <1>2. \A i \in Issues : ~Pursues(handler[h], i) /\ ~Removes(handler[h], i)
    BY <1>1 DEF Pursues, Removes
  <1>3. QED
    BY <1>1, <1>2, EndKeeps

(* The server's steps before the commit. *)
LEMMA PostKeeps ==
  ASSUME SyncInv, TypeOK', Races = {}, NEW h \in Handlers, Post(h)
  PROVE  SyncInv'
  <1>1. /\ handler[h].at = "post"
        /\ \A g \in Handlers \ {h} : handler[g].at \notin ServerSteps
        /\ UNCHANGED <<clock, jira, gone, row, events, deletions, missed>>
    BY DEF Post, ServerFree, world, inbox, stored
  <1> DEFINE todo == {i \in Issues : handler[h].carried[i] # 0}
  <1>2. TypeOK /\ handler[h] \in Work /\ Shape(handler[h]) /\ Alone(h)
        /\ Carries(handler[h]) /\ Current(handler[h])
    BY DEF SyncInv, TypeOK
  <1>3. handler' = [handler EXCEPT
          ![h] = [handler[h] EXCEPT !.at = "check", !.todo = todo]]
    BY <1>2 DEF Post, TypeOK
  <1>4. \A i \in todo : handler[h].carried[i] # 0
    OBVIOUS
  <1>5. \A i \in Issues : i \in todo \/ handler[h].carried[i] = 0
    OBVIOUS
  <1> HIDE DEF todo
  <1>6. /\ handler'[h].at = "check" /\ handler'[h].todo = todo
        /\ handler'[h].kind = handler[h].kind
        /\ handler'[h].about = handler[h].about
        /\ handler'[h].carried = handler[h].carried
        /\ handler'[h].written = handler[h].written
        /\ \A g \in Handlers : g # h => handler'[g] = handler[g]
    BY <1>2, <1>3 DEF TypeOK, Work
  <1>7. Shape(handler'[h])
    BY <1>1, <1>2, <1>4, <1>6 DEF Shape
  <1>8. Carries(handler[h])'
    BY <1>1, <1>2, <1>6 DEF Carries
  <1>9. Current(handler[h])'
    <2>1. \A i \in Issues : row[i] \in Nat
      BY <1>2 DEF TypeOK, Stamps
    <2>2. handler[h].about \subseteq Issues
      BY <1>2 DEF Work
    <2>3. \A i \in Issues : handler[h].written[i] = 0
      BY <1>1, <1>2 DEF Shape
    <2>4. QED
      BY <1>1, <1>5, <1>6, <2>1, <2>2, <2>3 DEF Current
  <1>10. \A g \in Handlers \ {h} :
           handler[g].at = "idle" \/ handler[g].kind # "sync"
    BY <1>1 DEF SyncInv, Alone
  <1>11. \A i \in Issues : ~Removes(handler[h], i)
    BY <1>1 DEF Removes
  <1>12. \A i \in Issues :
           Pursues(handler[h], i) => Pursues(handler'[h], i)
    BY <1>1, <1>6 DEF Pursues
  <1>13. handler'[h].kind = "sync" =>
           /\ \A g \in Handlers \ {h} : handler[g].at = "idle"
           /\ \A i \in Issues : handler'[h].carried[i] # 0 =>
                row[i] <= handler'[h].carried[i]
    BY <1>1, <1>2, <1>6 DEF Alone
  <1>14. QED
    BY <1>1, <1>6, <1>7, <1>8, <1>9, <1>10, <1>11, <1>12, <1>13, QuietStep

LEMMA CheckFacts ==
  ASSUME TypeOK, NEW h \in Handlers, NEW i \in Issues, Check(h, i)
  PROVE  /\ i \in handler[h].todo /\ handler[h].at = "check"
         /\ handler'[h].todo = handler[h].todo \ {i}
         /\ handler'[h].kind = handler[h].kind
         /\ handler'[h].carried = handler[h].carried
         /\ handler'[h].written = handler[h].written
         /\ handler'[h].about = IF handler[h].kind = "webhook"
                                THEN handler[h].about ELSE {i}
         /\ IF Stale(handler[h], i)
            THEN handler'[h].at = "check"
            ELSE handler'[h].at = "write" /\ handler'[h].loaded[i] = row[i]
         /\ \A g \in Handlers : g # h => handler'[g] = handler[g]
         /\ UNCHANGED <<clock, jira, gone, row, events, deletions, missed>>
  <1> DEFINE stale == Stale(handler[h], i)
             todo == handler[h].todo \ {i}
             at == IF stale THEN "check" ELSE "write"
             loaded == IF stale THEN None ELSE [None EXCEPT ![i] = row[i]]
             about == IF handler[h].kind = "webhook"
                      THEN handler[h].about ELSE {i}
  <1>1. handler' = [handler EXCEPT ![h] = [handler[h] EXCEPT
          !.todo = todo, !.at = at, !.loaded = loaded, !.about = about]]
    BY DEF Check, TypeOK
  <1>2. handler[h] \in Work
    BY DEF TypeOK
  <1>3. ~stale => loaded[i] = row[i]
    BY DEF None
  <1> HIDE DEF todo, loaded, about, stale
  <1>4. /\ handler'[h].todo = todo /\ handler'[h].at = at
        /\ handler'[h].loaded = loaded /\ handler'[h].about = about
        /\ handler'[h].kind = handler[h].kind
        /\ handler'[h].carried = handler[h].carried
        /\ handler'[h].written = handler[h].written
        /\ \A g \in Handlers : g # h => handler'[g] = handler[g]
    BY <1>1, <1>2 DEF TypeOK, Work
  <1>5. i \in handler[h].todo /\ handler[h].at = "check"
        /\ UNCHANGED <<clock, jira, gone, row, events, deletions, missed>>
    BY DEF Check, world, inbox, stored
  <1>6. QED
    BY <1>3, <1>4, <1>5 DEF todo, about, stale

LEMMA CheckKeeps ==
  ASSUME SyncInv, TypeOK', NEW h \in Handlers, NEW i \in Issues, Check(h, i)
  PROVE  SyncInv'
  <1>1. TypeOK /\ handler[h] \in Work /\ Shape(handler[h]) /\ Alone(h)
        /\ Carries(handler[h]) /\ Current(handler[h])
    BY DEF SyncInv, TypeOK
  <1> DEFINE w == handler[h]
             new == handler'[h]
  <1>2. /\ i \in w.todo /\ w.at = "check"
        /\ new.todo = w.todo \ {i} /\ new.kind = w.kind
        /\ new.carried = w.carried /\ new.written = w.written
        /\ new.about = IF w.kind = "webhook" THEN w.about ELSE {i}
        /\ IF Stale(w, i)
           THEN new.at = "check"
           ELSE new.at = "write" /\ new.loaded[i] = row[i]
        /\ \A g \in Handlers : g # h => handler'[g] = handler[g]
        /\ UNCHANGED <<clock, jira, gone, row, events, deletions, missed>>
    BY <1>1, CheckFacts
  <1>3. /\ w.carried[i] # 0
        /\ w.todo \subseteq Issues
        /\ new.about = {i}
    BY <1>1, <1>2 DEF Shape, Work
  <1>4. \A j \in Issues : row[j] \in Nat /\ w.carried[j] \in Nat
    BY <1>1 DEF TypeOK, Work, Stamps
  <1>5. Shape(new)
    BY <1>1, <1>2, <1>3 DEF Shape
  <1>6. Carries(handler[h])'
    BY <1>1, <1>2 DEF Carries
  <1>7. Current(handler[h])'
    <2>1. \A j \in Issues : new.written[j] # 0 => row[j] <= new.written[j]
      BY <1>1, <1>2 DEF Current
    <2>2. CASE Stale(w, i)
      <3>1. row[i] >= w.carried[i]
        BY <2>2 DEF Stale
      <3>2. QED
        BY <1>2, <1>3, <2>1, <2>2, <3>1 DEF Current
    <2>3. CASE ~Stale(w, i)
      <3>1. w.kind # "sync" => row[i] < w.carried[i]
        BY <1>4, <2>3 DEF Stale
      <3>2. QED
        BY <1>2, <1>3, <2>1, <2>3, <3>1 DEF Current
    <2>4. QED
      BY <2>2, <2>3
  <1>8. \A g \in Handlers \ {h} :
          handler[g].at = "idle" \/ handler[g].kind # "sync"
    BY <1>2 DEF SyncInv, Alone
  <1>9. \A j \in Issues : ~Removes(w, j)
    BY <1>2 DEF Removes
  <1>10. \A j \in Issues : Pursues(w, j) => Pursues(new, j)
    BY <1>2 DEF Pursues
  <1>11. new.kind = "sync" =>
           /\ \A g \in Handlers \ {h} : handler[g].at = "idle"
           /\ \A j \in Issues : new.carried[j] # 0 => row[j] <= new.carried[j]
    BY <1>1, <1>2 DEF Alone
  <1>12. w.at \in ServerSteps
    BY <1>2 DEF ServerSteps
  <1>13. QED
    BY <1>2, <1>5, <1>6, <1>7, <1>8, <1>9, <1>10, <1>11, <1>12, QuietStep

LEMMA FlushedFacts ==
  ASSUME TypeOK, NEW h \in Handlers,
         handler' = [handler EXCEPT ![h] = [handler[h] EXCEPT
           !.at = "check", !.loaded = None,
           !.written = Flushed(handler[h], handler[h].about)]]
  PROVE  /\ handler'[h].at = "check" /\ handler'[h].todo = handler[h].todo
         /\ handler'[h].kind = handler[h].kind
         /\ handler'[h].carried = handler[h].carried
         /\ handler'[h].about = handler[h].about
         /\ \A i \in Issues : handler'[h].written[i] =
              IF i \in handler[h].about
              THEN IF handler[h].carried[i] # handler[h].loaded[i]
                   THEN handler[h].carried[i] ELSE 0
              ELSE handler[h].written[i]
         /\ \A g \in Handlers : g # h => handler'[g] = handler[g]
  <1>1. handler[h] \in Work
    BY DEF TypeOK
  <1> DEFINE written == Flushed(handler[h], handler[h].about)
  <1>2. \A i \in Issues : written[i] =
              IF i \in handler[h].about
              THEN IF handler[h].carried[i] # handler[h].loaded[i]
                   THEN handler[h].carried[i] ELSE 0
              ELSE handler[h].written[i]
    BY DEF Flushed, Flush
  <1> HIDE DEF written
  <1>3. /\ handler'[h].at = "check" /\ handler'[h].todo = handler[h].todo
        /\ handler'[h].kind = handler[h].kind
        /\ handler'[h].carried = handler[h].carried
        /\ handler'[h].about = handler[h].about
        /\ handler'[h].written = written
        /\ \A g \in Handlers : g # h => handler'[g] = handler[g]
    BY <1>1 DEF TypeOK, Work, written
  <1>4. QED
    BY <1>2, <1>3

LEMMA WriteKeeps ==
  ASSUME SyncInv, TypeOK', NEW h \in Handlers, Write(h) PROVE SyncInv'
  <1>1. TypeOK /\ handler[h] \in Work /\ Shape(handler[h]) /\ Alone(h)
        /\ Carries(handler[h]) /\ Current(handler[h])
    BY DEF SyncInv, TypeOK
  <1>2. /\ handler[h].at = "write"
        /\ UNCHANGED <<clock, jira, gone, row, events, deletions>>
    BY DEF Write, world, inbox
  <1>3. CASE /\ End(h)
             /\ missed' = IF handler[h].kind = "webhook"
                          THEN missed \cup handler[h].about ELSE missed
    <2>1. \A i \in Issues : ~Removes(handler[h], i)
      BY <1>2 DEF Removes
    <2>2. \A i \in Issues : Pursues(handler[h], i) => i \in missed'
      BY <1>3 DEF Pursues
    <2>3. QED
      BY <1>2, <1>3, <2>1, <2>2, EndKeeps
  <1>4. CASE /\ handler' = [handler EXCEPT ![h] = [handler[h] EXCEPT
                  !.at = "check", !.loaded = None,
                  !.written = Flushed(handler[h], handler[h].about)]]
             /\ UNCHANGED missed
    <2> DEFINE w == handler[h]
               new == handler'[h]
    <2>1. /\ new.at = "check" /\ new.todo = w.todo /\ new.kind = w.kind
          /\ new.carried = w.carried /\ new.about = w.about
          /\ \A i \in Issues : new.written[i] =
               IF i \in w.about
               THEN IF w.carried[i] # w.loaded[i] THEN w.carried[i] ELSE 0
               ELSE w.written[i]
          /\ \A g \in Handlers : g # h => handler'[g] = handler[g]
      BY <1>1, <1>4, FlushedFacts
    <2>2. \A i \in Issues : row[i] \in Nat /\ w.carried[i] \in Nat
      BY <1>1 DEF TypeOK, Work, Stamps
    <2>3. w.about \subseteq Issues
      BY <1>1 DEF Work
    <2>4. \A i \in w.about : w.carried[i] # 0 /\ row[i] <= w.carried[i]
      <3>1. CASE w.kind = "sync"
        BY <1>1, <1>2, <2>3, <3>1 DEF Shape, Alone
      <3>2. CASE w.kind # "sync"
        BY <1>1, <1>2, <2>2, <2>3, <3>2 DEF Shape, Current
      <3>3. QED
        BY <3>1, <3>2
    <2>5. w.kind = "webhook" => \A i \in w.about : new.written[i] = w.carried[i]
      <3>1. ASSUME w.kind = "webhook", NEW i \in w.about
            PROVE  w.carried[i] # w.loaded[i]
        BY <1>1, <1>2, <2>2, <2>3, <3>1 DEF Current
      <3>2. QED
        BY <2>1, <2>3, <3>1
    <2>6. Shape(new)
      BY <1>1, <1>2, <2>1 DEF Shape
    <2>7. Carries(handler[h])'
      BY <1>1, <1>2, <2>1 DEF Carries
    <2>8. Current(handler[h])'
      BY <1>1, <1>2, <2>1, <2>3, <2>4, <2>5 DEF Current
    <2>9. \A g \in Handlers \ {h} :
            handler[g].at = "idle" \/ handler[g].kind # "sync"
      BY <1>2 DEF SyncInv, Alone
    <2>10. \A i \in Issues : ~Removes(w, i)
      BY <1>2 DEF Removes
    <2>11. \A i \in Issues : Pursues(w, i) => Pursues(new, i)
      BY <1>2, <2>1 DEF Pursues
    <2>12. new.kind = "sync" =>
             /\ \A g \in Handlers \ {h} : handler[g].at = "idle"
             /\ \A i \in Issues : new.carried[i] # 0 => row[i] <= new.carried[i]
      BY <1>1, <1>2, <2>1 DEF Alone
    <2>13. w.at \in ServerSteps
      BY <1>2 DEF ServerSteps
    <2>14. QED
      BY <1>2, <1>4, <2>1, <2>6, <2>7, <2>8, <2>9, <2>10, <2>11, <2>12, <2>13,
         QuietStep
  <1>5. QED
    BY <1>1, <1>3, <1>4, WriteCases

(* What a commit does to the rows: it replaces some by versions Jira has   *)
(* had since.                                                              *)
LEMMA CommitFacts ==
  ASSUME SyncInv, TypeOK', NEW h \in Handlers, NEW early \in BOOLEAN,
         Commit(h, early)
  PROVE  /\ handler[h].at = "check" /\ handler[h].todo = {}
         /\ UNCHANGED <<clock, jira, gone, events, deletions>>
         /\ missed' = {i \in missed : i \in gone \/ row'[i] # jira[i]}
         /\ \A i \in Issues :
              IF handler[h].written[i] # 0
              THEN /\ row'[i] = handler[h].carried[i] /\ i \notin gone
                   /\ row[i] <= row'[i] /\ row'[i] <= jira[i]
              ELSE row'[i] = row[i]
  <1>1. TypeOK /\ Shape(handler[h]) /\ Carries(handler[h]) /\ Current(handler[h])
    BY DEF SyncInv
  <1>2. /\ handler[h].at = "check" /\ handler[h].todo = {}
        /\ UNCHANGED <<clock, jira, gone, events, deletions>>
        /\ missed' = {i \in missed : i \in gone \/ row'[i] # jira[i]}
        /\ \A i \in Issues : row'[i] = IF handler[h].written[i] # 0
                                       THEN handler[h].written[i] ELSE row[i]
    BY DEF Commit, world, inbox
  <1>3. \A i \in Issues : handler[h].written[i] # 0 =>
          /\ handler[h].written[i] = handler[h].carried[i]
          /\ handler[h].carried[i] <= jira[i] /\ i \notin gone
          /\ row[i] <= handler[h].written[i]
    BY <1>1 DEF Shape, Carries, Current
  <1>4. QED
    BY <1>2, <1>3

LEMMA CommitEnds ==
  ASSUME SyncInv, TypeOK', NEW h \in Handlers, NEW early \in BOOLEAN,
         Commit(h, early)
  PROVE  /\ \A g \in Handlers : g # h => handler'[g] = handler[g]
         /\ handler'[h].at \in {"idle", "stamp"}
         /\ handler'[h].kind # "sync"
         /\ \A i \in Issues : handler'[h].written[i] = 0
         /\ Shape(handler'[h]) /\ Carries(handler[h])'
  <1>1. /\ TypeOK /\ handler[h] \in Work
        /\ Shape(handler[h]) /\ Carries(handler[h])
    BY DEF SyncInv, TypeOK
  <1>2. CASE End(h)
    <2>1. /\ handler'[h] = Idle
          /\ \A g \in Handlers : g # h => handler'[g] = handler[g]
          /\ Carries(handler[h])'
      BY <1>1, <1>2, EndFacts
    <2>2. QED
      BY <2>1, IdleShape DEF Idle, None
  <1>3. CASE /\ handler[h].kind = "webhook"
             /\ handler' = [handler EXCEPT ![h].at = "stamp",
                                           ![h].written = None]
    <2>1. /\ handler'[h].at = "stamp" /\ handler'[h].kind = "webhook"
          /\ handler'[h].written = None
          /\ handler'[h].carried = handler[h].carried
          /\ handler'[h].about = handler[h].about
          /\ \A g \in Handlers : g # h => handler'[g] = handler[g]
      BY <1>1, <1>3 DEF TypeOK, Work
    <2>2. \A i \in Issues : handler'[h].written[i] = 0
      BY <2>1 DEF None
    <2>3. handler[h].at = "check" /\ UNCHANGED <<jira, gone>>
      BY DEF Commit, world
    <2>4. Shape(handler'[h])
      BY <1>1, <1>3, <2>1, <2>2, <2>3 DEF Shape
    <2>5. Carries(handler[h])'
      BY <1>1, <2>1, <2>3 DEF Carries
    <2>6. QED
      BY <2>1, <2>2, <2>4, <2>5
  <1>4. QED
    BY <1>2, <1>3 DEF Commit

LEMMA CommitKeeps ==
  ASSUME SyncInv, TypeOK', NEW h \in Handlers, NEW early \in BOOLEAN,
         Commit(h, early)
  PROVE  SyncInv'
  <1> DEFINE w == handler[h]
  <1>1. /\ w.at = "check" /\ w.todo = {}
        /\ UNCHANGED <<clock, jira, gone, events, deletions>>
        /\ missed' = {i \in missed : i \in gone \/ row'[i] # jira[i]}
        /\ \A i \in Issues :
             IF w.written[i] # 0
             THEN /\ row'[i] = w.carried[i] /\ i \notin gone
                  /\ row[i] <= row'[i] /\ row'[i] <= jira[i]
             ELSE row'[i] = row[i]
    BY CommitFacts
  <1>2. /\ \A g \in Handlers : g # h => handler'[g] = handler[g]
        /\ handler'[h].at \in {"idle", "stamp"}
        /\ handler'[h].kind # "sync"
        /\ \A i \in Issues : handler'[h].written[i] = 0
        /\ Shape(handler'[h]) /\ Carries(handler[h])'
    BY CommitEnds
  <1>3. \A i \in Issues : row[i] \in Nat /\ jira[i] \in Nat /\ row'[i] \in Nat
                          /\ row[i] <= jira[i]
    BY DEF SyncInv, TypeOK, Stamps, Ordered
  <1>4. \A g \in Handlers : g # h => handler[g].at \notin ServerSteps
    BY <1>1 DEF SyncInv, Exclusive, ServerSteps
  <1>5. \A g \in Handlers : Shape(handler'[g])
    BY <1>2 DEF SyncInv
  <1>6. \A g \in Handlers : Carries(handler[g])'
    BY <1>1, <1>2 DEF SyncInv, Carries
  <1>7. \A g \in Handlers : Current(handler[g])'
    <2>1. Current(handler[h])'
      BY <1>2 DEF Current
    <2>2. ASSUME NEW g \in Handlers, g # h PROVE Current(handler[g])'
      <3>1. handler[g].at \notin {"check", "write"}
        BY <1>4, <2>2 DEF ServerSteps
      <3>2. \A i \in Issues : handler[g].written[i] = 0
        BY <3>1 DEF SyncInv, Shape
      <3>3. QED
        BY <1>2, <2>2, <3>1, <3>2 DEF Current
    <2>3. QED
      BY <2>1, <2>2
  <1>8. \A g \in Handlers : Alone(g)'
    <2>1. \A g \in Handlers \ {h} :
            handler[g].at = "idle" \/ handler[g].kind # "sync"
      BY <1>1 DEF SyncInv, Alone
    <2>2. QED
      BY <1>2, <2>1 DEF Alone
  <1>9. Exclusive'
    BY <1>2, <1>4 DEF Exclusive
  <1>10. Ordered' /\ (deletions \subseteq gone)'
    BY <1>1, <1>3 DEF SyncInv, Ordered
  <1>11. NothingForgotten'
    <2>1. ASSUME NEW i \in Issues, Behind(i)'
          PROVE  InHand(i)' \/ i \in missed'
      <3>1. i \notin gone /\ row'[i] # jira[i]
        BY <1>1, <2>1 DEF Behind
      <3>2. row[i] # jira[i]
        BY <1>1, <1>3, <3>1
      <3>3. InHand(i) \/ i \in missed
        BY <3>1, <3>2 DEF SyncInv, NothingForgotten, Behind
      <3>4. i \in missed => i \in missed'
        BY <1>1, <3>1
      <3>5. \A g \in Handlers : g # h /\ Pursues(handler[g], i) =>
              Pursues(handler[g], i)'
        BY <1>1, <1>2 DEF Pursues
      <3>6. ~Pursues(handler[h], i)
        <4>1. SUFFICES ASSUME Pursues(handler[h], i) PROVE FALSE
          OBVIOUS
        <4>2. w.kind = "webhook" /\ w.about = {i} /\ w.carried[i] = jira[i]
          BY <1>1, <4>1 DEF Pursues
        <4>3. w.written[i] = w.carried[i] \/ row[i] >= w.carried[i]
          BY <1>1, <4>2 DEF SyncInv, Current
        <4>4. QED
          BY <1>1, <1>3, <3>1, <3>2, <4>2, <4>3
      <3>7. QED
        BY <1>1, <3>3, <3>4, <3>5, <3>6 DEF InHand
    <2>2. ASSUME NEW i \in Issues, Lingers(i)'
          PROVE  DeletionInHand(i)' \/ i \in missed'
      <3>1. i \in gone /\ row[i] # 0
        BY <1>1, <2>2 DEF Lingers
      <3>2. DeletionInHand(i) \/ i \in missed
        BY <3>1 DEF SyncInv, NothingForgotten, Lingers
      <3>3. \A g \in Handlers : g # h /\ Removes(handler[g], i) =>
              Removes(handler[g], i)'
        BY <1>2 DEF Removes
      <3>4. ~Removes(handler[h], i)
        BY <1>1 DEF Removes
      <3>5. QED
        BY <1>1, <3>1, <3>2, <3>3, <3>4 DEF DeletionInHand
    <2>3. QED
      BY <2>1, <2>2 DEF NothingForgotten
  <1>12. QED
    BY <1>5, <1>6, <1>7, <1>8, <1>9, <1>10, <1>11 DEF SyncInv

(* A deletion removes only the row of an issue that Jira has deleted. *)
LEMMA DeleteFacts ==
  ASSUME SyncInv, TypeOK', NEW h \in Handlers, Delete(h)
  PROVE  /\ End(h) /\ handler[h].at = "delete"
         /\ UNCHANGED <<clock, jira, gone, events, deletions>>
         /\ \E d \in Issues :
              /\ handler[h].about = {d} /\ d \in gone
              /\ missed' = missed \ {d}
              /\ \A i \in Issues : row'[i] = IF i = d THEN 0 ELSE row[i]
  <1>1. /\ End(h) /\ handler[h].at = "delete"
        /\ UNCHANGED <<clock, jira, gone, events, deletions>>
        /\ missed' = missed \ handler[h].about
        /\ \A i \in Issues :
             row'[i] = IF i \in handler[h].about THEN 0 ELSE row[i]
    BY DEF Delete, world, inbox
  <1>2. Shape(handler[h]) /\ Carries(handler[h])
    BY DEF SyncInv
  <1>3. PICK d \in Issues : handler[h].about = {d}
    BY <1>1, <1>2 DEF Shape
  <1>4. d \in gone
    BY <1>1, <1>2, <1>3 DEF Carries
  <1>5. QED
    BY <1>1, <1>3, <1>4

LEMMA DeleteKeeps ==
  ASSUME SyncInv, TypeOK', Races = {}, NEW h \in Handlers, Delete(h)
  PROVE  SyncInv'
  <1>1. /\ End(h) /\ handler[h].at = "delete"
        /\ UNCHANGED <<clock, jira, gone, events, deletions>>
    BY DeleteFacts
  <1>2. PICK d \in Issues :
          /\ handler[h].about = {d} /\ d \in gone
          /\ missed' = missed \ {d}
          /\ \A i \in Issues : row'[i] = IF i = d THEN 0 ELSE row[i]
    BY DeleteFacts
  <1>3. \A g \in Handlers \ {h} : handler[g].at \notin ServerSteps
    BY DEF Delete, ServerFree
  <1>4. /\ handler'[h] = Idle /\ handler'[h].at = "idle"
        /\ \A g \in Handlers : g # h => handler'[g] = handler[g]
        /\ Shape(handler'[h]) /\ Carries(handler[h])' /\ Current(handler[h])'
    <2>1. TypeOK
      BY DEF SyncInv
    <2>2. QED
      BY <1>1, <2>1, EndFacts, IdleShape
  <1>5. \A i \in Issues : row[i] \in Nat /\ row'[i] \in Nat /\ row'[i] <= row[i]
                          /\ jira[i] \in Nat
    BY <1>2 DEF SyncInv, TypeOK, Stamps
  <1>6. \A g \in Handlers : Shape(handler'[g])
    BY <1>4 DEF SyncInv
  <1>7. \A g \in Handlers : Carries(handler[g])'
    BY <1>1, <1>4 DEF SyncInv, Carries
  <1>8. ASSUME NEW g \in Handlers, g # h PROVE Current(handler[g])'
    <2>1. handler[g].at \notin {"check", "write"}
      BY <1>3, <1>8 DEF ServerSteps
    <2>2. \A i \in Issues : handler[g].written[i] = 0
      BY <2>1 DEF SyncInv, Shape
    <2>3. QED
      BY <1>4, <1>8, <2>1, <2>2 DEF Current
  <1>9. \A g \in Handlers : Alone(g)'
    <2>1. \A g \in Handlers \ {h} :
            handler[g].at = "idle" \/ handler[g].kind # "sync"
      BY <1>1 DEF SyncInv, Alone
    <2>2. QED
      BY <1>4, <2>1 DEF Alone
  <1>10. Exclusive'
    BY <1>3, <1>4 DEF Exclusive, ServerSteps
  <1>11. Ordered' /\ (deletions \subseteq gone)'
    BY <1>1, <1>2, <1>5 DEF SyncInv, Ordered, TypeOK
  <1>12. ASSUME NEW i \in Issues, Behind(i)'
         PROVE  InHand(i)' \/ i \in missed'
    <2>1. Behind(i) /\ i # d
      BY <1>1, <1>2, <1>12 DEF Behind
    <2>2. InHand(i) \/ i \in missed
      BY <2>1 DEF SyncInv, NothingForgotten
    <2>3. \A g \in Handlers : Pursues(handler[g], i) =>
            g # h /\ Pursues(handler[g], i)'
      BY <1>1, <1>4 DEF Pursues
    <2>4. QED
      BY <1>1, <1>2, <2>1, <2>2, <2>3 DEF InHand
  <1>13. ASSUME NEW i \in Issues, Lingers(i)'
         PROVE  DeletionInHand(i)' \/ i \in missed'
    <2>1. Lingers(i) /\ i # d
      BY <1>1, <1>2, <1>13 DEF Lingers
    <2>2. DeletionInHand(i) \/ i \in missed
      BY <2>1 DEF SyncInv, NothingForgotten
    <2>3. \A g \in Handlers : Removes(handler[g], i) =>
            g # h /\ Removes(handler[g], i)'
      BY <1>2, <1>4, <2>1 DEF Removes
    <2>4. QED
      BY <1>1, <1>2, <2>1, <2>2, <2>3 DEF DeletionInHand
  <1>14. NothingForgotten'
    BY <1>12, <1>13 DEF NothingForgotten
  <1>15. QED
    BY <1>4, <1>6, <1>7, <1>8, <1>9, <1>10, <1>11, <1>14 DEF SyncInv

(* An event or a deletion handed to a free slot. *)
LEMMA TakeEventKeeps ==
  ASSUME SyncInv, TypeOK', Races = {}, NEW h \in Handlers, NEW i \in Issues,
         NEW repeated \in BOOLEAN, TakeEvent(h, i, repeated)
  PROVE  SyncInv'
  <1>1. TypeOK
    BY DEF SyncInv
  <1>2. /\ Free(h) /\ Begin(h, "webhook", "fetch", {i}, 0)
        /\ UNCHANGED <<clock, jira, gone, row, deletions, missed>>
        /\ \A j \in Issues : j # i => events'[j] = events[j]
    BY <1>1 DEF TakeEvent, world, stored, TypeOK
  <1>3. /\ handler'[h].kind = "webhook" /\ handler'[h].at = "fetch"
        /\ handler'[h].about = {i}
        /\ \A j \in Issues : /\ handler'[h].carried[j] = 0
                             /\ handler'[h].written[j] = 0
        /\ \A g \in Handlers : g # h => handler'[g] = handler[g]
    BY <1>1, <1>2, BeginFacts
  <1>4. /\ handler[h].at = "idle"
        /\ \A g \in Handlers :
             handler[g].at # "idle" => handler[g].kind # "sync"
    BY <1>2 DEF Free
  <1>5. \A j \in Issues : jira[j] \in Nat
    BY <1>1 DEF TypeOK, Stamps
  <1>6. Shape(handler'[h])
    BY <1>3 DEF Shape
  <1>7. Carries(handler[h])' /\ Current(handler[h])'
    BY <1>2, <1>3, <1>5 DEF Carries, Current
  <1>8. \A g \in Handlers : Shape(handler'[g])
    BY <1>3, <1>6 DEF SyncInv
  <1>9. \A g \in Handlers : Carries(handler[g])' /\ Current(handler[g])'
    BY <1>2, <1>3, <1>7 DEF SyncInv, Carries, Current
  <1>10. \A g \in Handlers : Alone(g)'
    BY <1>3, <1>4 DEF Alone
  <1>11. Exclusive'
    BY <1>3 DEF SyncInv, Exclusive, ServerSteps
  <1>12. Ordered' /\ (deletions \subseteq gone)'
    BY <1>2 DEF SyncInv, Ordered
  <1>13. ASSUME NEW j \in Issues, Behind(j)'
         PROVE  InHand(j)' \/ j \in missed'
    <2>1. Behind(j)
      BY <1>2, <1>13 DEF Behind
    <2>2. InHand(j) \/ j \in missed
      BY <2>1 DEF SyncInv, NothingForgotten
    <2>3. \A g \in Handlers : Pursues(handler[g], j) =>
            g # h /\ Pursues(handler[g], j)'
      BY <1>2, <1>3, <1>4 DEF Pursues
    <2>4. j = i => Pursues(handler[h], j)'
      BY <1>3 DEF Pursues
    <2>5. QED
      BY <1>2, <2>2, <2>3, <2>4 DEF InHand
  <1>14. ASSUME NEW j \in Issues, Lingers(j)'
         PROVE  DeletionInHand(j)' \/ j \in missed'
    <2>1. Lingers(j)
      BY <1>2, <1>14 DEF Lingers
    <2>2. DeletionInHand(j) \/ j \in missed
      BY <2>1 DEF SyncInv, NothingForgotten
    <2>3. \A g \in Handlers : Removes(handler[g], j) =>
            g # h /\ Removes(handler[g], j)'
      BY <1>3, <1>4 DEF Removes
    <2>4. QED
      BY <1>2, <2>2, <2>3 DEF DeletionInHand
  <1>15. NothingForgotten'
    BY <1>13, <1>14 DEF NothingForgotten
  <1>16. QED
    BY <1>8, <1>9, <1>10, <1>11, <1>12, <1>15 DEF SyncInv

LEMMA TakeDeletionKeeps ==
  ASSUME SyncInv, TypeOK', Races = {}, NEW h \in Handlers, NEW i \in Issues,
         NEW repeated \in BOOLEAN, TakeDeletion(h, i, repeated)
  PROVE  SyncInv'
  <1>1. TypeOK
    BY DEF SyncInv
  <1>2. /\ Free(h) /\ Begin(h, "deletion", "delete", {i}, 0)
        /\ UNCHANGED <<clock, jira, gone, row, events, missed>>
        /\ i \in gone /\ deletions' \subseteq gone
        /\ \A j \in Issues : j # i /\ j \in deletions => j \in deletions'
    BY DEF TakeDeletion, world, stored, SyncInv
  <1>3. /\ handler'[h].kind = "deletion" /\ handler'[h].at = "delete"
        /\ handler'[h].about = {i}
        /\ \A j \in Issues : /\ handler'[h].carried[j] = 0
                             /\ handler'[h].written[j] = 0
        /\ \A g \in Handlers : g # h => handler'[g] = handler[g]
    BY <1>1, <1>2, BeginFacts
  <1>4. /\ handler[h].at = "idle"
        /\ \A g \in Handlers :
             handler[g].at # "idle" => handler[g].kind # "sync"
    BY <1>2 DEF Free
  <1>5. \A j \in Issues : jira[j] \in Nat
    BY <1>1 DEF TypeOK, Stamps
  <1>6. Shape(handler'[h])
    BY <1>3 DEF Shape
  <1>7. Carries(handler[h])' /\ Current(handler[h])'
    BY <1>2, <1>3, <1>5 DEF Carries, Current
  <1>8. \A g \in Handlers : Shape(handler'[g])
    BY <1>3, <1>6 DEF SyncInv
  <1>9. \A g \in Handlers : Carries(handler[g])' /\ Current(handler[g])'
    BY <1>2, <1>3, <1>7 DEF SyncInv, Carries, Current
  <1>10. \A g \in Handlers : Alone(g)'
    BY <1>3, <1>4 DEF Alone
  <1>11. Exclusive'
    BY <1>3 DEF SyncInv, Exclusive, ServerSteps
  <1>12. Ordered' /\ (deletions \subseteq gone)'
    BY <1>2 DEF SyncInv, Ordered
  <1>13. ASSUME NEW j \in Issues, Behind(j)'
         PROVE  InHand(j)' \/ j \in missed'
    <2>1. Behind(j)
      BY <1>2, <1>13 DEF Behind
    <2>2. InHand(j) \/ j \in missed
      BY <2>1 DEF SyncInv, NothingForgotten
    <2>3. \A g \in Handlers : Pursues(handler[g], j) =>
            g # h /\ Pursues(handler[g], j)'
      BY <1>2, <1>3, <1>4 DEF Pursues
    <2>4. QED
      BY <1>2, <2>2, <2>3 DEF InHand
  <1>14. ASSUME NEW j \in Issues, Lingers(j)'
         PROVE  DeletionInHand(j)' \/ j \in missed'
    <2>1. Lingers(j)
      BY <1>2, <1>14 DEF Lingers
    <2>2. DeletionInHand(j) \/ j \in missed
      BY <2>1 DEF SyncInv, NothingForgotten
    <2>3. \A g \in Handlers : Removes(handler[g], j) =>
            g # h /\ Removes(handler[g], j)'
      BY <1>3, <1>4 DEF Removes
    <2>4. j = i => Removes(handler[h], j)'
      BY <1>3 DEF Removes
    <2>5. QED
      BY <1>2, <2>2, <2>3, <2>4 DEF DeletionInHand
  <1>15. NothingForgotten'
    BY <1>13, <1>14 DEF NothingForgotten
  <1>16. QED
    BY <1>8, <1>9, <1>10, <1>11, <1>12, <1>15 DEF SyncInv

(* What happens in Jira. *)
LEMMA TickKeeps == ASSUME SyncInv, TypeOK', Tick PROVE SyncInv'
  <1>1. /\ UNCHANGED <<jira, gone, events, deletions, row, missed, handler>>
        /\ clock \in Nat /\ clock' = clock + 1
        /\ \A i \in Issues : jira[i] \in Nat
    BY DEF Tick, Advance, inbox, stored, SyncInv, TypeOK, Stamps
  <1>2. Ordered'
    BY <1>1 DEF SyncInv, Ordered
  <1>3. Exclusive' /\ \A h \in Handlers : Alone(h)'
    BY <1>1 DEF SyncInv, Exclusive, Alone
  <1>4. \A h \in Handlers : /\ Shape(handler[h])' /\ Carries(handler[h])'
                            /\ Current(handler[h])'
    BY <1>1 DEF SyncInv, Shape, Carries, Current
  <1>5. NothingForgotten'
    BY <1>1 DEF SyncInv, NothingForgotten, Behind, Lingers, InHand,
       DeletionInHand, Pursues, Removes
  <1>6. QED
    BY <1>1, <1>2, <1>3, <1>4, <1>5 DEF SyncInv

LEMMA ChangeKeeps ==
  ASSUME SyncInv, TypeOK', NEW i \in Issues, JiraChange(i) PROVE SyncInv'
  <1>1. /\ UNCHANGED <<gone, deletions, row, handler>>
        /\ i \notin gone /\ clock' = clock + 1
        /\ jira' = [jira EXCEPT ![i] = clock + 1]
        /\ events' = [events EXCEPT ![i] = @ + 1]
        /\ missed' = missed \ {i}
    BY DEF JiraChange, Advance
  <1>2. /\ clock \in Nat
        /\ \A j \in Issues : jira[j] \in Nat /\ row[j] \in Nat /\ jira[j] <= clock
        /\ \A j \in Issues : events[j] \in Nat
        /\ \A h \in Handlers, j \in Issues : handler[h].carried[j] \in Nat
    BY DEF SyncInv, TypeOK, Stamps, Work, Ordered
  <1>3. \A j \in Issues : /\ jira[j] <= jira'[j]
                          /\ jira'[j] = IF j = i THEN clock + 1 ELSE jira[j]
    BY <1>1, <1>2 DEF SyncInv, TypeOK, Stamps
  <1>4. events'[i] > 0 /\ \A j \in Issues : j # i => events'[j] = events[j]
    BY <1>1, <1>2 DEF SyncInv, TypeOK, Stamps
  <1>5. Ordered'
    BY <1>1, <1>2, <1>3 DEF SyncInv, Ordered
  <1>6. \A h \in Handlers : Carries(handler[h])'
    BY <1>1, <1>2, <1>3 DEF SyncInv, Carries
  <1>7. /\ \A h \in Handlers : Shape(handler[h])' /\ Current(handler[h])'
        /\ \A h \in Handlers : Alone(h)'
        /\ Exclusive'
    BY <1>1 DEF SyncInv, Shape, Current, Alone, Exclusive
  <1>8. ASSUME NEW j \in Issues, Behind(j)'
        PROVE  InHand(j)' \/ j \in missed'
    <2>1. CASE j = i
      BY <1>4, <2>1 DEF InHand
    <2>2. CASE j # i
      <3>1. Behind(j)
        BY <1>1, <1>3, <1>8, <2>2 DEF Behind
      <3>2. InHand(j) \/ j \in missed
        BY <3>1 DEF SyncInv, NothingForgotten
      <3>3. \A g \in Handlers : Pursues(handler[g], j) => Pursues(handler[g], j)'
        BY <1>1, <1>3, <2>2 DEF Pursues
      <3>4. QED
        BY <1>1, <1>4, <2>2, <3>2, <3>3 DEF InHand
    <2>3. QED
      BY <2>1, <2>2
  <1>9. ASSUME NEW j \in Issues, Lingers(j)'
        PROVE  DeletionInHand(j)' \/ j \in missed'
    <2>1. Lingers(j) /\ j # i
      BY <1>1, <1>9 DEF Lingers
    <2>2. DeletionInHand(j) \/ j \in missed
      BY <2>1 DEF SyncInv, NothingForgotten
    <2>3. QED
      BY <1>1, <2>1, <2>2 DEF DeletionInHand, Removes
  <1>10. NothingForgotten'
    BY <1>8, <1>9 DEF NothingForgotten
  <1>11. QED
    BY <1>1, <1>5, <1>6, <1>7, <1>10 DEF SyncInv

LEMMA JiraDeleteKeeps ==
  ASSUME SyncInv, TypeOK', Races = {}, NEW i \in Issues, JiraDelete(i)
  PROVE  SyncInv'
  <1>1. /\ UNCHANGED <<clock, jira, events, row, handler>>
        /\ gone' = gone \cup {i} /\ deletions' = deletions \cup {i}
        /\ missed' = missed \ {i}
        /\ \A h \in Handlers : handler[h].carried[i] = 0
    BY DEF JiraDelete
  <1>2. \A h \in Handlers : Carries(handler[h])'
    BY <1>1 DEF SyncInv, Carries
  <1>3. /\ \A h \in Handlers : Shape(handler[h])' /\ Current(handler[h])'
        /\ \A h \in Handlers : Alone(h)'
        /\ Exclusive' /\ Ordered' /\ (deletions \subseteq gone)'
    BY <1>1 DEF SyncInv, Shape, Current, Alone, Exclusive, Ordered
  <1>4. ASSUME NEW j \in Issues, Behind(j)'
        PROVE  InHand(j)' \/ j \in missed'
    <2>1. Behind(j) /\ j # i
      BY <1>1, <1>4 DEF Behind
    <2>2. InHand(j) \/ j \in missed
      BY <2>1 DEF SyncInv, NothingForgotten
    <2>3. QED
      BY <1>1, <2>1, <2>2 DEF InHand, Pursues
  <1>5. ASSUME NEW j \in Issues, Lingers(j)'
        PROVE  DeletionInHand(j)' \/ j \in missed'
    <2>1. CASE j = i
      BY <1>1, <2>1 DEF DeletionInHand
    <2>2. CASE j # i
      <3>1. Lingers(j)
        BY <1>1, <1>5, <2>2 DEF Lingers
      <3>2. DeletionInHand(j) \/ j \in missed
        BY <3>1 DEF SyncInv, NothingForgotten
      <3>3. QED
        BY <1>1, <2>2, <3>2 DEF DeletionInHand, Removes
    <2>3. QED
      BY <2>1, <2>2
  <1>6. NothingForgotten'
    BY <1>4, <1>5 DEF NothingForgotten
  <1>7. QED
    BY <1>2, <1>3, <1>6 DEF SyncInv

-----------------------------------------------------------------------------
(* The theorems. *)

LEMMA InitSync == ASSUME Init PROVE SyncInv
  <1>1. TypeOK
    BY InitTypeOK
  <1>2. /\ \A h \in Handlers : handler[h] = Idle
        /\ \A i \in Issues : jira[i] = 0 /\ row[i] = 0
        /\ clock = 0 /\ gone = {} /\ deletions = {}
    BY DEF Init, None
  <1>3. /\ Idle.at = "idle" /\ Idle.kind = "webhook"
        /\ \A i \in Issues : Idle.carried[i] = 0 /\ Idle.written[i] = 0
    BY DEF Idle, None
  <1>4. \A h \in Handlers : Shape(handler[h])
    BY <1>2, IdleShape
  <1>5. \A h \in Handlers : Carries(handler[h]) /\ Current(handler[h])
    BY <1>2, <1>3 DEF Carries, Current
  <1>6. Exclusive /\ \A h \in Handlers : Alone(h)
    BY <1>2, <1>3 DEF Exclusive, Alone, ServerSteps
  <1>7. Ordered /\ NothingForgotten
    BY <1>2 DEF Ordered, NothingForgotten, Behind, Lingers
  <1>8. QED
    BY <1>1, <1>2, <1>4, <1>5, <1>6, <1>7 DEF SyncInv

LEMMA StepKeeps ==
  ASSUME SyncInv, TypeOK', Races = {}, NEW h \in Handlers, Step(h)
  PROVE  SyncInv'
  <1>1. CASE Fetch(h)
    BY <1>1, FetchKeeps
  <1>2. CASE Search(h)
    BY <1>2, SearchKeeps
  <1>3. CASE CallFails(h)
    BY <1>3, CallFailsKeeps
  <1>4. CASE Post(h)
    BY <1>4, PostKeeps
  <1>5. CASE Write(h)
    BY <1>5, WriteKeeps
  <1>6. CASE Stamp(h)
    BY <1>6, StampKeeps
  <1>7. CASE Delete(h)
    BY <1>7, DeleteKeeps
  <1>8. ASSUME NEW early \in BOOLEAN, Commit(h, early) PROVE SyncInv'
    BY <1>8, CommitKeeps
  <1>9. ASSUME NEW i \in Issues, Check(h, i) PROVE SyncInv'
    BY <1>9, CheckKeeps
  <1>10. QED
    BY <1>1, <1>2, <1>3, <1>4, <1>5, <1>6, <1>7, <1>8, <1>9 DEF Step, Server

LEMMA NextSync ==
  ASSUME SyncInv, Races = {}, [Next]_vars PROVE SyncInv'
  <1>1. TypeOK'
    BY NextTypeOK DEF SyncInv
  <1>2. CASE UNCHANGED vars
    <2>1. UNCHANGED <<clock, jira, gone, events, deletions, row, missed, handler>>
      BY <1>2 DEF vars
    <2>2. \A h \in Handlers : /\ Shape(handler[h])' /\ Carries(handler[h])'
                              /\ Current(handler[h])' /\ Alone(h)'
      BY <2>1 DEF SyncInv, Shape, Carries, Current, Alone
    <2>3. Exclusive' /\ Ordered' /\ (deletions \subseteq gone)'
      BY <2>1 DEF SyncInv, Exclusive, Ordered
    <2>4. NothingForgotten'
      BY <2>1 DEF SyncInv, NothingForgotten, Behind, Lingers, InHand,
         DeletionInHand, Pursues, Removes
    <2>5. QED
      BY <1>1, <2>2, <2>3, <2>4 DEF SyncInv
  <1>3. CASE Tick
    BY <1>1, <1>3, TickKeeps
  <1>4. ASSUME NEW i \in Issues, JiraChange(i) PROVE SyncInv'
    BY <1>1, <1>4, ChangeKeeps
  <1>5. ASSUME NEW i \in Issues, JiraDelete(i) PROVE SyncInv'
    BY <1>1, <1>5, JiraDeleteKeeps
  <1>6. ASSUME NEW h \in Handlers, Step(h) PROVE SyncInv'
    BY <1>1, <1>6, StepKeeps
  <1>7. ASSUME NEW h \in Handlers, Start(h) PROVE SyncInv'
    BY <1>1, <1>7, StartKeeps
  <1>8. ASSUME NEW h \in Handlers, NEW i \in Issues, Take(h, i) PROVE SyncInv'
    BY <1>1, <1>8, TakeEventKeeps, TakeDeletionKeeps DEF Take
  <1>9. QED
    BY <1>2, <1>3, <1>4, <1>5, <1>6, <1>7, <1>8 DEF Next

(* While ingests do not overlap, the Sync button runs alone and no issue   *)
(* is deleted while a handler carries it, no order of the app's fetches    *)
(* and posts, no repeated event and no page of an old search makes the     *)
(* backend forget a change or a deletion whose call did not fail.          *)
THEOREM NothingIsForgotten ==
  ASSUME Races = {} PROVE Spec => []NothingForgotten
  <1>1. Init => SyncInv
    BY InitSync
  <1>2. SyncInv /\ [Next]_vars => SyncInv'
    BY NextSync
  <1>3. SyncInv => NothingForgotten
    BY DEF SyncInv
  <1>4. QED
    BY <1>1, <1>2, <1>3, PTL DEF Spec

RowsKept == \A i \in Issues : row'[i] < row[i] => i \in gone

(* Under the same conditions skip_if_stale does what its comment says: the *)
(* row of an issue that Jira still has is never replaced by an older       *)
(* version, nor deleted.                                                   *)
THEOREM RowsDoNotRegress ==
  ASSUME Races = {} PROVE Spec => NoRegress
  <1>1. ASSUME SyncInv, [Next]_vars PROVE [RowsKept]_vars
    <2>1. TypeOK' /\ \A i \in Issues : row[i] \in Nat
      BY <1>1, NextTypeOK DEF SyncInv, TypeOK, Stamps
    <2>2. ASSUME NEW h \in Handlers, Delete(h) PROVE RowsKept
      BY <1>1, <2>1, <2>2, DeleteFacts DEF RowsKept
    <2>3. ASSUME NEW h \in Handlers, NEW early \in BOOLEAN, Commit(h, early)
          PROVE  RowsKept
      <3>1. \A i \in Issues : row'[i] \in Nat
        BY <2>1 DEF TypeOK, Stamps
      <3>2. \A i \in Issues : row[i] <= row'[i]
        BY <1>1, <2>1, <2>3, CommitFacts
      <3>3. QED
        BY <2>1, <3>1, <3>2 DEF RowsKept
    <2>4. CASE row' = row
      BY <2>1, <2>4 DEF RowsKept
    <2>5. CASE Next
      <3>1. CASE Tick \/ \E i \in Issues : JiraChange(i) \/ JiraDelete(i)
        BY <2>4, <3>1 DEF Tick, JiraChange, JiraDelete, stored
      <3>2. ASSUME NEW h \in Handlers, Start(h) PROVE row' = row
        BY <3>2 DEF Start, StartReconcile, StartSync, StartBackfillPage, stored
      <3>3. ASSUME NEW h \in Handlers, NEW i \in Issues, Take(h, i)
            PROVE  row' = row
        BY <3>3 DEF Take, TakeEvent, TakeDeletion, stored
      <3>4. ASSUME NEW h \in Handlers, Step(h) PROVE RowsKept
        <4>1. ASSUME \/ Fetch(h) \/ Search(h) \/ Post(h)
                     \/ \E i \in Issues : Check(h, i)
              PROVE  row' = row
          BY <4>1 DEF Fetch, Search, Post, Check, stored
        <4>2. ASSUME CallFails(h) \/ Write(h) \/ Stamp(h) PROVE row' = row
          BY <4>2 DEF CallFails, Write, Stamp
        <4>3. CASE Delete(h)
          BY <2>2, <4>3
        <4>4. CASE \E early \in BOOLEAN : Commit(h, early)
          BY <2>3, <4>4
        <4>5. CASE row' = row
          BY <2>1, <4>5 DEF RowsKept
        <4>6. QED
          BY <3>4, <4>1, <4>2, <4>3, <4>4, <4>5 DEF Step, Server
      <3>5. QED
        BY <2>4, <2>5, <3>1, <3>2, <3>3, <3>4 DEF Next
    <2>6. QED
      BY <1>1, <2>5
  <1>2. Init => SyncInv
    BY InitSync
  <1>3. SyncInv /\ [Next]_vars => SyncInv'
    BY NextSync
  <1>4. SyncInv /\ [Next]_vars => [RowsKept]_vars
    BY <1>1
  <1>5. QED
    BY <1>2, <1>3, <1>4, PTL DEF Spec, NoRegress, RowsKept

-----------------------------------------------------------------------------
(* The refinement of Mirror. *)

LEMMA QuietIsMirrored ==
  ASSUME UNCHANGED <<jira, gone, row, missed>> PROVE [Image!Next]_Image!mirrorVars
  BY DEF Image!mirrorVars

LEMMA MissIsMirrored ==
  ASSUME NEW h \in Handlers, Shape(handler[h]), UNCHANGED <<jira, gone, row>>,
         missed' = missed \/ missed' = missed \cup handler[h].about
  PROVE  [Image!Next]_Image!mirrorVars
  <1>1. CASE handler[h].about = {} \/ missed' = missed
    BY <1>1, QuietIsMirrored
  <1>2. CASE missed' = missed \cup handler[h].about /\ handler[h].about # {}
    <2>1. PICK i \in Issues : handler[h].about = {i}
      BY <1>2 DEF Shape
    <2>2. Image!Miss(i)
      BY <1>2, <2>1 DEF Image!Miss
    <2>3. QED
      BY <2>2 DEF Image!Next
  <1>3. QED
    BY <1>1, <1>2

LEMMA CommitIsMirrored ==
  ASSUME SyncInv, TypeOK', NEW h \in Handlers, NEW early \in BOOLEAN,
         Commit(h, early)
  PROVE  Image!CatchUp
  <1>1. /\ UNCHANGED <<jira, gone>>
        /\ missed' = {i \in missed : i \in gone \/ row'[i] # jira[i]}
        /\ \A i \in Issues :
             \/ row'[i] = row[i]
             \/ i \notin gone /\ row[i] <= row'[i] /\ row'[i] <= jira[i]
    BY CommitFacts
  <1>2. \A i \in Issues : row[i] \in Nat /\ row'[i] \in Nat
    BY DEF SyncInv, TypeOK, Stamps
  <1>3. \A i \in missed \ missed' : row'[i] = jira[i]
    BY <1>1
  <1>4. QED
    BY <1>1, <1>2, <1>3 DEF Image!CatchUp

LEMMA DeleteIsMirrored ==
  ASSUME SyncInv, TypeOK', NEW h \in Handlers, Delete(h)
  PROVE  \E i \in Issues : Image!Erase(i)
  <1>1. PICK d \in Issues :
          /\ d \in gone /\ missed' = missed \ {d}
          /\ \A i \in Issues : row'[i] = IF i = d THEN 0 ELSE row[i]
    BY DeleteFacts
  <1>2. UNCHANGED <<jira, gone>>
    BY DeleteFacts
  <1>3. row' = [row EXCEPT ![d] = 0]
    BY <1>1 DEF SyncInv, TypeOK, Stamps
  <1>4. QED
    BY <1>1, <1>2, <1>3 DEF Image!Erase

LEMMA JiraIsMirrored ==
  ASSUME SyncInv, NEW i \in Issues, JiraChange(i) \/ JiraDelete(i)
  PROVE  Image!Next
  <1>1. CASE JiraChange(i)
    <2>1. /\ i \notin gone /\ jira' = [jira EXCEPT ![i] = clock + 1]
          /\ missed' = missed \ {i} /\ UNCHANGED <<gone, row>>
      BY <1>1 DEF JiraChange
    <2>2. jira'[i] = clock + 1 /\ jira'[i] > jira[i]
      BY <2>1 DEF SyncInv, TypeOK, Stamps, Ordered
    <2>3. Image!Change(i)
      BY <2>1, <2>2 DEF Image!Change
    <2>4. QED
      BY <2>3 DEF Image!Next
  <1>2. CASE JiraDelete(i)
    <2>1. jira[i] > 0
      BY <1>2 DEF JiraDelete, SyncInv, TypeOK, Stamps
    <2>2. Image!Remove(i)
      BY <1>2, <2>1 DEF JiraDelete, Image!Remove
    <2>3. QED
      BY <2>2 DEF Image!Next
  <1>3. QED
    BY <1>1, <1>2

LEMMA NextIsMirrored ==
  ASSUME SyncInv, TypeOK', [Next]_vars PROVE [Image!Next]_Image!mirrorVars
  <1>1. CASE UNCHANGED vars
    BY <1>1, QuietIsMirrored DEF vars
  <1>2. CASE Tick
    BY <1>2, QuietIsMirrored DEF Tick, stored
  <1>3. ASSUME NEW i \in Issues, JiraChange(i) \/ JiraDelete(i)
        PROVE  Image!Next
    BY <1>3, JiraIsMirrored
  <1>4. ASSUME NEW h \in Handlers, Start(h)
        PROVE  UNCHANGED <<jira, gone, row, missed>>
    BY <1>4 DEF Start, StartReconcile, StartSync, StartBackfillPage, world,
       stored
  <1>5. ASSUME NEW h \in Handlers, NEW i \in Issues, Take(h, i)
        PROVE  UNCHANGED <<jira, gone, row, missed>>
    BY <1>5 DEF Take, TakeEvent, TakeDeletion, world, stored
  <1>6. ASSUME NEW h \in Handlers, Step(h)
        PROVE  [Image!Next]_Image!mirrorVars
    <2>1. Shape(handler[h])
      BY DEF SyncInv
    <2>2. ASSUME \/ Fetch(h) \/ Search(h) \/ Post(h) \/ Stamp(h)
                 \/ \E i \in Issues : Check(h, i)
          PROVE  UNCHANGED <<jira, gone, row, missed>>
      BY <2>2 DEF Fetch, Search, Post, Stamp, Check, world, stored
    <2>3. ASSUME CallFails(h) \/ Write(h)
          PROVE  /\ UNCHANGED <<jira, gone, row>>
                 /\ missed' = missed \/ missed' = missed \cup handler[h].about
      BY <2>3 DEF CallFails, Write, world
    <2>4. CASE Delete(h)
      BY <2>4, DeleteIsMirrored DEF Image!Next
    <2>5. CASE \E early \in BOOLEAN : Commit(h, early)
      BY <2>5, CommitIsMirrored DEF Image!Next
    <2>6. QED
      BY <1>6, <2>1, <2>2, <2>3, <2>4, <2>5, QuietIsMirrored, MissIsMirrored
      DEF Step, Server
  <1>7. QED
    BY <1>1, <1>2, <1>3, <1>4, <1>5, <1>6, QuietIsMirrored DEF Next

(* Under the same conditions every step of the sync is a step of Mirror or *)
(* leaves what Mirror sees unchanged: the copy moves only forward and only *)
(* to versions Jira has had, disappears only after its issue, and nothing  *)
(* leaves missed without being repaired.                                   *)
THEOREM StepsAreMirrored ==
  ASSUME Races = {}
  PROVE  Spec => Image!Init /\ [][Image!Next]_Image!mirrorVars
  <1>1. Init => SyncInv
    BY InitSync
  <1>2. SyncInv /\ [Next]_vars => SyncInv'
    BY NextSync
  <1>3. Init => Image!Init
    BY DEF Init, None, Image!Init
  <1>4. SyncInv /\ SyncInv' /\ [Next]_vars => [Image!Next]_Image!mirrorVars
    BY NextIsMirrored DEF SyncInv
  <1>5. QED
    BY <1>1, <1>2, <1>3, <1>4, PTL DEF Spec

=============================================================================
