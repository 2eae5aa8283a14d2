-------------------------- MODULE FlowReports_proofs --------------------------
(***************************************************************************)
(* That the flow data of every tenant tells the history of its issues:     *)
(* for all issues, workflows, renamings, schedules and any number of moves *)
(* and ingests.                                                             *)
(*                                                                         *)
(* The invariant behind the theorems relates what is stored of an issue to *)
(* what Jira knows of it: the stored transitions are a beginning of Jira's *)
(* changelog, up to the time of the ingest, and the slices are the stays   *)
(* between them.                                                            *)
(***************************************************************************)
EXTENDS FlowReports, TimeSlicing_proofs, SequenceTheorems

-----------------------------------------------------------------------------
(* The invariant. *)

NamesSoFar(s, e) == {NamesOf[s][k] : k \in 1..e[s]}

(* The time of the k-th move, and the status after it; the issue is created *)
(* with move 0.                                                              *)
Turn(issue, k) == IF k = 0 THEN issue.created ELSE issue.log[k].at
StatusAfter(log, k) == IF k = 0 THEN FirstStatus ELSE log[k].to_status_id

JiraIssues == [created : Nat \cup {Null}, updated : Nat, status : StatusIds,
               resolution : Nat \cup {Null}, log : Seq(Transitions)]

(* What Jira knows of an issue is in order: each move starts from where the *)
(* one before it ended, and later than it.                                   *)
HistoryOK(i) ==
  LET issue == jira[i]
      log == issue.log
  IN /\ issue \in JiraIssues
     /\ issue.created = Null => Len(log) = 0
     /\ issue.created # Null => issue.created <= now
     /\ issue.resolution # Null => Len(log) > 0
     /\ issue.status = StatusAfter(log, Len(log))
     /\ Rising(log)
     /\ \A k \in 1..Len(log) :
          /\ issue.created < log[k].at /\ log[k].at <= now
          /\ log[k].from_status_id = StatusAfter(log, k - 1)
          /\ log[k].to_status_id \in StatusIds
          /\ log[k].from_status \in NamesSoFar(log[k].from_status_id, era)
          /\ log[k].to_status \in NamesSoFar(log[k].to_status_id, era)

(* What is stored of an issue is what Jira knew at its last ingest. *)
RowOK(i) ==
  LET log == jira[i].log
      known == row[i].transitions
      n == Len(known)
  IN /\ row[i] \in Rows
     /\ jira[i].created # Null /\ row[i].created_at = jira[i].created
     /\ jira[i].created <= syncedAt[i]
     /\ n <= Len(log)
     /\ \A k \in 1..Len(log) : log[k].at <= syncedAt[i] <=> k <= n
     /\ \A k \in 1..n :
          /\ known[k].at = log[k].at
          /\ known[k].to_status = log[k].to_status
          /\ known[k].from_status = log[k].from_status
          /\ known[k].to_status_id \in {Null, log[k].to_status_id}
          /\ known[k].from_status_id \in {Null, log[k].from_status_id}
     /\ row[i].current_status \in ToSet(NamesOf[StatusAfter(log, n)])
     /\ row[i].done_at # Null => n > 0
     /\ row[i].done_at = Null => row[i].current_status \notin DoneStatuses

(* The end of an issue as far as it is stored. *)
End(i) ==
  IF row[i].done_at = Null THEN syncedAt[i]
  ELSE Upper(row[i].done_at, Turn(jira[i], Len(row[i].transitions)))

(* Its slices are its stays. *)
SlicesOK(i) ==
  LET s == slices[i]
      n == Len(row[i].transitions)
  IN /\ Len(s) = n + 1
     /\ Chain(s, jira[i].created, End(i))
     /\ Timed(s, schedule)
     /\ \A k \in 1..(n + 1) :
          /\ s[k].start_at = Turn(jira[i], k - 1)
          /\ s[k].end_at = IF k <= n THEN Turn(jira[i], k) ELSE End(i)
          /\ s[k].status \in ToSet(NamesOf[StatusAfter(jira[i].log, k - 1)])
          /\ s[k].status_id \in {Null, StatusAfter(jira[i].log, k - 1)}
          /\ s[k].is_open <=> k = n + 1 /\ row[i].done_at = Null

(* And its metrics are those of its cycle. *)
MetricsOK(i) ==
  /\ metrics[i].cycle_seconds
     = WholeSeconds((IF row[i].done_at = Null THEN syncedAt[i] ELSE row[i].done_at)
                    - jira[i].created)
  /\ metrics[i].active_seconds \in Nat
  /\ SecondLength * metrics[i].active_seconds \in 0..(End(i) - jira[i].created)
  /\ metrics[i].wait_seconds = Upper(metrics[i].cycle_seconds - metrics[i].active_seconds, 0)

GlobalOK ==
  /\ now \in 0..MaxTime
  /\ era \in [StatusIds -> Nat \ {0}] /\ \A s \in StatusIds : era[s] <= Len(NamesOf[s])
  /\ withIds \in BOOLEAN /\ schedule \in WorkSchedules
  /\ DOMAIN jira = Issues /\ DOMAIN row = Issues /\ DOMAIN slices = Issues
  /\ DOMAIN metrics = Issues /\ syncedAt \in [Issues -> 0..now]

IssueOK(i) ==
  /\ HistoryOK(i)
  /\ row[i] = Null => slices[i] = <<>>
  /\ row[i] # Null => RowOK(i) /\ SlicesOK(i) /\ MetricsOK(i)

IInv == GlobalOK /\ \A i \in Issues : IssueOK(i)

-----------------------------------------------------------------------------
(* Names and statuses. *)

LEMMA NamesOfStatus ==
  ASSUME GlobalOK, NEW s \in StatusIds
  PROVE  /\ ToSet(NamesOf[s]) \subseteq Names
         /\ NamesSoFar(s, era) \subseteq ToSet(NamesOf[s])
         /\ NameOf(s) \in NamesSoFar(s, era)
  <1>1. NamesOf[s] \in Seq(Names) /\ NamesOf[s] # <<>>
    BY FlowReportsAssumption
  <1>2. DOMAIN NamesOf[s] = 1..Len(NamesOf[s]) /\ \A k \in DOMAIN NamesOf[s] : NamesOf[s][k] \in Names
    BY <1>1
  <1>3. era[s] \in Nat \ {0} /\ era[s] <= Len(NamesOf[s]) /\ Len(NamesOf[s]) \in Nat
    BY <1>1 DEF GlobalOK
  <1>4. \A k \in 1..era[s] : k \in DOMAIN NamesOf[s]
    BY <1>2, <1>3
  <1>5. QED
    BY <1>2, <1>3, <1>4 DEF ToSet, NamesSoFar, NameOf

LEMMA OwnerOfName ==
  ASSUME NEW s \in StatusIds, NEW n \in ToSet(NamesOf[s])
  PROVE  Owner(n) = s
  <1>1. \A t \in StatusIds : n \in ToSet(NamesOf[t]) => t = s
    BY WorkflowAssumption
  <1>2. QED
    BY <1>1 DEF Owner

LEMMA NoDoneBefore ==
  ASSUME GlobalOK, NEW s \in StatusIds, NEW n \in NamesSoFar(s, era), NameOf(s) \in DoneStatuses
  PROVE  n \in DoneStatuses
  <1>1. PICK k \in 1..era[s] : n = NamesOf[s][k]
    BY DEF NamesSoFar
  <1>2. NamesOf[s] \in Seq(Names) /\ era[s] \in Nat \ {0} /\ era[s] <= Len(NamesOf[s])
    BY FlowReportsAssumption DEF GlobalOK
  <1>3. k \in DOMAIN NamesOf[s] /\ era[s] \in DOMAIN NamesOf[s] /\ k <= era[s]
    BY <1>2
  <1>4. QED
    BY <1>1, <1>3, WorkflowAssumption DEF NameOf

LEMMA StatusAfterIsStatus ==
  ASSUME NEW i \in Issues, HistoryOK(i), NEW k \in 0..Len(jira[i].log)
  PROVE  StatusAfter(jira[i].log, k) \in StatusIds
  <1>1. k = 0 \/ k \in 1..Len(jira[i].log)
    OBVIOUS
  <1>2. FirstStatus \in StatusIds
    BY FlowReportsAssumption
  <1>3. QED
    BY <1>1, <1>2 DEF HistoryOK, StatusAfter

LEMMA LogIsSequence ==
  ASSUME NEW i \in Issues, HistoryOK(i)
  PROVE  /\ jira[i].log \in Seq(Transitions) /\ Len(jira[i].log) \in Nat
         /\ DOMAIN jira[i].log = 1..Len(jira[i].log)
         /\ \A k \in 1..Len(jira[i].log) :
              jira[i].log[k] \in Transitions /\ jira[i].log[k].at \in Nat
  <1>1. jira[i].log \in Seq(Transitions)
    BY DEF HistoryOK, JiraIssues
  <1>2. \A k \in 1..Len(jira[i].log) : jira[i].log[k] \in Transitions
    BY <1>1
  <1>3. QED
    BY <1>1, <1>2 DEF Transitions

-----------------------------------------------------------------------------
(* Init. *)

LEMMA InitInv == Init => IInv
  <1> SUFFICES ASSUME Init PROVE IInv
    OBVIOUS
  <1>1. GlobalOK
    <2>1. \A s \in StatusIds : Len(NamesOf[s]) \in Nat /\ 1 <= Len(NamesOf[s])
      <3>1. ASSUME NEW s \in StatusIds PROVE Len(NamesOf[s]) \in Nat /\ 1 <= Len(NamesOf[s])
        <4>1. NamesOf[s] \in Seq(Names) /\ NamesOf[s] # <<>>
          BY FlowReportsAssumption
        <4>2. QED
          BY <4>1
      <3>2. QED
        BY <3>1
    <2>2. 0 \in 0..MaxTime /\ 0 \in 0..0
      BY FlowReportsAssumption
    <2>3. now \in 0..MaxTime /\ syncedAt \in [Issues -> 0..now]
      BY <2>2 DEF Init
    <2>4. /\ era \in [StatusIds -> Nat \ {0}]
          /\ \A s \in StatusIds : era[s] <= Len(NamesOf[s])
      BY <2>1 DEF Init
    <2>5. /\ withIds \in BOOLEAN /\ schedule \in WorkSchedules
          /\ DOMAIN jira = Issues /\ DOMAIN row = Issues /\ DOMAIN slices = Issues
          /\ DOMAIN metrics = Issues
      BY DEF Init
    <2>6. QED
      BY <2>3, <2>4, <2>5 DEF GlobalOK
  <1>2. ASSUME NEW i \in Issues PROVE IssueOK(i)
    <2>1. /\ jira[i].created \in Nat \cup {Null} /\ jira[i].status = FirstStatus
          /\ jira[i].resolution = Null /\ jira[i].log = <<>>
          /\ jira[i] \in JiraIssues
          /\ jira[i].created # Null => jira[i].created = 0
      BY FlowReportsAssumption DEF Init, JiraIssues
    <2>2. now = 0 /\ Len(jira[i].log) = 0 /\ 1..Len(jira[i].log) = {}
      BY <2>1 DEF Init
    <2>3. HistoryOK(i)
      BY <2>1, <2>2 DEF HistoryOK, StatusAfter, Rising
    <2>4. QED
      BY <2>3 DEF Init, IssueOK
  <1>3. QED
    BY <1>1, <1>2 DEF IInv

-----------------------------------------------------------------------------
(* Live. *)

(* What Jira knows of an issue only grows. *)
Grows(i) ==
  \/ jira'[i] = jira[i]
  \/ jira[i].created = Null /\ jira'[i] = [jira[i] EXCEPT !.created = now', !.updated = now']
  \/ jira[i].created # Null /\ jira'[i] = [jira[i] EXCEPT !.updated = now']
  \/ /\ jira[i].created # Null
     /\ \E s \in StatusIds, r \in Nat \cup {Null} :
          jira'[i] = [jira[i] EXCEPT !.updated = now', !.status = s, !.resolution = r,
                        !.log = Append(@, [at |-> now', from_status |-> NameOf(jira[i].status),
                                           to_status |-> NameOf(s),
                                           from_status_id |-> jira[i].status,
                                           to_status_id |-> s])]

LEMMA LiveGrows ==
  ASSUME IInv, Live, NEW i \in Issues
  PROVE  Grows(i)
  <1>1. jira'[i] \in {jira[i]} \cup Created(i) \cup Edited(i)
                    \cup UNION {Moved(i, s) : s \in StatusIds}
    BY DEF Live
  <1>2. now' \in Nat /\ jira[i].resolution \in Nat \cup {Null}
    <2>1. now \in Nat /\ now' = now + 1
      BY FlowReportsAssumption DEF IInv, GlobalOK, Live
    <2>2. QED
      BY <2>1 DEF IInv, IssueOK, HistoryOK, JiraIssues
  <1>3. CASE jira'[i] \in Created(i)
    BY <1>3 DEF Created, Grows
  <1>4. ASSUME NEW s \in StatusIds, jira'[i] \in Moved(i, s) PROVE Grows(i)
    BY <1>2, <1>4 DEF Moved, Grows
  <1>5. CASE jira'[i] \in Edited(i)
    BY <1>5 DEF Edited, Grows
  <1>6. QED
    BY <1>1, <1>3, <1>4, <1>5 DEF Grows

LEMMA LiveGlobals ==
  ASSUME IInv, Live
  PROVE  /\ GlobalOK' /\ now' = now + 1 /\ now \in Nat
         /\ \A s \in StatusIds : era[s] <= era'[s] /\ era[s] \in Nat /\ era'[s] \in Nat
  <1>1. now \in 0..MaxTime /\ now < MaxTime /\ now' = now + 1 /\ MaxTime \in Nat
    BY FlowReportsAssumption DEF IInv, GlobalOK, Live
  <1>2. /\ era \in [StatusIds -> Nat \ {0}] /\ \A s \in StatusIds : era[s] <= Len(NamesOf[s])
    BY DEF IInv, GlobalOK
  <1>3. \A s \in StatusIds : Len(NamesOf[s]) \in Nat
    BY FlowReportsAssumption
  <1>4. /\ era' \in [StatusIds -> Nat \ {0}] /\ \A s \in StatusIds : era'[s] <= Len(NamesOf[s])
        /\ \A s \in StatusIds : era[s] <= era'[s]
    <2>1. CASE era' = era
      BY <1>2, <2>1
    <2>2. CASE era' \in Renamed
      <3>1. PICK s \in StatusIds : era[s] < Len(NamesOf[s]) /\ era' = [era EXCEPT ![s] = @ + 1]
        BY <2>2 DEF Renamed
      <3>2. QED
        BY <1>2, <1>3, <3>1
    <2>3. QED
      BY <2>1, <2>2 DEF Live
  <1>5. DOMAIN jira' = Issues
    BY DEF Live
  <1>6. syncedAt' \in [Issues -> 0..now']
    BY <1>1 DEF IInv, GlobalOK, Live, stored
  <1>7. QED
    BY <1>1, <1>2, <1>4, <1>5, <1>6 DEF IInv, GlobalOK, Live, stored

LEMMA NamesAccumulate ==
  ASSUME IInv, Live, NEW s \in StatusIds
  PROVE  NamesSoFar(s, era) \subseteq NamesSoFar(s, era') /\ NameOf(s) \in NamesSoFar(s, era')
  <1>1. era[s] <= era'[s] /\ era[s] \in Nat \ {0} /\ era'[s] \in Nat
    BY LiveGlobals DEF IInv, GlobalOK
  <1>2. QED
    BY <1>1 DEF NamesSoFar, NameOf


Change(i, s) ==
  [at |-> now', from_status |-> NameOf(jira[i].status), to_status |-> NameOf(s),
   from_status_id |-> jira[i].status, to_status_id |-> s]

LEMMA ChangeIsTransition ==
  ASSUME IInv, Live, NEW i \in Issues, NEW s \in StatusIds
  PROVE  Change(i, s) \in Transitions
  <1>1. jira[i].status \in StatusIds
    BY DEF IInv, IssueOK, HistoryOK, JiraIssues
  <1>2. \A t \in StatusIds : NameOf(t) \in Names
    BY NamesOfStatus DEF IInv
  <1>3. now' \in Nat
    BY LiveGlobals
  <1>4. QED
    BY <1>1, <1>2, <1>3 DEF Change, Transitions

LEMMA HistoryGrows ==
  ASSUME IInv, Live, NEW i \in Issues
  PROVE  HistoryOK(i)'
  <1> DEFINE log == jira[i].log
             n == Len(log)
  <1>1. HistoryOK(i)
    BY DEF IInv, IssueOK
  <1>2. /\ log \in Seq(Transitions) /\ n \in Nat
        /\ \A k \in 1..n : log[k] \in Transitions /\ log[k].at \in Nat
    BY <1>1, LogIsSequence
  <1>3. jira[i] \in JiraIssues /\ jira[i].created \in Nat \cup {Null}
    BY <1>1 DEF HistoryOK, JiraIssues
  <1>4. now' = now + 1 /\ now \in Nat
    BY LiveGlobals
  <1>5. \A s \in StatusIds : NamesSoFar(s, era) \subseteq NamesSoFar(s, era') /\ NameOf(s) \in NamesSoFar(s, era')
    BY NamesAccumulate
  <1>6. \A k \in 1..n : /\ log[k].from_status_id \in StatusIds /\ log[k].to_status_id \in StatusIds
                        /\ log[k].from_status \in NamesSoFar(log[k].from_status_id, era')
                        /\ log[k].to_status \in NamesSoFar(log[k].to_status_id, era')
    <2>1. ASSUME NEW k \in 1..n
          PROVE  log[k].from_status_id \in StatusIds /\ log[k].to_status_id \in StatusIds
      <3>1. k - 1 \in 0..n
        BY <1>2
      <3>2. QED
        BY <1>1, <3>1, StatusAfterIsStatus DEF HistoryOK
    <2>2. QED
      BY <1>1, <1>5, <2>1 DEF HistoryOK
  <1>7. CASE jira'[i] = jira[i]
    BY <1>1, <1>2, <1>3, <1>4, <1>6, <1>7 DEF HistoryOK
  <1>8. CASE jira[i].created = Null /\ jira'[i] = [jira[i] EXCEPT !.created = now', !.updated = now']
    <2>1. /\ jira'[i] \in JiraIssues /\ jira'[i].created = now' /\ jira'[i].log = log
          /\ jira'[i].status = jira[i].status /\ jira'[i].resolution = jira[i].resolution
      <3> DEFINE born == [jira[i] EXCEPT !.created = now']
      <3>1. /\ born \in JiraIssues /\ born.created = now' /\ born.log = log
            /\ born.status = jira[i].status /\ born.resolution = jira[i].resolution
        BY <1>3, <1>4 DEF JiraIssues
      <3>2. jira'[i] = [born EXCEPT !.updated = now'] /\ now' \in Nat
        BY <1>4, <1>8
      <3> HIDE DEF born
      <3>3. QED
        BY <3>1, <3>2 DEF JiraIssues
    <2>2. n = 0
      BY <1>1, <1>8 DEF HistoryOK
    <2>3. /\ jira[i].resolution = Null /\ jira[i].status = StatusAfter(log, n) /\ Rising(log)
          /\ now' <= now'
      BY <1>1, <1>4, <2>2 DEF HistoryOK
    <2>4. \A k \in 1..n : FALSE
      BY <2>2
    <2>5. jira'[i].created = Null => Len(jira'[i].log) = 0
      BY <2>1, <2>2
    <2>6. QED
      BY <2>1, <2>2, <2>3, <2>4, <2>5 DEF HistoryOK
  <1>9. CASE /\ jira[i].created # Null
             /\ \E s \in StatusIds, r \in Nat \cup {Null} :
                  jira'[i] = [jira[i] EXCEPT !.updated = now', !.status = s, !.resolution = r,
                                !.log = Append(@, Change(i, s))]
    <2>1. PICK s \in StatusIds, r \in Nat \cup {Null} :
            jira'[i] = [jira[i] EXCEPT !.updated = now', !.status = s, !.resolution = r,
                          !.log = Append(@, Change(i, s))]
      BY <1>9
    <2> DEFINE c == Change(i, s)
               new == Append(log, c)
    <2>2. /\ jira'[i].created = jira[i].created /\ jira'[i].status = s
          /\ jira'[i].resolution = r /\ jira'[i].log = new
      BY <1>3, <2>1 DEF JiraIssues
    <2>3. /\ c \in Transitions /\ c.at = now' /\ c.to_status_id = s
          /\ c.from_status_id = jira[i].status /\ c.from_status = NameOf(jira[i].status)
          /\ c.to_status = NameOf(s)
      BY ChangeIsTransition DEF Change
    <2> HIDE DEF c
    <2>4. /\ new \in Seq(Transitions) /\ Len(new) = n + 1 /\ new[n + 1] = c
          /\ \A k \in 1..n : new[k] = log[k]
      BY <1>2, <2>3
    <2> HIDE DEF log, n, new
    <2>5. \A k \in 1..(n + 1) : k \in 1..n \/ k = n + 1
      BY <1>2
    <2>6. jira[i].status \in StatusIds /\ jira[i].status = StatusAfter(log, n)
      BY <1>1 DEF HistoryOK, JiraIssues, log, n
    <2>7. \A k \in 1..n : jira[i].created < log[k].at /\ log[k].at <= now
                          /\ log[k].from_status_id = StatusAfter(log, k - 1)
      BY <1>1 DEF HistoryOK, log, n
    <2>8. \A k \in 0..n : StatusAfter(new, k) = StatusAfter(log, k)
      BY <1>2, <2>4 DEF StatusAfter
    <2>9. Rising(new)
      <3>1. ASSUME NEW j \in 1..(n + 1), NEW k \in 1..(n + 1), j < k PROVE new[j].at < new[k].at
        <4>1. j \in 1..n
          BY <1>2, <3>1
        <4>2. CASE k \in 1..n
          BY <1>1, <2>4, <3>1, <4>1, <4>2 DEF HistoryOK, Rising, log, n
        <4>3. CASE k = n + 1
          BY <1>2, <1>4, <2>3, <2>4, <2>7, <4>1, <4>3
        <4>4. QED
          BY <2>5, <4>2, <4>3
      <3>2. QED
        BY <2>4, <3>1 DEF Rising
    <2>10. \A k \in 1..(n + 1) :
             /\ jira[i].created < new[k].at /\ new[k].at <= now'
             /\ new[k].from_status_id = StatusAfter(new, k - 1)
             /\ new[k].to_status_id \in StatusIds
             /\ new[k].from_status \in NamesSoFar(new[k].from_status_id, era')
             /\ new[k].to_status \in NamesSoFar(new[k].to_status_id, era')
      <3>1. ASSUME NEW k \in 1..n
            PROVE  /\ jira[i].created < new[k].at /\ new[k].at <= now'
                   /\ new[k].from_status_id = StatusAfter(new, k - 1)
        <4>1. k - 1 \in 0..n
          BY <1>2
        <4>2. QED
          BY <1>2, <1>4, <2>4, <2>7, <2>8, <4>1
      <3>2. ASSUME NEW k \in 1..n
            PROVE  /\ new[k].to_status_id \in StatusIds
                   /\ new[k].from_status \in NamesSoFar(new[k].from_status_id, era')
                   /\ new[k].to_status \in NamesSoFar(new[k].to_status_id, era')
        <4>1. new[k] = log[k] /\ k \in 1..Len(jira[i].log)
          BY <2>4 DEF n, log
        <4>2. QED
          BY <1>6, <4>1 DEF log, n
      <3>3. /\ jira[i].created < c.at /\ c.at <= now'
            /\ c.from_status_id = StatusAfter(new, (n + 1) - 1)
        <4>1. jira[i].created \in Nat /\ jira[i].created <= now
          BY <1>1, <1>3, <1>9 DEF HistoryOK
        <4>2. (n + 1) - 1 = n /\ n \in 0..n
          BY <1>2
        <4>3. QED
          BY <1>4, <2>3, <2>6, <2>8, <4>1, <4>2
      <3>4. /\ c.from_status \in NamesSoFar(c.from_status_id, era')
            /\ c.to_status \in NamesSoFar(c.to_status_id, era')
        BY <1>5, <2>3, <2>6
      <3>5. QED
        BY <2>3, <2>4, <2>5, <3>1, <3>2, <3>3, <3>4
    <2>11. s = StatusAfter(new, n + 1)
      BY <1>2, <2>3, <2>4 DEF StatusAfter
    <2>12. jira'[i] \in JiraIssues
      <3> DEFINE edited == [jira[i] EXCEPT !.updated = now']
                 longer == Append(log, c)
      <3>1. edited \in JiraIssues
        BY <1>3, <1>4 DEF JiraIssues
      <3>2. longer \in Seq(Transitions)
        BY <2>4 DEF new
      <3>3. edited.log = log
        BY <1>3 DEF JiraIssues, log
      <3>4. jira'[i] = [edited EXCEPT !.status = s, !.resolution = r, !.log = longer]
        BY <2>1, <3>3 DEF log, c
      <3> HIDE DEF edited, longer
      <3>5. QED
        BY <3>1, <3>2, <3>4 DEF JiraIssues
    <2>13. jira[i].created <= now'
      BY <1>1, <1>3, <1>4, <1>9 DEF HistoryOK
    <2>14. n + 1 > 0
      BY <1>2
    <2>15. QED
      BY <1>9, <2>2, <2>4, <2>9, <2>10, <2>11, <2>12, <2>13, <2>14 DEF HistoryOK
  <1>10. CASE jira[i].created # Null /\ jira'[i] = [jira[i] EXCEPT !.updated = now']
    <2>1. /\ jira'[i] \in JiraIssues /\ jira'[i].created = jira[i].created /\ jira'[i].log = log
          /\ jira'[i].status = jira[i].status /\ jira'[i].resolution = jira[i].resolution
      BY <1>3, <1>4, <1>10 DEF JiraIssues
    <2>2. /\ jira[i].created <= now' /\ Rising(log) /\ jira[i].status = StatusAfter(log, n)
          /\ jira[i].resolution # Null => n > 0
      BY <1>1, <1>3, <1>4, <1>10 DEF HistoryOK
    <2>3. \A k \in 1..n :
            /\ jira[i].created < log[k].at /\ log[k].at <= now'
            /\ log[k].from_status_id = StatusAfter(log, k - 1)
      BY <1>1, <1>2, <1>4 DEF HistoryOK
    <2>4. QED
      BY <1>6, <1>10, <2>1, <2>2, <2>3 DEF HistoryOK
  <1>11. Grows(i)
    BY LiveGrows
  <1>12. QED
    BY <1>7, <1>8, <1>9, <1>10, <1>11 DEF Grows, Change


(* The history of a stored issue is only extended, later than its ingest. *)
LEMMA HistoryExtends ==
  ASSUME IInv, Live, NEW i \in Issues, row[i] # Null
  PROVE  /\ jira'[i].created = jira[i].created
         /\ Len(jira[i].log) <= Len(jira'[i].log) /\ Len(jira'[i].log) \in Nat
         /\ \A k \in 1..Len(jira[i].log) : jira'[i].log[k] = jira[i].log[k]
         /\ \A k \in 1..Len(jira'[i].log) :
              k \notin 1..Len(jira[i].log) => jira'[i].log[k].at = now'
  <1>1. HistoryOK(i) /\ RowOK(i)
    BY DEF IInv, IssueOK
  <1>2. jira[i].created # Null /\ jira[i] \in JiraIssues
    BY <1>1 DEF RowOK, HistoryOK
  <1>3. /\ jira[i].log \in Seq(Transitions) /\ Len(jira[i].log) \in Nat
    BY <1>1, LogIsSequence
  <1>4. CASE jira'[i] = jira[i]
    BY <1>3, <1>4
  <1>5. CASE \E s \in StatusIds, r \in Nat \cup {Null} :
                  jira'[i] = [jira[i] EXCEPT !.updated = now', !.status = s, !.resolution = r,
                                !.log = Append(@, Change(i, s))]
    <2>1. PICK s \in StatusIds, r \in Nat \cup {Null} :
            jira'[i] = [jira[i] EXCEPT !.updated = now', !.status = s, !.resolution = r,
                          !.log = Append(@, Change(i, s))]
      BY <1>5
    <2>2. /\ jira'[i].created = jira[i].created
          /\ jira'[i].log = Append(jira[i].log, Change(i, s))
      BY <1>2, <2>1 DEF JiraIssues
    <2>3. Change(i, s) \in Transitions /\ Change(i, s).at = now'
      BY ChangeIsTransition DEF Change
    <2>4. /\ Len(jira'[i].log) = Len(jira[i].log) + 1
          /\ jira'[i].log[Len(jira[i].log) + 1] = Change(i, s)
          /\ \A k \in 1..Len(jira[i].log) : jira'[i].log[k] = jira[i].log[k]
      BY <1>3, <2>2, <2>3
    <2>5. QED
      BY <1>3, <2>2, <2>3, <2>4
  <1>6. CASE jira'[i] = [jira[i] EXCEPT !.updated = now']
    <2>1. jira'[i].created = jira[i].created /\ jira'[i].log = jira[i].log
      BY <1>2, <1>6 DEF JiraIssues
    <2>2. QED
      BY <1>3, <2>1
  <1>7. Grows(i)
    BY LiveGrows
  <1>8. QED
    BY <1>2, <1>4, <1>5, <1>6, <1>7 DEF Grows, Change

LEMMA LiveKeepsStored ==
  ASSUME IInv, Live, NEW i \in Issues, row[i] # Null
  PROVE  (RowOK(i) /\ SlicesOK(i) /\ MetricsOK(i))'
  <1> DEFINE log == jira[i].log
             new == jira'[i].log
             n == Len(row[i].transitions)
  <1>1. HistoryOK(i) /\ RowOK(i) /\ SlicesOK(i) /\ MetricsOK(i)
    BY DEF IInv, IssueOK
  <1>2. /\ jira'[i].created = jira[i].created
        /\ Len(log) <= Len(new) /\ Len(new) \in Nat
        /\ \A k \in 1..Len(log) : new[k] = log[k]
        /\ \A k \in 1..Len(new) : k \notin 1..Len(log) => new[k].at = now'
    BY HistoryExtends
  <1>3. /\ row' = row /\ slices' = slices /\ metrics' = metrics /\ syncedAt' = syncedAt
        /\ schedule' = schedule
    BY DEF Live, stored
  <1>4. n \in Nat /\ n <= Len(log) /\ Len(log) \in Nat
    <2>1. row[i].transitions \in Seq(Transitions) /\ n <= Len(log)
      BY <1>1 DEF RowOK, Rows
    <2>2. QED
      BY <1>1, <2>1, LogIsSequence
  <1>5. syncedAt[i] \in Nat /\ now' > syncedAt[i] /\ now' \in Nat
    <2>1. syncedAt[i] \in 0..now
      BY DEF IInv, GlobalOK
    <2>2. QED
      BY <2>1, LiveGlobals
  <1>6. \A k \in 0..n : /\ Turn(jira'[i], k) = Turn(jira[i], k)
                        /\ StatusAfter(new, k) = StatusAfter(log, k)
    BY <1>2, <1>4 DEF Turn, StatusAfter
  <1>7. n \in 0..n /\ \A k \in 1..(n + 1) : k - 1 \in 0..n /\ (k <= n => k \in 0..n)
    BY <1>4
  <1>8. \A k \in 1..n : k \in 1..Len(log)
    BY <1>4
  <1>9. \A k \in 1..Len(new) : new[k].at <= syncedAt[i] <=> k <= n
    <2>1. ASSUME NEW k \in 1..Len(log) PROVE new[k].at <= syncedAt[i] <=> k <= n
      BY <1>1, <1>2 DEF RowOK
    <2>2. ASSUME NEW k \in 1..Len(new), k \notin 1..Len(log)
          PROVE  ~(new[k].at <= syncedAt[i]) /\ ~(k <= n)
      BY <1>2, <1>4, <1>5, <2>2
    <2>3. QED
      BY <2>1, <2>2
  <1>10. RowOK(i)'
    <2>1. /\ row[i] \in Rows
          /\ jira[i].created # Null /\ row[i].created_at = jira[i].created
          /\ jira[i].created <= syncedAt[i]
          /\ row[i].done_at # Null => n > 0
          /\ row[i].done_at = Null => row[i].current_status \notin DoneStatuses
          /\ row[i].current_status \in ToSet(NamesOf[StatusAfter(log, n)])
      BY <1>1 DEF RowOK
    <2>2. \A k \in 1..n :
          /\ row[i].transitions[k].at = log[k].at
          /\ row[i].transitions[k].to_status = log[k].to_status
          /\ row[i].transitions[k].from_status = log[k].from_status
          /\ row[i].transitions[k].to_status_id \in {Null, log[k].to_status_id}
          /\ row[i].transitions[k].from_status_id \in {Null, log[k].from_status_id}
      BY <1>1 DEF RowOK
    <2>3. \A k \in 1..n : new[k] = log[k]
      BY <1>2, <1>8
    <2>4. n <= Len(new)
      BY <1>2, <1>4
    <2>5. Turn(jira'[i], n) = Turn(jira[i], n) /\ StatusAfter(new, n) = StatusAfter(log, n)
      BY <1>6, <1>7
    <2>6. QED
      BY <1>2, <1>3, <1>9, <2>1, <2>2, <2>3, <2>4, <2>5 DEF RowOK
  <1>11. End(i)' = End(i)
    BY <1>3, <1>6, <1>7 DEF End
  <1>12. SlicesOK(i)'
    <2>1. /\ Len(slices[i]) = n + 1 /\ Chain(slices[i], jira[i].created, End(i))
          /\ Timed(slices[i], schedule)
      BY <1>1 DEF SlicesOK
    <2>2. \A k \in 1..(n + 1) :
          /\ slices[i][k].start_at = Turn(jira'[i], k - 1)
          /\ slices[i][k].end_at = IF k <= n THEN Turn(jira'[i], k) ELSE End(i)
          /\ slices[i][k].status \in ToSet(NamesOf[StatusAfter(new, k - 1)])
          /\ slices[i][k].status_id \in {Null, StatusAfter(new, k - 1)}
          /\ slices[i][k].is_open <=> k = n + 1 /\ row[i].done_at = Null
      BY <1>1, <1>6, <1>7 DEF SlicesOK
    <2>3. QED
      BY <1>2, <1>3, <1>11, <2>1, <2>2 DEF SlicesOK
  <1>13. MetricsOK(i)'
    BY <1>1, <1>2, <1>3, <1>11 DEF MetricsOK
  <1>14. QED
    BY <1>10, <1>12, <1>13

LEMMA LiveInv ==
  ASSUME IInv, Live
  PROVE  IInv'
  <1>1. GlobalOK'
    BY LiveGlobals
  <1>2. ASSUME NEW i \in Issues PROVE IssueOK(i)'
    <2>1. HistoryOK(i)'
      BY HistoryGrows
    <2>2. row' = row /\ slices' = slices
      BY DEF Live, stored
    <2>3. row[i] = Null => slices[i] = <<>>
      BY DEF IInv, IssueOK
    <2>4. row[i] # Null => (RowOK(i) /\ SlicesOK(i) /\ MetricsOK(i))'
      BY LiveKeepsStored
    <2>5. QED
      BY <2>1, <2>2, <2>3, <2>4 DEF IssueOK
  <1>3. QED
    BY <1>1, <1>2 DEF IInv


-----------------------------------------------------------------------------
(* Deploy, and BackfillStatusIds, which fills in no id but the right one. *)

LEMMA SameIssue ==
  ASSUME NEW i \in Issues, IssueOK(i), UNCHANGED <<now, jira, era, schedule>>,
         row'[i] = row[i], slices'[i] = slices[i], metrics'[i] = metrics[i],
         syncedAt'[i] = syncedAt[i]
  PROVE  IssueOK(i)'
  <1>1. HistoryOK(i) => HistoryOK(i)'
    BY DEF HistoryOK
  <1>2. RowOK(i) => RowOK(i)'
    BY DEF RowOK
  <1>3. End(i)' = End(i)
    BY DEF End
  <1>4. SlicesOK(i) => SlicesOK(i)'
    BY <1>3 DEF SlicesOK
  <1>5. MetricsOK(i) => MetricsOK(i)'
    BY <1>3 DEF MetricsOK
  <1>6. QED
    BY <1>1, <1>2, <1>4, <1>5 DEF IssueOK

LEMMA DeployInv ==
  ASSUME IInv, Deploy \/ UNCHANGED vars
  PROVE  IInv'
  <1>1. GlobalOK'
    BY DEF IInv, GlobalOK, Deploy, vars, stored
  <1>2. ASSUME NEW i \in Issues PROVE IssueOK(i)'
    <2>1. IssueOK(i)
      BY DEF IInv
    <2>2. /\ UNCHANGED <<now, jira, era, schedule>>
          /\ row' = row /\ slices' = slices /\ metrics' = metrics /\ syncedAt' = syncedAt
      BY DEF Deploy, vars, stored
    <2>3. QED
      BY <2>1, <2>2, SameIssue
  <1>3. QED
    BY <1>1, <1>2 DEF IInv

(* A list is made of its places. *)
LEMMA IsList ==
  ASSUME NEW n \in Nat, NEW S, NEW f, DOMAIN f = 1..n, f = [k \in 1..n |-> f[k]],
         \A k \in 1..n : f[k] \in S
  PROVE  f \in Seq(S) /\ Len(f) = n
  <1>1. f \in [1..n -> S]
    OBVIOUS
  <1>2. f \in Seq(S)
    BY <1>1
  <1>3. QED
    BY <1>2, LenProperties

LEMMA IdForOwner ==
  ASSUME GlobalOK, NEW s \in StatusIds, NEW n \in ToSet(NamesOf[s]), NEW id \in {Null, s}
  PROVE  IdFor(n, id) \in {Null, s}
  <1>1. ASSUME NEW t \in StatusIds, NameOf(t) = n PROVE t = s
    <2>1. n \in ToSet(NamesOf[t])
      BY <1>1, NamesOfStatus
    <2>2. QED
      BY <2>1, OwnerOfName
  <1>2. QED
    BY <1>1 DEF IdFor

LEMMA BackfillKeepsStored ==
  ASSUME IInv, BackfillStatusIds, NEW i \in Issues, row[i] # Null
  PROVE  (RowOK(i) /\ SlicesOK(i) /\ MetricsOK(i))'
  <1> DEFINE log == jira[i].log
             tr == row[i].transitions
             n == Len(tr)
             tr2 == [k \in DOMAIN tr |-> Identified(tr[k])]
             s == slices[i]
             s2 == [k \in DOMAIN s |-> [s[k] EXCEPT !.status_id = IdFor(s[k].status, @)]]
  <1>1. /\ HistoryOK(i) /\ RowOK(i) /\ SlicesOK(i) /\ MetricsOK(i) /\ GlobalOK
    BY DEF IInv, IssueOK
  <1>2. /\ UNCHANGED <<now, jira, era, schedule, metrics, syncedAt>>
        /\ row'[i] = [row[i] EXCEPT !.transitions = tr2]
        /\ slices'[i] = s2
    BY DEF BackfillStatusIds
  <1>3. /\ tr \in Seq(Transitions) /\ n \in Nat /\ n <= Len(log) /\ Len(log) \in Nat
        /\ DOMAIN tr = 1..n
        /\ \A k \in 1..n : tr[k] \in Transitions
        /\ row[i] \in Rows
    <2>1. tr \in Seq(Transitions) /\ n <= Len(log) /\ row[i] \in Rows
      BY <1>1 DEF RowOK, Rows
    <2>2. Len(log) \in Nat
      BY <1>1, LogIsSequence
    <2>3. QED
      BY <2>1, <2>2
  <1>4. \A k \in 1..n : /\ k \in 1..Len(log) /\ k - 1 \in 0..Len(log) /\ k \in 0..Len(log)
    BY <1>3
  <1>5. ASSUME NEW k \in 1..n
        PROVE  /\ log[k].to_status_id \in StatusIds /\ log[k].from_status_id \in StatusIds
               /\ log[k].to_status \in ToSet(NamesOf[log[k].to_status_id])
               /\ log[k].from_status \in ToSet(NamesOf[log[k].from_status_id])
    <2>1. k \in 1..Len(log) /\ k - 1 \in 0..Len(log)
      BY <1>4
    <2>2. log[k].to_status_id \in StatusIds /\ log[k].from_status_id \in StatusIds
      BY <1>1, <2>1, StatusAfterIsStatus DEF HistoryOK
    <2>3. /\ log[k].from_status \in NamesSoFar(log[k].from_status_id, era)
          /\ log[k].to_status \in NamesSoFar(log[k].to_status_id, era)
      BY <1>1, <2>1 DEF HistoryOK
    <2>4. QED
      BY <1>1, <2>2, <2>3, NamesOfStatus
  <1>6. ASSUME NEW k \in 1..n
        PROVE  /\ tr2[k] \in Transitions
               /\ tr2[k].at = log[k].at
               /\ tr2[k].to_status = log[k].to_status
               /\ tr2[k].from_status = log[k].from_status
               /\ tr2[k].to_status_id \in {Null, log[k].to_status_id}
               /\ tr2[k].from_status_id \in {Null, log[k].from_status_id}
    <2> DEFINE t == tr[k]
               from == IdFor(t.from_status, t.from_status_id)
               to == IdFor(t.to_status, t.to_status_id)
    <2>1. /\ t.at = log[k].at /\ t.to_status = log[k].to_status
          /\ t.from_status = log[k].from_status
          /\ t.to_status_id \in {Null, log[k].to_status_id}
          /\ t.from_status_id \in {Null, log[k].from_status_id}
          /\ t \in Transitions
      BY <1>1, <1>3 DEF RowOK
    <2>2. to \in {Null, log[k].to_status_id}
      BY <1>1, <1>5, <2>1, IdForOwner
    <2>3. from \in {Null, log[k].from_status_id}
      BY <1>1, <1>5, <2>1, IdForOwner
    <2>4. tr2[k] = [t EXCEPT !.from_status_id = from, !.to_status_id = to]
      BY <1>3 DEF Identified
    <2> HIDE DEF tr2, t, from, to
    <2>5. /\ tr2[k] \in Transitions /\ tr2[k].at = t.at /\ tr2[k].to_status = t.to_status
          /\ tr2[k].from_status = t.from_status
          /\ tr2[k].to_status_id = to /\ tr2[k].from_status_id = from
      <3>1. to \in StatusIds \cup {Null} /\ from \in StatusIds \cup {Null}
        BY <1>5, <2>2, <2>3
      <3>2. QED
        BY <2>1, <2>4, <3>1 DEF Transitions
    <2>6. QED
      BY <2>1, <2>2, <2>3, <2>5
  <1>7. tr2 \in Seq(Transitions) /\ Len(tr2) = n
    <2>1. DOMAIN tr2 = 1..n /\ \A k \in 1..n : tr2[k] \in Transitions
      BY <1>3, <1>6
    <2>2. tr2 = [k \in 1..n |-> tr2[k]]
      BY <1>3
    <2> HIDE DEF tr2
    <2>3. QED
      BY <1>3, <2>1, <2>2, IsList
  <1>8. /\ row'[i] \in Rows /\ row'[i].transitions = tr2
        /\ row'[i].created_at = row[i].created_at /\ row'[i].updated_at = row[i].updated_at
        /\ row'[i].done_at = row[i].done_at
        /\ row'[i].current_status = row[i].current_status
    <2> HIDE DEF tr2
    <2>1. QED
      BY <1>2, <1>3, <1>7 DEF Rows
  <1>9. /\ s \in Seq(Stay) /\ Len(s) = n + 1 /\ DOMAIN s = 1..(n + 1)
        /\ \A k \in 1..(n + 1) : s[k] \in Stay
    <2>1. s \in Seq(Stay) /\ Len(s) = n + 1
      BY <1>1 DEF SlicesOK, Chain
    <2>2. QED
      BY <2>1
  <1>10. ASSUME NEW k \in 1..(n + 1)
         PROVE  /\ s2[k] \in Stay /\ s2[k].status = s[k].status
                /\ s2[k].start_at = s[k].start_at /\ s2[k].end_at = s[k].end_at
                /\ s2[k].duration_seconds = s[k].duration_seconds
                /\ s2[k].is_open = s[k].is_open
                /\ s2[k].status_id \in {Null, StatusAfter(log, k - 1)}
    <2> DEFINE id == IdFor(s[k].status, s[k].status_id)
    <2>1. k - 1 \in 0..Len(log)
      BY <1>3
    <2>2. StatusAfter(log, k - 1) \in StatusIds
      BY <1>1, <2>1, StatusAfterIsStatus
    <2>3. /\ s[k].status \in ToSet(NamesOf[StatusAfter(log, k - 1)])
          /\ s[k].status_id \in {Null, StatusAfter(log, k - 1)}
      BY <1>1 DEF SlicesOK
    <2>4. id \in {Null, StatusAfter(log, k - 1)}
      BY <1>1, <2>2, <2>3, IdForOwner
    <2>5. s2[k] = [s[k] EXCEPT !.status_id = id] /\ s[k] \in Stay
      BY <1>9
    <2> HIDE DEF s2, id, s
    <2>6. QED
      BY <2>2, <2>4, <2>5 DEF Stay
  <1>11. s2 \in Seq(Stay) /\ Len(s2) = n + 1
    <2>1. DOMAIN s2 = 1..(n + 1) /\ \A k \in 1..(n + 1) : s2[k] \in Stay
      BY <1>9, <1>10
    <2>2. s2 = [k \in 1..(n + 1) |-> s2[k]]
      BY <1>9
    <2>3. n + 1 \in Nat
      BY <1>3
    <2> HIDE DEF s2, s
    <2>4. QED
      BY <2>1, <2>2, <2>3, IsList
  <1> HIDE DEF tr2, s2
  <1>12. End(i)' = End(i)
    BY <1>2, <1>7, <1>8 DEF End
  <1>13. RowOK(i)'
    <2>1. n <= Len(log) /\ \A k \in 1..Len(log) : log[k].at <= syncedAt[i] <=> k <= n
      BY <1>1 DEF RowOK
    <2>2. /\ jira[i].created # Null /\ row[i].created_at = jira[i].created
          /\ jira[i].created <= syncedAt[i]
          /\ row[i].current_status \in ToSet(NamesOf[StatusAfter(log, n)])
          /\ row[i].done_at # Null => n > 0
          /\ row[i].done_at = Null => row[i].current_status \notin DoneStatuses
      BY <1>1 DEF RowOK
    <2>3. QED
      BY <1>2, <1>6, <1>7, <1>8, <2>1, <2>2 DEF RowOK
  <1>14. Chain(s2, jira[i].created, End(i)) /\ Timed(s2, schedule)
    <2>1. Chain(s, jira[i].created, End(i)) /\ Timed(s, schedule)
      BY <1>1 DEF SlicesOK
    <2>2. Timed(s2, schedule)
      BY <1>9, <1>10, <1>11, <2>1 DEF Timed
    <2>3. /\ n + 1 # 0 /\ 1 \in 1..(n + 1) /\ n + 1 \in 1..(n + 1)
          /\ \A k \in 1..((n + 1) - 1) : k \in 1..(n + 1) /\ k + 1 \in 1..(n + 1)
      BY <1>3
    <2>4. /\ \A k \in 1..(n + 1) : s[k].start_at <= s[k].end_at
          /\ \A k \in 1..((n + 1) - 1) : s[k].end_at = s[k + 1].start_at
          /\ s[1].start_at = jira[i].created /\ s[n + 1].end_at = End(i)
      BY <1>9, <2>1, <2>3 DEF Chain
    <2>5. Chain(s2, jira[i].created, End(i))
      BY <1>10, <1>11, <2>3, <2>4 DEF Chain
    <2>6. QED
      BY <2>2, <2>5
  <1>15. SlicesOK(i)'
    <2>1. \A k \in 1..(n + 1) :
          /\ s[k].start_at = Turn(jira[i], k - 1)
          /\ s[k].end_at = IF k <= n THEN Turn(jira[i], k) ELSE End(i)
          /\ s[k].status \in ToSet(NamesOf[StatusAfter(log, k - 1)])
          /\ s[k].is_open <=> k = n + 1 /\ row[i].done_at = Null
      BY <1>1 DEF SlicesOK
    <2>2. \A k \in 1..(n + 1) :
          /\ s2[k].start_at = Turn(jira[i], k - 1)
          /\ s2[k].end_at = IF k <= n THEN Turn(jira[i], k) ELSE End(i)
          /\ s2[k].status \in ToSet(NamesOf[StatusAfter(log, k - 1)])
          /\ s2[k].status_id \in {Null, StatusAfter(log, k - 1)}
          /\ s2[k].is_open <=> k = n + 1 /\ row[i].done_at = Null
      BY <1>10, <2>1
    <2>3. QED
      BY <1>2, <1>7, <1>8, <1>11, <1>12, <1>14, <2>2 DEF SlicesOK
  <1>16. MetricsOK(i)'
    BY <1>1, <1>2, <1>8, <1>12 DEF MetricsOK
  <1>17. QED
    BY <1>13, <1>15, <1>16

LEMMA BackfillInv ==
  ASSUME IInv, BackfillStatusIds
  PROVE  IInv'
  <1>1. GlobalOK'
    BY DEF IInv, GlobalOK, BackfillStatusIds
  <1>2. ASSUME NEW i \in Issues PROVE IssueOK(i)'
    <2>1. IssueOK(i)
      BY DEF IInv
    <2>2. HistoryOK(i)'
      BY <2>1 DEF IssueOK, HistoryOK, BackfillStatusIds
    <2>3. CASE row[i] = Null
      <3>1. row'[i] = Null /\ slices[i] = <<>>
        BY <2>1, <2>3 DEF IssueOK, BackfillStatusIds
      <3>2. slices'[i] = <<>>
        BY <3>1 DEF BackfillStatusIds
      <3>3. QED
        BY <2>2, <3>1, <3>2 DEF IssueOK
    <2>4. CASE row[i] # Null
      <3>1. (RowOK(i) /\ SlicesOK(i) /\ MetricsOK(i))'
        BY <2>4, BackfillKeepsStored
      <3>2. row'[i] # Null
        BY <3>1, FlowReportsAssumption DEF RowOK
      <3>3. QED
        BY <2>2, <3>1, <3>2 DEF IssueOK
    <2>5. QED
      BY <2>3, <2>4
  <1>3. QED
    BY <1>1, <1>2 DEF IInv

-----------------------------------------------------------------------------
(* Ingest. *)

(* The changelog with or without its ids. *)
LEMMA StoredLog ==
  ASSUME IInv, NEW i \in Issues
  PROVE  LET log == jira[i].log
             known == AsStored(log)
         IN /\ known \in Seq(Transitions) /\ Len(known) = Len(log)
            /\ Rising(known) /\ AllOrNoIds(known)
            /\ \A k \in 1..Len(log) :
                 /\ known[k].at = log[k].at
                 /\ known[k].to_status = log[k].to_status
                 /\ known[k].from_status = log[k].from_status
                 /\ known[k].to_status_id \in {Null, log[k].to_status_id}
                 /\ known[k].from_status_id \in {Null, log[k].from_status_id}
  <1> DEFINE log == jira[i].log
             n == Len(log)
             known == AsStored(log)
  <1>1. /\ log \in Seq(Transitions) /\ n \in Nat /\ DOMAIN log = 1..n
        /\ \A k \in 1..n : log[k] \in Transitions
    BY LogIsSequence DEF IInv, IssueOK
  <1>2. Rising(log) /\ \A k \in 1..n : log[k].to_status_id \in StatusIds
    BY DEF IInv, IssueOK, HistoryOK
  <1>3. CASE withIds
    <2>1. known = log
      BY <1>3 DEF AsStored
    <2>2. AllOrNoIds(log)
      BY <1>2, FlowReportsAssumption DEF AllOrNoIds
    <2> HIDE DEF known, log
    <2>3. QED
      BY <1>1, <1>2, <2>1, <2>2 DEF n, log, known
  <1>4. CASE ~withIds
    <2>1. /\ DOMAIN known = 1..n /\ known = [k \in 1..n |-> known[k]]
          /\ \A k \in 1..n : known[k] = WithoutIds(log[k])
      BY <1>1, <1>4 DEF AsStored
    <2> HIDE DEF known, log, n
    <2>2. ASSUME NEW k \in 1..n
          PROVE  /\ known[k] \in Transitions
                 /\ known[k].at = log[k].at
                 /\ known[k].to_status = log[k].to_status
                 /\ known[k].from_status = log[k].from_status
                 /\ known[k].to_status_id = Null /\ known[k].from_status_id = Null
      <3>1. known[k] = [log[k] EXCEPT !.from_status_id = Null, !.to_status_id = Null]
        BY <2>1 DEF WithoutIds
      <3>2. log[k] \in Transitions
        BY <1>1
      <3>3. QED
        BY <3>1, <3>2 DEF Transitions
    <2>3. known \in Seq(Transitions) /\ Len(known) = n
      BY <1>1, <2>1, <2>2, IsList
    <2>4. Rising(known) /\ AllOrNoIds(known)
      BY <1>2, <2>2, <2>3 DEF Rising, AllOrNoIds, n
    <2>5. QED
      BY <2>2, <2>3, <2>4 DEF known, log, n
  <1>5. QED
    BY <1>3, <1>4

LEMMA PayloadDelivers ==
  ASSUME NEW log \in Seq(Transitions), NEW payload \in Payloads(log)
  PROVE  Delivers(AsStored(payload), AsStored(log))
  <1> DEFINE n == Len(log)
             stored1(t) == IF withIds THEN t ELSE WithoutIds(t)
  <1>1. /\ n \in Nat /\ DOMAIN log = 1..n
    OBVIOUS
  <1>2. ASSUME NEW list, NEW m \in Nat, DOMAIN list = 1..m
        PROVE  /\ DOMAIN AsStored(list) = 1..m
               /\ \A k \in 1..m : AsStored(list)[k] = stored1(list[k])
    BY <1>2 DEF AsStored
  <1>3. DOMAIN AsStored(log) = 1..n /\ \A k \in 1..n : AsStored(log)[k] = stored1(log[k])
    BY <1>1, <1>2
  <1>4. Len(AsStored(log)) = n
    <2>1. AsStored(log) \in [1..n -> {stored1(log[k]) : k \in 1..n}]
      <3>1. AsStored(log) = [k \in 1..n |-> AsStored(log)[k]]
        BY <1>1 DEF AsStored
      <3>2. QED
        BY <1>3, <3>1
    <2>2. QED
      BY <1>1, <2>1, LenProperties
  <1>5. CASE payload = log
    BY <1>3, <1>4, <1>5 DEF Delivers
  <1>6. CASE payload = Reverse(log)
    <2>1. DOMAIN payload = 1..n /\ \A k \in 1..n : payload[k] = log[(n - k) + 1]
      BY <1>1, <1>6 DEF Reverse
    <2>2. DOMAIN AsStored(payload) = 1..n
          /\ \A k \in 1..n : AsStored(payload)[k] = stored1(payload[k])
      BY <1>1, <1>2, <2>1
    <2>3. ASSUME NEW k \in 1..n PROVE AsStored(payload)[(n + 1) - k] = AsStored(log)[k]
      <3>1. (n + 1) - k \in 1..n /\ (n - ((n + 1) - k)) + 1 = k
        BY <1>1
      <3>2. QED
        BY <1>3, <2>1, <2>2, <3>1
    <2>4. QED
      BY <1>4, <2>2, <2>3 DEF Delivers
  <1>7. CASE payload = log \o log
    <2>1. /\ DOMAIN payload = 1..(n + n) /\ n + n \in Nat
          /\ \A k \in 1..n : payload[k] = log[k] /\ payload[n + k] = log[k]
      BY <1>1, <1>7
    <2>2. DOMAIN AsStored(payload) = 1..(n + n)
          /\ \A k \in 1..(n + n) : AsStored(payload)[k] = stored1(payload[k])
      BY <1>2, <2>1
    <2>3. ASSUME NEW k \in 1..n
          PROVE  AsStored(payload)[k] = AsStored(log)[k] /\ AsStored(payload)[n + k] = AsStored(log)[k]
      <3>1. k \in 1..(n + n) /\ n + k \in 1..(n + n)
        BY <1>1
      <3>2. QED
        BY <1>3, <2>1, <2>2, <3>1
    <2>4. QED
      BY <1>4, <2>2, <2>3 DEF Delivers
  <1>8. QED
    BY <1>5, <1>6, <1>7 DEF Payloads

(* A payload has the entries of the changelog and no others. *)
LEMMA SameEntries ==
  ASSUME NEW changelog, NEW log, Len(log) \in Nat, Delivers(changelog, log)
  PROVE  /\ \A k \in DOMAIN changelog : \E m \in 1..Len(log) : changelog[k] = log[m]
         /\ \A m \in 1..Len(log) : \E k \in DOMAIN changelog : changelog[k] = log[m]
  <1> DEFINE n == Len(log)
  <1>1. CASE DOMAIN changelog = 1..n /\ \A k \in 1..n : changelog[k] = log[k]
    BY <1>1
  <1>2. CASE DOMAIN changelog = 1..n /\ \A k \in 1..n : changelog[(n + 1) - k] = log[k]
    <2>1. \A k \in 1..n : (n + 1) - k \in 1..n /\ (n + 1) - ((n + 1) - k) = k
      OBVIOUS
    <2>2. QED
      BY <1>2, <2>1
  <1>3. CASE DOMAIN changelog = 1..(n + n)
             /\ \A k \in 1..n : changelog[k] = log[k] /\ changelog[n + k] = log[k]
    <2>1. \A k \in 1..n : k \in 1..(n + n)
      OBVIOUS
    <2>2. \A k \in 1..(n + n) : k \in 1..n \/ (k - n \in 1..n /\ n + (k - n) = k)
      OBVIOUS
    <2>3. QED
      BY <1>3, <2>1, <2>2
  <1>4. QED
    BY <1>1, <1>2, <1>3 DEF Delivers

(* _resolve_done_at finds a time for an issue in a done status, and none    *)
(* before the issue has moved.                                              *)
LEMMA DoneAtOfPayload ==
  ASSUME IInv, NEW i \in Issues, NEW changelog, Delivers(changelog, AsStored(jira[i].log))
  PROVE  LET status == NameOf(jira[i].status)
             done == ResolveDoneAt(jira[i].resolution, status, changelog, DoneStatuses)
         IN /\ done \in Nat \cup {Null}
            /\ done # Null => Len(jira[i].log) > 0
            /\ done = Null => status \notin DoneStatuses
  <1> DEFINE log == jira[i].log
             known == AsStored(log)
             n == Len(log)
             status == NameOf(jira[i].status)
             resolution == jira[i].resolution
             entered == {changelog[k].at : k \in {j \in DOMAIN changelog :
                                                    changelog[j].to_status \in DoneStatuses}}
             done == ResolveDoneAt(resolution, status, changelog, DoneStatuses)
  <1>1. HistoryOK(i) /\ GlobalOK
    BY DEF IInv, IssueOK
  <1>2. /\ n \in Nat /\ Len(known) = n
        /\ \A k \in 1..n : known[k].at = log[k].at /\ known[k].to_status = log[k].to_status
        /\ \A k \in 1..n : log[k].at \in Nat
    BY <1>1, StoredLog, LogIsSequence
  <1>3. /\ \A k \in DOMAIN changelog : \E m \in 1..n : changelog[k] = known[m]
        /\ \A m \in 1..n : \E k \in DOMAIN changelog : changelog[k] = known[m]
    BY <1>2, SameEntries
  <1>4. now \in Nat
    BY <1>1, FlowReportsAssumption DEF GlobalOK
  <1>5. entered \in SUBSET (0..now) /\ (entered # {} => n > 0)
    <2>1. ASSUME NEW k \in DOMAIN changelog PROVE changelog[k].at \in 0..now /\ n > 0
      <3>1. PICK m \in 1..n : changelog[k] = known[m]
        BY <1>3
      <3>2. log[m].at \in Nat /\ log[m].at <= now
        BY <1>1, <1>2, <3>1 DEF HistoryOK
      <3>3. changelog[k].at = log[m].at
        BY <1>2, <3>1
      <3>4. QED
        BY <1>2, <1>4, <3>1, <3>2, <3>3
    <2>2. QED
      BY <2>1
  <1>6. ASSUME status \in DoneStatuses PROVE entered # {}
    <2>1. jira[i].status = StatusAfter(log, n) /\ jira[i].status \in StatusIds
      BY <1>1 DEF HistoryOK, JiraIssues
    <2>2. status \in ToSet(NamesOf[jira[i].status])
      BY <1>1, <2>1, NamesOfStatus
    <2>3. n # 0
      <3>1. ASSUME n = 0 PROVE FALSE
        <4>1. jira[i].status = FirstStatus
          BY <2>1, <3>1 DEF StatusAfter
        <4>2. QED
          BY <1>6, <2>2, <4>1, WorkflowAssumption
      <3>2. QED
        BY <3>1
    <2>4. n \in 1..n /\ jira[i].status = log[n].to_status_id
      BY <1>2, <2>1, <2>3 DEF StatusAfter
    <2>5. log[n].to_status \in NamesSoFar(log[n].to_status_id, era)
      BY <1>1, <2>4 DEF HistoryOK
    <2>6. log[n].to_status \in DoneStatuses
      BY <1>1, <1>6, <2>1, <2>4, <2>5, NoDoneBefore
    <2>7. PICK k \in DOMAIN changelog : changelog[k] = known[n]
      BY <1>3, <2>4
    <2>8. changelog[k].to_status \in DoneStatuses
      BY <1>2, <2>4, <2>6, <2>7
    <2>9. QED
      BY <2>8
  <1>7. entered # {} => Max(entered) \in Nat
    <2>1. ASSUME NEW times \in SUBSET (0..now), times # {} PROVE Max(times) \in Nat
      <3>1. Max(times) \in times
        BY <1>4, <2>1, MaxIsGreatest
      <3>2. \A x \in times : x \in Nat
        BY <1>4
      <3>3. QED
        BY <3>1, <3>2
    <2> HIDE DEF entered
    <2>2. QED
      BY <1>5, <2>1
  <1>8. done = IF resolution # Null THEN resolution
               ELSE IF status \in DoneStatuses /\ entered # {} THEN Max(entered)
               ELSE Null
    BY DEF ResolveDoneAt
  <1>9. resolution \in Nat \cup {Null} /\ (resolution # Null => n > 0)
    BY <1>1 DEF HistoryOK, JiraIssues
  <1> HIDE DEF entered, done, status, n, resolution
  <1>10. done \in Nat \cup {Null} /\ (done # Null => n > 0) /\ (done = Null => status \notin DoneStatuses)
    BY <1>5, <1>6, <1>7, <1>8, <1>9, FlowReportsAssumption
  <1>11. QED
    BY <1>10 DEF done, status, n, resolution

(* What an ingest stores of an issue. *)
LEMMA IngestedRow ==
  ASSUME IInv, NEW i \in Issues, jira[i].created # Null, NEW payload \in Payloads(jira[i].log)
  PROVE  LET log == jira[i].log
             issue == UpsertIssue(i, AsStored(payload))
         IN /\ issue \in Rows /\ IsIssue(issue)
            /\ issue.transitions = AsStored(log)
            /\ issue.created_at = jira[i].created
            /\ issue.updated_at = jira[i].updated
            /\ issue.current_status = NameOf(jira[i].status)
            /\ issue.done_at # Null => Len(log) > 0
            /\ issue.done_at = Null => issue.current_status \notin DoneStatuses
  <1> DEFINE log == jira[i].log
             status == NameOf(jira[i].status)
             changelog == AsStored(payload)
             updated == jira[i].updated
             done == ResolveDoneAt(jira[i].resolution, status, changelog, DoneStatuses)
             transitions == ExtractTransitions(changelog)
             issue == UpsertIssue(i, changelog)
  <1>1. HistoryOK(i) /\ GlobalOK
    BY DEF IInv, IssueOK
  <1>2. /\ log \in Seq(Transitions) /\ Len(log) \in Nat
        /\ \A k \in 1..Len(log) : log[k].at \in Nat
    BY <1>1, LogIsSequence
  <1>3. Delivers(changelog, AsStored(log))
    BY <1>2, PayloadDelivers
  <1>4. transitions = AsStored(log) /\ AsStored(log) \in Seq(Transitions)
    <2>1. AsStored(log) \in Seq(Transitions) /\ Rising(AsStored(log))
      BY StoredLog
    <2>2. QED
      BY <1>3, <2>1, ExtractedInOrder
  <1>5. done \in Nat \cup {Null} /\ (done # Null => Len(log) > 0)
        /\ (done = Null => status \notin DoneStatuses)
    BY <1>3, DoneAtOfPayload
  <1>6. jira[i].created \in Nat /\ jira[i].status \in StatusIds
    BY <1>1 DEF HistoryOK, JiraIssues
  <1>7. status \in Names
    BY <1>1, <1>6, NamesOfStatus
  <1>8. updated \in Nat
    BY <1>1 DEF HistoryOK, JiraIssues
  <1>9. issue = [created_at |-> jira[i].created, updated_at |-> updated, done_at |-> done,
                 current_status |-> status, transitions |-> transitions]
    BY DEF UpsertIssue
  <1> HIDE DEF done, updated, transitions, status, issue, changelog, log
  <1>10. /\ issue \in Rows /\ IsIssue(issue) /\ issue.transitions = AsStored(log)
         /\ issue.created_at = jira[i].created /\ issue.updated_at = jira[i].updated
         /\ issue.current_status = status /\ issue.done_at = done
    BY <1>4, <1>5, <1>6, <1>7, <1>8, <1>9 DEF Rows, IsIssue, updated
  <1>11. QED
    BY <1>5, <1>10 DEF issue, status, changelog, log

LEMMA IngestedSlices ==
  ASSUME IInv, NEW i \in Issues, jira[i].created # Null, NEW payload \in Payloads(jira[i].log)
  PROVE  LET log == jira[i].log
             n == Len(log)
             issue == UpsertIssue(i, AsStored(payload))
             s == BuildTimeSlices(issue, issue.transitions, DoneStatuses, now, schedule)
             end == IF issue.done_at = Null THEN now ELSE Upper(issue.done_at, Turn(jira[i], n))
         IN /\ Len(s) = n + 1 /\ Chain(s, jira[i].created, end) /\ Timed(s, schedule)
            /\ \A k \in 1..(n + 1) :
                 /\ s[k].start_at = Turn(jira[i], k - 1)
                 /\ s[k].end_at = IF k <= n THEN Turn(jira[i], k) ELSE end
                 /\ s[k].status \in ToSet(NamesOf[StatusAfter(log, k - 1)])
                 /\ s[k].status_id \in {Null, StatusAfter(log, k - 1)}
                 /\ s[k].is_open <=> k = n + 1 /\ issue.done_at = Null
  <1> DEFINE log == jira[i].log
             n == Len(log)
             issue == UpsertIssue(i, AsStored(payload))
             known == issue.transitions
             s == BuildTimeSlices(issue, known, DoneStatuses, now, schedule)
             end == IF issue.done_at = Null THEN now ELSE Upper(issue.done_at, Turn(jira[i], n))
  <1>1. HistoryOK(i) /\ GlobalOK
    BY DEF IInv, IssueOK
  <1>2. /\ n \in Nat /\ \A k \in 1..n : log[k].at \in Nat
    BY <1>1, LogIsSequence
  <1>3. /\ IsIssue(issue) /\ known = AsStored(log) /\ issue.created_at = jira[i].created
        /\ issue.current_status = NameOf(jira[i].status)
        /\ issue.done_at = Null => issue.current_status \notin DoneStatuses
        /\ issue.done_at # Null => issue.done_at \in Nat
    BY IngestedRow DEF IsIssue
  <1>4. /\ known \in Seq(Transitions) /\ Len(known) = n /\ AllOrNoIds(known)
        /\ \A k \in 1..n :
             /\ known[k].at = log[k].at
             /\ known[k].to_status = log[k].to_status
             /\ known[k].from_status = log[k].from_status
             /\ known[k].to_status_id \in {Null, log[k].to_status_id}
             /\ known[k].from_status_id \in {Null, log[k].from_status_id}
    BY <1>3, StoredLog
  <1>5. now \in Nat /\ WorkSchedule(schedule)
    BY <1>1, FlowReportsAssumption DEF GlobalOK, WorkSchedule
  <1>6. /\ jira[i].created \in Nat /\ jira[i].created <= now
        /\ jira[i].status \in StatusIds /\ jira[i].status = StatusAfter(log, n)
    BY <1>1 DEF HistoryOK, JiraIssues
  <1>7. \A k \in 1..n : /\ jira[i].created < log[k].at /\ log[k].at <= now
                        /\ log[k].from_status_id = StatusAfter(log, k - 1)
                        /\ log[k].to_status_id \in StatusIds
                        /\ log[k].from_status \in NamesSoFar(log[k].from_status_id, era)
                        /\ log[k].to_status \in NamesSoFar(log[k].to_status_id, era)
    BY <1>1 DEF HistoryOK
  <1>8. \A k \in 0..n : /\ Turn(jira[i], k) \in Nat /\ Turn(jira[i], k) <= now
                        /\ StatusAfter(log, k) \in StatusIds
    <2>1. ASSUME NEW k \in 0..n PROVE Turn(jira[i], k) \in Nat /\ Turn(jira[i], k) <= now
      <3>1. k = 0 \/ k \in 1..n
        BY <1>2
      <3>2. QED
        BY <1>2, <1>6, <1>7, <3>1 DEF Turn
    <2>2. QED
      BY <1>1, <2>1, StatusAfterIsStatus
  <1>9. \A t \in StatusIds : NamesSoFar(t, era) \subseteq ToSet(NamesOf[t]) /\ NameOf(t) \in ToSet(NamesOf[t])
    BY <1>1, NamesOfStatus
  <1>10. ASSUME NEW k \in 1..n
         PROVE  /\ log[k].to_status \in ToSet(NamesOf[StatusAfter(log, k)])
                /\ log[k].from_status \in ToSet(NamesOf[StatusAfter(log, k - 1)])
                /\ log[k].to_status_id = StatusAfter(log, k)
    <2>1. k \in 0..n /\ k - 1 \in 0..n /\ k # 0
      BY <1>2
    <2>2. log[k].to_status_id = StatusAfter(log, k)
      BY <2>1 DEF StatusAfter
    <2>3. QED
      BY <1>7, <1>8, <1>9, <2>1, <2>2
  <1>11. \A k \in 1..(n + 1) : k - 1 \in 0..n /\ (k = 1 \/ k - 1 \in 1..n)
    BY <1>2
  <1>12. ASSUME NEW k \in 1..(n + 1) PROVE StartOf(issue, known, k) = Turn(jira[i], k - 1)
    <2>1. k - 1 = 0 <=> k = 1
      BY <1>2
    <2>2. k - 1 \in 1..n => known[k - 1].at = log[k - 1].at
      BY <1>4
    <2>3. QED
      BY <1>3, <1>11, <2>1, <2>2 DEF StartOf, Turn
  <1>13. InOrder(issue, known)
    <2>1. ASSUME NEW k \in 1..n PROVE StartOf(issue, known, k) <= known[k].at
      <3>1. k \in 1..(n + 1) /\ (k = 1 \/ k - 1 \in 1..n) /\ known[k].at = log[k].at
        BY <1>2, <1>4
      <3>2. StartOf(issue, known, k) = Turn(jira[i], k - 1)
        BY <1>12, <3>1
      <3>3. Turn(jira[i], k - 1) <= log[k].at
        <4>1. CASE k = 1
          BY <1>2, <1>6, <1>7, <4>1 DEF Turn
        <4>2. CASE k - 1 \in 1..n
          <5>1. k - 1 < k /\ k - 1 # 0 /\ log[k - 1].at < log[k].at
            BY <1>1, <4>2 DEF HistoryOK, Rising
          <5>2. QED
            BY <1>2, <4>2, <5>1 DEF Turn
        <4>3. QED
          BY <3>1, <4>1, <4>2
      <3>4. QED
        BY <3>1, <3>2, <3>3
    <2>2. QED
      BY <1>4, <2>1 DEF InOrder
  <1>14. /\ Len(s) = n + 1
         /\ \A k \in 1..(n + 1) :
              /\ s[k].status = StatusOf(issue, known, k)
              /\ s[k].status_id = IdOf(known, k)
              /\ s[k].start_at = StartOf(issue, known, k)
              /\ k < n + 1 => s[k].end_at = StartOf(issue, known, k + 1) /\ ~s[k].is_open
         /\ s[n + 1].end_at = Upper(IF issue.done_at = Null THEN now ELSE issue.done_at,
                                    StartOf(issue, known, n + 1))
         /\ s[n + 1].is_open <=> issue.done_at = Null /\ issue.current_status \notin DoneStatuses
    <2> HIDE DEF issue, known, n, s
    <2>1. LET m == Len(known) + 1
          IN /\ Len(s) = m
             /\ \A k \in 1..m :
                  /\ s[k].status = StatusOf(issue, known, k)
                  /\ s[k].status_id = IdOf(known, k)
                  /\ s[k].start_at = StartOf(issue, known, k)
                  /\ k < m => s[k].end_at = StartOf(issue, known, k + 1) /\ ~s[k].is_open
             /\ s[m].end_at = Upper(IF issue.done_at = Null THEN now ELSE issue.done_at,
                                    StartOf(issue, known, m))
             /\ s[m].is_open <=> issue.done_at = Null /\ issue.current_status \notin DoneStatuses
      BY <1>3, <1>4, <1>5, <1>13, SlicesAreStays DEF s
    <2>2. QED
      BY <1>4, <2>1
  <1>15. /\ Chain(s, issue.created_at, s[Len(s)].end_at) /\ Timed(s, schedule)
    BY <1>3, <1>4, <1>5, BuiltSlicesPartition
  <1> HIDE DEF s
  <1>16. s[n + 1].end_at = end
    <2>1. n + 1 \in 1..(n + 1) /\ (n + 1) - 1 = n /\ n \in 0..n
      BY <1>2
    <2>2. StartOf(issue, known, n + 1) = Turn(jira[i], n)
      BY <1>12, <2>1
    <2>3. Turn(jira[i], n) \in Nat /\ Turn(jira[i], n) <= now
      BY <1>8, <2>1
    <2> HIDE DEF n, issue, known
    <2>4. QED
      BY <1>5, <1>14, <2>2, <2>3 DEF Upper
  <1> HIDE DEF issue, known, n, log, end
  <1>17. ASSUME NEW k \in 1..(n + 1)
         PROVE  /\ s[k].start_at = Turn(jira[i], k - 1)
                /\ s[k].end_at = IF k <= n THEN Turn(jira[i], k) ELSE end
                /\ s[k].status \in ToSet(NamesOf[StatusAfter(log, k - 1)])
                /\ s[k].status_id \in {Null, StatusAfter(log, k - 1)}
                /\ s[k].is_open <=> k = n + 1 /\ issue.done_at = Null
    <2>1. s[k].start_at = Turn(jira[i], k - 1)
      BY <1>12, <1>14
    <2>2. k <= n \/ k = n + 1
      BY <1>2
    <2>3. s[k].end_at = IF k <= n THEN Turn(jira[i], k) ELSE end
      <3>1. CASE k <= n
        <4>1. k < n + 1 /\ k + 1 \in 1..(n + 1) /\ (k + 1) - 1 = k
          BY <1>2, <3>1
        <4>2. QED
          BY <1>12, <1>14, <3>1, <4>1
      <3>2. CASE k = n + 1
        <4>1. ~(k <= n)
          BY <1>2, <3>2
        <4>2. QED
          BY <1>16, <3>2, <4>1
      <3>3. QED
        BY <2>2, <3>1, <3>2
    <2>4. s[k].is_open <=> k = n + 1 /\ issue.done_at = Null
      <3>1. CASE k <= n
        <4>1. k < n + 1 /\ k # n + 1
          BY <1>2, <3>1
        <4>2. QED
          BY <1>14, <4>1
      <3>2. CASE k = n + 1
        BY <1>3, <1>14, <3>2
      <3>3. QED
        BY <2>2, <3>1, <3>2
    <2>5. /\ s[k].status \in ToSet(NamesOf[StatusAfter(log, k - 1)])
          /\ s[k].status_id \in {Null, StatusAfter(log, k - 1)}
      <3>1. CASE k = 1 /\ n = 0
        <4>1. known = <<>>
          BY <1>4, <3>1
        <4>2. /\ StatusOf(issue, known, k) = NameOf(jira[i].status)
              /\ IdOf(known, k) = Null
          BY <1>3, <3>1, <4>1 DEF StatusOf, IdOf
        <4>3. jira[i].status = StatusAfter(log, k - 1)
          BY <1>6, <3>1
        <4>4. QED
          BY <1>6, <1>9, <1>14, <4>2, <4>3
      <3>2. CASE k = 1 /\ n # 0
        <4>1. known # <<>> /\ 1 \in 1..n /\ k - 1 = 0
          BY <1>2, <1>4, <3>2
        <4>2. /\ StatusOf(issue, known, k) = log[1].from_status
              /\ IdOf(known, k) \in {Null, log[1].from_status_id}
          BY <1>4, <3>2, <4>1 DEF StatusOf, IdOf
        <4>3. log[1].from_status_id = StatusAfter(log, 0)
              /\ log[1].from_status \in ToSet(NamesOf[StatusAfter(log, 0)])
          <5>1. 1 - 1 = 0
            OBVIOUS
          <5>2. QED
            BY <1>7, <1>10, <4>1, <5>1
        <4>4. QED
          BY <1>14, <4>1, <4>2, <4>3
      <3>3. CASE k - 1 \in 1..n
        <4>1. k > 1
          BY <1>2, <3>3
        <4>2. /\ StatusOf(issue, known, k) = log[k - 1].to_status
              /\ IdOf(known, k) \in {Null, log[k - 1].to_status_id}
          BY <1>4, <3>3, <4>1 DEF StatusOf, IdOf
        <4>3. QED
          BY <1>10, <1>14, <3>3, <4>2
      <3>4. QED
        BY <1>11, <3>1, <3>2, <3>3
    <2>6. QED
      BY <2>1, <2>3, <2>4, <2>5
  <1>18. Chain(s, jira[i].created, end)
    BY <1>3, <1>14, <1>15, <1>16
  <1>19. QED
    BY <1>14, <1>15, <1>17, <1>18 DEF s, issue, known, n, log, end

(* A metrics row of an issue whose slices go from one instant to another. *)
Measured(m, issue, time, from, to) ==
  /\ m.cycle_seconds
     = WholeSeconds((IF issue.done_at # Null THEN issue.done_at ELSE time) - issue.created_at)
  /\ m.active_seconds \in Nat /\ SecondLength * m.active_seconds \in 0..(to - from)
  /\ m.wait_seconds = Upper(m.cycle_seconds - m.active_seconds, 0)

LEMMA MetricsOfSlices ==
  ASSUME NEW issue, NEW from \in Nat, NEW to \in Nat, NEW s, Chain(s, from, to),
         NEW sched, WorkSchedule(sched), Timed(s, sched), NEW active, NEW time
  PROVE  Measured(IssueMetrics(issue, s, active, time), issue, time, from, to)
  <1> DEFINE places == {k \in DOMAIN s : s[k].status \in active}
  <1>1. /\ IssueMetrics(issue, s, active, time).cycle_seconds
           = WholeSeconds((IF issue.done_at # Null THEN issue.done_at ELSE time)
                          - issue.created_at)
        /\ IssueMetrics(issue, s, active, time).active_seconds = TimeOf(s, places)
        /\ IssueMetrics(issue, s, active, time).wait_seconds
           = Upper(WholeSeconds((IF issue.done_at # Null THEN issue.done_at ELSE time)
                                - issue.created_at)
                   - TimeOf(s, places), 0)
    BY DEF IssueMetrics, TimeOf
  <1>2. s \in Seq(Stay)
    BY DEF Chain
  <1>3. places \in SUBSET (1..Len(s))
    BY <1>2
  <1> HIDE DEF places
  <1>4. TimeOf(s, places) \in Nat /\ SecondLength * TimeOf(s, places) \in 0..(to - from)
    BY <1>3, SliceTimesAdd
  <1>5. QED
    BY <1>1, <1>4 DEF Measured

LEMMA IngestKeeps ==
  ASSUME IInv, NEW i \in Issues, Ingest(i)
  PROVE  (RowOK(i) /\ SlicesOK(i) /\ MetricsOK(i))'
  <1>0. jira[i].created # Null
    BY DEF Ingest
  <1>1. PICK payload \in Payloads(jira[i].log) :
          LET issue == UpsertIssue(i, AsStored(payload))
              built == BuildTimeSlices(issue, issue.transitions, DoneStatuses, now, schedule)
          IN /\ row' = [row EXCEPT ![i] = issue]
             /\ slices' = [slices EXCEPT ![i] = built]
             /\ metrics' = [metrics EXCEPT ![i] = IssueMetrics(issue, built, ActiveStatuses, now)]
    BY DEF Ingest
  <1>2. /\ UNCHANGED <<now, jira, era, schedule>> /\ syncedAt' = [syncedAt EXCEPT ![i] = now]
    BY DEF Ingest
  <1> DEFINE log == jira[i].log
             n == Len(log)
             issue == UpsertIssue(i, AsStored(payload))
             built == BuildTimeSlices(issue, issue.transitions, DoneStatuses, now, schedule)
             end == IF issue.done_at = Null THEN now ELSE Upper(issue.done_at, Turn(jira[i], n))
             m == IssueMetrics(issue, built, ActiveStatuses, now)
  <1>3. HistoryOK(i) /\ GlobalOK
    BY DEF IInv, IssueOK
  <1>4. row'[i] = issue /\ slices'[i] = built /\ metrics'[i] = m /\ syncedAt'[i] = now
    BY <1>1, <1>2, <1>3 DEF GlobalOK
  <1>5. /\ issue \in Rows
        /\ issue.transitions = AsStored(log)
        /\ issue.created_at = jira[i].created
        /\ issue.updated_at = jira[i].updated
        /\ issue.current_status = NameOf(jira[i].status)
        /\ issue.done_at # Null => n > 0
        /\ issue.done_at = Null => issue.current_status \notin DoneStatuses
    BY <1>0, IngestedRow
  <1>6. /\ Len(AsStored(log)) = n /\ n \in Nat
        /\ \A k \in 1..n :
             /\ AsStored(log)[k].at = log[k].at
             /\ AsStored(log)[k].to_status = log[k].to_status
             /\ AsStored(log)[k].from_status = log[k].from_status
             /\ AsStored(log)[k].to_status_id \in {Null, log[k].to_status_id}
             /\ AsStored(log)[k].from_status_id \in {Null, log[k].from_status_id}
    BY <1>3, StoredLog, LogIsSequence
  <1>7. /\ Len(built) = n + 1 /\ Chain(built, jira[i].created, end) /\ Timed(built, schedule)
        /\ \A k \in 1..(n + 1) :
             /\ built[k].start_at = Turn(jira[i], k - 1)
             /\ built[k].end_at = IF k <= n THEN Turn(jira[i], k) ELSE end
             /\ built[k].status \in ToSet(NamesOf[StatusAfter(log, k - 1)])
             /\ built[k].status_id \in {Null, StatusAfter(log, k - 1)}
             /\ built[k].is_open <=> k = n + 1 /\ issue.done_at = Null
    BY <1>0, IngestedSlices
  <1>8. /\ jira[i].created \in Nat /\ jira[i].created <= now /\ now \in Nat
        /\ jira[i].status = StatusAfter(log, n) /\ jira[i].status \in StatusIds
        /\ \A k \in 1..n : log[k].at \in Nat /\ log[k].at <= now
    <2>1. /\ jira[i].created \in Nat /\ jira[i].created <= now
          /\ jira[i].status = StatusAfter(log, n) /\ jira[i].status \in StatusIds
      BY <1>0, <1>3 DEF HistoryOK, JiraIssues
    <2>2. \A k \in 1..n : log[k].at \in Nat /\ log[k].at <= now
      BY <1>3, LogIsSequence DEF HistoryOK
    <2>3. now \in Nat
      BY <1>3, FlowReportsAssumption DEF GlobalOK
    <2>4. QED
      BY <2>1, <2>2, <2>3
  <1>9. issue.current_status \in ToSet(NamesOf[StatusAfter(log, n)])
    BY <1>3, <1>5, <1>8, NamesOfStatus
  <1>10. WorkSchedule(schedule)
    BY <1>3, FlowReportsAssumption DEF GlobalOK, WorkSchedule
  <1>11. end \in Nat
    <2>1. Turn(jira[i], n) \in Nat
      <3>1. n = 0 \/ n \in 1..n
        BY <1>6
      <3>2. QED
        BY <1>8, <3>1 DEF Turn
    <2>2. issue.done_at \in Nat \cup {Null}
      BY <1>5 DEF Rows
    <2> HIDE DEF issue, n
    <2>3. QED
      BY <1>8, <2>1, <2>2 DEF Upper
  <1> HIDE DEF issue, built, end, m
  <1>12. /\ m.cycle_seconds = WholeSeconds((IF issue.done_at # Null THEN issue.done_at ELSE now)
                                           - issue.created_at)
         /\ m.active_seconds \in Nat
         /\ SecondLength * m.active_seconds \in 0..(end - jira[i].created)
         /\ m.wait_seconds = Upper(m.cycle_seconds - m.active_seconds, 0)
    <2>1. jira[i].created \in Nat /\ Chain(built, jira[i].created, end) /\ Timed(built, schedule)
      BY <1>7, <1>8
    <2>2. Measured(m, issue, now, jira[i].created, end)
      BY <1>10, <1>11, <2>1, MetricsOfSlices DEF m
    <2>3. QED
      BY <2>2 DEF Measured
  <1>13. /\ row'[i].transitions = AsStored(log) /\ jira' = jira /\ schedule' = schedule
         /\ row'[i].done_at = issue.done_at
    BY <1>2, <1>4, <1>5
  <1>14. End(i)' = end
    BY <1>4, <1>6, <1>13 DEF End, end
  <1>15. RowOK(i)'
    <2>1. \A k \in 1..n : log[k].at <= now <=> k <= n
      BY <1>6, <1>8
    <2>2. n <= n
      BY <1>6
    <2>3. QED
      BY <1>0, <1>4, <1>5, <1>6, <1>8, <1>9, <1>13, <2>1, <2>2 DEF RowOK
  <1>16. SlicesOK(i)'
    BY <1>4, <1>6, <1>7, <1>13, <1>14 DEF SlicesOK
  <1>17. MetricsOK(i)'
    BY <1>4, <1>5, <1>12, <1>13, <1>14 DEF MetricsOK
  <1>18. QED
    BY <1>15, <1>16, <1>17

LEMMA IngestInv ==
  ASSUME IInv, NEW i \in Issues, Ingest(i)
  PROVE  IInv'
  <1>0. PICK payload \in Payloads(jira[i].log) :
          LET issue == UpsertIssue(i, AsStored(payload))
              built == BuildTimeSlices(issue, issue.transitions, DoneStatuses, now, schedule)
          IN /\ row' = [row EXCEPT ![i] = issue]
             /\ slices' = [slices EXCEPT ![i] = built]
             /\ metrics' = [metrics EXCEPT ![i] = IssueMetrics(issue, built, ActiveStatuses, now)]
    BY DEF Ingest
  <1> DEFINE issue == UpsertIssue(i, AsStored(payload))
             built == BuildTimeSlices(issue, issue.transitions, DoneStatuses, now, schedule)
             m == IssueMetrics(issue, built, ActiveStatuses, now)
  <1>1. /\ row' = [row EXCEPT ![i] = issue] /\ slices' = [slices EXCEPT ![i] = built]
        /\ metrics' = [metrics EXCEPT ![i] = m]
    BY <1>0
  <1> HIDE DEF issue, built, m
  <1>2. /\ UNCHANGED <<now, jira, era, withIds, schedule>>
        /\ syncedAt' = [syncedAt EXCEPT ![i] = now]
    BY DEF Ingest
  <1>3. GlobalOK'
    <2>1. GlobalOK /\ now \in Nat
      BY FlowReportsAssumption DEF IInv, GlobalOK
    <2>2. syncedAt' \in [Issues -> 0..now']
      BY <1>2, <2>1 DEF GlobalOK
    <2>3. QED
      BY <1>1, <1>2, <2>1, <2>2 DEF GlobalOK
  <1>4. ASSUME NEW j \in Issues PROVE IssueOK(j)'
    <2>1. CASE j = i
      <3>1. (RowOK(i) /\ SlicesOK(i) /\ MetricsOK(i))'
        BY IngestKeeps
      <3>2. row'[i] # Null
        BY <3>1, FlowReportsAssumption DEF RowOK
      <3>3. HistoryOK(i)'
        BY <1>2 DEF IInv, IssueOK, HistoryOK
      <3>4. QED
        BY <2>1, <3>1, <3>2, <3>3 DEF IssueOK
    <2>2. CASE j # i
      <3>1. IssueOK(j) /\ GlobalOK
        BY DEF IInv
      <3>2. /\ row'[j] = row[j] /\ slices'[j] = slices[j] /\ metrics'[j] = metrics[j]
            /\ syncedAt'[j] = syncedAt[j]
        BY <1>1, <1>2, <2>2, <3>1 DEF GlobalOK
      <3>3. UNCHANGED <<now, jira, era, schedule>>
        BY <1>2
      <3>4. QED
        BY <3>1, <3>2, <3>3, SameIssue
    <2>3. QED
      BY <2>1, <2>2
  <1>5. QED
    BY <1>3, <1>4 DEF IInv

-----------------------------------------------------------------------------
(* The invariant. *)

LEMMA NextInv == IInv /\ [Next]_vars => IInv'
  <1>1. ASSUME IInv, Next PROVE IInv'
    <2>1. CASE Live
      BY <1>1, <2>1, LiveInv
    <2>2. CASE Deploy
      BY <1>1, <2>2, DeployInv
    <2>3. ASSUME NEW i \in Issues, Ingest(i) PROVE IInv'
      BY <1>1, <2>3, IngestInv
    <2>4. CASE BackfillStatusIds
      BY <1>1, <2>4, BackfillInv
    <2>5. QED
      BY <1>1, <2>1, <2>2, <2>3, <2>4 DEF Next
  <1>2. QED
    BY <1>1, DeployInv

LEMMA IInvariant == Spec => []IInv
  BY InitInv, NextInv, PTL DEF Spec

-----------------------------------------------------------------------------
(* What follows: the invariants of the runs. *)

LEMMA IsMax ==
  ASSUME NEW S \in SUBSET Int, NEW m \in S, \A y \in S : y <= m
  PROVE  Max(S) = m
  <1>1. \A x \in S : (\A y \in S : x >= y) => x = m
    OBVIOUS
  <1>2. \A y \in S : m >= y
    OBVIOUS
  <1>3. QED
    BY <1>1, <1>2 DEF Max

LEMMA IsMin ==
  ASSUME NEW S \in SUBSET Int, NEW m \in S, \A y \in S : m <= y
  PROVE  Min(S) = m
  <1>1. \A x \in S : (\A y \in S : x <= y) => x = m
    OBVIOUS
  <1>2. QED
    BY <1>1 DEF Min

(* The times of an issue. *)
LEMMA Turns ==
  ASSUME IInv, NEW i \in Issues, row[i] # Null
  PROVE  LET log == jira[i].log
             n == Len(row[i].transitions)
         IN /\ n \in 0..Len(log) /\ Len(log) \in Nat /\ syncedAt[i] \in Nat
            /\ now \in Nat /\ syncedAt[i] <= now
            /\ \A k \in 0..Len(log) : Turn(jira[i], k) \in Nat /\ Turn(jira[i], k) <= now
            /\ \A j, k \in 0..Len(log) : j < k => Turn(jira[i], j) < Turn(jira[i], k)
            /\ \A k \in 0..Len(log) : Turn(jira[i], k) <= syncedAt[i] <=> k <= n
  <1> DEFINE log == jira[i].log
             n == Len(row[i].transitions)
  <1>1. HistoryOK(i) /\ RowOK(i) /\ GlobalOK
    BY DEF IInv, IssueOK
  <1>2. Len(log) \in Nat /\ \A k \in 1..Len(log) : log[k].at \in Nat
    BY <1>1, LogIsSequence
  <1>3. n \in 0..Len(log)
    <2>1. row[i].transitions \in Seq(Transitions) /\ n <= Len(log)
      BY <1>1 DEF RowOK, Rows
    <2>2. QED
      BY <1>2, <2>1
  <1>4. syncedAt[i] \in Nat /\ now \in Nat /\ syncedAt[i] <= now
    <2>1. syncedAt[i] \in 0..now /\ now \in Nat
      BY <1>1, FlowReportsAssumption DEF GlobalOK
    <2>2. QED
      BY <2>1
  <1>5. /\ jira[i].created \in Nat /\ jira[i].created <= syncedAt[i]
        /\ \A k \in 1..Len(log) : log[k].at <= syncedAt[i] <=> k <= n
    BY <1>1 DEF RowOK, HistoryOK, JiraIssues
  <1>6. \A k \in 1..Len(log) : jira[i].created < log[k].at /\ log[k].at <= now
    BY <1>1 DEF HistoryOK
  <1>7. \A k \in 0..Len(log) : k = 0 \/ (k # 0 /\ k \in 1..Len(log))
    BY <1>2
  <1>8. ASSUME NEW k \in 0..Len(log)
        PROVE  /\ Turn(jira[i], k) \in Nat /\ Turn(jira[i], k) <= now
               /\ Turn(jira[i], k) <= syncedAt[i] <=> k <= n
    <2>1. CASE k = 0
      BY <1>3, <1>4, <1>5, <2>1 DEF Turn
    <2>2. CASE k # 0
      BY <1>2, <1>5, <1>6, <1>7, <2>2 DEF Turn
    <2>3. QED
      BY <2>1, <2>2
  <1>9. ASSUME NEW j \in 0..Len(log), NEW k \in 0..Len(log), j < k
        PROVE  Turn(jira[i], j) < Turn(jira[i], k)
    <2>1. k # 0 /\ k \in 1..Len(log)
      BY <1>2, <1>9
    <2>2. CASE j = 0
      BY <1>6, <2>1, <2>2 DEF Turn
    <2>3. CASE j # 0
      BY <1>1, <1>7, <1>9, <2>1, <2>3 DEF HistoryOK, Rising, Turn
    <2>4. QED
      BY <2>2, <2>3
  <1>10. QED
    BY <1>2, <1>3, <1>4, <1>8, <1>9

(* The end of a stored issue. *)
LEMMA EndOfIssue ==
  ASSUME IInv, NEW i \in Issues, row[i] # Null
  PROVE  EndOf(i) = End(i) /\ End(i) \in Nat
  <1> DEFINE log == jira[i].log
             n == Len(row[i].transitions)
             last == Turn(jira[i], n)
             done == row[i].done_at
  <1>1. HistoryOK(i) /\ RowOK(i)
    BY DEF IInv, IssueOK
  <1>2. /\ n \in 0..Len(log) /\ Len(log) \in Nat /\ syncedAt[i] \in Nat
        /\ \A k \in 0..Len(log) : Turn(jira[i], k) \in Nat
        /\ \A j, k \in 0..Len(log) : j < k => Turn(jira[i], j) < Turn(jira[i], k)
        /\ \A k \in 0..Len(log) : Turn(jira[i], k) <= syncedAt[i] <=> k <= n
    BY Turns
  <1>3. CASE done = Null
    BY <1>2, <1>3 DEF EndOf, End
  <1>4. CASE done # Null
    <2>1. done \in Nat /\ n > 0
      BY <1>1, <1>4 DEF RowOK, Rows
    <2> DEFINE known == {c.at : c \in {e \in ToSet(log) : e.at <= syncedAt[i]}}
               times == {done} \cup known
    <2>2. /\ DOMAIN log = 1..Len(log)
          /\ \A k \in 1..Len(log) : k \in 0..Len(log) /\ log[k].at = Turn(jira[i], k)
      <3>1. DOMAIN log = 1..Len(log)
        BY <1>1, LogIsSequence
      <3>2. ASSUME NEW k \in 1..Len(log) PROVE k \in 0..Len(log) /\ log[k].at = Turn(jira[i], k)
        <4>1. k # 0 /\ k \in 0..Len(log)
          BY <1>2
        <4>2. QED
          BY <4>1 DEF Turn
      <3>3. QED
        BY <3>1, <3>2
    <2>3. \A x \in known : x \in Nat /\ x <= last
      <3>1. ASSUME NEW k \in 1..Len(log), log[k].at <= syncedAt[i]
            PROVE  log[k].at \in Nat /\ log[k].at <= last
        <4>1. k <= n /\ (k = n \/ k < n)
          BY <1>2, <2>2, <3>1
        <4>2. QED
          BY <1>2, <2>2, <4>1
      <3>2. QED
        BY <2>2, <3>1 DEF ToSet
    <2>4. last \in known
      <3>1. n \in 1..Len(log)
        BY <1>2, <2>1
      <3>2. log[n] \in ToSet(log) /\ log[n].at = last /\ last <= syncedAt[i]
        BY <1>2, <2>2, <3>1 DEF ToSet
      <3>3. QED
        BY <3>2
    <2>5. last \in Nat
      BY <2>3, <2>4
    <2>6. EndOf(i) = Max(times)
      BY <1>4 DEF EndOf
    <2> HIDE DEF known, last, done
    <2>7. times \in SUBSET Int /\ Upper(done, last) \in times /\ \A y \in times : y <= Upper(done, last)
      BY <2>1, <2>3, <2>4, <2>5 DEF Upper
    <2> HIDE DEF times
    <2>8. Max(times) = Upper(done, last)
      BY <2>7, IsMax
    <2>9. Upper(done, last) \in Nat
      BY <2>1, <2>5 DEF Upper
    <2>10. QED
      BY <1>4, <2>6, <2>8, <2>9 DEF End, done, last
  <1>5. QED
    BY <1>3, <1>4

(* From one move to the next an issue is in the status of the first. *)
LEMMA StatusAtTurn ==
  ASSUME IInv, NEW i \in Issues, row[i] # Null, NEW t \in Nat, NEW k \in 0..Len(jira[i].log),
         Turn(jira[i], k) <= t, k < Len(jira[i].log) => t < Turn(jira[i], k + 1)
  PROVE  StatusAt(i, t) = StatusAfter(jira[i].log, k)
  <1> DEFINE log == jira[i].log
             past == {j \in DOMAIN log : log[j].at <= t}
  <1>1. HistoryOK(i)
    BY DEF IInv, IssueOK
  <1>2. /\ Len(log) \in Nat
        /\ \A j \in 0..Len(log) : Turn(jira[i], j) \in Nat
        /\ \A j, l \in 0..Len(log) : j < l => Turn(jira[i], j) < Turn(jira[i], l)
    BY Turns
  <1>3. log \in Seq(Transitions) /\ DOMAIN log = 1..Len(log)
    BY <1>1, LogIsSequence
  <1>4. \A j \in 1..Len(log) : log[j].at <= t <=> j <= k
    <2>1. ASSUME NEW j \in 1..Len(log) PROVE log[j].at <= t <=> j <= k
      <3>1. j # 0 /\ j \in 0..Len(log) /\ log[j].at = Turn(jira[i], j)
        BY <1>2 DEF Turn
      <3>2. CASE j <= k
        <4>1. j = k \/ j < k
          BY <1>2, <3>2
        <4>2. QED
          BY <1>2, <3>1, <3>2, <4>1
      <3>3. CASE ~(j <= k)
        <4>1. /\ k < Len(log) /\ k + 1 \in 0..Len(log) /\ (j = k + 1 \/ k + 1 < j)
          BY <1>2, <3>3
        <4>2. Turn(jira[i], k + 1) <= Turn(jira[i], j)
          BY <1>2, <3>1, <4>1
        <4>3. t < Turn(jira[i], j)
          BY <1>2, <3>1, <4>1, <4>2
        <4>4. QED
          BY <1>2, <3>1, <3>3, <4>3
      <3>4. QED
        BY <3>2, <3>3
    <2>2. QED
      BY <2>1
  <1>5. past = {j \in 1..Len(log) : j <= k}
    BY <1>3, <1>4
  <1>6. CASE k = 0
    <2>1. past = {}
      BY <1>2, <1>5, <1>6
    <2>2. CASE log = <<>>
      <3>1. jira[i].status = StatusAfter(log, k)
        BY <1>1, <1>6, <2>2 DEF HistoryOK
      <3>2. QED
        BY <2>1, <2>2, <3>1 DEF StatusAt
    <2>3. CASE log # <<>>
      <3>1. 1 \in 1..Len(log) /\ 1 - 1 = 0 /\ Head(log) = log[1]
        BY <1>2, <1>3, <2>3
      <3>2. Head(log).from_status_id = StatusAfter(log, 0)
        BY <1>1, <3>1 DEF HistoryOK
      <3>3. QED
        BY <1>6, <2>1, <2>3, <3>2 DEF StatusAt
    <2>4. QED
      BY <2>2, <2>3
  <1>7. CASE k # 0
    <2>1. k \in past /\ past \in SUBSET Int /\ \A y \in past : y <= k
      BY <1>2, <1>5, <1>7
    <2> HIDE DEF past
    <2>2. Max(past) = k /\ past # {}
      BY <2>1, IsMax
    <2>3. StatusAt(i, t) = log[Max(past)].to_status_id
      BY <2>2 DEF StatusAt, past
    <2>4. QED
      BY <1>7, <2>2, <2>3 DEF StatusAfter
  <1>8. QED
    BY <1>6, <1>7

(* The last change of an issue in Jira is not ahead of the clock, none of   *)
(* its moves is later, and a row ingested since then has its time.          *)
EditOK(i) ==
  /\ jira[i].updated \in 0..now
  /\ \A k \in 1..Len(jira[i].log) : jira[i].log[k].at <= jira[i].updated
  /\ row[i] # Null /\ jira[i].updated <= syncedAt[i] => row[i].updated_at = jira[i].updated

EditInv == \A i \in Issues : EditOK(i)

LEMMA InitEdit == Init => EditInv
  <1> SUFFICES ASSUME Init, NEW i \in Issues PROVE EditOK(i)
    BY DEF EditInv
  <1>1. jira[i].updated = 0 /\ jira[i].log = <<>> /\ row[i] = Null /\ now = 0
    BY DEF Init
  <1>2. 1..Len(jira[i].log) = {}
    BY <1>1
  <1>3. QED
    BY <1>1, <1>2 DEF EditOK

LEMMA LiveEdit ==
  ASSUME IInv, EditInv, Live
  PROVE  EditInv'
  <1> SUFFICES ASSUME NEW i \in Issues PROVE EditOK(i)'
    BY DEF EditInv
  <1> DEFINE log == jira[i].log
             n == Len(log)
  <1>1. HistoryOK(i) /\ EditOK(i) /\ HistoryOK(i)'
    BY HistoryGrows DEF IInv, IssueOK, EditInv
  <1>2. now' = now + 1 /\ now \in Nat
    BY LiveGlobals
  <1>3. /\ row' = row /\ syncedAt' = syncedAt /\ syncedAt[i] \in 0..now
    BY DEF Live, stored, IInv, GlobalOK
  <1>4. CASE jira'[i] = jira[i]
    BY <1>1, <1>2, <1>3, <1>4 DEF EditOK
  <1>5. CASE jira'[i].updated = now'
    <2>1. \A k \in 1..Len(jira'[i].log) : jira'[i].log[k].at <= now'
      BY <1>1 DEF HistoryOK
    <2>2. ~(jira'[i].updated <= syncedAt'[i]) /\ jira'[i].updated \in 0..now'
      BY <1>2, <1>3, <1>5
    <2>3. QED
      BY <1>5, <2>1, <2>2 DEF EditOK
  <1>6. jira'[i] # jira[i] => jira'[i].updated = now'
    <2>1. Grows(i)
      BY LiveGrows
    <2>2. jira[i] \in JiraIssues
      BY <1>1 DEF HistoryOK
    <2>3. CASE jira[i].created = Null /\ jira'[i] = [jira[i] EXCEPT !.created = now', !.updated = now']
      BY <2>2, <2>3 DEF JiraIssues
    <2>4. CASE jira'[i] = [jira[i] EXCEPT !.updated = now']
      BY <2>2, <2>4 DEF JiraIssues
    <2>5. ASSUME NEW s \in StatusIds, NEW r \in Nat \cup {Null},
                 jira'[i] = [jira[i] EXCEPT !.updated = now', !.status = s, !.resolution = r,
                               !.log = Append(@, Change(i, s))]
          PROVE  jira'[i].updated = now'
      BY <2>2, <2>5 DEF JiraIssues
    <2>6. QED
      BY <2>1, <2>3, <2>4, <2>5 DEF Grows, Change
  <1>7. QED
    BY <1>4, <1>5, <1>6

LEMMA IngestEdit ==
  ASSUME IInv, EditInv, NEW i \in Issues, Ingest(i)
  PROVE  EditInv'
  <1> SUFFICES ASSUME NEW j \in Issues PROVE EditOK(j)'
    BY DEF EditInv
  <1>1. PICK payload \in Payloads(jira[i].log) :
          row' = [row EXCEPT ![i] = UpsertIssue(i, AsStored(payload))]
    BY DEF Ingest
  <1>2. /\ jira[i].created # Null /\ UNCHANGED <<now, jira>>
        /\ syncedAt' = [syncedAt EXCEPT ![i] = now]
    BY DEF Ingest
  <1>3. GlobalOK /\ EditOK(j)
    BY DEF IInv, EditInv
  <1>4. CASE j = i
    <2>1. row'[i] = UpsertIssue(i, AsStored(payload))
      BY <1>1, <1>3 DEF GlobalOK
    <2>2. row'[i].updated_at = jira[i].updated
      BY <1>2, <2>1, IngestedRow
    <2>3. QED
      BY <1>2, <1>3, <1>4, <2>2 DEF EditOK
  <1>5. CASE j # i
    <2>1. row'[j] = row[j] /\ syncedAt'[j] = syncedAt[j]
      BY <1>1, <1>2, <1>3, <1>5 DEF GlobalOK
    <2>2. QED
      BY <1>2, <1>3, <2>1 DEF EditOK
  <1>6. QED
    BY <1>4, <1>5

LEMMA EditIsInductive ==
  ASSUME IInv, EditInv, [Next]_vars
  PROVE  EditInv'
  <1>1. CASE Live
    BY <1>1, LiveEdit
  <1>2. CASE Deploy \/ UNCHANGED vars
    <2>1. jira' = jira /\ now' = now /\ row' = row /\ syncedAt' = syncedAt
      BY <1>2 DEF Deploy, vars, stored
    <2>2. QED
      BY <2>1 DEF EditInv, EditOK
  <1>3. ASSUME NEW i \in Issues, Ingest(i) PROVE EditInv'
    BY <1>3, IngestEdit
  <1>4. CASE BackfillStatusIds
    <2> SUFFICES ASSUME NEW i \in Issues PROVE EditOK(i)'
      BY DEF EditInv
    <2>1. jira' = jira /\ now' = now /\ syncedAt' = syncedAt /\ EditOK(i) /\ IssueOK(i)
      BY <1>4 DEF BackfillStatusIds, EditInv, IInv
    <2>2. row[i] = Null => row'[i] = Null
      BY <1>4 DEF BackfillStatusIds
    <2>3. row[i] # Null => row'[i].updated_at = row[i].updated_at
      <3>1. row[i] # Null => row[i] \in Rows
        BY <2>1 DEF IssueOK, RowOK
      <3>2. QED
        BY <1>4, <3>1 DEF BackfillStatusIds, Rows
    <2>4. QED
      BY <2>1, <2>2, <2>3 DEF EditOK
  <1>5. QED
    BY <1>1, <1>2, <1>3, <1>4 DEF Next

LEMMA EditInvariant == Spec => [](IInv /\ EditInv)
  <1>1. Init => IInv /\ EditInv
    BY InitInv, InitEdit
  <1>2. IInv /\ EditInv /\ [Next]_vars => (IInv /\ EditInv)'
    BY NextInv, EditIsInductive
  <1>3. QED
    BY <1>1, <1>2, PTL DEF Spec

(* The state of every tenant's flow data is well formed at every moment:    *)
(* no negative duration is ever stored, and no slice without a status.      *)
THEOREM TypeCorrect == Spec => []TypeOK
  <1>1. IInv /\ EditInv => TypeOK
    <2> SUFFICES ASSUME IInv, EditInv PROVE TypeOK
      OBVIOUS
    <2>1. GlobalOK /\ MaxTime \in Nat /\ now \in Nat
      BY FlowReportsAssumption DEF IInv, GlobalOK
    <2>2. syncedAt \in [Issues -> 0..MaxTime] /\ now \in 0..MaxTime
      BY <2>1 DEF GlobalOK
    <2>3. ASSUME NEW i \in Issues
          PROVE  /\ jira[i].created \in Nat \cup {Null} /\ jira[i].updated \in 0..MaxTime
                 /\ jira[i].status \in StatusIds
                 /\ jira[i].resolution \in Nat \cup {Null}
                 /\ ToSet(jira[i].log) \subseteq Transitions
      <3>1. HistoryOK(i)
        BY DEF IInv, IssueOK
      <3>2. jira[i] \in JiraIssues
        BY <3>1 DEF HistoryOK
      <3>3. ToSet(jira[i].log) \subseteq Transitions
        BY <3>1, LogIsSequence DEF ToSet
      <3>4. jira[i].updated \in 0..MaxTime
        BY <2>1, <2>2 DEF EditInv, EditOK
      <3>5. QED
        BY <3>2, <3>3, <3>4 DEF JiraIssues
    <2>4. ASSUME NEW i \in Issues PROVE row[i] \in Rows \cup {Null}
      BY DEF IInv, IssueOK, RowOK
    <2>5. ASSUME NEW i \in Issues PROVE ToSet(slices[i]) \subseteq Slices
      <3> DEFINE s == slices[i]
                 n == Len(row[i].transitions)
                 log == jira[i].log
      <3>1. CASE row[i] = Null
        <4>1. s = <<>>
          BY <3>1 DEF IInv, IssueOK
        <4>2. QED
          BY <4>1 DEF ToSet
      <3>2. CASE row[i] # Null
        <4>1. HistoryOK(i) /\ SlicesOK(i)
          BY <3>2 DEF IInv, IssueOK
        <4>2. n \in 0..Len(log) /\ Len(log) \in Nat
          BY <3>2, Turns
        <4>3. /\ s \in Seq(Stay) /\ Len(s) = n + 1 /\ Timed(s, schedule)
              /\ \A k \in 1..Len(s) : s[k].start_at <= s[k].end_at
              /\ \A k \in 1..(n + 1) :
                   /\ s[k].status \in ToSet(NamesOf[StatusAfter(log, k - 1)])
          BY <4>1 DEF SlicesOK, Chain
        <4>4. ASSUME NEW k \in 1..(n + 1) PROVE s[k] \in Slices
          <5>1. s[k] \in Stay
            BY <4>3
          <5>2. k - 1 \in 0..Len(log)
            BY <4>2
          <5>3. s[k].status \in Names
            BY <2>1, <4>1, <4>3, <5>2, StatusAfterIsStatus, NamesOfStatus
          <5>4. s[k].start_at \in Nat /\ s[k].end_at \in Nat /\ s[k].start_at <= s[k].end_at
            BY <4>3, <5>1 DEF Stay
          <5>5. schedule \in Schedules \cup {NoSchedule}
            BY <2>1, FlowReportsAssumption DEF GlobalOK
          <5>6. WorkingSecondsBetween(s[k].start_at, s[k].end_at, schedule) \in Nat
            BY <5>4, <5>5, WorkingTimeIsCounted
          <5>7. s[k].duration_seconds \in Nat
            BY <4>3, <5>6 DEF Timed
          <5> HIDE DEF s
          <5>8. QED
            BY <5>1, <5>3, <5>7 DEF Stay, Slices
        <4>5. DOMAIN s = 1..(n + 1)
          BY <4>3
        <4>6. QED
          BY <4>4, <4>5 DEF ToSet
      <3>3. QED
        BY <3>1, <3>2
    <2>6. QED
      BY <2>1, <2>2, <2>3, <2>4, <2>5 DEF TypeOK, GlobalOK
  <1>2. QED
    BY <1>1, EditInvariant, PTL

(* An issue has one slice per stay in a status, without gaps or overlaps    *)
(* from its creation to its end, and only the last one can be open.         *)
THEOREM SlicesArePartitions == Spec => []SlicesPartition
  <1>1. IInv => SlicesPartition
    <2> SUFFICES ASSUME IInv, NEW i \in Issues, row[i] # Null
                 PROVE  LET s == slices[i]
                            n == Len(row[i].transitions) + 1
                        IN /\ Len(s) = n
                           /\ s[1].start_at = row[i].created_at /\ s[n].end_at = EndOf(i)
                           /\ \A k \in 1..n :
                                /\ s[k].start_at <= s[k].end_at
                                /\ k < n => s[k].end_at = s[k + 1].start_at
                                /\ s[k].is_open <=> k = n /\ row[i].done_at = Null
      BY DEF SlicesPartition, Ingested
    <2> DEFINE s == slices[i]
               m == Len(row[i].transitions)
    <2>1. SlicesOK(i) /\ RowOK(i)
      BY DEF IInv, IssueOK
    <2>2. m \in Nat
      BY Turns
    <2>3. /\ Len(s) = m + 1 /\ Chain(s, jira[i].created, End(i))
          /\ \A k \in 1..(m + 1) : s[k].is_open <=> k = m + 1 /\ row[i].done_at = Null
      BY <2>1 DEF SlicesOK
    <2>4. /\ \A k \in 1..(m + 1) : s[k].start_at <= s[k].end_at
          /\ \A k \in 1..m : s[k].end_at = s[k + 1].start_at
          /\ s[1].start_at = jira[i].created /\ s[m + 1].end_at = End(i)
      <3>1. (m + 1) - 1 = m /\ m + 1 # 0
        BY <2>2
      <3>2. QED
        BY <2>3, <3>1 DEF Chain
    <2>5. row[i].created_at = jira[i].created /\ EndOf(i) = End(i)
      BY <2>1, EndOfIssue DEF RowOK
    <2>6. \A k \in 1..(m + 1) : k < m + 1 => k \in 1..m
      BY <2>2
    <2>7. QED
      BY <2>3, <2>4, <2>5, <2>6
  <1>2. QED
    BY <1>1, IInvariant, PTL

(* A slice covers an instant only if the issue was in the slice's status at *)
(* that instant, whatever the order of the payload, the deployment of the   *)
(* ids, their backfill and the renamings.                                    *)
THEOREM SlicesAreHistory == Spec => []SlicesTellHistory
  <1>1. IInv => SlicesTellHistory
    <2> SUFFICES ASSUME IInv, NEW i \in Issues, row[i] # Null,
                        NEW t \in row[i].created_at..(syncedAt[i] - 1),
                        NEW k \in DOMAIN slices[i],
                        slices[i][k].start_at <= t, t < slices[i][k].end_at
                 PROVE  /\ Owner(slices[i][k].status) = StatusAt(i, t)
                        /\ slices[i][k].status_id \in {Null, StatusAt(i, t)}
      BY DEF SlicesTellHistory, Ingested
    <2> DEFINE s == slices[i]
               n == Len(row[i].transitions)
               log == jira[i].log
    <2>1. SlicesOK(i) /\ RowOK(i) /\ HistoryOK(i)
      BY DEF IInv, IssueOK
    <2>2. /\ n \in 0..Len(log) /\ Len(log) \in Nat /\ syncedAt[i] \in Nat
          /\ \A j \in 0..Len(log) : Turn(jira[i], j) \in Nat
          /\ \A j \in 0..Len(log) : Turn(jira[i], j) <= syncedAt[i] <=> j <= n
      BY Turns
    <2>3. row[i].created_at \in Nat
      BY <2>1 DEF RowOK, Rows
    <2>4. t \in Nat /\ t < syncedAt[i]
      BY <2>2, <2>3
    <2>5. s \in Seq(Stay) /\ Len(s) = n + 1
      BY <2>1 DEF SlicesOK, Chain
    <2>6. k \in 1..(n + 1) /\ k - 1 \in 0..n /\ k - 1 \in 0..Len(log) /\ (k - 1) + 1 = k
      <3>1. DOMAIN s = 1..(n + 1)
        BY <2>5
      <3>2. k \in 1..(n + 1)
        BY <3>1
      <3> HIDE DEF s, n, log
      <3>3. QED
        BY <2>2, <3>2
    <2>7. /\ s[k].start_at = Turn(jira[i], k - 1)
          /\ s[k].end_at = IF k <= n THEN Turn(jira[i], k) ELSE End(i)
          /\ s[k].status \in ToSet(NamesOf[StatusAfter(log, k - 1)])
          /\ s[k].status_id \in {Null, StatusAfter(log, k - 1)}
      BY <2>1, <2>6 DEF SlicesOK
    <2>8. k - 1 < Len(log) => t < Turn(jira[i], k)
      <3>1. CASE k <= n
        BY <2>7, <3>1
      <3>2. CASE k = n + 1 /\ k \in 0..Len(log)
        <4>1. ~(k <= n)
          BY <2>2, <3>2
        <4>2. QED
          BY <2>2, <2>4, <3>2, <4>1
      <3>3. k <= n \/ (k = n + 1 /\ (k - 1 < Len(log) => k \in 0..Len(log)))
        BY <2>2, <2>6
      <3>4. QED
        BY <3>1, <3>2, <3>3
    <2>9. StatusAt(i, t) = StatusAfter(log, k - 1)
      BY <2>4, <2>6, <2>7, <2>8, StatusAtTurn
    <2>10. Owner(s[k].status) = StatusAfter(log, k - 1)
      BY <2>1, <2>6, <2>7, StatusAfterIsStatus, OwnerOfName
    <2>11. QED
      BY <2>7, <2>9, <2>10
  <1>2. QED
    BY <1>1, IInvariant, PTL

(* The durations of an issue's slices tell the time worked from its         *)
(* creation to its end, whatever the schedule: none counted twice, at most  *)
(* a second lost at each cut.  And the active and the waiting time of its   *)
(* metrics row make up its cycle, unless it went on after its resolution.   *)
THEOREM DurationsAddUp == Spec => []DurationsAdd
  <1>1. IInv => DurationsAdd
    <2> DEFINE total(i) == MapThenSumSet(LAMBDA k : slices[i][k].duration_seconds,
                                         DOMAIN slices[i])
    <2> SUFFICES ASSUME IInv, NEW i \in Issues, row[i] # Null
                 PROVE  /\ Tells(total(i), Len(slices[i]),
                                 Worked(row[i].created_at, EndOf(i), schedule))
                        /\ WorkingSecondsBetween(row[i].created_at, EndOf(i), schedule) - total(i)
                             \in 0..(Len(slices[i]) - 1)
                        /\ \/ row[i].done_at # Null /\ row[i].done_at < EndOf(i)
                           \/ metrics[i].active_seconds + metrics[i].wait_seconds
                              = metrics[i].cycle_seconds
      BY DEF DurationsAdd, Ingested
    <2>1. RowOK(i) /\ SlicesOK(i) /\ MetricsOK(i) /\ GlobalOK /\ HistoryOK(i)
      BY DEF IInv, IssueOK
    <2>2. EndOf(i) = End(i) /\ End(i) \in Nat
      BY EndOfIssue
    <2>3. row[i].created_at = jira[i].created /\ jira[i].created \in Nat
      BY <2>1 DEF RowOK, Rows
    <2>4. schedule \in Schedules \cup {NoSchedule} /\ WorkSchedule(schedule)
      BY <2>1, FlowReportsAssumption DEF GlobalOK, WorkSchedule
    <2>5. Chain(slices[i], jira[i].created, End(i)) /\ Timed(slices[i], schedule)
      BY <2>1 DEF SlicesOK
    <2>6. DOMAIN slices[i] = 1..Len(slices[i])
      BY <2>5 DEF Chain
    <2>7. total(i) = TimeOf(slices[i], 1..Len(slices[i]))
      BY <2>6 DEF TimeOf
    <2> HIDE DEF total
    <2>8. Len(slices[i]) > 0
      <3>1. Len(slices[i]) = Len(row[i].transitions) + 1
        BY <2>1 DEF SlicesOK
      <3>2. Len(row[i].transitions) \in 0..Len(jira[i].log)
        BY Turns
      <3>3. QED
        BY <3>1, <3>2
    <2>9. /\ Tells(total(i), Len(slices[i]), Worked(jira[i].created, End(i), schedule))
          /\ WorkingSecondsBetween(jira[i].created, End(i), schedule) - total(i)
               \in 0..(Len(slices[i]) - 1)
          /\ jira[i].created <= End(i)
      BY <2>2, <2>3, <2>4, <2>5, <2>7, <2>8, SliceTimesAdd
    <2>10. \/ row[i].done_at # Null /\ row[i].done_at < End(i)
           \/ metrics[i].active_seconds + metrics[i].wait_seconds = metrics[i].cycle_seconds
      <3> DEFINE done == row[i].done_at
                 n == Len(row[i].transitions)
                 m == metrics[i]
      <3>1. done \in Nat \cup {Null} /\ syncedAt[i] \in Nat /\ Turn(jira[i], n) \in Nat
        <4>1. n \in 0..Len(jira[i].log)
          BY Turns
        <4>2. QED
          BY <2>1, <4>1, Turns DEF RowOK, Rows
      <3>2. /\ m.cycle_seconds = WholeSeconds((IF done = Null THEN syncedAt[i] ELSE done)
                                              - jira[i].created)
            /\ m.active_seconds \in Nat
            /\ SecondLength * m.active_seconds \in 0..(End(i) - jira[i].created)
            /\ m.wait_seconds = Upper(m.cycle_seconds - m.active_seconds, 0)
        BY <2>1 DEF MetricsOK
      <3>3. End(i) = IF done = Null THEN syncedAt[i] ELSE Upper(done, Turn(jira[i], n))
        BY DEF End
      <3> HIDE DEF done, n, m
      <3>4. CASE done # Null /\ done < End(i)
        BY <3>4 DEF done
      <3>5. CASE ~(done # Null /\ done < End(i))
        <4> DEFINE life == End(i) - jira[i].created
                   active == m.active_seconds
        <4>1. m.cycle_seconds = WholeSeconds(life) /\ life \in Nat
          <5>1. (IF done = Null THEN syncedAt[i] ELSE done) = End(i)
            BY <2>2, <3>1, <3>3, <3>5 DEF Upper
          <5>2. QED
            BY <2>2, <2>3, <2>9, <3>2, <5>1
        <4>2. m.cycle_seconds - m.active_seconds >= 0 /\ m.active_seconds \in Int
              /\ m.cycle_seconds \in Int
          <5>1. active \in Nat /\ SecondLength * active \in 0..life
            BY <3>2
          <5> HIDE DEF life, active
          <5>2. WholeSeconds(life) \in Nat /\ active <= WholeSeconds(life)
            BY <4>1, <5>1, WholeSecondsAtLeast
          <5>3. QED
            BY <4>1, <5>1, <5>2 DEF active
        <4>3. m.wait_seconds = m.cycle_seconds - m.active_seconds
          BY <3>2, <4>2 DEF Upper
        <4>4. m.active_seconds + m.wait_seconds = m.cycle_seconds
          BY <4>2, <4>3
        <4>5. QED
          BY <4>4 DEF m
      <3>6. QED
        BY <3>4, <3>5
    <2>11. QED
      BY <2>2, <2>3, <2>9, <2>10
  <1>2. QED
    BY <1>1, IInvariant, PTL

(* The last move of an up-to-date issue. *)
LEMMA LastMoveOfUpToDate ==
  ASSUME IInv, NEW i \in Issues, row[i] # Null, UpToDate(i)
  PROVE  LET n == Len(jira[i].log)
         IN /\ Len(row[i].transitions) = n /\ LastMove(i) = Turn(jira[i], n)
            /\ LastMove(i) \in Nat
  <1> DEFINE log == jira[i].log
             n == Len(log)
  <1>1. HistoryOK(i)
    BY DEF IInv, IssueOK
  <1>2. log \in Seq(Transitions) /\ n \in Nat
    BY <1>1, LogIsSequence
  <1>3. \A k \in 0..n : Turn(jira[i], k) \in Nat
    BY Turns
  <1>4. n \in 0..n
    BY <1>2
  <1>5. LastMove(i) = Turn(jira[i], n)
    <2>1. CASE log = <<>>
      BY <2>1 DEF LastMove, Turn
    <2>2. CASE log # <<>>
      <3>1. n # 0
        BY <1>2, <2>2
      <3>2. QED
        BY <2>2, <3>1 DEF LastMove, Turn, Last
    <2>3. QED
      BY <2>1, <2>2
  <1>6. QED
    BY <1>3, <1>4, <1>5 DEF UpToDate

(* Of the times of some stored transitions, the latest is the last one's. *)
LEMMA LatestTransition ==
  ASSUME IInv, NEW i \in Issues, row[i] # Null,
         NEW times, times \subseteq {t.at : t \in ToSet(row[i].transitions)} \cup {jira[i].created},
         Turn(jira[i], Len(row[i].transitions)) \in times
  PROVE  Max(times) = Turn(jira[i], Len(row[i].transitions))
  <1> DEFINE n == Len(row[i].transitions)
  <1>1. RowOK(i)
    BY DEF IInv, IssueOK
  <1>2. /\ n \in 0..Len(jira[i].log) /\ Len(jira[i].log) \in Nat
        /\ \A k \in 0..Len(jira[i].log) : Turn(jira[i], k) \in Nat
        /\ \A j, k \in 0..Len(jira[i].log) : j < k => Turn(jira[i], j) < Turn(jira[i], k)
    BY Turns
  <1>3. ASSUME NEW k \in 0..n
        PROVE  Turn(jira[i], k) \in Nat /\ Turn(jira[i], k) <= Turn(jira[i], n)
    <2>1. k \in 0..Len(jira[i].log) /\ (k = n \/ k < n)
      BY <1>2
    <2>2. QED
      BY <1>2, <2>1
  <1>4. ASSUME NEW t \in ToSet(row[i].transitions) PROVE \E k \in 0..n : t.at = Turn(jira[i], k)
    <2>1. row[i].transitions \in Seq(Transitions)
      BY <1>1 DEF RowOK, Rows
    <2>2. PICK k \in 1..n : t = row[i].transitions[k]
      BY <2>1 DEF ToSet
    <2>3. t.at = jira[i].log[k].at
      BY <1>1, <2>2 DEF RowOK
    <2>4. k # 0 /\ k \in 0..n
      BY <1>2
    <2>5. QED
      BY <2>3, <2>4 DEF Turn
  <1>5. jira[i].created = Turn(jira[i], 0) /\ 0 \in 0..n
    BY <1>2 DEF Turn
  <1>6. \A x \in times : \E k \in 0..n : x = Turn(jira[i], k)
    BY <1>4, <1>5
  <1>7. \A x \in times : x \in Int /\ x <= Turn(jira[i], n)
    BY <1>3, <1>6
  <1> HIDE DEF n
  <1>8. times \in SUBSET Int
    BY <1>7
  <1>9. QED
    BY <1>7, <1>8, IsMax DEF n

(* compute_wip_aging: an issue in flight that is up to date and whose       *)
(* status has kept its name ages from its last move, to the second at       *)
(* either end.                                                              *)
THEOREM AgesFromEntry == Spec => []AgeSinceEntry
  <1>1. IInv => AgeSinceEntry
    <2> SUFFICES ASSUME IInv, NEW i \in InFlight, UpToDate(i),
                        \A t \in ToSet(jira[i].log) : t.to_status_id = jira[i].status =>
                          t.to_status = row[i].current_status
                 PROVE  Tells(TimeInStatus(row[i], now, schedule), 1,
                              Worked(LastMove(i), now, schedule))
      BY DEF AgeSinceEntry
    <2> DEFINE log == jira[i].log
               n == Len(log)
               known == row[i].transitions
               entries == {t.at : t \in {u \in ToSet(known) :
                                           u.to_status = row[i].current_status}}
               times == entries \cup {row[i].created_at}
    <2>1. i \in Issues /\ row[i] # Null
      BY DEF InFlight, Ingested
    <2>2. HistoryOK(i) /\ RowOK(i) /\ GlobalOK
      BY <2>1 DEF IInv, IssueOK
    <2>3. Len(known) = n /\ LastMove(i) = Turn(jira[i], n) /\ LastMove(i) \in Nat
      BY <2>1, LastMoveOfUpToDate
    <2>4. row[i].created_at = jira[i].created
      BY <2>2 DEF RowOK
    <2>5. times \subseteq {t.at : t \in ToSet(known)} \cup {jira[i].created}
      BY <2>4
    <2>6. Turn(jira[i], n) \in times
      <3>1. CASE n = 0
        BY <2>4, <3>1 DEF Turn
      <3>2. CASE n # 0
        <4>1. /\ n \in 1..n /\ log \in Seq(Transitions) /\ known \in Seq(Transitions)
          BY <2>1, <2>2, <3>2, LogIsSequence DEF RowOK, Rows
        <4>2. log[n] \in ToSet(log) /\ known[n] \in ToSet(known)
          BY <2>3, <4>1 DEF ToSet
        <4>3. log[n].to_status_id = jira[i].status
          BY <2>2, <3>2 DEF HistoryOK, StatusAfter
        <4>4. log[n].to_status = row[i].current_status
          BY <4>2, <4>3
        <4>5. known[n].at = log[n].at /\ known[n].to_status = log[n].to_status
          BY <2>2, <2>3, <4>1 DEF RowOK
        <4>6. known[n].at \in entries
          BY <4>2, <4>4, <4>5
        <4>7. QED
          BY <3>2, <4>5, <4>6 DEF Turn
      <3>3. QED
        BY <3>1, <3>2
    <2>7. TimeInStatus(row[i], now, schedule) = WorkingSecondsBetween(Max(times), now, schedule)
      BY DEF TimeInStatus
    <2> HIDE DEF times
    <2>8. Max(times) = LastMove(i)
      BY <2>1, <2>3, <2>5, <2>6, LatestTransition
    <2>9. schedule \in Schedules \cup {NoSchedule} /\ now \in Nat
      BY <2>2, FlowReportsAssumption DEF GlobalOK
    <2>10. QED
      BY <2>3, <2>7, <2>8, <2>9, WorkingTimeIsCounted
  <1>2. QED
    BY <1>1, IInvariant, PTL

(* The stays of an issue are those between its stored moves. *)
StayAt(i, k) ==
  [status |-> StatusAfter(jira[i].log, k), from |-> Turn(jira[i], k),
   to |-> IF k < Len(row[i].transitions) THEN Turn(jira[i], k + 1) ELSE End(i)]

LEMMA StaysOfIssue ==
  ASSUME IInv, NEW i \in Issues, row[i] # Null
  PROVE  Stays(i) = {StayAt(i, k) : k \in 0..Len(row[i].transitions)}
  <1> DEFINE log == jira[i].log
             n == Len(row[i].transitions)
             turns == {jira[i].created}
                      \cup {c.at : c \in {e \in ToSet(log) : e.at <= syncedAt[i]}}
             next(t) == {u \in turns : u > t}
             stay(t) == [status |-> StatusAt(i, t), from |-> t,
                         to |-> IF next(t) = {} THEN EndOf(i) ELSE Min(next(t))]
  <1>1. HistoryOK(i) /\ RowOK(i)
    BY DEF IInv, IssueOK
  <1>2. /\ n \in 0..Len(log) /\ Len(log) \in Nat
        /\ \A k \in 0..Len(log) : Turn(jira[i], k) \in Nat
        /\ \A j, k \in 0..Len(log) : j < k => Turn(jira[i], j) < Turn(jira[i], k)
        /\ \A k \in 0..Len(log) : Turn(jira[i], k) <= syncedAt[i] <=> k <= n
    BY Turns
  <1>3. DOMAIN log = 1..Len(log)
    BY <1>1, LogIsSequence
  <1>4. \A k \in 0..n : k \in 0..Len(log)
    BY <1>2
  <1>5. turns = {Turn(jira[i], k) : k \in 0..n}
    <2>1. ASSUME NEW k \in 0..n PROVE Turn(jira[i], k) \in turns
      <3>1. CASE k = 0
        BY <3>1 DEF Turn
      <3>2. CASE k # 0
        <4>1. k \in 1..Len(log) /\ Turn(jira[i], k) = log[k].at
          BY <1>2, <3>2 DEF Turn
        <4>2. log[k] \in ToSet(log)
          BY <1>3, <4>1 DEF ToSet
        <4>3. log[k].at <= syncedAt[i]
          BY <1>2, <1>4, <4>1
        <4>4. QED
          BY <4>1, <4>2, <4>3
      <3>3. QED
        BY <3>1, <3>2
    <2>2. ASSUME NEW t \in turns PROVE \E k \in 0..n : t = Turn(jira[i], k)
      <3>1. CASE t = jira[i].created
        <4>1. 0 \in 0..n
          BY <1>2
        <4>2. QED
          BY <3>1, <4>1 DEF Turn
      <3>2. CASE t # jira[i].created
        <4>1. PICK k \in 1..Len(log) : t = log[k].at /\ log[k].at <= syncedAt[i]
          BY <1>3, <3>2 DEF ToSet
        <4>2. k # 0 /\ k \in 0..Len(log) /\ t = Turn(jira[i], k)
          BY <1>2, <4>1 DEF Turn
        <4>3. k \in 0..n
          BY <1>2, <4>1, <4>2
        <4>4. QED
          BY <4>2, <4>3
      <3>3. QED
        BY <3>1, <3>2
    <2> HIDE DEF turns
    <2>3. QED
      BY <2>1, <2>2
  <1>6. \A t \in turns : t \in Int
    BY <1>2, <1>4, <1>5
  <1>7. EndOf(i) = End(i)
    BY EndOfIssue
  <1> HIDE DEF turns
  <1>8. ASSUME NEW k \in 0..n PROVE stay(Turn(jira[i], k)) = StayAt(i, k)
    <2> DEFINE t == Turn(jira[i], k)
    <2>1. t \in Nat /\ k \in 0..Len(log)
      BY <1>2, <1>4
    <2>2. CASE k = n
      <3>1. ASSUME NEW j \in 0..n PROVE ~(Turn(jira[i], j) > t)
        <4>1. j \in 0..Len(log) /\ (j = k \/ j < k)
          BY <1>2, <2>2
        <4>2. QED
          BY <1>2, <2>1, <4>1
      <3>2. next(t) = {}
        BY <1>5, <3>1
      <3>3. k < Len(log) => t < Turn(jira[i], k + 1)
        <4>1. k < Len(log) => k + 1 \in 0..Len(log) /\ k < k + 1
          BY <1>2
        <4>2. QED
          BY <1>2, <2>1, <4>1
      <3>4. StatusAt(i, t) = StatusAfter(log, k)
        BY <2>1, <3>3, StatusAtTurn
      <3>5. ~(k < n)
        BY <1>2, <2>2
      <3> HIDE DEF next
      <3>6. QED
        BY <1>7, <3>2, <3>4, <3>5 DEF StayAt
    <2>3. CASE k # n
      <3>1. k < n /\ k + 1 \in 0..n /\ k + 1 \in 0..Len(log) /\ k < k + 1
        BY <1>2, <2>3
      <3> DEFINE u == Turn(jira[i], k + 1)
      <3>2. u \in next(t)
        BY <1>2, <1>5, <2>1, <3>1
      <3>3. \A v \in next(t) : u <= v
        <4>1. ASSUME NEW j \in 0..n, Turn(jira[i], j) > t PROVE u <= Turn(jira[i], j)
          <5>1. j \in 0..Len(log)
            BY <1>4
          <5>2. j = k \/ j < k \/ j = k + 1 \/ k + 1 < j
            BY <1>2, <3>1
          <5>3. ~(j = k) /\ ~(j < k)
            BY <1>2, <2>1, <4>1, <5>1
          <5>4. QED
            BY <1>2, <3>1, <5>1, <5>2, <5>3
        <4>2. QED
          BY <1>5, <4>1
      <3>4. next(t) \in SUBSET Int
        BY <1>6
      <3>5. t < u /\ StatusAt(i, t) = StatusAfter(log, k)
        BY <1>2, <2>1, <3>1, StatusAtTurn
      <3> HIDE DEF next, u
      <3>6. Min(next(t)) = u /\ next(t) # {}
        BY <3>2, <3>3, <3>4, IsMin
      <3>7. QED
        BY <3>1, <3>5, <3>6 DEF StayAt, u
    <2>4. QED
      BY <2>2, <2>3
  <1>9. Stays(i) = {stay(t) : t \in turns}
    BY DEF Stays, turns
  <1> HIDE DEF stay
  <1>10. QED
    BY <1>5, <1>8, <1>9

(* As far as an issue has been ingested, a status_duration rule names the   *)
(* statuses it stayed in for more working seconds than the threshold, and   *)
(* no others; a no_activity rule raises for an issue in flight that was     *)
(* ingested after its last change just when that change, be it a move or an *)
(* edit, is more working seconds ago than the threshold.                    *)
THEOREM AlertsAreHistory == Spec => []AlertsTellHistory
  <1>1. IInv /\ EditInv => AlertsTellHistory
    <2> SUFFICES ASSUME IInv, EditInv, NEW i \in Issues, row[i] # Null
                 PROVE  /\ {Owner(e.status) : e \in StatusDuration(StatusRule, i, slices[i], now)}
                           = {s.status : s \in {stay \in Stays(i) :
                                WorkingSecondsBetween(stay.from, stay.to, schedule)
                                  > AlertThreshold}}
                        /\ i \in InFlight /\ jira[i].updated <= syncedAt[i] =>
                             (NoActivity(IdleRule, i, row[i], now, schedule) # {}
                              <=> WorkingSecondsBetween(jira[i].updated, now, schedule)
                                    > AlertThreshold)
      BY DEF AlertsTellHistory, Ingested
    <2> DEFINE log == jira[i].log
               n == Len(row[i].transitions)
               s == slices[i]
    <2>1. HistoryOK(i) /\ RowOK(i) /\ SlicesOK(i) /\ GlobalOK
      BY DEF IInv, IssueOK
    <2>2. /\ n \in 0..Len(log) /\ Len(log) \in Nat
          /\ \A k \in 0..Len(log) : Turn(jira[i], k) \in Nat
      BY Turns
    <2>3. schedule \in Schedules \cup {NoSchedule} /\ now \in Nat
      BY <2>1, FlowReportsAssumption DEF GlobalOK
    <2>4. AlertThreshold # Unset /\ AlertThreshold > 0 /\ AlertThreshold \in Nat
      BY FlowReportsAssumption
    <2>5. ASSUME NEW elapsed
          PROVE  /\ Above(elapsed, StatusRule) <=> elapsed > AlertThreshold
                 /\ Above(elapsed, IdleRule) <=> elapsed > AlertThreshold
      BY <2>4 DEF Above, StatusRule, IdleRule, Configured
    <2>6. /\ s \in Seq(Stay) /\ Len(s) = n + 1 /\ Timed(s, schedule)
          /\ \A k \in 1..(n + 1) :
               /\ s[k].start_at = Turn(jira[i], k - 1)
               /\ s[k].end_at = IF k <= n THEN Turn(jira[i], k) ELSE End(i)
               /\ s[k].status \in ToSet(NamesOf[StatusAfter(log, k - 1)])
      BY <2>1 DEF SlicesOK, Chain
    <2>7. DOMAIN s = 1..(n + 1) /\ \A k \in 1..(n + 1) : s[k].start_at \in Nat /\ s[k].end_at \in Nat
      <3>1. DOMAIN s = 1..(n + 1) /\ \A k \in 1..(n + 1) : s[k] \in Stay
        BY <2>6
      <3>2. QED
        BY <3>1 DEF Stay
    <2>8. ASSUME NEW k \in 1..(n + 1)
          PROVE  /\ k - 1 \in 0..n
                 /\ Owner(s[k].status) = StayAt(i, k - 1).status
                 /\ s[k].duration_seconds
                    = WorkingSecondsBetween(StayAt(i, k - 1).from, StayAt(i, k - 1).to, schedule)
      <3>1. k - 1 \in 0..n /\ k - 1 \in 0..Len(log) /\ (k - 1) + 1 = k /\ (k - 1 < n <=> k <= n)
        BY <2>2
      <3>2. Owner(s[k].status) = StatusAfter(log, k - 1)
        BY <2>1, <2>6, <3>1, StatusAfterIsStatus, OwnerOfName
      <3>3. s[k].duration_seconds = WorkingSecondsBetween(s[k].start_at, s[k].end_at, schedule)
        BY <2>6 DEF Timed
      <3>4. s[k].start_at = StayAt(i, k - 1).from /\ s[k].end_at = StayAt(i, k - 1).to
        BY <2>6, <3>1 DEF StayAt
      <3>5. QED
        BY <3>1, <3>2, <3>3, <3>4 DEF StayAt
    <2>9. ASSUME NEW k \in 0..n PROVE k + 1 \in 1..(n + 1) /\ (k + 1) - 1 = k
      BY <2>2
    <2>10. Stays(i) = {StayAt(i, k) : k \in 0..n}
      BY StaysOfIssue
    <2>11. {Owner(e.status) : e \in StatusDuration(StatusRule, i, slices[i], now)}
           = {x.status : x \in {stay \in Stays(i) :
                WorkingSecondsBetween(stay.from, stay.to, schedule) > AlertThreshold}}
      <3> DEFINE long(k) == s[k].duration_seconds > AlertThreshold
                 events == StatusDuration(StatusRule, i, s, now)
                 longStays == {stay \in Stays(i) :
                                 WorkingSecondsBetween(stay.from, stay.to, schedule) > AlertThreshold}
      <3>1. events = {Event(StatusRule, i, s[k].status, Day(now)) : k \in {j \in 1..(n + 1) : long(j)}}
        <4>1. StatusRule.status = Unset
          BY DEF StatusRule, Configured
        <4>2. QED
          BY <2>5, <2>7, <4>1 DEF StatusDuration
      <3>2. ASSUME NEW e \in events PROVE \E x \in longStays : x.status = Owner(e.status)
        <4>1. PICK k \in 1..(n + 1) : long(k) /\ e = Event(StatusRule, i, s[k].status, Day(now))
          BY <3>1
        <4>2. e.status = s[k].status
          BY <4>1 DEF Event
        <4>3. StayAt(i, k - 1) \in longStays
          BY <2>8, <2>10, <4>1
        <4>4. QED
          BY <2>8, <4>2, <4>3
      <3>3. ASSUME NEW x \in longStays PROVE \E e \in events : Owner(e.status) = x.status
        <4>1. PICK k \in 0..n : x = StayAt(i, k)
          BY <2>10
        <4>2. k + 1 \in 1..(n + 1) /\ (k + 1) - 1 = k
          BY <2>9
        <4>3. long(k + 1)
          BY <2>8, <4>1, <4>2
        <4> DEFINE e == Event(StatusRule, i, s[k + 1].status, Day(now))
        <4>4. e \in events
          BY <3>1, <4>2, <4>3
        <4>5. e.status = s[k + 1].status
          BY DEF Event
        <4>6. Owner(e.status) = x.status
          BY <2>8, <4>1, <4>2, <4>5
        <4>7. QED
          BY <4>4, <4>6
      <3> HIDE DEF events, longStays
      <3>4. {Owner(e.status) : e \in events} = {x.status : x \in longStays}
        BY <3>2, <3>3
      <3>5. QED
        BY <3>4 DEF events, longStays
    <2>12. ASSUME i \in InFlight, jira[i].updated <= syncedAt[i]
           PROVE  NoActivity(IdleRule, i, row[i], now, schedule) # {}
                  <=> WorkingSecondsBetween(jira[i].updated, now, schedule) > AlertThreshold
      <3> DEFINE times == {row[i].updated_at} \cup {t.at : t \in ToSet(row[i].transitions)}
                 last == jira[i].updated
      <3>1. /\ row[i].updated_at = last /\ row[i].done_at = Null /\ last \in Int
            /\ \A k \in 1..Len(log) : log[k].at <= last /\ log[k].at \in Int
        <4>1. EditOK(i) /\ \A k \in 1..Len(log) : log[k].at \in Nat
          BY <2>1, LogIsSequence DEF EditInv
        <4>2. QED
          BY <2>12, <4>1 DEF EditOK, InFlight
      <3>2. ASSUME NEW t \in ToSet(row[i].transitions) PROVE t.at \in Int /\ t.at <= last
        <4>1. row[i].transitions \in Seq(Transitions)
          BY <2>1 DEF RowOK, Rows
        <4>2. PICK k \in 1..n : t = row[i].transitions[k]
          BY <4>1 DEF ToSet
        <4>3. t.at = log[k].at /\ k \in 1..Len(log)
          BY <2>1, <2>2, <4>2 DEF RowOK
        <4>4. QED
          BY <3>1, <4>3
      <3>3. times \in SUBSET Int /\ last \in times /\ \A x \in times : x <= last
        BY <3>1, <3>2
      <3>4. LastActivity(row[i]) = Max(times)
        BY DEF LastActivity
      <3> HIDE DEF times, last
      <3>5. LastActivity(row[i]) = last
        BY <3>3, <3>4, IsMax
      <3>6. NoActivity(IdleRule, i, row[i], now, schedule) # {}
            <=> Above(WorkingSecondsBetween(last, now, schedule), IdleRule)
        BY <3>1, <3>5 DEF NoActivity
      <3>7. QED
        BY <2>5, <3>6 DEF last
    <2>13. QED
      BY <2>11, <2>12
  <1>2. QED
    BY <1>1, EditInvariant, PTL

-----------------------------------------------------------------------------
(* The groups of status names. *)

(* A finite set of numbers has a greatest one. *)
LEMMA FiniteHasMax ==
  ASSUME NEW S \in SUBSET Nat, IsFiniteSet(S), S # {}
  PROVE  Max(S) \in S /\ \A y \in S : y <= Max(S)
  <1> DEFINE HasMax(t) == t # {} => \E x \in t : \A y \in t : y <= x
             Good == {n \in Nat : \A t \in SUBSET Nat :
                        IsFiniteSet(t) /\ Cardinality(t) = n => HasMax(t)}
  <1>1. 0 \in Good
    BY FS_EmptySet
  <1>2. ASSUME NEW n \in Nat, n \in Good PROVE n + 1 \in Good
    <2>1. ASSUME NEW t \in SUBSET Nat, IsFiniteSet(t), Cardinality(t) = n + 1, t # {}
          PROVE  \E x \in t : \A y \in t : y <= x
      <3>1. PICK z \in t : TRUE
        BY <2>1
      <3>2. IsFiniteSet(t \ {z}) /\ Cardinality(t \ {z}) = n
        <4>1. IsFiniteSet(t \ {z}) /\ Cardinality(t \ {z}) = Cardinality(t) - 1
          BY <2>1, FS_RemoveElement
        <4>2. QED
          BY <2>1, <4>1
      <3>3. HasMax(t \ {z})
        BY <1>2, <3>2
      <3>4. CASE t \ {z} = {}
        BY <3>4
      <3>5. CASE t \ {z} # {}
        <4>1. PICK x \in t \ {z} : \A y \in t \ {z} : y <= x
          BY <3>3, <3>5
        <4>2. x \in Nat /\ z \in Nat
          OBVIOUS
        <4>3. CASE z <= x
          BY <4>1, <4>3
        <4>4. CASE x < z
          <5>1. ASSUME NEW y \in t PROVE y <= z
            BY <4>1, <4>2, <4>4
          <5>2. QED
            BY <5>1
        <4>5. QED
          BY <4>2, <4>3, <4>4
      <3>6. QED
        BY <3>4, <3>5
    <2>2. QED
      BY <2>1
  <1> HIDE DEF Good
  <1>3. \A n \in Nat : n \in Good
    BY <1>1, <1>2, Induction
  <1>4. Cardinality(S) \in Nat
    BY FS_CardinalityType
  <1>5. HasMax(S)
    BY <1>3, <1>4 DEF Good
  <1>6. PICK x \in S : \A y \in S : y <= x
    BY <1>5
  <1>7. Max(S) = x
    BY <1>6, IsMax
  <1>8. QED
    BY <1>6, <1>7

(* Of the members of a finite set one has the greatest value. *)
LEMMA Largest ==
  ASSUME NEW D, NEW N \in SUBSET D, IsFiniteSet(N), N # {}, NEW f \in [D -> Nat]
  PROVE  \E n \in N : \A m \in N : f[m] <= f[n]
  <1> DEFINE I == {f[x] : x \in N}
             r == [x \in N |-> f[x]]
  <1>1. r \in Surjection(N, I)
    BY DEF Surjection
  <1>2. IsFiniteSet(I)
    BY <1>1, FS_Surjection
  <1>3. I \in SUBSET Nat /\ I # {}
    OBVIOUS
  <1>4. Max(I) \in I /\ \A y \in I : y <= Max(I)
    <2> HIDE DEF I
    <2>1. QED
      BY <1>2, <1>3, FiniteHasMax
  <1>5. PICK n \in N : f[n] = Max(I)
    BY <1>4
  <1>6. QED
    BY <1>4, <1>5

(* And by three values, one after the other, one member comes first. *)
ComesFirst(n, m, f, g, h) ==
  \/ f[n] > f[m]
  \/ f[n] = f[m] /\ g[n] > g[m]
  \/ f[n] = f[m] /\ g[n] = g[m] /\ h[n] > h[m]
HasFirst(N, f, g, h) == \E n \in N : \A m \in N \ {n} : ComesFirst(n, m, f, g, h)
Apart(N, h) == \A x, y \in N : h[x] = h[y] => x = y

LEMMA OneIsFirst ==
  ASSUME NEW N, IsFiniteSet(N), N # {},
         NEW f \in [N -> Nat], NEW g \in [N -> Nat], NEW h \in [N -> Nat], Apart(N, h)
  PROVE  HasFirst(N, f, g, h)
  <1> DEFINE A == {x \in N : \A m \in N : f[m] <= f[x]}
             B == {x \in A : \A m \in A : g[m] <= g[x]}
  <1>1. A # {} /\ A \in SUBSET N /\ IsFiniteSet(A)
    <2>1. \E n \in N : \A m \in N : f[m] <= f[n]
      BY Largest
    <2>2. A \in SUBSET N
      OBVIOUS
    <2>3. IsFiniteSet(A)
      BY <2>2, FS_Subset
    <2>4. QED
      BY <2>1, <2>2, <2>3
  <1>2. B # {} /\ B \in SUBSET N /\ IsFiniteSet(B)
    <2>1. \E n \in A : \A m \in A : g[m] <= g[n]
      <3> HIDE DEF A
      <3>1. QED
        BY <1>1, Largest
    <2>2. B \in SUBSET A
      OBVIOUS
    <2>3. IsFiniteSet(B)
      BY <1>1, <2>2, FS_Subset
    <2>4. QED
      BY <1>1, <2>1, <2>2, <2>3
  <1>3. \E x \in B : \A m \in B : h[m] <= h[x]
    <2> HIDE DEF B
    <2>1. QED
      BY <1>2, Largest
  <1>4. PICK n \in B : \A m \in B : h[m] <= h[n]
    BY <1>3
  <1>5. n \in N /\ n \in A /\ n \in B
    OBVIOUS
  <1>6. ASSUME NEW m \in N \ {n}
        PROVE  ComesFirst(n, m, f, g, h)
    <2>1. f[n] \in Nat /\ f[m] \in Nat /\ g[n] \in Nat /\ g[m] \in Nat
          /\ h[n] \in Nat /\ h[m] \in Nat /\ f[m] <= f[n]
      BY <1>5
    <2>2. CASE f[n] > f[m]
      BY <2>2 DEF ComesFirst
    <2>3. CASE f[n] = f[m]
      <3>1. m \in A
        BY <1>5, <2>3
      <3>2. g[m] <= g[n]
        BY <1>5, <3>1
      <3>3. CASE g[n] > g[m]
        BY <2>3, <3>3 DEF ComesFirst
      <3>4. CASE g[n] = g[m]
        <4>1. m \in B
          BY <1>5, <3>1, <3>4
        <4>2. h[m] <= h[n] /\ h[m] # h[n]
          BY <1>4, <1>5, <4>1 DEF Apart
        <4>3. QED
          BY <2>1, <2>3, <3>4, <4>2 DEF ComesFirst
      <3>5. QED
        BY <2>1, <3>2, <3>3, <3>4
    <2>4. QED
      BY <2>1, <2>2, <2>3
  <1>7. QED
    BY <1>5, <1>6 DEF HasFirst

(* Every name has its own place in the alphabet. *)
LEMMA PlaceOfName ==
  ASSUME NEW n \in Names
  PROVE  Place(n) \in 1..Len(Alphabet) /\ Alphabet[Place(n)] = n /\ Len(Alphabet) \in Nat
  <1>1. Alphabet \in Seq(DOMAIN CaseFold) /\ n \in ToSet(Alphabet)
    BY FlowMetricsAssumption, FlowReportsAssumption
  <1>2. \E k \in DOMAIN Alphabet : Alphabet[k] = n
    BY <1>1 DEF ToSet
  <1>3. Place(n) \in DOMAIN Alphabet /\ Alphabet[Place(n)] = n
    BY <1>2 DEF Place
  <1>4. QED
    BY <1>1, <1>3

(* What the groups depend on: a finite number of slices, each with a name   *)
(* of a status, and with its id or none.                                     *)
Attributed(s) ==
  \E id \in StatusIds : s.row.status \in ToSet(NamesOf[id]) /\ s.row.status_id \in {Null, id}

Grouped(known) ==
  /\ IsFiniteSet(known)
  /\ \A s \in known : s.row.status \in Names /\ s.row.end_at \in Nat /\ Attributed(s)

LEMMA OwnerOfSlice ==
  ASSUME NEW s, Attributed(s)
  PROVE  /\ Owner(s.row.status) \in StatusIds
         /\ s.row.status \in ToSet(NamesOf[Owner(s.row.status)])
         /\ s.row.status_id \in {Null, Owner(s.row.status)}
  <1>1. PICK id \in StatusIds : s.row.status \in ToSet(NamesOf[id]) /\ s.row.status_id \in {Null, id}
    BY DEF Attributed
  <1>2. Owner(s.row.status) = id
    BY <1>1, OwnerOfName
  <1>3. QED
    BY <1>1, <1>2

LEMMA GroupedSubset ==
  ASSUME NEW known, Grouped(known), NEW part \in SUBSET known
  PROVE  Grouped(part)
  <1>1. IsFiniteSet(part)
    BY FS_Subset DEF Grouped
  <1>2. QED
    BY <1>1 DEF Grouped

LEMMA NamesFinite ==
  ASSUME NEW known, Grouped(known)
  PROVE  IsFiniteSet(NamesIn(known)) /\ NamesIn(known) \in SUBSET Names
  <1> DEFINE r == [s \in known |-> s.row.status]
  <1>1. r \in Surjection(known, NamesIn(known))
    BY DEF Surjection, NamesIn
  <1>2. IsFiniteSet(NamesIn(known))
    BY <1>1, FS_Surjection DEF Grouped
  <1>3. QED
    BY <1>2 DEF Grouped, NamesIn

(* How many slices have a name, and when the last one ends. *)
LEMMA NamedCount ==
  ASSUME NEW known, Grouped(known), NEW n
  PROVE  Cardinality(Named(known, n)) \in Nat
  <1>1. Named(known, n) \in SUBSET known
    BY DEF Named
  <1>2. IsFiniteSet(Named(known, n))
    BY <1>1, FS_Subset DEF Grouped
  <1>3. QED
    BY <1>2, FS_CardinalityType

LEMMA LatestEnd ==
  ASSUME NEW known, Grouped(known), NEW n \in NamesIn(known)
  PROVE  Max({s.row.end_at : s \in Named(known, n)}) \in Nat
  <1> DEFINE N == Named(known, n)
             E == {s.row.end_at : s \in N}
             r == [s \in N |-> s.row.end_at]
  <1>1. N \in SUBSET known /\ N # {}
    BY DEF Named, NamesIn
  <1>2. IsFiniteSet(N)
    BY <1>1, FS_Subset DEF Grouped
  <1>3. r \in Surjection(N, E)
    BY DEF Surjection
  <1>4. IsFiniteSet(E)
    BY <1>2, <1>3, FS_Surjection
  <1>5. E \in SUBSET Nat /\ E # {}
    BY <1>1 DEF Grouped
  <1>6. Max(E) \in E
    <2> HIDE DEF E
    <2>1. QED
      BY <1>4, <1>5, FiniteHasMax
  <1>7. QED
    BY <1>5, <1>6

(* A group is shown under one of its own names. *)
LEMMA IdGroupShowsItsOwn ==
  ASSUME NEW known, Grouped(known), NEW id, \E s \in known : s.row.status_id = id
  PROVE  IdGroup(known, id).display \in IdGroup(known, id).variants
  <1> DEFINE ofId == {s \in known : s.row.status_id = id}
             N == NamesIn(ofId)
             f == [x \in N |-> Max({s.row.end_at : s \in Named(ofId, x)})]
             g == [x \in N |-> Cardinality(Named(ofId, x))]
             h == [x \in N |-> Place(x)]
  <1>1. Grouped(ofId)
    BY GroupedSubset
  <1>2. N # {}
    BY DEF NamesIn
  <1>3. IsFiniteSet(N) /\ N \in SUBSET Names
    BY <1>1, NamesFinite
  <1>4. f \in [N -> Nat] /\ g \in [N -> Nat]
    <2>1. ASSUME NEW x \in N
          PROVE  Max({s.row.end_at : s \in Named(ofId, x)}) \in Nat
                 /\ Cardinality(Named(ofId, x)) \in Nat
      BY <1>1, LatestEnd, NamedCount
    <2>2. QED
      BY <2>1
  <1>5. h \in [N -> Nat] /\ Apart(N, h)
    <2>1. ASSUME NEW x \in N PROVE Place(x) \in Nat /\ Alphabet[Place(x)] = x
      BY <1>3, PlaceOfName
    <2>2. QED
      BY <2>1 DEF Apart
  <1>6. \E n \in N : \A m \in N \ {n} : Precedes(n, m, ofId)
    <2>1. HasFirst(N, f, g, h)
      <3> HIDE DEF N, f, g, h
      <3>1. QED
        BY <1>2, <1>3, <1>4, <1>5, OneIsFirst, Zenon
    <2>2. PICK n \in N : \A m \in N \ {n} : ComesFirst(n, m, f, g, h)
      BY <2>1 DEF HasFirst
    <2>3. ASSUME NEW m \in N \ {n} PROVE Precedes(n, m, ofId)
      BY <2>2 DEF Precedes, ComesFirst
    <2>4. QED
      BY <2>3
  <1>7. (CHOOSE n \in N : \A m \in N \ {n} : Precedes(n, m, ofId)) \in N
    BY <1>6
  <1>8. QED
    BY <1>7 DEF IdGroup

LEMMA LegacyGroupShowsItsOwn ==
  ASSUME NEW known, Grouped(known), NEW folded,
         \E s \in known : CaseFold[s.row.status] = folded
  PROVE  LegacyGroup(known, folded).display \in LegacyGroup(known, folded).variants
  <1> DEFINE equal == {s \in known : CaseFold[s.row.status] = folded}
             N == NamesIn(equal)
             f == [x \in N |-> Cardinality(Named(equal, x))]
             g == [x \in N |-> 0]
             h == [x \in N |-> Len(Alphabet) - Place(x)]
  <1>1. Grouped(equal)
    BY GroupedSubset
  <1>2. N # {}
    BY DEF NamesIn
  <1>3. IsFiniteSet(N) /\ N \in SUBSET Names
    BY <1>1, NamesFinite
  <1>4. f \in [N -> Nat] /\ g \in [N -> Nat]
    BY <1>1, NamedCount
  <1>5. \A x \in N : Place(x) \in 1..Len(Alphabet) /\ Alphabet[Place(x)] = x /\ Len(Alphabet) \in Nat
    BY <1>3, PlaceOfName
  <1>6. h \in [N -> Nat] /\ Apart(N, h)
    <2>1. ASSUME NEW x \in N PROVE h[x] \in Nat
      BY <1>5
    <2>2. ASSUME NEW x \in N, NEW y \in N, h[x] = h[y] PROVE x = y
      <3>1. Place(x) \in Int /\ Place(y) \in Int /\ Len(Alphabet) \in Int
            /\ Len(Alphabet) - Place(x) = Len(Alphabet) - Place(y)
        BY <1>5, <2>2
      <3>2. Place(x) = Place(y)
        BY <3>1
      <3>3. QED
        BY <1>5, <3>2
    <2>3. QED
      BY <2>1, <2>2 DEF Apart
  <1>7. \E n \in N : \A m \in N \ {n} :
          \/ Cardinality(Named(equal, n)) > Cardinality(Named(equal, m))
          \/ Cardinality(Named(equal, n)) = Cardinality(Named(equal, m)) /\ Place(n) < Place(m)
    <2>1. HasFirst(N, f, g, h)
      <3> HIDE DEF N, f, g, h
      <3>1. QED
        BY <1>2, <1>3, <1>4, <1>6, OneIsFirst, Zenon
    <2>2. PICK n \in N : \A m \in N \ {n} : ComesFirst(n, m, f, g, h)
      BY <2>1 DEF HasFirst
    <2>3. ASSUME NEW m \in N \ {n}
          PROVE  \/ Cardinality(Named(equal, n)) > Cardinality(Named(equal, m))
                 \/ Cardinality(Named(equal, n)) = Cardinality(Named(equal, m))
                    /\ Place(n) < Place(m)
      <3>1. ~(g[n] > g[m])
        OBVIOUS
      <3>2. \/ f[n] > f[m]
            \/ f[n] = f[m] /\ h[n] > h[m]
        BY <2>2, <3>1 DEF ComesFirst
      <3>3. h[n] > h[m] => Place(n) < Place(m)
        <4>1. h[n] = Len(Alphabet) - Place(n) /\ h[m] = Len(Alphabet) - Place(m)
          OBVIOUS
        <4>2. Place(n) \in Int /\ Place(m) \in Int /\ Len(Alphabet) \in Int
          BY <1>5
        <4> HIDE DEF h
        <4>3. QED
          BY <4>1, <4>2
      <3>4. QED
        BY <3>2, <3>3
    <2>4. QED
      BY <2>3
  <1>8. (CHOOSE n \in N : \A m \in N \ {n} :
          \/ Cardinality(Named(equal, n)) > Cardinality(Named(equal, m))
          \/ Cardinality(Named(equal, n)) = Cardinality(Named(equal, m)) /\ Place(n) < Place(m)) \in N
    BY <1>7
  <1>9. QED
    BY <1>8 DEF LegacyGroup

(* The group a name is in: that of its status if a slice with the name has  *)
(* an id, else the one of its name in lower case.                            *)
HasId(known, n) == \E s \in known : s.row.status = n /\ s.row.status_id # Null
HomeOf(known, n) ==
  IF HasId(known, n) THEN IdGroup(known, Owner(n))
  ELSE LegacyGroup(Unclaimed(known), CaseFold[n])

LEMMA InIdGroup ==
  ASSUME NEW known, Grouped(known), NEW id, id # Null,
         NEW n \in IdGroup(known, id).variants
  PROVE  Owner(n) = id /\ HasId(known, n) /\ n \in NamesIn(known)
  <1>1. PICK s \in known : s.row.status_id = id /\ s.row.status = n
    BY DEF IdGroup, NamesIn
  <1>2. s.row.status_id \in {Null, Owner(s.row.status)}
    BY OwnerOfSlice DEF Grouped
  <1>3. QED
    BY <1>1, <1>2 DEF HasId, NamesIn

LEMMA InLegacyGroup ==
  ASSUME NEW known, Grouped(known), NEW folded,
         NEW n \in LegacyGroup(Unclaimed(known), folded).variants
  PROVE  /\ CaseFold[n] = folded /\ ~HasId(known, n) /\ n \in NamesIn(known)
         /\ Owner(n) \in StatusIds /\ n \in ToSet(NamesOf[Owner(n)])
  <1>1. PICK s \in Unclaimed(known) : CaseFold[s.row.status] = folded /\ s.row.status = n
    BY DEF LegacyGroup, NamesIn
  <1>2. s \in known /\ \A t \in known : t.row.status = n => t.row.status_id = Null
    BY <1>1 DEF Unclaimed, Named
  <1>3. Owner(s.row.status) \in StatusIds /\ s.row.status \in ToSet(NamesOf[Owner(s.row.status)])
    BY <1>2, OwnerOfSlice DEF Grouped
  <1>4. QED
    BY <1>1, <1>2, <1>3 DEF HasId, NamesIn

LEMMA EveryNameHasHome ==
  ASSUME NEW known, Grouped(known), NEW n \in NamesIn(known)
  PROVE  HomeOf(known, n) \in DiscoverStatusGroups(known) /\ n \in HomeOf(known, n).variants
  <1>1. CASE HasId(known, n)
    <2>1. PICK s \in known : s.row.status = n /\ s.row.status_id # Null
      BY <1>1 DEF HasId
    <2>2. s.row.status_id = Owner(n)
      BY <2>1, OwnerOfSlice DEF Grouped
    <2>3. n \in IdGroup(known, Owner(n)).variants
      BY <2>1, <2>2 DEF IdGroup, NamesIn
    <2>4. Owner(n) \in {t.row.status_id : t \in known} \ {Null}
      BY <2>1, <2>2
    <2>5. IdGroup(known, Owner(n)) \in DiscoverStatusGroups(known)
      BY <2>4 DEF DiscoverStatusGroups
    <2>6. QED
      BY <1>1, <2>3, <2>5 DEF HomeOf
  <1>2. CASE ~HasId(known, n)
    <2>1. PICK s \in known : s.row.status = n
      BY DEF NamesIn
    <2>2. s \in Unclaimed(known)
      BY <1>2, <2>1 DEF HasId, Unclaimed, Named
    <2>3. n \in LegacyGroup(Unclaimed(known), CaseFold[n]).variants
      BY <2>1, <2>2 DEF LegacyGroup, NamesIn
    <2>4. n \in NamesIn(Unclaimed(known))
      BY <2>1, <2>2 DEF NamesIn
    <2>5. LegacyGroup(Unclaimed(known), CaseFold[n]) \in DiscoverStatusGroups(known)
      BY <2>4 DEF DiscoverStatusGroups
    <2>6. QED
      BY <1>2, <2>3, <2>5 DEF HomeOf
  <1>3. QED
    BY <1>1, <1>2

LEMMA GroupKinds ==
  ASSUME NEW known, NEW g \in DiscoverStatusGroups(known)
  PROVE  \/ \E id : /\ id # Null /\ \E s \in known : s.row.status_id = id
                    /\ g = IdGroup(known, id)
         \/ \E folded : /\ \E s \in Unclaimed(known) : CaseFold[s.row.status] = folded
                        /\ g = LegacyGroup(Unclaimed(known), folded)
  BY DEF DiscoverStatusGroups, NamesIn

(* It is in no other one. *)
LEMMA NameIsAtHome ==
  ASSUME NEW known, Grouped(known), NEW g \in DiscoverStatusGroups(known),
         NEW n \in g.variants
  PROVE  g = HomeOf(known, n) /\ n \in NamesIn(known)
  <1>1. ASSUME NEW id, id # Null, g = IdGroup(known, id)
        PROVE  g = HomeOf(known, n) /\ n \in NamesIn(known)
    BY <1>1, InIdGroup DEF HomeOf
  <1>2. ASSUME NEW folded, g = LegacyGroup(Unclaimed(known), folded)
        PROVE  g = HomeOf(known, n) /\ n \in NamesIn(known)
    BY <1>2, InLegacyGroup DEF HomeOf
  <1>3. QED
    BY <1>1, <1>2, GroupKinds

LEMMA GroupShowsItsOwn ==
  ASSUME NEW known, Grouped(known), NEW g \in DiscoverStatusGroups(known)
  PROVE  g.display \in g.variants
  <1>1. ASSUME NEW id, \E s \in known : s.row.status_id = id, g = IdGroup(known, id)
        PROVE  g.display \in g.variants
    BY <1>1, IdGroupShowsItsOwn
  <1>2. ASSUME NEW folded, \E s \in Unclaimed(known) : CaseFold[s.row.status] = folded,
               g = LegacyGroup(Unclaimed(known), folded)
        PROVE  g.display \in g.variants
    <2>1. Grouped(Unclaimed(known))
      BY GroupedSubset DEF Unclaimed
    <2>2. QED
      BY <1>2, <2>1, LegacyGroupShowsItsOwn
  <1>3. QED
    BY <1>1, <1>2, GroupKinds

LEMMA GroupHasOneOwner ==
  ASSUME NEW known, Grouped(known), NEW g \in DiscoverStatusGroups(known),
         NEW n \in g.variants, NEW m \in g.variants
  PROVE  Owner(n) = Owner(m)
  <1>1. ASSUME NEW id, id # Null, g = IdGroup(known, id)
        PROVE  Owner(n) = Owner(m)
    BY <1>1, InIdGroup
  <1>2. ASSUME NEW folded, g = LegacyGroup(Unclaimed(known), folded)
        PROVE  Owner(n) = Owner(m)
    <2>1. ASSUME NEW x \in g.variants
          PROVE  /\ CaseFold[x] = folded
                 /\ Owner(x) \in StatusIds /\ x \in ToSet(NamesOf[Owner(x)])
      BY <1>2, InLegacyGroup
    <2>2. CaseFold[n] = CaseFold[m]
      BY <2>1
    <2>3. QED
      BY <2>1, <2>2, NamesAssumption
  <1>3. QED
    BY <1>1, <1>2, GroupKinds

(* The slices of the tenant are such. *)
LEMMA StoredSliceIsAttributed ==
  ASSUME IInv, NEW i \in Issues, NEW k \in DOMAIN slices[i]
  PROVE  /\ slices[i][k].status \in Names /\ slices[i][k].end_at \in Nat
         /\ \E id \in StatusIds : slices[i][k].status \in ToSet(NamesOf[id])
                                  /\ slices[i][k].status_id \in {Null, id}
  <1> DEFINE s == slices[i]
             n == Len(row[i].transitions)
             log == jira[i].log
  <1>1. GlobalOK
    BY DEF IInv
  <1>2. row[i] # Null /\ HistoryOK(i) /\ SlicesOK(i)
    BY DEF IInv, IssueOK
  <1>3. n \in 0..Len(log) /\ Len(log) \in Nat
    BY <1>2, Turns
  <1>4. s \in Seq(Stay) /\ Len(s) = n + 1
    BY <1>2 DEF SlicesOK, Chain
  <1>5. k \in 1..(n + 1) /\ s[k] \in Stay
    BY <1>4
  <1>6. k - 1 \in 0..Len(log)
    BY <1>3, <1>5
  <1>7. StatusAfter(log, k - 1) \in StatusIds
    BY <1>2, <1>6, StatusAfterIsStatus
  <1>8. /\ s[k].status \in ToSet(NamesOf[StatusAfter(log, k - 1)])
        /\ s[k].status_id \in {Null, StatusAfter(log, k - 1)}
    BY <1>2, <1>5 DEF SlicesOK
  <1>9. s[k].status \in Names
    BY <1>1, <1>7, <1>8, NamesOfStatus
  <1>10. s[k].end_at \in Nat
    BY <1>5 DEF Stay
  <1>11. QED
    BY <1>7, <1>8, <1>9, <1>10

StoredOf(i) == {[issue |-> i, nth |-> k, row |-> slices[i][k]] : k \in DOMAIN slices[i]}

LEMMA StoredOfIssue ==
  ASSUME IInv, NEW i \in Issues
  PROVE  IsFiniteSet(StoredOf(i))
  <1>1. IsFiniteSet(DOMAIN slices[i])
    <2>1. CASE row[i] = Null
      <3>1. slices[i] = <<>>
        BY <2>1 DEF IInv, IssueOK
      <3>2. DOMAIN slices[i] = {}
        BY <3>1
      <3>3. QED
        BY <3>2, FS_EmptySet
    <2>2. CASE row[i] # Null
      <3>1. SlicesOK(i)
        BY <2>2 DEF IInv, IssueOK
      <3>2. slices[i] \in Seq(Stay)
        BY <3>1 DEF SlicesOK, Chain
      <3>3. DOMAIN slices[i] = 1..Len(slices[i]) /\ Len(slices[i]) \in Nat
        BY <3>2
      <3>4. QED
        BY <3>3, FS_Interval
    <2>3. QED
      BY <2>1, <2>2
  <1> DEFINE r == [k \in DOMAIN slices[i] |-> [issue |-> i, nth |-> k, row |-> slices[i][k]]]
  <1>2. r \in Surjection(DOMAIN slices[i], StoredOf(i))
    BY DEF Surjection, StoredOf
  <1>3. QED
    BY <1>1, <1>2, FS_Surjection

LEMMA StoredGrouped == IInv => Grouped(SlicesNow)
  <1> SUFFICES ASSUME IInv PROVE Grouped(SlicesNow)
    OBVIOUS
  <1>1. DOMAIN slices = Issues /\ IsFiniteSet(Issues)
    BY FlowReportsAssumption DEF IInv, GlobalOK
  <1> DEFINE parts == {StoredOf(i) : i \in Issues}
             r == [i \in Issues |-> StoredOf(i)]
  <1>2. SlicesNow = UNION parts
    BY <1>1 DEF SlicesNow, Stored, StoredOf
  <1>3. r \in Surjection(Issues, parts)
    BY DEF Surjection
  <1>4. IsFiniteSet(parts)
    BY <1>1, <1>3, FS_Surjection
  <1>5. \A p \in parts : IsFiniteSet(p)
    BY StoredOfIssue
  <1>6. IsFiniteSet(SlicesNow)
    <2> HIDE DEF parts
    <2>1. QED
      BY <1>2, <1>4, <1>5, FS_UNION
  <1>7. ASSUME NEW s \in SlicesNow
        PROVE  s.row.status \in Names /\ s.row.end_at \in Nat /\ Attributed(s)
    <2>1. PICK i \in Issues : s \in StoredOf(i)
      BY <1>2
    <2>2. PICK k \in DOMAIN slices[i] : s = [issue |-> i, nth |-> k, row |-> slices[i][k]]
      BY <2>1 DEF StoredOf
    <2>3. s.row = slices[i][k]
      BY <2>2
    <2>4. QED
      BY <2>3, StoredSliceIsAttributed DEF Attributed
  <1>8. QED
    BY <1>6, <1>7 DEF Grouped

(* discover_status_groups: every stored slice is in exactly one group, no   *)
(* two groups show the same name, and a group never mixes two statuses,     *)
(* before, during and after the change to stable status ids.                *)
THEOREM GroupsArePartition == Spec => []GroupsPartition
  <1>1. IInv => GroupsPartition
    <2> SUFFICES ASSUME IInv PROVE GroupsPartition
      OBVIOUS
    <2> DEFINE known == SlicesNow
               groups == DiscoverStatusGroups(known)
    <2>1. Grouped(known)
      BY StoredGrouped
    <2>2. ASSUME NEW n \in NamesIn(known)
          PROVE  Cardinality({g \in groups : n \in g.variants}) = 1
      <3>1. HomeOf(known, n) \in groups /\ n \in HomeOf(known, n).variants
        BY <2>1, EveryNameHasHome
      <3>2. \A g \in groups : n \in g.variants => g = HomeOf(known, n)
        BY <2>1, NameIsAtHome
      <3>3. {g \in groups : n \in g.variants} = {HomeOf(known, n)}
        BY <3>1, <3>2
      <3>4. QED
        BY <3>3, FS_Singleton
    <2>3. ASSUME NEW g \in groups, NEW h \in groups, g.display = h.display
          PROVE  g = h
      <3>1. g.display \in g.variants /\ h.display \in h.variants
        BY <2>1, GroupShowsItsOwn
      <3>2. g = HomeOf(known, g.display) /\ h = HomeOf(known, h.display)
        BY <2>1, <3>1, NameIsAtHome
      <3>3. QED
        BY <2>3, <3>2
    <2>4. ASSUME NEW g \in groups, NEW n \in g.variants, NEW m \in g.variants
          PROVE  Owner(n) = Owner(m)
      BY <2>1, GroupHasOneOwner
    <2>5. QED
      BY <2>2, <2>3, <2>4 DEF GroupsPartition
  <1>2. QED
    BY <1>1, IInvariant, PTL

-----------------------------------------------------------------------------
(* What has happened is past: no resolution lies ahead of the clock, no     *)
(* stored one ahead of the ingest that stored it, and a move leaves its     *)
(* status.                                                                   *)

PastOK(i) ==
  /\ jira[i].resolution # Null => jira[i].resolution <= now
  /\ \A k \in 1..Len(jira[i].log) : jira[i].log[k].from_status_id # jira[i].log[k].to_status_id
  /\ row[i] # Null => (row[i].done_at # Null => row[i].done_at <= syncedAt[i])

PastInv == \A i \in Issues : PastOK(i)

LEMMA InitPast == Init => PastInv
  <1> SUFFICES ASSUME Init, NEW i \in Issues PROVE PastOK(i)
    BY DEF PastInv
  <1>1. jira[i].resolution = Null /\ jira[i].log = <<>> /\ row[i] = Null
    BY DEF Init
  <1>2. 1..Len(jira[i].log) = {}
    BY <1>1
  <1>3. QED
    BY <1>1, <1>2 DEF PastOK

LEMMA LivePast ==
  ASSUME IInv, PastInv, Live
  PROVE  PastInv'
  <1> SUFFICES ASSUME NEW i \in Issues PROVE PastOK(i)'
    BY DEF PastInv
  <1> DEFINE log == jira[i].log
             n == Len(log)
  <1>1. HistoryOK(i) /\ PastOK(i)
    BY DEF IInv, IssueOK, PastInv
  <1>2. log \in Seq(Transitions) /\ n \in Nat
    BY <1>1, LogIsSequence
  <1>3. now' = now + 1 /\ now \in Nat /\ now' \in Nat
    BY LiveGlobals
  <1>4. row' = row /\ syncedAt' = syncedAt
    BY DEF Live, stored
  <1>5. jira'[i] \in {jira[i]} \cup Created(i) \cup Edited(i)
                    \cup UNION {Moved(i, s) : s \in StatusIds}
    BY DEF Live
  <1>6. jira[i] \in JiraIssues /\ jira[i].resolution \in Nat \cup {Null}
        /\ (jira[i].resolution # Null => jira[i].resolution <= now')
    BY <1>1, <1>3 DEF HistoryOK, JiraIssues, PastOK
  <1>7. CASE jira'[i] = jira[i]
    BY <1>1, <1>4, <1>6, <1>7 DEF PastOK
  <1>8. CASE jira'[i] \in Created(i)
    <2>1. jira'[i].resolution = jira[i].resolution /\ jira'[i].log = log
      BY <1>6, <1>8 DEF Created, JiraIssues
    <2>2. QED
      BY <1>1, <1>4, <1>6, <2>1 DEF PastOK
  <1>9. ASSUME NEW s \in StatusIds, jira'[i] \in Moved(i, s) PROVE PastOK(i)'
    <2>1. /\ s # jira[i].status
          /\ \E r \in {Null, IF s \in DoneIds THEN now' ELSE jira[i].resolution} :
               jira'[i] = [jira[i] EXCEPT !.updated = now', !.status = s, !.resolution = r,
                             !.log = Append(@, Change(i, s))]
      BY <1>9 DEF Moved, Change
    <2>2. PICK r \in {Null, IF s \in DoneIds THEN now' ELSE jira[i].resolution} :
            jira'[i] = [jira[i] EXCEPT !.updated = now', !.status = s, !.resolution = r,
                          !.log = Append(@, Change(i, s))]
      BY <2>1
    <2>3. jira'[i].resolution = r /\ jira'[i].log = Append(log, Change(i, s))
      BY <1>6, <2>2 DEF JiraIssues
    <2>4. r # Null => r <= now'
      BY <1>3, <1>6
    <2>5. Change(i, s) \in Transitions /\ Change(i, s).from_status_id # Change(i, s).to_status_id
      BY <2>1, ChangeIsTransition DEF Change
    <2> DEFINE c == Change(i, s)
               new == Append(log, c)
    <2> HIDE DEF c
    <2>6. /\ Len(new) = n + 1 /\ new[n + 1] = c
          /\ \A k \in 1..n : new[k] = log[k]
      BY <1>2, <2>5 DEF c
    <2>7. \A k \in 1..n : log[k].from_status_id # log[k].to_status_id
      BY <1>1 DEF PastOK
    <2> HIDE DEF new, log, n
    <2>8. \A k \in 1..(n + 1) : k \in 1..n \/ k = n + 1
      BY <1>2
    <2>9. \A k \in 1..Len(new) : new[k].from_status_id # new[k].to_status_id
      BY <2>5, <2>6, <2>7, <2>8 DEF c
    <2>10. jira'[i].log = new
      BY <2>3 DEF new, c
    <2>11. row[i] # Null => (row[i].done_at # Null => row[i].done_at <= syncedAt[i])
      BY <1>1 DEF PastOK
    <2>12. QED
      BY <1>4, <2>3, <2>4, <2>9, <2>10, <2>11 DEF PastOK
  <1>10. CASE jira'[i] \in Edited(i)
    <2>1. jira'[i].resolution = jira[i].resolution /\ jira'[i].log = log
      BY <1>6, <1>10 DEF Edited, JiraIssues
    <2>2. QED
      BY <1>1, <1>4, <1>6, <2>1 DEF PastOK
  <1>11. QED
    BY <1>5, <1>7, <1>8, <1>9, <1>10

(* _resolve_done_at finds no time ahead of the clock. *)
LEMMA DoneAtIsPast ==
  ASSUME IInv, PastInv, NEW i \in Issues, jira[i].created # Null,
         NEW payload \in Payloads(jira[i].log)
  PROVE  LET done == UpsertIssue(i, AsStored(payload)).done_at
         IN done # Null => done <= now
  <1> DEFINE log == jira[i].log
             n == Len(log)
             changelog == AsStored(payload)
             known == AsStored(log)
             status == NameOf(jira[i].status)
             resolution == jira[i].resolution
             entered == {changelog[k].at : k \in {j \in DOMAIN changelog :
                                                    changelog[j].to_status \in DoneStatuses}}
  <1>1. HistoryOK(i) /\ PastOK(i) /\ GlobalOK
    BY DEF IInv, IssueOK, PastInv
  <1>2. /\ n \in Nat /\ Len(known) = n /\ log \in Seq(Transitions)
        /\ \A k \in 1..n : known[k].at = log[k].at /\ log[k].at \in Nat
    BY <1>1, StoredLog, LogIsSequence
  <1>3. Delivers(changelog, known)
    BY <1>2, PayloadDelivers
  <1>4. \A k \in DOMAIN changelog : \E m \in 1..n : changelog[k] = known[m]
    BY <1>2, <1>3, SameEntries
  <1>5. now \in Nat
    BY <1>1, FlowReportsAssumption DEF GlobalOK
  <1>6. entered \in SUBSET (0..now)
    <2>1. ASSUME NEW k \in DOMAIN changelog PROVE changelog[k].at \in 0..now
      <3>1. PICK m \in 1..n : changelog[k] = known[m]
        BY <1>4
      <3>2. log[m].at \in Nat /\ log[m].at <= now
        BY <1>1, <1>2, <3>1 DEF HistoryOK
      <3>3. changelog[k].at = log[m].at
        BY <1>2, <3>1
      <3>4. QED
        BY <1>5, <3>2, <3>3
    <2>2. QED
      BY <2>1
  <1>7. ASSUME NEW times \in SUBSET (0..now), times # {} PROVE Max(times) <= now
    <2>1. Max(times) \in times
      BY <1>5, <1>7, MaxIsGreatest
    <2>2. Max(times) \in 0..now
      BY <1>7, <2>1, Zenon
    <2>3. QED
      BY <1>5, <2>2
  <1>8. UpsertIssue(i, changelog).done_at
        = IF resolution # Null THEN resolution
          ELSE IF status \in DoneStatuses /\ entered # {} THEN Max(entered)
          ELSE Null
    BY DEF UpsertIssue, ResolveDoneAt
  <1>9. resolution # Null => resolution <= now
    BY <1>1 DEF PastOK
  <1> HIDE DEF entered, resolution, status, changelog
  <1>10. UpsertIssue(i, changelog).done_at # Null => UpsertIssue(i, changelog).done_at <= now
    BY <1>6, <1>7, <1>8, <1>9
  <1>11. QED
    BY <1>10 DEF changelog

LEMMA IngestPast ==
  ASSUME IInv, PastInv, NEW i \in Issues, Ingest(i)
  PROVE  PastInv'
  <1> SUFFICES ASSUME NEW j \in Issues PROVE PastOK(j)'
    BY DEF PastInv
  <1>1. PICK payload \in Payloads(jira[i].log) :
          row' = [row EXCEPT ![i] = UpsertIssue(i, AsStored(payload))]
    BY DEF Ingest
  <1>2. /\ jira[i].created # Null /\ UNCHANGED <<now, jira>>
        /\ syncedAt' = [syncedAt EXCEPT ![i] = now]
    BY DEF Ingest
  <1>3. GlobalOK /\ PastOK(j)
    BY DEF IInv, PastInv
  <1>4. CASE j = i
    <2>1. row'[i] = UpsertIssue(i, AsStored(payload)) /\ syncedAt'[i] = now
      BY <1>1, <1>2, <1>3 DEF GlobalOK
    <2>2. row'[i].done_at # Null => row'[i].done_at <= now
      BY <1>2, <2>1, DoneAtIsPast
    <2>3. QED
      BY <1>2, <1>3, <1>4, <2>1, <2>2 DEF PastOK
  <1>5. CASE j # i
    <2>1. row'[j] = row[j] /\ syncedAt'[j] = syncedAt[j]
      BY <1>1, <1>2, <1>3, <1>5 DEF GlobalOK
    <2>2. QED
      BY <1>2, <1>3, <2>1 DEF PastOK
  <1>6. QED
    BY <1>4, <1>5

LEMMA PastIsInductive ==
  ASSUME IInv, PastInv, [Next]_vars
  PROVE  PastInv'
  <1>1. CASE Live
    BY <1>1, LivePast
  <1>2. CASE Deploy \/ UNCHANGED vars
    <2>1. jira' = jira /\ now' = now /\ row' = row /\ syncedAt' = syncedAt
      BY <1>2 DEF Deploy, vars, stored
    <2>2. QED
      BY <2>1 DEF PastInv, PastOK
  <1>3. ASSUME NEW i \in Issues, Ingest(i) PROVE PastInv'
    BY <1>3, IngestPast
  <1>4. CASE BackfillStatusIds
    <2> SUFFICES ASSUME NEW i \in Issues PROVE PastOK(i)'
      BY DEF PastInv
    <2>1. jira' = jira /\ now' = now /\ syncedAt' = syncedAt /\ PastOK(i) /\ IssueOK(i)
      BY <1>4 DEF BackfillStatusIds, PastInv, IInv
    <2>2. row[i] = Null => row'[i] = Null
      BY <1>4 DEF BackfillStatusIds
    <2>3. row[i] # Null => row'[i].done_at = row[i].done_at
      <3>1. row[i] # Null => row[i] \in Rows
        BY <2>1 DEF IssueOK, RowOK
      <3>2. QED
        BY <1>4, <3>1 DEF BackfillStatusIds, Rows
    <2>4. QED
      BY <2>1, <2>2, <2>3 DEF PastOK
  <1>5. QED
    BY <1>1, <1>2, <1>3, <1>4 DEF Next

LEMMA PastInvariant == Spec => [](IInv /\ PastInv)
  <1>1. Init => IInv /\ PastInv
    BY InitInv, InitPast
  <1>2. (IInv /\ PastInv) /\ [Next]_vars => (IInv /\ PastInv)'
    BY NextInv, PastIsInductive
  <1>3. QED
    BY <1>1, <1>2, PTL DEF Spec

(* An issue's end, too, is past when it is ingested. *)
LEMMA EndIsPast ==
  ASSUME IInv, PastInv, NEW i \in Issues, row[i] # Null
  PROVE  /\ EndOf(i) = End(i) /\ End(i) \in Nat /\ End(i) <= syncedAt[i]
         /\ Turn(jira[i], Len(row[i].transitions)) <= End(i)
  <1> DEFINE n == Len(row[i].transitions)
  <1>1. RowOK(i) /\ PastOK(i)
    BY DEF IInv, IssueOK, PastInv
  <1>2. /\ n \in 0..Len(jira[i].log) /\ syncedAt[i] \in Nat
        /\ \A k \in 0..Len(jira[i].log) : Turn(jira[i], k) \in Nat
        /\ \A k \in 0..Len(jira[i].log) : Turn(jira[i], k) <= syncedAt[i] <=> k <= n
    BY Turns
  <1>3. Turn(jira[i], n) \in Nat /\ Turn(jira[i], n) <= syncedAt[i]
    <2>1. n <= n
      BY <1>2
    <2>2. QED
      BY <1>2, <2>1
  <1>4. row[i].done_at \in Nat \cup {Null}
        /\ (row[i].done_at # Null => row[i].done_at <= syncedAt[i])
    BY <1>1 DEF RowOK, Rows, PastOK
  <1>5. EndOf(i) = End(i) /\ End(i) \in Nat
    BY EndOfIssue
  <1>6. CASE row[i].done_at = Null
    BY <1>2, <1>3, <1>5, <1>6 DEF End
  <1>7. CASE row[i].done_at # Null
    <2> DEFINE done == row[i].done_at
               last == Turn(jira[i], n)
    <2>1. End(i) = Upper(done, last) /\ done \in Nat
      BY <1>4, <1>7 DEF End
    <2>2. last \in Nat /\ last <= syncedAt[i] /\ done <= syncedAt[i]
      BY <1>3, <1>4, <1>7
    <2> HIDE DEF done, last
    <2>3. End(i) <= syncedAt[i] /\ last <= End(i)
      BY <1>2, <2>1, <2>2 DEF Upper
    <2>4. QED
      BY <1>5, <2>3 DEF last
  <1>8. QED
    BY <1>6, <1>7

-----------------------------------------------------------------------------
(* The cumulative flow diagram. *)

(* A stored slice, with what it says of its issue. *)
LEMMA StoredSlice ==
  ASSUME IInv, NEW s \in SlicesNow
  PROVE  \E i \in Issues : \E k \in 1..(Len(row[i].transitions) + 1) :
           /\ s = [issue |-> i, nth |-> k, row |-> slices[i][k]] /\ row[i] # Null
  <1>1. DOMAIN slices = Issues
    BY DEF IInv, GlobalOK
  <1>2. PICK i \in Issues : \E k \in DOMAIN slices[i] :
          s = [issue |-> i, nth |-> k, row |-> slices[i][k]]
    BY <1>1 DEF SlicesNow, Stored
  <1>3. PICK k \in DOMAIN slices[i] : s = [issue |-> i, nth |-> k, row |-> slices[i][k]]
    BY <1>2
  <1>4. row[i] # Null
    BY <1>3 DEF IInv, IssueOK
  <1>5. SlicesOK(i)
    BY <1>4 DEF IInv, IssueOK
  <1>6. slices[i] \in Seq(Stay) /\ Len(slices[i]) = Len(row[i].transitions) + 1
    BY <1>5 DEF SlicesOK, Chain
  <1>7. k \in 1..(Len(row[i].transitions) + 1)
    BY <1>6
  <1>8. QED
    BY <1>3, <1>4, <1>7

LEMMA SliceIsStored ==
  ASSUME IInv, NEW i \in Issues, row[i] # Null, NEW k \in 1..(Len(row[i].transitions) + 1)
  PROVE  [issue |-> i, nth |-> k, row |-> slices[i][k]] \in SlicesNow
  <1>1. DOMAIN slices = Issues
    BY DEF IInv, GlobalOK
  <1>2. SlicesOK(i)
    BY DEF IInv, IssueOK
  <1>3. slices[i] \in Seq(Stay) /\ Len(slices[i]) = Len(row[i].transitions) + 1
    BY <1>2 DEF SlicesOK, Chain
  <1>4. k \in DOMAIN slices[i]
    BY <1>3
  <1>5. QED
    BY <1>1, <1>4 DEF SlicesNow, Stored

(* The k-th slice of an issue is its k-th stay. *)
TellsStay(i, k) ==
  LET s == slices[i][k]
      n == Len(row[i].transitions)
      status == StatusAfter(jira[i].log, k - 1)
  IN /\ s.start_at \in Nat /\ s.start_at = Turn(jira[i], k - 1)
     /\ s.end_at \in Nat /\ s.end_at = (IF k <= n THEN Turn(jira[i], k) ELSE End(i))
     /\ s.start_at <= s.end_at
     /\ s.is_open <=> k = n + 1 /\ row[i].done_at = Null
     /\ status \in StatusIds /\ Owner(s.status) = status /\ s.status \in ToSet(NamesOf[status])

LEMMA SliceTellsStay ==
  ASSUME IInv, NEW i \in Issues, row[i] # Null, NEW k \in 1..(Len(row[i].transitions) + 1)
  PROVE  TellsStay(i, k)
  <1> DEFINE s == slices[i]
             n == Len(row[i].transitions)
             log == jira[i].log
  <1>1. SlicesOK(i) /\ HistoryOK(i)
    BY DEF IInv, IssueOK
  <1>2. n \in 0..Len(log) /\ Len(log) \in Nat
    BY Turns
  <1>3. k - 1 \in 0..Len(log)
    BY <1>2
  <1>4. s \in Seq(Stay) /\ Len(s) = n + 1 /\ \A j \in 1..Len(s) : s[j].start_at <= s[j].end_at
    BY <1>1 DEF SlicesOK, Chain
  <1>5. s[k] \in Stay /\ s[k].start_at <= s[k].end_at
    BY <1>4
  <1>6. s[k].start_at \in Nat /\ s[k].end_at \in Nat
    BY <1>5 DEF Stay
  <1>7. StatusAfter(log, k - 1) \in StatusIds
    BY <1>1, <1>3, StatusAfterIsStatus
  <1>8. /\ s[k].start_at = Turn(jira[i], k - 1)
        /\ s[k].end_at = IF k <= n THEN Turn(jira[i], k) ELSE End(i)
        /\ s[k].status \in ToSet(NamesOf[StatusAfter(log, k - 1)])
        /\ s[k].is_open <=> k = n + 1 /\ row[i].done_at = Null
    BY <1>1 DEF SlicesOK
  <1>9. Owner(s[k].status) = StatusAfter(log, k - 1)
    BY <1>7, <1>8, OwnerOfName
  <1>10. QED
    BY <1>5, <1>6, <1>7, <1>8, <1>9 DEF TellsStay

(* During a slice, and at the end of the last one, the issue is in its      *)
(* status.                                                                   *)
LEMMA StatusInSlice ==
  ASSUME IInv, PastInv, NEW i \in Issues, row[i] # Null,
         NEW k \in 1..(Len(row[i].transitions) + 1), NEW t \in Nat,
         slices[i][k].start_at <= t, t <= slices[i][k].end_at,
         k <= Len(row[i].transitions) => t < slices[i][k].end_at
  PROVE  StatusAt(i, t) = StatusAfter(jira[i].log, k - 1)
  <1> DEFINE n == Len(row[i].transitions)
             log == jira[i].log
  <1>1. /\ n \in 0..Len(log) /\ Len(log) \in Nat /\ syncedAt[i] \in Nat
        /\ \A j \in 0..Len(log) : Turn(jira[i], j) \in Nat
        /\ \A j \in 0..Len(log) : Turn(jira[i], j) <= syncedAt[i] <=> j <= n
    BY Turns
  <1>2. /\ Turn(jira[i], k - 1) <= t
        /\ slices[i][k].end_at = (IF k <= n THEN Turn(jira[i], k) ELSE End(i))
    BY SliceTellsStay DEF TellsStay
  <1>3. k - 1 \in 0..Len(log) /\ (k - 1) + 1 = k
    BY <1>1
  <1>4. k - 1 < Len(log) => t < Turn(jira[i], (k - 1) + 1)
    <2>1. CASE k <= n
      BY <1>2, <1>3, <2>1
    <2>2. CASE ~(k <= n)
      <3>1. ASSUME k - 1 < Len(log) PROVE t < Turn(jira[i], k)
        <4>1. k \in 0..Len(log)
          BY <1>1, <3>1
        <4>2. Turn(jira[i], k) \in Nat /\ ~(Turn(jira[i], k) <= syncedAt[i])
          BY <1>1, <2>2, <4>1
        <4>3. t <= End(i) /\ End(i) <= syncedAt[i] /\ End(i) \in Nat
          BY <1>2, <2>2, EndIsPast
        <4>4. QED
          BY <1>1, <4>2, <4>3
      <3>2. QED
        BY <1>3, <3>1
    <2>3. QED
      BY <2>1, <2>2
  <1>5. QED
    BY <1>2, <1>3, <1>4, StatusAtTurn

(* A slice that has begun and has not ended before an instant is the one of *)
(* the status then, or of one left just then.                                *)
LEMMA SliceAtInstant ==
  ASSUME IInv, PastInv, NEW i \in Issues, row[i] # Null,
         NEW k \in 1..(Len(row[i].transitions) + 1), NEW t \in Nat,
         slices[i][k].start_at <= t, t <= slices[i][k].end_at
  PROVE  LET status == StatusAfter(jira[i].log, k - 1)
         IN status = StatusAt(i, t) \/ Left(i, status, t)
  <1> DEFINE n == Len(row[i].transitions)
             log == jira[i].log
  <1>1. TellsStay(i, k)
    BY SliceTellsStay
  <1>2. CASE k <= n => t < slices[i][k].end_at
    BY <1>2, StatusInSlice
  <1>3. CASE k <= n /\ ~(t < slices[i][k].end_at)
    <2>1. HistoryOK(i)
      BY DEF IInv, IssueOK
    <2>2. k \in 1..Len(log) /\ k # 0
      <3>1. n \in 0..Len(log) /\ Len(log) \in Nat
        BY Turns
      <3>2. QED
        BY <1>3, <3>1
    <2>3. t = slices[i][k].end_at /\ slices[i][k].end_at = Turn(jira[i], k)
      BY <1>1, <1>3 DEF TellsStay
    <2>4. log[k].at = t /\ log[k].from_status_id = StatusAfter(log, k - 1)
      BY <2>1, <2>2, <2>3 DEF Turn, HistoryOK
    <2>5. log[k] \in ToSet(log)
      BY <2>1, <2>2, LogIsSequence DEF ToSet
    <2>6. QED
      BY <2>4, <2>5 DEF Left
  <1>4. QED
    BY <1>2, <1>3

(* An instant of the life of an issue is in the slice of its status. *)
LEMMA InstantHasSlice ==
  ASSUME IInv, PastInv, NEW i \in Issues, row[i] # Null,
         NEW t \in Nat, jira[i].created <= t, t <= End(i)
  PROVE  \E k \in 1..(Len(row[i].transitions) + 1) :
           /\ slices[i][k].start_at <= t /\ t <= slices[i][k].end_at
           /\ t < End(i) => t < slices[i][k].end_at
           /\ StatusAfter(jira[i].log, k - 1) = StatusAt(i, t)
  <1> DEFINE n == Len(row[i].transitions)
             log == jira[i].log
             past == {j \in 0..n : Turn(jira[i], j) <= t}
  <1>1. /\ n \in 0..Len(log) /\ Len(log) \in Nat /\ syncedAt[i] \in Nat
        /\ \A j \in 0..Len(log) : Turn(jira[i], j) \in Nat
        /\ \A j \in 0..Len(log) : Turn(jira[i], j) <= syncedAt[i] <=> j <= n
    BY Turns
  <1>2. n \in Nat /\ 0 \in past /\ past \in SUBSET (0..n)
    <2>1. n \in Nat /\ 0 \in 0..n
      BY <1>1
    <2>2. QED
      BY <2>1 DEF Turn
  <1>3. PICK m \in past : \A j \in past : j <= m
    <2> HIDE DEF past
    <2>1. Max(past) \in past /\ \A j \in past : j <= Max(past)
      BY <1>2, MaxIsGreatest
    <2>2. QED
      BY <2>1
  <1>4. m \in 0..n /\ m \in 0..Len(log) /\ Turn(jira[i], m) <= t
        /\ m + 1 \in 1..(n + 1) /\ (m + 1) - 1 = m
    BY <1>1
  <1>5. ASSUME m < n PROVE t < Turn(jira[i], m + 1)
    <2>1. m + 1 \in 0..n /\ m + 1 \in 0..Len(log) /\ ~(m + 1 <= m)
      BY <1>1, <1>4, <1>5
    <2>2. ~(Turn(jira[i], m + 1) <= t)
      BY <1>3, <2>1
    <2>3. QED
      BY <1>1, <2>1, <2>2
  <1>6. ASSUME m < Len(log) PROVE t < Turn(jira[i], m + 1)
    <2>1. CASE m < n
      BY <1>5, <2>1
    <2>2. CASE ~(m < n)
      <3>1. m + 1 \in 0..Len(log) /\ ~(m + 1 <= n)
        BY <1>1, <1>4, <1>6, <2>2
      <3>2. Turn(jira[i], m + 1) \in Nat /\ ~(Turn(jira[i], m + 1) <= syncedAt[i])
        BY <1>1, <3>1
      <3>3. End(i) \in Nat /\ End(i) <= syncedAt[i]
        BY EndIsPast
      <3>4. QED
        BY <1>1, <3>2, <3>3
    <2>3. QED
      BY <2>1, <2>2
  <1>7. StatusAt(i, t) = StatusAfter(log, m)
    BY <1>4, <1>6, StatusAtTurn
  <1>8. /\ slices[i][m + 1].start_at = Turn(jira[i], m)
        /\ slices[i][m + 1].end_at = IF m + 1 <= n THEN Turn(jira[i], m + 1) ELSE End(i)
    BY <1>4, SliceTellsStay DEF TellsStay
  <1>9. t <= slices[i][m + 1].end_at /\ (t < End(i) => t < slices[i][m + 1].end_at)
    <2>1. CASE m < n
      <3>1. m + 1 <= n /\ m + 1 \in 0..Len(log)
        BY <1>1, <1>4, <2>1
      <3>2. Turn(jira[i], m + 1) \in Nat
        BY <1>1, <3>1
      <3>3. QED
        BY <1>5, <1>8, <2>1, <3>1, <3>2
    <2>2. CASE ~(m < n)
      <3>1. ~(m + 1 <= n)
        BY <1>1, <1>4, <2>2
      <3>2. QED
        BY <1>8, <3>1
    <2>3. QED
      BY <2>1, <2>2
  <1>10. QED
    BY <1>4, <1>7, <1>8, <1>9

(* A slice is shown in the band of its group, if that is not terminal. *)
LEMMA BandOfName ==
  ASSUME NEW known, Grouped(known), NEW terminal, NEW n \in NamesIn(known)
  PROVE  LET groups == CfdGroups(known, terminal)
             home == HomeOf(known, n)
         IN DisplayOf(groups, n) = IF home \in groups THEN home.display ELSE Null
  <1> DEFINE groups == CfdGroups(known, terminal)
             home == HomeOf(known, n)
             of == {g \in groups : n \in g.variants}
  <1>1. home \in DiscoverStatusGroups(known) /\ n \in home.variants
    BY EveryNameHasHome
  <1>2. \A g \in groups : g \in DiscoverStatusGroups(known)
    BY DEF CfdGroups
  <1>3. \A g \in of : g = home
    BY <1>2, NameIsAtHome
  <1>4. CASE home \in groups
    <2>1. of = {home}
      BY <1>1, <1>3, <1>4
    <2>2. Place(home.display) <= Place(home.display)
      <3>1. home.display \in home.variants
        BY <1>1, GroupShowsItsOwn
      <3>2. home.display \in NamesIn(known)
        BY <1>1, <3>1, NameIsAtHome
      <3>3. home.display \in Names
        BY <3>2, NamesFinite
      <3>4. Place(home.display) \in Nat
        BY <3>3, PlaceOfName
      <3>5. QED
        BY <3>4
    <2> HIDE DEF home, groups
    <2>3. (CHOOSE g \in of : \A h \in of : Place(h.display) <= Place(g.display)) = home
      <3> HIDE DEF of
      <3>1. \A g \in of : g = home
        BY <2>1
      <3>2. home \in of /\ \A h \in of : Place(h.display) <= Place(home.display)
        BY <2>1, <2>2
      <3>3. QED
        BY <3>1, <3>2
    <2>4. DisplayOf(groups, n) = home.display
      BY <2>1, <2>3 DEF DisplayOf
    <2>5. QED
      BY <1>4, <2>4 DEF home, groups
  <1>5. CASE home \notin groups
    <2>1. of = {}
      BY <1>3, <1>5
    <2>2. DisplayOf(groups, n) = Null
      BY <2>1 DEF DisplayOf
    <2>3. QED
      BY <1>5, <2>2
  <1>6. QED
    BY <1>4, <1>5

LEMMA CfdBands ==
  ASSUME NEW known, NEW terminal, NEW from, NEW to, NEW k \in DOMAIN CfdDays(from, to)
  PROVE  LET cfd == ComputeCfd(known, terminal, from, to)
             d == CfdDays(from, to)[k]
             groups == CfdGroups(known, terminal)
         IN /\ DOMAIN cfd[k] = {g.display : g \in groups}
            /\ \A b \in DOMAIN cfd[k] : \A i :
                 i \in cfd[k][b] <=>
                   \E s \in known :
                     /\ s.issue = i /\ s.row.start_at <= to /\ s.row.end_at >= from
                     /\ s.row.start_at <= d /\ d <= s.row.end_at
                     /\ DisplayOf(groups, s.row.status) = b
  BY DEF ComputeCfd

(* compute_cfd: as far as an issue has been ingested, at the end of a day   *)
(* it is in the band of its status unless that is terminal, and in another  *)
(* band only if it left that other status at that moment.                   *)
THEOREM CfdIsHistory == Spec => []CfdShowsHistory
  <1>1. IInv /\ PastInv => CfdShowsHistory
    <2> SUFFICES ASSUME IInv, PastInv, NEW from \in WindowStarts,
                        NEW k \in DOMAIN CfdDays(from, now), NEW i \in Issues, row[i] # Null,
                        CfdDays(from, now)[k] \in row[i].created_at..EndOf(i)
                 PROVE  LET d == CfdDays(from, now)[k]
                            cfd == ComputeCfd(SlicesNow, TerminalStatuses, from, now)
                            bands == {b \in DOMAIN cfd[k] : i \in cfd[k][b]}
                        IN /\ {Owner(b) : b \in bands} \subseteq
                                {s \in StatusIds : s = StatusAt(i, d) \/ Left(i, s, d)}
                           /\ \/ StatusAt(i, d) \in {Owner(b) : b \in bands}
                              \/ \E n \in ToSet(NamesOf[StatusAt(i, d)]) :
                                   CaseFold[n] \in Folded(TerminalStatuses)
      BY DEF CfdShowsHistory, Ingested
    <2> DEFINE d == CfdDays(from, now)[k]
               known == SlicesNow
               cfd == ComputeCfd(known, TerminalStatuses, from, now)
               groups == CfdGroups(known, TerminalStatuses)
               bands == {b \in DOMAIN cfd[k] : i \in cfd[k][b]}
               log == jira[i].log
    <2>1. Grouped(known)
      BY StoredGrouped
    <2>2. RowOK(i) /\ HistoryOK(i)
      BY DEF IInv, IssueOK
    <2>3. now \in Nat /\ DayLength \in Nat
      BY FlowReportsAssumption, WorkingTimeAssumption DEF IInv, GlobalOK
    <2>4. from \in Int
      BY <2>3 DEF WindowStarts
    <2>5. d \in Nat /\ from <= d /\ jira[i].created <= d /\ d <= End(i)
      <3>1. k \in Nat /\ d = from + k * DayLength
        BY DEF CfdDays
      <3>2. k * DayLength \in Nat
        BY <2>3, <3>1
      <3>3. row[i].created_at \in Nat /\ row[i].created_at = jira[i].created
        BY <2>2 DEF RowOK, Rows
      <3>4. EndOf(i) = End(i) /\ End(i) \in Nat
        BY EndOfIssue
      <3>5. d \in row[i].created_at..End(i)
        BY <3>4
      <3> HIDE DEF d
      <3>6. QED
        BY <2>4, <3>1, <3>2, <3>3, <3>4, <3>5
    <2>6. /\ DOMAIN cfd[k] = {g.display : g \in groups}
          /\ \A b \in DOMAIN cfd[k] :
               i \in cfd[k][b] <=>
                 \E s \in known :
                   /\ s.issue = i /\ s.row.start_at <= now /\ s.row.end_at >= from
                   /\ s.row.start_at <= d /\ d <= s.row.end_at
                   /\ DisplayOf(groups, s.row.status) = b
      BY CfdBands
    <2> HIDE DEF d, cfd
    <2>7. ASSUME NEW g \in groups
          PROVE  /\ g \in DiscoverStatusGroups(known) /\ g.display \in g.variants
                 /\ g.display \in NamesIn(known) /\ g.display # Null
      <3>1. g \in DiscoverStatusGroups(known)
        BY DEF CfdGroups
      <3>2. g.display \in g.variants
        BY <2>1, <3>1, GroupShowsItsOwn
      <3>3. g.display \in NamesIn(known)
        BY <2>1, <3>1, <3>2, NameIsAtHome
      <3>4. g.display \in Names
        BY <2>1, <3>3, NamesFinite
      <3>5. QED
        BY <3>1, <3>2, <3>3, <3>4, FlowReportsAssumption
    <2>8. ASSUME NEW b \in bands
          PROVE  Owner(b) \in StatusIds /\ (Owner(b) = StatusAt(i, d) \/ Left(i, Owner(b), d))
      <3>1. PICK s \in known :
              /\ s.issue = i /\ s.row.start_at <= d /\ d <= s.row.end_at
              /\ DisplayOf(groups, s.row.status) = b
        BY <2>6
      <3>2. PICK g \in groups : g.display = b
        BY <2>6
      <3>3. b # Null
        BY <2>7, <3>2
      <3>4. s.row.status \in NamesIn(known)
        BY DEF NamesIn
      <3> DEFINE home == HomeOf(known, s.row.status)
      <3>5. home \in groups /\ b = home.display
        BY <2>1, <3>1, <3>3, <3>4, BandOfName
      <3>6. s.row.status \in home.variants /\ home.display \in home.variants
        BY <2>1, <2>7, <3>4, <3>5, EveryNameHasHome
      <3>7. Owner(b) = Owner(s.row.status)
        BY <2>1, <2>7, <3>5, <3>6, GroupHasOneOwner
      <3>8. PICK j \in 1..(Len(row[i].transitions) + 1) : s.row = slices[i][j]
        <4>1. PICK x \in Issues : \E j \in 1..(Len(row[x].transitions) + 1) :
                s = [issue |-> x, nth |-> j, row |-> slices[x][j]]
          BY StoredSlice
        <4>2. PICK j \in 1..(Len(row[x].transitions) + 1) :
                s = [issue |-> x, nth |-> j, row |-> slices[x][j]]
          BY <4>1
        <4>3. x = i /\ s.row = slices[x][j]
          BY <3>1, <4>2
        <4>4. QED
          BY <4>3
      <3>9. Owner(s.row.status) = StatusAfter(log, j - 1) /\ StatusAfter(log, j - 1) \in StatusIds
        BY <3>8, SliceTellsStay DEF TellsStay
      <3>10. StatusAfter(log, j - 1) = StatusAt(i, d) \/ Left(i, StatusAfter(log, j - 1), d)
        BY <2>5, <3>1, <3>8, SliceAtInstant
      <3>11. QED
        BY <3>7, <3>9, <3>10
    <2>9. \/ \E b \in bands : Owner(b) = StatusAt(i, d)
          \/ \E n \in ToSet(NamesOf[StatusAt(i, d)]) : CaseFold[n] \in Folded(TerminalStatuses)
      <3>1. PICK j \in 1..(Len(row[i].transitions) + 1) :
              /\ slices[i][j].start_at <= d /\ d <= slices[i][j].end_at
              /\ StatusAfter(log, j - 1) = StatusAt(i, d)
        BY <2>5, InstantHasSlice
      <3> DEFINE s == [issue |-> i, nth |-> j, row |-> slices[i][j]]
      <3>2. s \in known /\ s.issue = i /\ s.row = slices[i][j]
        BY SliceIsStored
      <3> HIDE DEF s
      <3>3. TellsStay(i, j)
        BY SliceTellsStay
      <3>4. /\ Owner(s.row.status) = StatusAt(i, d) /\ StatusAt(i, d) \in StatusIds
            /\ s.row.start_at \in Nat /\ s.row.end_at \in Nat
            /\ s.row.start_at = Turn(jira[i], j - 1)
        BY <3>1, <3>2, <3>3 DEF TellsStay
      <3>5. s.row.start_at <= now /\ s.row.end_at >= from
        <4>1. j - 1 \in 0..Len(log)
          BY Turns
        <4>2. Turn(jira[i], j - 1) <= now
          BY <4>1, Turns
        <4>3. QED
          BY <2>4, <2>5, <3>1, <3>2, <3>4, <4>2
      <3>6. s.row.status \in NamesIn(known)
        BY <3>2 DEF NamesIn
      <3> DEFINE home == HomeOf(known, s.row.status)
      <3>7. /\ home \in DiscoverStatusGroups(known) /\ s.row.status \in home.variants
            /\ home.display \in home.variants
        BY <2>1, <3>6, EveryNameHasHome, GroupShowsItsOwn
      <3>8. Owner(home.display) = StatusAt(i, d)
        BY <2>1, <3>4, <3>7, GroupHasOneOwner
      <3>9. CASE home \in groups
        <4>1. DisplayOf(groups, s.row.status) = home.display
          BY <2>1, <3>6, <3>9, BandOfName
        <4>2. home.display \in DOMAIN cfd[k]
          BY <2>6, <3>9
        <4>3. i \in cfd[k][home.display]
          BY <2>6, <3>1, <3>2, <3>5, <4>1, <4>2
        <4>4. QED
          BY <3>8, <4>2, <4>3
      <3>10. CASE home \notin groups
        <4>1. CaseFold[home.display] \in Folded(TerminalStatuses)
          BY <3>7, <3>10 DEF CfdGroups, Folded
        <4>2. home.display \in NamesIn(known)
          BY <2>1, <3>7, NameIsAtHome
        <4>3. PICK t \in known : t.row.status = home.display
          BY <4>2 DEF NamesIn
        <4>4. home.display \in ToSet(NamesOf[Owner(home.display)])
          BY <2>1, <4>3, OwnerOfSlice DEF Grouped
        <4>5. QED
          BY <3>8, <4>1, <4>4
      <3>11. QED
        BY <3>9, <3>10
    <2>10. {Owner(b) : b \in bands} \subseteq
             {s \in StatusIds : s = StatusAt(i, d) \/ Left(i, s, d)}
      BY <2>8
    <2>11. \/ StatusAt(i, d) \in {Owner(b) : b \in bands}
           \/ \E n \in ToSet(NamesOf[StatusAt(i, d)]) : CaseFold[n] \in Folded(TerminalStatuses)
      BY <2>9
    <2>12. QED
      BY <2>10, <2>11 DEF d, cfd
  <1>2. QED
    BY <1>1, PastInvariant, PTL

-----------------------------------------------------------------------------
(* The metrics of a window. *)

(* The instants a slice covers of a window. *)
Covered(s, from, to) ==
  {<<s.issue, u>> : u \in {v \in from..(to - 1) : s.row.start_at <= v /\ v < s.row.end_at}}

CoveredBy(part, from, to) == UNION {Covered(s, from, to) : s \in part}

LEMMA OverlapCounts ==
  ASSUME NEW s, s.row.start_at \in Nat, s.row.end_at \in Nat,
         s.row.start_at <= s.row.end_at, NEW from \in Int, NEW to \in Int
  PROVE  /\ IsFiniteSet(Covered(s, from, to))
         /\ Cardinality(Covered(s, from, to)) = Overlap(s.row.start_at, s.row.end_at, from, to)
         /\ Overlap(s.row.start_at, s.row.end_at, from, to) \in Int
  <1> DEFINE start == s.row.start_at
             end == s.row.end_at
             lo == Upper(start, from)
             hi == Lower(end, to)
             part == {v \in from..(to - 1) : start <= v /\ v < end}
             r == [u \in part |-> <<s.issue, u>>]
  <1>1. lo \in Int /\ hi \in Int
    BY DEF Upper, Lower
  <1>2. part = lo..(hi - 1)
    BY DEF Upper, Lower
  <1>3. /\ IsFiniteSet(lo..(hi - 1))
        /\ Cardinality(lo..(hi - 1)) = IF lo > hi - 1 THEN 0 ELSE ((hi - 1) - lo) + 1
    <2> HIDE DEF lo, hi
    <2>1. hi - 1 \in Int
      BY <1>1
    <2>2. QED
      BY <1>1, <2>1, FS_Interval
  <1>4. Overlap(start, end, from, to) = Upper(hi - lo, 0)
    BY DEF Overlap
  <1>5. IsFiniteSet(part) /\ Cardinality(part) = Overlap(start, end, from, to)
        /\ Overlap(start, end, from, to) \in Int
    <2> HIDE DEF lo, hi, part, start, end
    <2>1. QED
      BY <1>1, <1>2, <1>3, <1>4 DEF Upper
  <1>6. Covered(s, from, to) = {<<s.issue, u>> : u \in part}
    BY DEF Covered
  <1> HIDE DEF part
  <1>7. r \in Surjection(part, Covered(s, from, to))
    BY <1>6 DEF Surjection
  <1>8. r \in Injection(part, Covered(s, from, to))
    BY <1>6 DEF Injection, IsInjective
  <1>9. QED
    BY <1>5, <1>7, <1>8, FS_Surjection

(* Different slices cover different instants. *)
LEMMA SlicesAreDisjoint ==
  ASSUME IInv, PastInv, NEW s \in SlicesNow, NEW t \in SlicesNow, s # t,
         NEW from \in Int, NEW to \in Int
  PROVE  Covered(s, from, to) \cap Covered(t, from, to) = {}
  <1>1. ASSUME NEW i \in Issues, row[i] # Null,
               NEW k \in 1..(Len(row[i].transitions) + 1),
               NEW j \in 1..(Len(row[i].transitions) + 1), k < j
        PROVE  slices[i][k].end_at <= slices[i][j].start_at
    <2> DEFINE n == Len(row[i].transitions)
    <2>1. /\ n \in 0..Len(jira[i].log) /\ Len(jira[i].log) \in Nat
          /\ \A x \in 0..Len(jira[i].log) : Turn(jira[i], x) \in Nat
          /\ \A x, y \in 0..Len(jira[i].log) : x < y => Turn(jira[i], x) < Turn(jira[i], y)
      BY <1>1, Turns
    <2>2. k <= n /\ k \in 0..Len(jira[i].log) /\ j - 1 \in 0..Len(jira[i].log)
          /\ (k = j - 1 \/ k < j - 1)
      <3>1. k \in 1..(n + 1) /\ j \in 1..(n + 1)
        OBVIOUS
      <3> HIDE DEF n
      <3>2. k \in Nat /\ j \in Nat /\ k <= n /\ j - 1 <= n /\ n <= Len(jira[i].log)
        BY <1>1, <2>1, <3>1
      <3>3. QED
        BY <1>1, <2>1, <3>1, <3>2
    <2>3. slices[i][k].end_at = Turn(jira[i], k) /\ slices[i][j].start_at = Turn(jira[i], j - 1)
      BY <1>1, <2>2, SliceTellsStay DEF TellsStay
    <2> DEFINE ends == Turn(jira[i], k)
               starts == Turn(jira[i], j - 1)
    <2>4. ends \in Nat /\ starts \in Nat /\ (k < j - 1 => ends < starts) /\ (k = j - 1 => ends = starts)
      BY <2>1, <2>2
    <2> HIDE DEF ends, starts
    <2>5. ends <= starts
      BY <2>2, <2>4
    <2>6. QED
      BY <2>3, <2>5 DEF ends, starts
  <1> SUFFICES ASSUME NEW x \in Covered(s, from, to), x \in Covered(t, from, to) PROVE FALSE
    OBVIOUS
  <1>2. PICK u \in from..(to - 1) : x = <<s.issue, u>> /\ s.row.start_at <= u /\ u < s.row.end_at
    BY DEF Covered
  <1>3. PICK v \in from..(to - 1) : x = <<t.issue, v>> /\ t.row.start_at <= v /\ v < t.row.end_at
    BY DEF Covered
  <1>4. s.issue = t.issue /\ u = v /\ u \in Int
    BY <1>2, <1>3
  <1>5. PICK i \in Issues : \E k \in 1..(Len(row[i].transitions) + 1) :
          s = [issue |-> i, nth |-> k, row |-> slices[i][k]] /\ row[i] # Null
    BY StoredSlice
  <1>6. PICK k \in 1..(Len(row[i].transitions) + 1) :
          s = [issue |-> i, nth |-> k, row |-> slices[i][k]] /\ row[i] # Null
    BY <1>5
  <1>7. PICK h \in Issues : \E j \in 1..(Len(row[h].transitions) + 1) :
          t = [issue |-> h, nth |-> j, row |-> slices[h][j]] /\ row[h] # Null
    BY StoredSlice
  <1>8. PICK j \in 1..(Len(row[h].transitions) + 1) :
          t = [issue |-> h, nth |-> j, row |-> slices[h][j]] /\ row[h] # Null
    BY <1>7
  <1>9. h = i /\ j # k
    BY <1>4, <1>6, <1>8
  <1>10. Len(row[i].transitions) \in Nat
    BY <1>6, Turns
  <1>11. TellsStay(i, k) /\ TellsStay(i, j)
    BY <1>6, <1>8, <1>9, SliceTellsStay
  <1>12. /\ slices[i][k].start_at \in Nat /\ slices[i][k].end_at \in Nat
         /\ slices[i][j].start_at \in Nat /\ slices[i][j].end_at \in Nat
    BY <1>11 DEF TellsStay
  <1>13. /\ slices[i][k].start_at <= u /\ u < slices[i][k].end_at
         /\ slices[i][j].start_at <= u /\ u < slices[i][j].end_at
    <2>1. s.row = slices[i][k] /\ t.row = slices[i][j]
      BY <1>6, <1>8, <1>9
    <2>2. QED
      BY <1>2, <1>3, <1>4, <2>1
  <1>14. CASE k < j
    <2>1. slices[i][k].end_at <= slices[i][j].start_at
      BY <1>1, <1>6, <1>8, <1>9, <1>14
    <2>2. QED
      BY <1>4, <1>12, <1>13, <2>1
  <1>15. CASE j < k
    <2>1. slices[i][j].end_at <= slices[i][k].start_at
      BY <1>1, <1>6, <1>8, <1>9, <1>15
    <2>2. QED
      BY <1>4, <1>12, <1>13, <2>1
  <1>16. QED
    BY <1>9, <1>10, <1>14, <1>15

(* Three sums: of the overlaps of some slices, and of what some groups have *)
(* in a window.                                                              *)
OverlapsOf(part, from, to) ==
  MapThenSumSet(LAMBDA s : Overlap(s.row.start_at, s.row.end_at, from, to), part)
TotalOf(known, groups, from, to) ==
  MapThenSumSet(LAMBDA g : OverlapTotal(known, g, from, to), groups)
SampleOf(known, groups, from, to) ==
  MapThenSumSet(LAMBDA g : StatusWindow(known, g, from, to).sample_size, groups)

LEMMA OverlapsAreSummed ==
  ASSUME NEW S, IsFiniteSet(S), NEW from, NEW to, NEW f,
         f = [s \in S |-> Overlap(s.row.start_at, s.row.end_at, from, to)]
  PROVE  \E g : Sums(g, f, S) /\ OverlapsOf(S, from, to) = g[S]
  <1> DEFINE Eq(g) == g = [t \in SUBSET S |->
                 IF t = {} THEN 0
                 ELSE Overlap((CHOOSE x \in t : TRUE).row.start_at,
                              (CHOOSE x \in t : TRUE).row.end_at, from, to)
                      + g[t \ {CHOOSE x \in t : TRUE}]]
             g0 == CHOOSE g : Eq(g)
  <1>1. OverlapsOf(S, from, to) = g0[S]
    BY DEF OverlapsOf, MapThenSumSet, MapThenFoldSet
  <1>2. \A t \in SUBSET S : t # {} =>
          f[CHOOSE x \in t : TRUE]
          = Overlap((CHOOSE x \in t : TRUE).row.start_at,
                    (CHOOSE x \in t : TRUE).row.end_at, from, to)
    OBVIOUS
  <1>3. \A g : Eq(g) <=> Sums(g, f, S)
    <2>1. \A g, t \in SUBSET S :
            (IF t = {} THEN 0
             ELSE Overlap((CHOOSE x \in t : TRUE).row.start_at,
                          (CHOOSE x \in t : TRUE).row.end_at, from, to)
                  + g[t \ {CHOOSE x \in t : TRUE}])
            = (IF t = {} THEN 0
               ELSE f[CHOOSE x \in t : TRUE] + g[t \ {CHOOSE x \in t : TRUE}])
      BY <1>2
    <2>2. QED
      BY <2>1 DEF Sums
  <1> HIDE DEF Eq
  <1>4. \E g : Eq(g)
    BY <1>3, SumsExist
  <1>5. Eq(g0)
    BY <1>4
  <1>6. QED
    BY <1>1, <1>3, <1>5

LEMMA TotalsAreSummed ==
  ASSUME NEW S, IsFiniteSet(S), NEW known, NEW from, NEW to, NEW f,
         f = [x \in S |-> OverlapTotal(known, x, from, to)]
  PROVE  \E g : Sums(g, f, S) /\ TotalOf(known, S, from, to) = g[S]
  <1> DEFINE Eq(g) == g = [t \in SUBSET S |->
                 IF t = {} THEN 0
                 ELSE OverlapTotal(known, CHOOSE x \in t : TRUE, from, to)
                      + g[t \ {CHOOSE x \in t : TRUE}]]
             g0 == CHOOSE g : Eq(g)
  <1>1. TotalOf(known, S, from, to) = g0[S]
    BY DEF TotalOf, MapThenSumSet, MapThenFoldSet
  <1>2. \A t \in SUBSET S : t # {} =>
          f[CHOOSE x \in t : TRUE] = OverlapTotal(known, CHOOSE x \in t : TRUE, from, to)
    OBVIOUS
  <1>3. \A g : Eq(g) <=> Sums(g, f, S)
    <2>1. \A g, t \in SUBSET S :
            (IF t = {} THEN 0
             ELSE OverlapTotal(known, CHOOSE x \in t : TRUE, from, to)
                  + g[t \ {CHOOSE x \in t : TRUE}])
            = (IF t = {} THEN 0
               ELSE f[CHOOSE x \in t : TRUE] + g[t \ {CHOOSE x \in t : TRUE}])
      BY <1>2
    <2>2. QED
      BY <2>1 DEF Sums
  <1> HIDE DEF Eq
  <1>4. \E g : Eq(g)
    BY <1>3, SumsExist
  <1>5. Eq(g0)
    BY <1>4
  <1>6. QED
    BY <1>1, <1>3, <1>5

LEMMA SamplesAreSummed ==
  ASSUME NEW S, IsFiniteSet(S), NEW known, NEW from, NEW to, NEW f,
         f = [x \in S |-> StatusWindow(known, x, from, to).sample_size]
  PROVE  \E g : Sums(g, f, S) /\ SampleOf(known, S, from, to) = g[S]
  <1> DEFINE Eq(g) == g = [t \in SUBSET S |->
                 IF t = {} THEN 0
                 ELSE StatusWindow(known, CHOOSE x \in t : TRUE, from, to).sample_size
                      + g[t \ {CHOOSE x \in t : TRUE}]]
             g0 == CHOOSE g : Eq(g)
  <1>1. SampleOf(known, S, from, to) = g0[S]
    BY DEF SampleOf, MapThenSumSet, MapThenFoldSet
  <1>2. \A t \in SUBSET S : t # {} =>
          f[CHOOSE x \in t : TRUE]
          = StatusWindow(known, CHOOSE x \in t : TRUE, from, to).sample_size
    OBVIOUS
  <1>3. \A g : Eq(g) <=> Sums(g, f, S)
    <2>1. \A g, t \in SUBSET S :
            (IF t = {} THEN 0
             ELSE StatusWindow(known, CHOOSE x \in t : TRUE, from, to).sample_size
                  + g[t \ {CHOOSE x \in t : TRUE}])
            = (IF t = {} THEN 0
               ELSE f[CHOOSE x \in t : TRUE] + g[t \ {CHOOSE x \in t : TRUE}])
      BY <1>2
    <2>2. QED
      BY <2>1 DEF Sums
  <1> HIDE DEF Eq
  <1>4. \E g : Eq(g)
    BY <1>3, SumsExist
  <1>5. Eq(g0)
    BY <1>4
  <1>6. QED
    BY <1>1, <1>3, <1>5

(* The slices that are in one of some groups. *)
InGroups(groups) == {x \in SlicesNow : \E g \in groups : x.row.status \in g.variants}
EndedIn(groups, from, to) ==
  {x \in InGroups(groups) : from <= x.row.end_at /\ x.row.end_at <= to /\ ~x.row.is_open}

LEMMA GroupsFinite ==
  ASSUME NEW known, Grouped(known)
  PROVE  IsFiniteSet(DiscoverStatusGroups(known))
  <1> DEFINE r == [n \in NamesIn(known) |-> HomeOf(known, n)]
  <1>1. IsFiniteSet(NamesIn(known))
    BY NamesFinite
  <1>2. \A n \in NamesIn(known) : HomeOf(known, n) \in DiscoverStatusGroups(known)
    BY EveryNameHasHome
  <1>3. ASSUME NEW g \in DiscoverStatusGroups(known)
        PROVE  \E n \in NamesIn(known) : HomeOf(known, n) = g
    <2>1. g.display \in g.variants
      BY GroupShowsItsOwn
    <2>2. QED
      BY <2>1, NameIsAtHome
  <1>4. r \in Surjection(NamesIn(known), DiscoverStatusGroups(known))
    BY <1>2, <1>3 DEF Surjection
  <1>5. QED
    BY <1>1, <1>4, FS_Surjection

(* The overlaps of slices add up to the instants they cover. *)
LEMMA OverlapsAdd ==
  ASSUME IInv, PastInv, NEW part \in SUBSET SlicesNow, NEW from \in Int, NEW to \in Int
  PROVE  /\ IsFiniteSet(CoveredBy(part, from, to))
         /\ OverlapsOf(part, from, to) = Cardinality(CoveredBy(part, from, to))
  <1> DEFINE f == [s \in part |-> Overlap(s.row.start_at, s.row.end_at, from, to)]
             A == [s \in part |-> Covered(s, from, to)]
  <1>1. IsFiniteSet(part)
    BY StoredGrouped, FS_Subset DEF Grouped
  <1>2. ASSUME NEW s \in part
        PROVE  /\ IsFiniteSet(Covered(s, from, to))
               /\ Cardinality(Covered(s, from, to))
                  = Overlap(s.row.start_at, s.row.end_at, from, to)
               /\ Overlap(s.row.start_at, s.row.end_at, from, to) \in Int
    <2>1. PICK i \in Issues : \E k \in 1..(Len(row[i].transitions) + 1) :
            s = [issue |-> i, nth |-> k, row |-> slices[i][k]] /\ row[i] # Null
      BY StoredSlice
    <2>2. PICK k \in 1..(Len(row[i].transitions) + 1) :
            s = [issue |-> i, nth |-> k, row |-> slices[i][k]] /\ row[i] # Null
      BY <2>1
    <2>3. s.row = slices[i][k] /\ TellsStay(i, k)
      BY <2>2, SliceTellsStay
    <2>4. s.row.start_at \in Nat /\ s.row.end_at \in Nat /\ s.row.start_at <= s.row.end_at
      BY <2>3 DEF TellsStay
    <2>5. QED
      BY <2>4, OverlapCounts
  <1>3. \A s, t \in part : s # t => Covered(s, from, to) \cap Covered(t, from, to) = {}
    BY SlicesAreDisjoint
  <1>4. Sizes(f, A, part)
    BY <1>1, <1>2, <1>3 DEF Sizes
  <1>5. PICK g : Sums(g, f, part) /\ OverlapsOf(part, from, to) = g[part]
    BY <1>1, OverlapsAreSummed
  <1>6. Joined(A, part) = CoveredBy(part, from, to)
    BY DEF Joined, CoveredBy
  <1> HIDE DEF f, A
  <1>7. QED
    BY <1>4, <1>5, <1>6, SumOfSizes

(* Over groups, too: no slice is in two of them. *)
LEMMA TotalsAdd ==
  ASSUME IInv, PastInv, NEW groups \in SUBSET DiscoverStatusGroups(SlicesNow),
         NEW from \in Int, NEW to \in Int
  PROVE  TotalOf(SlicesNow, groups, from, to)
         = Cardinality(CoveredBy(InGroups(groups), from, to))
  <1> DEFINE f == [g \in groups |-> OverlapTotal(SlicesNow, g, from, to)]
             A == [g \in groups |-> CoveredBy(InGroup(SlicesNow, g), from, to)]
  <1>1. Grouped(SlicesNow)
    BY StoredGrouped
  <1>2. IsFiniteSet(groups)
    BY <1>1, GroupsFinite, FS_Subset
  <1>3. ASSUME NEW g \in groups
        PROVE  /\ IsFiniteSet(CoveredBy(InGroup(SlicesNow, g), from, to))
               /\ OverlapTotal(SlicesNow, g, from, to)
                  = Cardinality(CoveredBy(InGroup(SlicesNow, g), from, to))
               /\ OverlapTotal(SlicesNow, g, from, to) \in Int
    <2>1. InGroup(SlicesNow, g) \in SUBSET SlicesNow
      BY DEF InGroup
    <2>2. OverlapTotal(SlicesNow, g, from, to) = OverlapsOf(InGroup(SlicesNow, g), from, to)
      BY DEF OverlapTotal, OverlapsOf
    <2>3. IsFiniteSet(CoveredBy(InGroup(SlicesNow, g), from, to))
          /\ OverlapsOf(InGroup(SlicesNow, g), from, to)
             = Cardinality(CoveredBy(InGroup(SlicesNow, g), from, to))
      BY <2>1, OverlapsAdd
    <2>4. Cardinality(CoveredBy(InGroup(SlicesNow, g), from, to)) \in Nat
      BY <2>3, FS_CardinalityType
    <2>5. QED
      BY <2>2, <2>3, <2>4
  <1>4. ASSUME NEW g \in groups, NEW h \in groups, g # h
        PROVE  CoveredBy(InGroup(SlicesNow, g), from, to)
               \cap CoveredBy(InGroup(SlicesNow, h), from, to) = {}
    <2> SUFFICES ASSUME NEW x \in CoveredBy(InGroup(SlicesNow, g), from, to),
                        x \in CoveredBy(InGroup(SlicesNow, h), from, to)
                 PROVE  FALSE
      OBVIOUS
    <2>1. PICK s \in SlicesNow : s.row.status \in g.variants /\ x \in Covered(s, from, to)
      BY DEF CoveredBy, InGroup
    <2>2. PICK t \in SlicesNow : t.row.status \in h.variants /\ x \in Covered(t, from, to)
      BY DEF CoveredBy, InGroup
    <2>3. s = t
      BY <2>1, <2>2, SlicesAreDisjoint
    <2>4. g = HomeOf(SlicesNow, s.row.status) /\ h = HomeOf(SlicesNow, s.row.status)
      BY <1>1, <2>1, <2>2, <2>3, NameIsAtHome
    <2>5. QED
      BY <1>4, <2>4
  <1>5. Sizes(f, A, groups)
    BY <1>2, <1>3, <1>4 DEF Sizes
  <1>6. PICK sum : Sums(sum, f, groups) /\ TotalOf(SlicesNow, groups, from, to) = sum[groups]
    BY <1>2, TotalsAreSummed
  <1>7. Joined(A, groups) = CoveredBy(InGroups(groups), from, to)
    <2>1. Joined(A, groups) = UNION {CoveredBy(InGroup(SlicesNow, g), from, to) : g \in groups}
      BY DEF Joined
    <2>2. QED
      BY <2>1 DEF CoveredBy, InGroup, InGroups
  <1> HIDE DEF f, A
  <1>8. QED
    BY <1>5, <1>6, <1>7, SumOfSizes

LEMMA SamplesAdd ==
  ASSUME IInv, PastInv, NEW groups \in SUBSET DiscoverStatusGroups(SlicesNow),
         NEW from \in Int, NEW to \in Int
  PROVE  /\ IsFiniteSet(EndedIn(groups, from, to))
         /\ SampleOf(SlicesNow, groups, from, to) = Cardinality(EndedIn(groups, from, to))
  <1> DEFINE f == [g \in groups |-> StatusWindow(SlicesNow, g, from, to).sample_size]
             A == [g \in groups |-> Completing(SlicesNow, g, from, to)]
  <1>1. Grouped(SlicesNow)
    BY StoredGrouped
  <1>2. IsFiniteSet(groups)
    BY <1>1, GroupsFinite, FS_Subset
  <1>3. ASSUME NEW g \in groups
        PROVE  /\ IsFiniteSet(Completing(SlicesNow, g, from, to))
               /\ StatusWindow(SlicesNow, g, from, to).sample_size
                  = Cardinality(Completing(SlicesNow, g, from, to))
               /\ Cardinality(Completing(SlicesNow, g, from, to)) \in Int
    <2>1. Completing(SlicesNow, g, from, to) \in SUBSET SlicesNow
      BY DEF Completing, InGroup
    <2>2. IsFiniteSet(Completing(SlicesNow, g, from, to))
      BY <1>1, <2>1, FS_Subset DEF Grouped
    <2>3. StatusWindow(SlicesNow, g, from, to).sample_size
          = Cardinality(Completing(SlicesNow, g, from, to))
      BY DEF StatusWindow
    <2>4. QED
      BY <2>2, <2>3, FS_CardinalityType
  <1>4. ASSUME NEW g \in groups, NEW h \in groups, g # h
        PROVE  Completing(SlicesNow, g, from, to) \cap Completing(SlicesNow, h, from, to) = {}
    <2> SUFFICES ASSUME NEW s \in SlicesNow, s.row.status \in g.variants, s.row.status \in h.variants
                 PROVE  FALSE
      BY DEF Completing, InGroup
    <2>1. g = HomeOf(SlicesNow, s.row.status) /\ h = HomeOf(SlicesNow, s.row.status)
      BY <1>1, NameIsAtHome
    <2>2. QED
      BY <1>4, <2>1
  <1>5. Sizes(f, A, groups)
    BY <1>2, <1>3, <1>4 DEF Sizes
  <1>6. PICK sum : Sums(sum, f, groups) /\ SampleOf(SlicesNow, groups, from, to) = sum[groups]
    BY <1>2, SamplesAreSummed
  <1>7. Joined(A, groups) = EndedIn(groups, from, to)
    <2>1. Joined(A, groups) = UNION {Completing(SlicesNow, g, from, to) : g \in groups}
      BY DEF Joined
    <2>2. QED
      BY <2>1 DEF Completing, InGroup, InGroups, EndedIn
  <1> HIDE DEF f, A
  <1>8. QED
    BY <1>5, <1>6, <1>7, SumOfSizes


(* The groups of a status have the slices of the status. *)
OfStatus(s) == {g \in DiscoverStatusGroups(SlicesNow) : Owner(g.display) = s}

LEMMA SlicesOfStatus ==
  ASSUME IInv, NEW s, NEW x \in SlicesNow
  PROVE  x \in InGroups(OfStatus(s)) <=> Owner(x.row.status) = s
  <1> DEFINE known == SlicesNow
             n == x.row.status
             home == HomeOf(known, n)
  <1>1. Grouped(known)
    BY StoredGrouped
  <1>2. n \in NamesIn(known)
    BY DEF NamesIn
  <1>3. home \in DiscoverStatusGroups(known) /\ n \in home.variants
    BY <1>1, <1>2, EveryNameHasHome
  <1>4. home.display \in home.variants
    BY <1>1, <1>3, GroupShowsItsOwn
  <1>5. Owner(home.display) = Owner(n)
    BY <1>1, <1>3, <1>4, GroupHasOneOwner
  <1>6. ASSUME NEW g \in OfStatus(s), n \in g.variants
        PROVE  g = home /\ Owner(g.display) = s
    <2>1. g \in DiscoverStatusGroups(known) /\ Owner(g.display) = s
      BY DEF OfStatus
    <2>2. g = home
      BY <1>1, <1>6, <2>1, NameIsAtHome
    <2>3. QED
      BY <2>1, <2>2
  <1> HIDE DEF home
  <1>7. ASSUME Owner(n) = s PROVE x \in InGroups(OfStatus(s))
    <2>1. home \in OfStatus(s)
      BY <1>3, <1>5, <1>7 DEF OfStatus
    <2>2. QED
      BY <1>3, <2>1 DEF InGroups
  <1>8. ASSUME x \in InGroups(OfStatus(s)) PROVE Owner(n) = s
    <2>1. PICK g \in OfStatus(s) : n \in g.variants
      BY <1>8 DEF InGroups
    <2>2. g = home /\ Owner(g.display) = s
      BY <1>6, <2>1
    <2>3. QED
      BY <1>5, <2>2
  <1>9. QED
    BY <1>7, <1>8

(* The instants issues spent in a status, and the times they left it or     *)
(* ended in it.                                                              *)
SpentIn(s, from) ==
  UNION {{<<i, t>> : t \in {u \in from..(now - 1) :
            /\ row[i].created_at <= u /\ u < EndOf(i)
            /\ StatusAt(i, u) = s}} : i \in Ingested}
DeparturesFrom(s, from) ==
  UNION {{<<i, t>> : t \in {u \in from..now :
            /\ u <= syncedAt[i]
            /\ Left(i, s, u) \/ EndsIn(i, s, u)}} : i \in Ingested}

LEMMA CreatedIsFirst ==
  ASSUME IInv, NEW i \in Issues, row[i] # Null
  PROVE  /\ row[i].created_at = jira[i].created /\ jira[i].created \in Nat
         /\ \A k \in 0..Len(jira[i].log) : jira[i].created <= Turn(jira[i], k)
  <1>1. RowOK(i)
    BY DEF IInv, IssueOK
  <1>2. /\ Len(jira[i].log) \in Nat
        /\ \A k \in 0..Len(jira[i].log) : Turn(jira[i], k) \in Nat
        /\ \A j, k \in 0..Len(jira[i].log) : j < k => Turn(jira[i], j) < Turn(jira[i], k)
    BY Turns
  <1>3. row[i].created_at = jira[i].created
    BY <1>1 DEF RowOK
  <1>4. 0 \in 0..Len(jira[i].log) /\ Turn(jira[i], 0) = jira[i].created
    BY <1>2 DEF Turn
  <1>5. ASSUME NEW k \in 0..Len(jira[i].log) PROVE jira[i].created <= Turn(jira[i], k)
    <2>1. k = 0 \/ 0 < k
      BY <1>2
    <2>2. CASE k = 0
      BY <1>2, <1>4, <2>2
    <2>3. CASE 0 < k
      BY <1>2, <1>4, <2>3
    <2>4. QED
      BY <2>1, <2>2, <2>3
  <1>6. QED
    BY <1>2, <1>3, <1>4, <1>5

(* The slices of a status cover the instants issues spent in it. *)
LEMMA SpentIsCovered ==
  ASSUME IInv, PastInv, NEW s, NEW from \in Int
  PROVE  CoveredBy(InGroups(OfStatus(s)), from, now) = SpentIn(s, from)
  <1> DEFINE part == InGroups(OfStatus(s))
  <1>1. ASSUME NEW p \in CoveredBy(part, from, now) PROVE p \in SpentIn(s, from)
    <2>1. PICK x \in part : p \in Covered(x, from, now)
      BY DEF CoveredBy
    <2>2. PICK u \in from..(now - 1) :
            p = <<x.issue, u>> /\ x.row.start_at <= u /\ u < x.row.end_at
      BY <2>1 DEF Covered
    <2>3. x \in SlicesNow
      BY DEF InGroups
    <2>4. Owner(x.row.status) = s
      BY <2>3, SlicesOfStatus
    <2>5. PICK i \in Issues : \E k \in 1..(Len(row[i].transitions) + 1) :
            x = [issue |-> i, nth |-> k, row |-> slices[i][k]] /\ row[i] # Null
      BY <2>3, StoredSlice
    <2>6. PICK k \in 1..(Len(row[i].transitions) + 1) :
            x = [issue |-> i, nth |-> k, row |-> slices[i][k]] /\ row[i] # Null
      BY <2>5
    <2>7. x.row = slices[i][k] /\ x.issue = i /\ TellsStay(i, k)
      BY <2>6, SliceTellsStay
    <2>8. /\ slices[i][k].start_at <= u /\ u < slices[i][k].end_at
          /\ p = <<i, u>> /\ Owner(slices[i][k].status) = s
      BY <2>2, <2>4, <2>7
    <2> DEFINE n == Len(row[i].transitions)
    <2>9. /\ n \in 0..Len(jira[i].log) /\ Len(jira[i].log) \in Nat
          /\ \A j \in 0..Len(jira[i].log) : Turn(jira[i], j) \in Nat
          /\ \A j, l \in 0..Len(jira[i].log) : j < l => Turn(jira[i], j) < Turn(jira[i], l)
      BY <2>6, Turns
    <2>10. /\ slices[i][k].start_at \in Nat /\ slices[i][k].end_at \in Nat
           /\ slices[i][k].start_at = Turn(jira[i], k - 1)
           /\ slices[i][k].end_at = IF k <= n THEN Turn(jira[i], k) ELSE End(i)
           /\ Owner(slices[i][k].status) = StatusAfter(jira[i].log, k - 1)
      BY <2>7 DEF TellsStay
    <2>11. u \in Nat /\ u <= slices[i][k].end_at
      <3>1. u \in Int
        OBVIOUS
      <3>2. QED
        BY <2>8, <2>10, <3>1
    <2>12. StatusAt(i, u) = s
      BY <2>6, <2>8, <2>10, <2>11, StatusInSlice
    <2>13. row[i].created_at <= u
      <3>1. k - 1 \in 0..Len(jira[i].log)
        BY <2>9
      <3>2. row[i].created_at = jira[i].created /\ jira[i].created \in Nat
            /\ jira[i].created <= Turn(jira[i], k - 1)
        BY <2>6, <3>1, CreatedIsFirst
      <3>3. QED
        BY <2>8, <2>10, <2>11, <3>2
    <2>14. u < EndOf(i)
      <3>1. EndOf(i) = End(i) /\ End(i) \in Nat /\ Turn(jira[i], n) <= End(i)
        BY <2>6, EndIsPast
      <3>2. slices[i][k].end_at <= End(i)
        <4>1. CASE k <= n
          <5>1. k \in 0..Len(jira[i].log) /\ (k = n \/ k < n)
            BY <2>9, <4>1
          <5>2. slices[i][k].end_at = Turn(jira[i], k) /\ Turn(jira[i], k) <= Turn(jira[i], n)
            BY <2>9, <2>10, <4>1, <5>1
          <5>3. QED
            BY <2>9, <3>1, <5>1, <5>2
        <4>2. CASE ~(k <= n)
          BY <2>10, <3>1, <4>2
        <4>3. QED
          BY <4>1, <4>2
      <3>3. QED
        BY <2>8, <2>10, <2>11, <3>1, <3>2
    <2>15. i \in Ingested
      BY <2>6 DEF Ingested
    <2>16. QED
      BY <2>8, <2>12, <2>13, <2>14, <2>15 DEF SpentIn
  <1>2. ASSUME NEW p \in SpentIn(s, from) PROVE p \in CoveredBy(part, from, now)
    <2>1. PICK i \in Ingested, u \in from..(now - 1) :
            /\ p = <<i, u>>
            /\ row[i].created_at <= u /\ u < EndOf(i) /\ StatusAt(i, u) = s
      BY DEF SpentIn
    <2>2. i \in Issues /\ row[i] # Null
      BY DEF Ingested
    <2>3. row[i].created_at = jira[i].created /\ jira[i].created \in Nat
      BY <2>2, CreatedIsFirst
    <2>4. EndOf(i) = End(i) /\ End(i) \in Nat
      BY <2>2, EndIsPast
    <2>5. u \in Nat /\ jira[i].created <= u /\ u < End(i) /\ u <= End(i)
      <3>1. u \in Int
        OBVIOUS
      <3>2. QED
        BY <2>1, <2>3, <2>4, <3>1
    <2>6. PICK k \in 1..(Len(row[i].transitions) + 1) :
            /\ slices[i][k].start_at <= u /\ u < slices[i][k].end_at
            /\ StatusAfter(jira[i].log, k - 1) = s
      BY <2>1, <2>2, <2>5, InstantHasSlice
    <2> DEFINE x == [issue |-> i, nth |-> k, row |-> slices[i][k]]
    <2>7. x \in SlicesNow
      BY <2>2, SliceIsStored
    <2>8. Owner(slices[i][k].status) = s
      BY <2>2, <2>6, SliceTellsStay DEF TellsStay
    <2>9. x.issue = i /\ x.row = slices[i][k]
      OBVIOUS
    <2> HIDE DEF x
    <2>10. x \in part
      BY <2>7, <2>8, <2>9, SlicesOfStatus
    <2>11. p \in Covered(x, from, now)
      BY <2>1, <2>6, <2>9 DEF Covered
    <2>12. QED
      BY <2>10, <2>11 DEF CoveredBy
  <1>3. QED
    BY <1>1, <1>2


(* A slice that has ended is one departure. *)
Departs(i, k, s) ==
  /\ i \in Ingested /\ slices[i][k].end_at \in Nat /\ slices[i][k].end_at <= syncedAt[i]
  /\ Left(i, s, slices[i][k].end_at) \/ EndsIn(i, s, slices[i][k].end_at)

LEMMA EndedSliceDeparts ==
  ASSUME IInv, PastInv, NEW i \in Issues, row[i] # Null,
         NEW k \in 1..(Len(row[i].transitions) + 1), ~slices[i][k].is_open,
         NEW s, Owner(slices[i][k].status) = s
  PROVE  Departs(i, k, s)
  <1> DEFINE n == Len(row[i].transitions)
             log == jira[i].log
             e == slices[i][k].end_at
  <1>1. /\ n \in 0..Len(log) /\ Len(log) \in Nat /\ syncedAt[i] \in Nat
        /\ \A j \in 0..Len(log) : Turn(jira[i], j) <= syncedAt[i] <=> j <= n
    BY Turns
  <1>2. TellsStay(i, k) /\ HistoryOK(i) /\ i \in Ingested
    BY SliceTellsStay DEF IInv, IssueOK, Ingested
  <1>3. /\ slices[i][k].start_at \in Nat /\ e \in Nat /\ slices[i][k].start_at <= e
        /\ e = (IF k <= n THEN Turn(jira[i], k) ELSE End(i))
        /\ StatusAfter(log, k - 1) = s
        /\ slices[i][k].is_open <=> k = n + 1 /\ row[i].done_at = Null
    BY <1>2 DEF TellsStay
  <1>4. CASE k <= n
    <2>1. k \in 1..Len(log) /\ k \in 0..Len(log) /\ k # 0
      BY <1>1, <1>4
    <2>2. e = Turn(jira[i], k) /\ e <= syncedAt[i]
      BY <1>1, <1>3, <1>4, <2>1
    <2>3. log[k].at = e /\ log[k].from_status_id = s
      BY <1>2, <1>3, <2>1, <2>2 DEF Turn, HistoryOK
    <2>4. log[k] \in ToSet(log)
      BY <1>2, <2>1, LogIsSequence DEF ToSet
    <2>5. Left(i, s, e)
      BY <2>3, <2>4 DEF Left
    <2>6. QED
      BY <1>2, <1>3, <2>2, <2>5 DEF Departs
  <1>5. CASE ~(k <= n)
    <2>1. k = n + 1 /\ row[i].done_at # Null
      <3>1. k = n + 1
        BY <1>1, <1>5
      <3>2. QED
        BY <1>3, <3>1
    <2>2. e = End(i) /\ EndOf(i) = End(i) /\ End(i) <= syncedAt[i]
      BY <1>3, <1>5, EndIsPast
    <2>3. e <= e
      BY <1>3
    <2>4. StatusAt(i, e) = s
      <3>1. slices[i][k].start_at <= e /\ e <= slices[i][k].end_at
            /\ (k <= Len(row[i].transitions) => e < slices[i][k].end_at)
        BY <1>3, <1>5, <2>3
      <3>2. StatusAt(i, e) = StatusAfter(jira[i].log, k - 1)
        BY <1>3, <3>1, StatusInSlice
      <3>3. QED
        BY <1>3, <3>2
    <2>5. EndsIn(i, s, e)
      BY <2>1, <2>2, <2>4 DEF EndsIn
    <2>6. QED
      BY <1>2, <1>3, <2>2, <2>5 DEF Departs
  <1>6. QED
    BY <1>4, <1>5

LEMMA DepartureEndsSlice ==
  ASSUME IInv, PastInv, NEW i \in Issues, row[i] # Null, NEW s, NEW u \in Nat,
         u <= syncedAt[i], Left(i, s, u) \/ EndsIn(i, s, u)
  PROVE  \E k \in 1..(Len(row[i].transitions) + 1) :
           /\ slices[i][k].end_at = u /\ ~slices[i][k].is_open
           /\ Owner(slices[i][k].status) = s
  <1> DEFINE n == Len(row[i].transitions)
             log == jira[i].log
  <1>1. /\ n \in 0..Len(log) /\ Len(log) \in Nat /\ syncedAt[i] \in Nat
        /\ \A j \in 0..Len(log) : Turn(jira[i], j) <= syncedAt[i] <=> j <= n
    BY Turns
  <1>2. HistoryOK(i)
    BY DEF IInv, IssueOK
  <1>3. CASE Left(i, s, u)
    <2>1. PICK c \in ToSet(log) : c.at = u /\ c.from_status_id = s
      BY <1>3 DEF Left
    <2>2. PICK k \in 1..Len(log) : log[k] = c
      BY <1>2, LogIsSequence DEF ToSet
    <2>3. k \in 0..Len(log) /\ k # 0 /\ Turn(jira[i], k) = u
      BY <1>1, <2>1, <2>2 DEF Turn
    <2>4. k <= n /\ k \in 1..(n + 1) /\ k # n + 1
      BY <1>1, <2>2, <2>3
    <2>5. StatusAfter(log, k - 1) = s
      BY <1>2, <2>1, <2>2 DEF HistoryOK
    <2>6. TellsStay(i, k)
      BY <2>4, SliceTellsStay
    <2>7. /\ slices[i][k].end_at = u /\ ~slices[i][k].is_open
          /\ Owner(slices[i][k].status) = s
      BY <2>3, <2>4, <2>5, <2>6 DEF TellsStay
    <2>8. QED
      BY <2>4, <2>7
  <1>4. CASE EndsIn(i, s, u)
    <2>1. row[i].done_at # Null /\ u = EndOf(i) /\ StatusAt(i, u) = s
      BY <1>4 DEF EndsIn
    <2>2. n + 1 \in 1..(n + 1) /\ ~(n + 1 <= n)
      BY <1>1
    <2>3. TellsStay(i, n + 1)
      BY <2>2, SliceTellsStay
    <2>4. EndOf(i) = End(i)
      BY EndIsPast
    <2>5. /\ slices[i][n + 1].end_at = u /\ ~slices[i][n + 1].is_open
          /\ slices[i][n + 1].start_at <= u
          /\ Owner(slices[i][n + 1].status) = StatusAfter(log, (n + 1) - 1)
      BY <2>1, <2>2, <2>3, <2>4 DEF TellsStay
    <2>6. u <= slices[i][n + 1].end_at
      BY <2>5
    <2>7. StatusAt(i, u) = StatusAfter(log, (n + 1) - 1)
      BY <2>2, <2>5, <2>6, StatusInSlice
    <2>8. QED
      BY <2>1, <2>2, <2>5, <2>7
  <1>5. QED
    BY <1>3, <1>4

(* No issue leaves a status twice at one moment, nor ends in the status it  *)
(* leaves.                                                                   *)
LEMMA DepartsOnce ==
  ASSUME IInv, PastInv, NEW i \in Issues, row[i] # Null,
         NEW k \in 1..(Len(row[i].transitions) + 1),
         NEW j \in 1..(Len(row[i].transitions) + 1),
         slices[i][k].end_at = slices[i][j].end_at,
         Owner(slices[i][k].status) = Owner(slices[i][j].status), k < j
  PROVE  FALSE
  <1> DEFINE n == Len(row[i].transitions)
             log == jira[i].log
  <1>1. /\ n \in 0..Len(log) /\ Len(log) \in Nat
        /\ \A x \in 0..Len(log) : Turn(jira[i], x) \in Nat
        /\ \A x, y \in 0..Len(log) : x < y => Turn(jira[i], x) < Turn(jira[i], y)
    BY Turns
  <1>2. TellsStay(i, k) /\ TellsStay(i, j) /\ HistoryOK(i) /\ PastOK(i)
    BY SliceTellsStay DEF IInv, IssueOK, PastInv
  <1>3. k <= n /\ k \in 1..Len(log) /\ k \in 0..Len(log) /\ k # 0 /\ (j <= n \/ j = n + 1)
    <2>1. k \in 1..(n + 1) /\ j \in 1..(n + 1) /\ k < j
      OBVIOUS
    <2> HIDE DEF n
    <2>2. QED
      BY <1>1, <2>1
  <1>4. slices[i][k].end_at = Turn(jira[i], k)
        /\ Owner(slices[i][k].status) = StatusAfter(log, k - 1)
        /\ slices[i][j].end_at = (IF j <= n THEN Turn(jira[i], j) ELSE End(i))
        /\ Owner(slices[i][j].status) = StatusAfter(log, j - 1)
    BY <1>2, <1>3 DEF TellsStay
  <1>5. CASE j <= n
    <2>1. j \in 0..Len(log)
      BY <1>1, <1>5
    <2>2. Turn(jira[i], k) < Turn(jira[i], j) /\ Turn(jira[i], k) = Turn(jira[i], j)
      BY <1>1, <1>3, <1>4, <1>5, <2>1
    <2>3. QED
      BY <1>1, <1>3, <2>1, <2>2
  <1>6. CASE j = n + 1
    <2>1. Turn(jira[i], k) = End(i)
      <3>1. ~(j <= n)
        BY <1>1, <1>6
      <3>2. QED
        BY <1>4, <3>1
    <2>2. End(i) \in Nat /\ Turn(jira[i], n) <= End(i)
      BY EndIsPast
    <2>3. k = n
      <3>1. ~(k < n)
        BY <1>1, <1>3, <2>1, <2>2
      <3>2. QED
        BY <1>1, <1>3, <3>1
    <2>4. StatusAfter(log, j - 1) = log[k].to_status_id
      <3>1. j - 1 = k
        BY <1>1, <1>6, <2>3
      <3>2. QED
        BY <1>3, <3>1 DEF StatusAfter
    <2>5. StatusAfter(log, k - 1) = log[k].from_status_id
      BY <1>2, <1>3 DEF HistoryOK
    <2>6. log[k].from_status_id # log[k].to_status_id
      BY <1>2, <1>3 DEF PastOK
    <2>7. QED
      BY <1>4, <2>4, <2>5, <2>6
  <1>7. QED
    BY <1>3, <1>5, <1>6


(* The slices of a status that ended in a window are as many as the         *)
(* departures.                                                               *)
LEMMA DeparturesAreEnds ==
  ASSUME IInv, PastInv, NEW s, NEW from \in Int
  PROVE  Cardinality(EndedIn(OfStatus(s), from, now)) = Cardinality(DeparturesFrom(s, from))
  <1> DEFINE ended == EndedIn(OfStatus(s), from, now)
             r == [x \in ended |-> <<x.issue, x.row.end_at>>]
  <1>1. IsFiniteSet(ended)
    <2>1. OfStatus(s) \in SUBSET DiscoverStatusGroups(SlicesNow)
      BY DEF OfStatus
    <2>2. now \in Int
      BY FlowReportsAssumption DEF IInv, GlobalOK
    <2>3. QED
      BY <2>1, <2>2, SamplesAdd
  <1>2. ASSUME NEW x \in ended
        PROVE  /\ x \in SlicesNow /\ Owner(x.row.status) = s /\ ~x.row.is_open
               /\ from <= x.row.end_at /\ x.row.end_at <= now
    <2>1. x \in SlicesNow /\ x \in InGroups(OfStatus(s))
      BY DEF EndedIn, InGroups
    <2>2. QED
      BY <2>1, SlicesOfStatus DEF EndedIn
  <1>3. ASSUME NEW x \in SlicesNow, Owner(x.row.status) = s, ~x.row.is_open,
               from <= x.row.end_at, x.row.end_at <= now
        PROVE  x \in ended
    BY <1>3, SlicesOfStatus DEF EndedIn
  <1> HIDE DEF ended
  <1>4. ASSUME NEW x \in ended PROVE <<x.issue, x.row.end_at>> \in DeparturesFrom(s, from)
    <2>1. PICK i \in Issues : \E k \in 1..(Len(row[i].transitions) + 1) :
            x = [issue |-> i, nth |-> k, row |-> slices[i][k]] /\ row[i] # Null
      BY <1>2, StoredSlice
    <2>2. PICK k \in 1..(Len(row[i].transitions) + 1) :
            x = [issue |-> i, nth |-> k, row |-> slices[i][k]] /\ row[i] # Null
      BY <2>1
    <2>3. x.issue = i /\ x.row = slices[i][k]
      BY <2>2
    <2>4. ~slices[i][k].is_open /\ Owner(slices[i][k].status) = s
          /\ from <= slices[i][k].end_at /\ slices[i][k].end_at <= now
      BY <1>2, <2>3
    <2>5. Departs(i, k, s)
      BY <2>2, <2>4, EndedSliceDeparts
    <2>6. slices[i][k].end_at \in from..now
      <3>1. now \in Int /\ slices[i][k].end_at \in Nat
        BY <2>5, FlowReportsAssumption DEF IInv, GlobalOK, Departs
      <3>2. QED
        BY <2>4, <3>1
    <2>7. QED
      BY <2>3, <2>5, <2>6 DEF Departs, DeparturesFrom
  <1>5. ASSUME NEW p \in DeparturesFrom(s, from)
        PROVE  \E x \in ended : <<x.issue, x.row.end_at>> = p
    <2>1. PICK i \in Ingested, u \in from..now :
            p = <<i, u>> /\ u <= syncedAt[i] /\ (Left(i, s, u) \/ EndsIn(i, s, u))
      BY DEF DeparturesFrom
    <2>2. i \in Issues /\ row[i] # Null
      BY DEF Ingested
    <2>3. from <= u /\ u <= now /\ u \in Int
      BY FlowReportsAssumption DEF IInv, GlobalOK
    <2>4. u \in Nat
      <3>1. CASE Left(i, s, u)
        <4>1. HistoryOK(i)
          BY <2>2 DEF IInv, IssueOK
        <4>2. \A k \in DOMAIN jira[i].log : jira[i].log[k].at \in Nat
          BY <2>2, <4>1, LogIsSequence
        <4>3. QED
          BY <3>1, <4>2 DEF Left, ToSet
      <3>2. CASE EndsIn(i, s, u)
        BY <2>2, <3>2, EndOfIssue DEF EndsIn
      <3>3. QED
        BY <2>1, <3>1, <3>2
    <2>5. PICK k \in 1..(Len(row[i].transitions) + 1) :
            /\ slices[i][k].end_at = u /\ ~slices[i][k].is_open
            /\ Owner(slices[i][k].status) = s
      BY <2>1, <2>2, <2>4, DepartureEndsSlice
    <2> DEFINE x == [issue |-> i, nth |-> k, row |-> slices[i][k]]
    <2>6. x \in SlicesNow /\ x.issue = i /\ x.row = slices[i][k]
      BY <2>2, SliceIsStored
    <2> HIDE DEF x
    <2>7. x \in ended
      BY <1>3, <2>3, <2>5, <2>6
    <2>8. QED
      BY <2>1, <2>5, <2>6, <2>7
  <1>6. ASSUME NEW x \in ended, NEW y \in ended,
               x.issue = y.issue, x.row.end_at = y.row.end_at
        PROVE  x = y
    <2>1. PICK i \in Issues : \E k \in 1..(Len(row[i].transitions) + 1) :
            x = [issue |-> i, nth |-> k, row |-> slices[i][k]] /\ row[i] # Null
      BY <1>2, StoredSlice
    <2>2. PICK k \in 1..(Len(row[i].transitions) + 1) :
            x = [issue |-> i, nth |-> k, row |-> slices[i][k]] /\ row[i] # Null
      BY <2>1
    <2>3. PICK h \in Issues : \E j \in 1..(Len(row[h].transitions) + 1) :
            y = [issue |-> h, nth |-> j, row |-> slices[h][j]] /\ row[h] # Null
      BY <1>2, StoredSlice
    <2>4. PICK j \in 1..(Len(row[h].transitions) + 1) :
            y = [issue |-> h, nth |-> j, row |-> slices[h][j]] /\ row[h] # Null
      BY <2>3
    <2>5. h = i /\ x.row = slices[i][k] /\ y.row = slices[i][j]
      BY <1>6, <2>2, <2>4
    <2>6. j \in 1..(Len(row[i].transitions) + 1)
      BY <2>4, <2>5
    <2>7. slices[i][k].end_at = slices[i][j].end_at
          /\ Owner(slices[i][k].status) = Owner(slices[i][j].status)
      BY <1>2, <1>6, <2>5
    <2>8. ~(k < j) /\ ~(j < k)
      BY <2>2, <2>6, <2>7, DepartsOnce
    <2>9. k = j
      <3>1. k \in Int /\ j \in Int
        BY <2>6
      <3>2. QED
        BY <2>8, <3>1
    <2>10. QED
      BY <2>2, <2>4, <2>5, <2>9
  <1>7. r \in Surjection(ended, DeparturesFrom(s, from))
    BY <1>4, <1>5 DEF Surjection
  <1>8. r \in Injection(ended, DeparturesFrom(s, from))
    <2>1. r \in [ended -> DeparturesFrom(s, from)]
      BY <1>4
    <2>2. ASSUME NEW x \in ended, NEW y \in ended, r[x] = r[y] PROVE x = y
      <3>1. <<x.issue, x.row.end_at>> = <<y.issue, y.row.end_at>>
        BY <2>2
      <3>2. QED
        BY <1>6, <3>1
    <2> HIDE DEF r
    <2>3. QED
      BY <2>1, <2>2 DEF Injection, IsInjective
  <1>9. QED
    BY <1>1, <1>7, <1>8, FS_Surjection DEF ended

(* calculate_status_metrics: over the groups of a status, the work in       *)
(* progress in a window that ends now adds up to the time issues spent in   *)
(* the status, and the sample counts the times one left it or ended in it.  *)
THEOREM WindowsAreHistory == Spec => []WindowsMatchHistory
  <1>1. IInv /\ PastInv => WindowsMatchHistory
    <2> SUFFICES ASSUME IInv, PastInv, NEW from \in WindowStarts, NEW s \in StatusIds
                 PROVE  /\ TotalOf(SlicesNow, OfStatus(s), from, now)
                           = Cardinality(SpentIn(s, from))
                        /\ SampleOf(SlicesNow, OfStatus(s), from, now)
                           = Cardinality(DeparturesFrom(s, from))
      BY DEF WindowsMatchHistory, TotalOf, SampleOf, OfStatus, SpentIn, DeparturesFrom
    <2>1. now \in Int /\ DayLength \in Int
      BY FlowReportsAssumption, WorkingTimeAssumption DEF IInv, GlobalOK
    <2>2. from \in Int
      BY <2>1 DEF WindowStarts
    <2>3. OfStatus(s) \in SUBSET DiscoverStatusGroups(SlicesNow)
      BY DEF OfStatus
    <2>4. TotalOf(SlicesNow, OfStatus(s), from, now) = Cardinality(SpentIn(s, from))
      BY <2>1, <2>2, <2>3, TotalsAdd, SpentIsCovered
    <2>5. SampleOf(SlicesNow, OfStatus(s), from, now) = Cardinality(DeparturesFrom(s, from))
      BY <2>1, <2>2, <2>3, SamplesAdd, DeparturesAreEnds
    <2>6. QED
      BY <2>4, <2>5
  <1>2. QED
    BY <1>1, PastInvariant, PTL

=============================================================================
