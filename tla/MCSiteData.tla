----------------------------- MODULE MCSiteData -----------------------------
(* SiteData for TLC. *)
EXTENDS SiteData

CONSTANTS a, b, x, s1, s2

Sides == Permutations({s1, s2})

(* An issue of a sprint that changes its assignee and moves, with a payload *)
(* whose sprint cannot be parsed, and one that is in the sprint from its     *)
(* creation.                                                                 *)
Sites == a :> <<[moves |-> 0, sprints |-> {x}, parsed |-> {x}, account |-> 1],
                [moves |-> 1, sprints |-> {x}, parsed |-> {}, account |-> 2]>>
      @@ b :> <<[moves |-> 1, sprints |-> {x}, parsed |-> {x}, account |-> 2]>>

People == {1, 2}

-----------------------------------------------------------------------------
(* The legacy synchronisation, over listings of at most four issues and    *)
(* walks of at most four pages.                                             *)

Legacy == INSTANCE LegacySync WITH PageSize <- 2, Cap <- 2, MaxTries <- 3
Capped == INSTANCE LegacySync WITH PageSize <- 2, Cap <- 1, MaxTries <- 3

Listings == UNION {[1..n -> {1, 2, 3, 4}] : n \in 0..4}
Distinct == {l \in Listings : IsInjective(l)}
Answers == {0, 200, 404, 429, 503}

(* A request succeeds with the first good answer, and fails only if none of *)
(* the tries has one (jira_client.py:48).                                    *)
ASSUME RetriesUntilGood ==
  \A answers \in [1..3 -> Answers] :
    LET n == Legacy!Tries(answers)
    IN /\ Legacy!Responds(answers) <=> 200 \in Range(answers)
       /\ \A k \in 1..(n - 1) : answers[k] # 200
       /\ Legacy!Responds(answers) => answers[n] = 200
       /\ Legacy!Waited(answers, 0) <= Legacy!Waited(answers, -1)
       /\ Legacy!Waited(answers, -1) = 2 ^ (IF Legacy!Responds(answers) THEN n - 1 ELSE n) - 1

(* A search whose result stays the same is walked to its end, every issue   *)
(* once (jira_client.py:90); so is a changelog, also if Jira returns shorter *)
(* pages than asked for, where the search ends with the first of them.       *)
ASSUME StableWalkIsComplete ==
  \A list \in Distinct :
    LET pages == [n \in 1..5 |-> list]
    IN /\ Legacy!SearchIssues(pages)[5] = [start |-> Len(list), got |-> list, more |-> FALSE]
       /\ Capped!GetIssueChangelog(pages)[5].got = list
       /\ Len(Capped!SearchIssues(pages)[5].got) = Min({1, Len(list)})

(* The query orders by the update, newest first: an issue that is updated   *)
(* during the walk moves to the front.                                       *)
Touched(list, i) ==
  IF i = 0 THEN list ELSE <<i>> \o SelectSeq(list, LAMBDA k : k # i)

Walks ==
  LET list == <<1, 2, 3, 4>>
      moves == [1..2 -> 0..4]
  IN {<<list, Touched(list, mv[1]), Touched(Touched(list, mv[1]), mv[2])>> : mv \in moves}

(* Whatever is updated meanwhile, the walk yields every issue that is not;  *)
(* one that is may be passed over, which the order of the query is no help    *)
(* against.                                                                  *)
ASSUME UntouchedAreFound ==
  /\ \A w \in Walks :
       LET moved == {i \in 1..4 : \E n \in 2..3 : w[n] # w[n - 1] /\ w[n][1] = i}
       IN (1..4) \ moved \subseteq Range(Legacy!SearchIssues(w)[3].got)
  /\ \E w \in Walks : ~Legacy!SearchIssues(w)[3].more /\ 4 \notin Range(Legacy!SearchIssues(w)[3].got)

(* A synchronisation that fails has stored nothing (ingestion_service.py:318). *)
ASSUME AllOrNothing ==
  \A w \in Walks, responds \in [1..3 -> BOOLEAN], broken \in SUBSET (1..4) :
    LET result == Legacy!SyncFromJira(w, responds, broken)
    IN /\ result.status = 500 => result.stored = {}
       /\ result.status = 200 => Range(Legacy!SearchIssues(w)[3].got) \subseteq result.stored \cup broken

=============================================================================
