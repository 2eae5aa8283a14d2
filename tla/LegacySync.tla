----------------------------- MODULE LegacySync -----------------------------
(***************************************************************************)
(* The synchronisation outside Forge: a client of Jira's REST API that     *)
(* retries its requests and walks the pages of a search by their offset,   *)
(* and the ingest of what the walk yields, committed at its end.            *)
(*                                                                         *)
(* Jira may answer each page from a different state: listings[n] is the    *)
(* search result when the n-th page is asked for, the issues in the order  *)
(* of the query; a page holds at most Cap of them whatever is asked for.    *)
(***************************************************************************)
EXTENDS Integers, Sequences, SequencesExt, FiniteSetsExt

CONSTANTS
  PageSize,  \* jira_page_size
  Cap,       \* the largest page Jira returns
  MaxTries   \* jira_max_retries

-----------------------------------------------------------------------------
(* _request_with_retry: answers[k] is that of the k-th request, 0 if none. *)

Good(answer) == answer \in 200..299

(* The tries until one is good, or all: any other answer is retried, the   *)
(* refusals (4xx) as well, since raise_for_status raises inside the try.    *)
Tries(answers) ==
  LET good == {k \in 1..MaxTries : Good(answers[k])}
  IN IF good = {} THEN MaxTries ELSE Min(good)

Responds(answers) == Good(answers[Tries(answers)])

(* The pause after a try that failed, in units of the base; after a 429    *)
(* what the answer asks for, -1 if it does not say.                         *)
Pause(k, answer, asked) ==
  IF answer = 429 /\ asked # -1 THEN asked ELSE 2 ^ (k - 1)

Waited(answers, asked) ==
  LET failed == IF Responds(answers) THEN Tries(answers) - 1 ELSE MaxTries
  IN FoldFunction(+, 0, [k \in 1..failed |-> Pause(k, answers[k], asked)])

-----------------------------------------------------------------------------
(* search_issues *)

PageAt(listing, start) ==
  SubSeq(listing, start + 1, Min({Len(listing), start + PageSize, start + Cap}))

(* The walk after its first n pages.  The search also ends with a page      *)
(* shorter than asked for, the walk of a changelog does not.                *)
WalkedTo(listings, shortEnds) ==
  LET walk[n \in 0..Len(listings)] ==
        IF n = 0 THEN [start |-> 0, got |-> <<>>, more |-> TRUE]
        ELSE LET before == walk[n - 1]
                 page == PageAt(listings[n], before.start)
                 start == before.start + Len(page)
             IN IF ~before.more THEN before
                ELSE [start |-> start, got |-> before.got \o page,
                      more |-> /\ page # <<>> /\ start < Len(listings[n])
                               /\ shortEnds => Len(page) >= PageSize]
  IN walk

SearchIssues(listings) == WalkedTo(listings, TRUE)
GetIssueChangelog(listings) == WalkedTo(listings, FALSE)

(* sync_from_jira: all the walk yielded is committed, or nothing: responds *)
(* says of each page whether its request succeeded.  broken: the issues     *)
(* whose processing raises before they are flushed, which are counted.      *)
SyncFromJira(listings, responds, broken) ==
  LET asked == {n \in 1..Len(listings) : n = 1 \/ SearchIssues(listings)[n - 1].more}
      got == SearchIssues(listings)[Len(listings)].got
  IN IF \A n \in asked : responds[n]
       THEN [status |-> 200, stored |-> Range(got) \ broken,
             errors |-> Len(SelectSeq(got, LAMBDA i : i \in broken))]
       ELSE [status |-> 500, stored |-> {}, errors |-> 0]

=============================================================================
