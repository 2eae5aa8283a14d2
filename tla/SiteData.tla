------------------------------ MODULE SiteData ------------------------------
(***************************************************************************)
(* The tables of one tenant's site while ingests write them in            *)
(* transactions that overlap: the issues, their transitions and slices,    *)
(* the sprints and their members; and the weekly cycle that erases the     *)
(* assignees whose Atlassian accounts were closed.                         *)
(*                                                                         *)
(* An ingest is one transaction of Postgres at READ COMMITTED: a statement *)
(* sees what was committed when it began; a write of a row another         *)
(* transaction has written waits for that transaction; a second insert of  *)
(* a key fails.  After a failed statement the transaction can only be      *)
(* rolled back: the request is poisoned.  The ORM writes of a row it has   *)
(* loaded the columns that changed, and nothing if none did.               *)
(*                                                                         *)
(* Every ingest of an issue builds its transitions and its slices anew; a  *)
(* batch is what one build inserted into one of the two tables.            *)
(***************************************************************************)
EXTENDS Integers, Sequences, FiniteSetsExt, SequencesExt

CONSTANTS
  Issues,
  SprintIds,
  Accounts,    \* account ids: numbers, in the order of the cursor
  History,     \* per issue: its versions, with moves, sprints, those of the
               \* sprints before the first that cannot be parsed, and account
  Slots,       \* requests the server handles at once
  PageSize,    \* accounts in a page of the resolver
  EraseLimit,  \* accounts in one call of /erase
  MaxWork,     \* bound: ingests and cycles of the resolver together
  Null

ASSUME SiteDataAssumption ==
  /\ IsFiniteSet(Issues) /\ IsFiniteSet(Slots) /\ Accounts \subseteq Nat \ {0}
  /\ PageSize \in Nat \ {0} /\ EraseLimit \in Nat
  /\ MaxWork \in Nat
  /\ History \in [Issues -> Seq([moves : Nat, sprints : SUBSET SprintIds,
                                 parsed : SUBSET SprintIds,
                                 account : Accounts \cup {Null}])]
  /\ \A i \in Issues : \A n \in DOMAIN History[i] :
       History[i][n].parsed \subseteq History[i][n].sprints
  /\ Null \notin Accounts
  /\ Null \notin {"active", "closed", "row", "transitions", "sprint", "members"}
  /\ Null \notin [updated : Nat, account : Accounts \cup {Null}]

VARIABLES
  jira,     \* per issue: its current version, 0 before it is created
  ended,    \* sprints closed in Jira
  row,      \* per issue: the stored issue, Null if there is none
  batches,  \* the rows of transitions and time_slices, by build
  sprints,  \* per sprint: the state of its row, Null if there is none
  members,  \* issue_sprints
  req,      \* per slot: the request and its transaction
  eraser,   \* the personal-data resolver
  raised,   \* history: issues whose last stored ingest raised
  loose,    \* history: issues whose last stored build no lock kept apart
  fresh,    \* history: issues whose account an ingest wrote in this cycle
  lost,     \* history: what requests were lost to
  spent     \* ingests and cycles begun

world == <<jira, ended>>
tables == <<row, batches, sprints, members>>
vars == <<world, tables, req, eraser, raised, loose, fresh, lost, spent>>

-----------------------------------------------------------------------------

Tables == {"transitions", "slices"}
States == {"active", "closed"}
Steps == {"idle", "check", "load", "upsert", "transitions", "replacing", "slices",
          "reslicing", "sprints", "inserting", "finish"}

Rows == [updated : Nat, account : Accounts \cup {Null}]
Batch == [issue : Issues, table : Tables, updated : Nat, moves : Nat, tag : Nat]
Payload == {p \in [issue : Issues, updated : Nat, ended : SUBSET SprintIds] :
              p.updated \in DOMAIN History[p.issue]}

Nothing(S) == [x \in S |-> Null]

Idle == [kind |-> "webhook", at |-> "idle",
         todo |-> <<>>,               \* payloads not yet processed
         loaded |-> Null,             \* the row as the session loaded it
         snapshot |-> {},             \* what a DELETE saw when it began
         rows |-> Nothing(Issues),    \* flushed issues
         wrote |-> {},                \* those whose account was written
         dead |-> {}, new |-> {},     \* batches deleted and inserted
         held |-> Nothing(SprintIds), \* flushed sprints
         dirty |-> Nothing(SprintIds),\* changed sprints, not yet flushed
         absent |-> {},               \* sprints the session did not find
         joins |-> {}, leaves |-> {}, \* memberships
         stored |-> {},               \* payloads processed to their end
         raised |-> {},               \* issues whose processing raised
         bare |-> {},                 \* issues whose row it did not write
         loose |-> {},                \* issues another one worked on as well
         errors |-> FALSE,            \* the report has errors
         poisoned |-> Null]           \* what failed in the database

Causes == {"row", "transitions", "sprint", "members"}

Requests ==
  [kind : {"webhook", "bulk"}, at : Steps, todo : Seq(Payload), loaded : Rows \cup {Null},
   snapshot : SUBSET Batch, rows : [Issues -> Rows \cup {Null}], wrote : SUBSET Issues,
   dead : SUBSET Batch, new : SUBSET Batch,
   held : [SprintIds -> States \cup {Null}], dirty : [SprintIds -> States \cup {Null}],
   absent : SUBSET SprintIds, joins : SUBSET (Issues \X SprintIds),
   leaves : SUBSET (Issues \X SprintIds), stored : SUBSET Payload,
   raised : SUBSET Issues, bare : SUBSET Issues, loose : SUBSET Issues,
   errors : BOOLEAN, poisoned : Causes \cup {Null}]

Resting == [at |-> "idle", cursor |-> 0, found |-> {}, shut |-> {}, erasing |-> {},
            target |-> {}]

Cycles == [at : {"idle", "fetch", "report", "erase", "erasing", "done"},
           cursor : Accounts \cup {0}, found : SUBSET Accounts, shut : SUBSET Accounts,
           erasing : SUBSET Accounts, target : SUBSET Issues]

Init ==
  /\ jira = [i \in Issues |-> 0] /\ ended = {}
  /\ row = Nothing(Issues) /\ batches = {}
  /\ sprints = Nothing(SprintIds) /\ members = {}
  /\ req = [s \in Slots |-> Idle]
  /\ eraser = Resting
  /\ raised = {} /\ loose = {} /\ fresh = {} /\ lost = {}
  /\ spent = 0

-----------------------------------------------------------------------------
(* Jira. *)

Created == {i \in Issues : jira[i] > 0}

IssueChanges(i) ==
  /\ jira[i] < Len(History[i])
  /\ jira' = [jira EXCEPT ![i] = @ + 1]
  /\ UNCHANGED <<ended, tables, req, eraser, raised, loose, fresh, lost, spent>>

SprintEnds(x) ==
  /\ x \notin ended /\ \E i \in Created : x \in History[i][jira[i]].sprints
  /\ ended' = ended \cup {x}
  /\ UNCHANGED <<jira, tables, req, eraser, raised, loose, fresh, lost, spent>>

-----------------------------------------------------------------------------
(* An ingest begins: a webhook's, of one issue, or a bulk ingest of all.   *)

Fetched(i) == [issue |-> i, updated |-> jira[i], ended |-> ended]

Receive(s, kind, payloads) ==
  /\ req[s].at = "idle" /\ payloads # <<>>
  /\ spent < MaxWork
  /\ spent' = spent + 1
  /\ req' = [req EXCEPT ![s] = [Idle EXCEPT !.kind = kind, !.at = "check", !.todo = payloads]]
  /\ UNCHANGED <<world, tables, eraser, raised, loose, fresh, lost>>

Webhook(s) ==
  \E i \in Created : Receive(s, "webhook", <<Fetched(i)>>)

Bulk(s) ==
  LET all == SetToSeq(Created)
  IN Receive(s, "bulk", [k \in DOMAIN all |-> Fetched(all[k])])

-----------------------------------------------------------------------------
(* The request of a slot. *)

Others(s) == Slots \ {s}
Current(s) == Head(req[s].todo)
About(s) == Current(s).issue
Version(s) == History[About(s)][Current(s).updated]

(* The request goes on with its next payload. *)
Turned(r) ==
  [r EXCEPT !.at = IF Len(r.todo) = 1 THEN "finish" ELSE "check",
            !.todo = Tail(@), !.loaded = Null, !.snapshot = {}, !.absent = {}]

(* A mistake: the handler of the failed insert rolls the session back and  *)
(* goes on.                                                                 *)
Poisoned_RolledBack(r, cause) ==
  [Turned(r) EXCEPT !.rows = Nothing(Issues), !.wrote = {}, !.dead = {}, !.new = {},
                    !.held = Nothing(SprintIds), !.joins = {}, !.leaves = {},
                    !.stored = @ \cup {Head(r.todo)}]

(* A statement failed: every later one of the transaction fails as well. *)
Poisoned(r, cause) == [r EXCEPT !.at = "finish", !.todo = <<>>, !.poisoned = cause,
                                !.loaded = Null, !.snapshot = {}, !.absent = {}]

Proceeds(s, r) ==
  /\ req' = [req EXCEPT ![s] = r]
  /\ UNCHANGED <<world, tables, eraser, raised, loose, fresh, lost, spent>>

(* skip_if_stale.  A row that is found stays loaded; if there is none, the *)
(* upsert looks again.                                                      *)
Check(s) ==
  LET r == req[s]
      found == row[About(s)]
      stale == IF found = Null THEN FALSE ELSE found.updated >= Current(s).updated
  IN /\ r.at = "check"
     /\ Proceeds(s, IF r.kind = "webhook" /\ stale THEN Turned(r)
                    ELSE [r EXCEPT !.loaded = found,
                                   !.at = IF found = Null THEN "load" ELSE "upsert"])

Load(s) ==
  /\ req[s].at = "load"
  /\ Proceeds(s, [req[s] EXCEPT !.loaded = row[About(s)], !.at = "upsert"])

Flushed(r) ==
  [r EXCEPT !.held = [x \in SprintIds |-> IF r.dirty[x] # Null THEN r.dirty[x] ELSE @[x]],
            !.dirty = Nothing(SprintIds)]

(* No other transaction has written the sprints this one has to write. *)
CanFlush(s) ==
  \A x \in SprintIds : req[s].dirty[x] # Null =>
    \A o \in Others(s) : req[o].held[x] = Null

(* The row an UPDATE of the changed columns leaves. *)
Written(s) ==
  LET loaded == req[s].loaded
      now == row[About(s)]
      sent == [updated |-> Current(s).updated, account |-> Version(s).account]
  IN IF loaded = Null THEN sent
     ELSE [updated |-> IF sent.updated = loaded.updated THEN now.updated ELSE sent.updated,
           account |-> IF sent.account = loaded.account THEN now.account ELSE sent.account]

Changes(s) ==
  LET loaded == req[s].loaded
  IN loaded = Null \/ loaded # [updated |-> Current(s).updated,
                                account |-> Version(s).account]

(* Another request works on the issue, and this one, or that one, has not  *)
(* written its row; or this one leaves the row the version it loaded, and   *)
(* it has another by now.                                                   *)
Loose(s) ==
  LET i == About(s)
      loaded == req[s].loaded
      bare == ~Changes(s)
  IN \/ \E o \in Others(s) : i \in req[o].bare \/ (bare /\ req[o].rows[i] # Null)
     \/ /\ loaded # Null /\ loaded.updated = Current(s).updated
        /\ row[i].updated # loaded.updated

(* Those that learn of it: the request and the ones beside it. *)
Noted(s, r) ==
  [o \in Slots |->
     IF o = s THEN IF Loose(s) THEN [r EXCEPT !.loose = @ \cup {About(s)}] ELSE r
     ELSE IF Loose(s) /\ (About(s) \in req[o].bare \/ req[o].rows[About(s)] # Null)
            THEN [req[o] EXCEPT !.loose = @ \cup {About(s)}] ELSE req[o]]

(* A mistake: the first flush is left out; nothing waits for a lock before  *)
(* the commit writes the row.                                               *)
Upsert_Unflushed(s) ==
  LET sends == IF req[s].loaded = Null THEN TRUE ELSE req[s].loaded.account # Version(s).account
  IN /\ req[s].at = "upsert" /\ CanFlush(s)
     /\ Proceeds(s, [Flushed(req[s]) EXCEPT
          !.rows[About(s)] = Written(s), !.at = "transitions",
          !.wrote = IF sends THEN @ \cup {About(s)} ELSE @])

(* upsert_issue_from_payload and its flush. *)
Upsert(s) ==
  LET r == req[s]
      i == About(s)
      sends == IF r.loaded = Null THEN TRUE ELSE r.loaded.account # Version(s).account
  IN /\ r.at = "upsert" /\ CanFlush(s)
     /\ Changes(s) => \A o \in Others(s) : req[o].rows[i] = Null
     /\ IF r.loaded = Null /\ row[i] # Null
          THEN req' = [req EXCEPT ![s] = Poisoned([r EXCEPT !.errors = TRUE], "row")]
          ELSE req' = Noted(s, [Flushed(r) EXCEPT
                        !.rows[i] = IF Changes(s) THEN Written(s) ELSE @,
                        !.bare = IF Changes(s) THEN @ ELSE @ \cup {i},
                        !.wrote = IF sends THEN @ \cup {i} ELSE @,
                        !.at = "transitions"])
     /\ UNCHANGED <<world, tables, eraser, raised, loose, fresh, lost, spent>>

-----------------------------------------------------------------------------
(* The batches of the issue, each table deleted and written anew. *)

Of(i, table) == {b \in batches : b.issue = i /\ b.table = table}

(* What the transaction sees of them. *)
Seen(s, table) ==
  (Of(About(s), table) \ req[s].dead)
  \cup {b \in req[s].new : b.issue = About(s) /\ b.table = table}

(* A DELETE begins: the rows it sees are those it will delete. *)
BeginDelete(s, table, before, after) ==
  /\ req[s].at = before
  /\ Proceeds(s, [req[s] EXCEPT !.snapshot = Of(About(s), table), !.at = after])

(* It ends when no other transaction is deleting any of them; rows that    *)
(* are gone by then it does not miss, rows that came it does not see.       *)
Deletable(s) == \A o \in Others(s) : req[o].dead \cap req[s].snapshot = {}
Deleted(s) == req[s].dead \cup (req[s].snapshot \cap batches)

Unused ==
  LET used == {b.tag : b \in batches \cup UNION {req[s].new \cup req[s].snapshot : s \in Slots}}
  IN CHOOSE t \in 1..(Cardinality(used) + 1) : t \notin used

BeginTransitions(s) == BeginDelete(s, "transitions", "transitions", "replacing")

(* uq_transition_dedupe: any two builds of an issue that has moved share a *)
(* transition.                                                              *)
Clashes(s) ==
  \E b \in Of(About(s), "transitions") \ Deleted(s) : b.moves > 0 /\ Version(s).moves > 0

ReplaceTransitions(s) ==
  LET r == req[s]
      i == About(s)
      built == [issue |-> i, table |-> "transitions", updated |-> 0,
                moves |-> Version(s).moves, tag |-> Unused]
  IN /\ r.at = "replacing" /\ Deletable(s)
     /\ Version(s).moves > 0 => \A o \in Others(s) : \A b \in req[o].new :
                                  b.issue = i => b.table = "slices"
     /\ Proceeds(s, IF Clashes(s) THEN Poisoned([r EXCEPT !.errors = TRUE], "transitions")
                    ELSE [r EXCEPT !.dead = Deleted(s), !.snapshot = {}, !.at = "slices",
                                   !.new = IF built.moves = 0 THEN @ ELSE @ \cup {built}])

(* build_time_slices raises: the payload counts as an error, what was      *)
(* flushed of it stays.                                                     *)
Raise(s) ==
  /\ req[s].at = "slices"
  /\ Proceeds(s, [Turned(req[s]) EXCEPT !.errors = TRUE, !.raised = @ \cup {About(s)}])

BeginSlices(s) == BeginDelete(s, "slices", "slices", "reslicing")

(* The slices are those of the issue in the session and of the transitions *)
(* it sees.  Nothing keeps two batches of slices apart.                     *)
ReplaceSlices(s) ==
  LET r == req[s]
      moves == {b.moves : b \in Seen(s, "transitions")}
      built == [issue |-> About(s), table |-> "slices", updated |-> Current(s).updated,
                moves |-> Max(moves \cup {0}), tag |-> Unused]
  IN /\ r.at = "reslicing" /\ Deletable(s)
     /\ Proceeds(s, [r EXCEPT !.dead = Deleted(s), !.snapshot = {}, !.at = "sprints",
                              !.new = @ \cup {built}])

-----------------------------------------------------------------------------
(* The sprints of the issue. *)

StateOf(s, x) == IF x \in Current(s).ended THEN "closed" ELSE "active"

MembersOf(i) == {m \in members : m[1] = i}

Known(s, x) ==
  IF req[s].dirty[x] # Null THEN req[s].dirty[x]
  ELSE IF req[s].held[x] # Null THEN req[s].held[x] ELSE sprints[x]

(* Every sprint of the version can be parsed: a board id that is no number *)
(* or a date that is no date raises in Python, at the sprint that has it.   *)
Parses(i, n) == History[i][n].parsed = History[i][n].sprints

Processed(r, s) == [r EXCEPT !.stored = @ \cup {Current(s)}]

(* A mistake: the memberships are set to the sprints before the exception. *)
Joined_Partly(r, s) ==
  LET i == About(s)
      target == {<<i, x>> : x \in Version(s).parsed}
      existing == MembersOf(i)
  IN [Processed(r, s) EXCEPT !.joins = @ \cup (target \ existing),
                             !.leaves = @ \cup (existing \ target)]

(* set_issue_sprints.  An exception of a sprint before it is swallowed: the *)
(* memberships stay, the payload counts as processed.                       *)
Joined(r, s) ==
  LET i == About(s)
      target == {<<i, x>> : x \in Version(s).sprints}
      existing == MembersOf(i)
  IN IF Parses(i, Current(s).updated)
       THEN [Processed(r, s) EXCEPT !.joins = @ \cup (target \ existing),
                                    !.leaves = @ \cup (existing \ target)]
       ELSE Processed(r, s)

(* upsert_sprint finds the sprint, or does not; those after one that cannot *)
(* be parsed it never sees.                                                 *)
FindSprints(s) ==
  LET r == req[s]
      missing == {x \in Version(s).parsed : Known(s, x) = Null}
      changed == {x \in Version(s).parsed \ missing : Known(s, x) # StateOf(s, x)}
      found == [r EXCEPT !.dirty = [x \in SprintIds |->
                  IF x \in changed THEN StateOf(s, x) ELSE @[x]]]
  IN /\ r.at = "sprints"
     /\ Proceeds(s, IF missing = {} THEN Turned(Joined(found, s))
                    ELSE [found EXCEPT !.absent = missing, !.at = "inserting"])

(* One it does not find it inserts.  If another ingest has inserted it in  *)
(* the meantime the error is logged and swallowed, in a transaction that   *)
(* can no longer commit.                                                    *)
InsertSprints(s) ==
  LET r == req[s]
  IN /\ r.at = "inserting" /\ CanFlush(s)
     /\ \A x \in r.absent : \A o \in Others(s) : req[o].held[x] = Null
     /\ Proceeds(s, IF \E x \in r.absent : sprints[x] # Null THEN Poisoned(r, "sprint")
                    ELSE Turned(Joined([Flushed(r) EXCEPT !.held = [x \in SprintIds |->
                           IF x \in r.absent THEN StateOf(s, x) ELSE @[x]]], s)))

-----------------------------------------------------------------------------
(* The metrics of the touched issues, which read the database and so raise *)
(* if the transaction is poisoned; then the commit.                         *)

Ends(s, why) ==
  /\ req' = [req EXCEPT ![s] = Idle]
  /\ lost' = lost \cup why
  /\ UNCHANGED <<world, eraser, spent>>

Refused(s) == req[s].joins \cap members # {}

Fail(s) ==
  /\ req[s].at = "finish" /\ CanFlush(s)
  /\ req[s].poisoned # Null \/ Refused(s)
  /\ Ends(s, {IF req[s].poisoned # Null THEN req[s].poisoned ELSE "members"})
  /\ UNCHANGED <<tables, raised, loose, fresh>>

Commit(s) ==
  LET r == Flushed(req[s])
      rebuilt == {b.issue : b \in {n \in r.new : n.table = "slices"}}
  IN /\ req[s].at = "finish" /\ CanFlush(s)
     /\ r.poisoned = Null /\ ~Refused(s)
     /\ row' = [i \in Issues |-> IF r.rows[i] # Null THEN r.rows[i] ELSE row[i]]
     /\ batches' = (batches \ r.dead) \cup r.new
     /\ sprints' = [x \in SprintIds |-> IF r.held[x] # Null THEN r.held[x] ELSE sprints[x]]
     /\ members' = (members \ r.leaves) \cup r.joins
     /\ raised' = (raised \ rebuilt) \cup r.raised
     /\ loose' = (loose \ rebuilt) \cup r.loose
     /\ fresh' = IF eraser.at = "idle" THEN fresh ELSE fresh \cup r.wrote
     /\ Ends(s, {})

(* The process dies, or the database breaks a deadlock at the expense of   *)
(* the request.                                                             *)
Abort(s) ==
  /\ req[s].at # "idle"
  /\ Ends(s, {})
  /\ UNCHANGED <<tables, raised, loose, fresh>>

-----------------------------------------------------------------------------
(* The weekly cycle: the resolver collects the accounts of the site page   *)
(* by page, asks Atlassian which are closed, and has those erased.         *)

StartCycle ==
  /\ eraser.at \in {"idle", "done"} /\ spent < MaxWork
  /\ \E closed \in (SUBSET Accounts) \ {{}} :
       eraser' = [Resting EXCEPT !.at = "fetch", !.shut = closed]
  /\ fresh' = {}
  /\ spent' = spent + 1
  /\ UNCHANGED <<world, tables, req, raised, loose, lost>>

Stored == {i \in Issues : row[i] # Null}
Assignees == {row[i].account : i \in Stored} \ {Null}

CycleStep(e) ==
  /\ eraser' = e
  /\ UNCHANGED <<world, tables, req, raised, loose, fresh, lost, spent>>

After(cursor) == {c \in Assignees : c > cursor}

(* The first of a set of accounts, in their order. *)
FirstOf(accounts, n) == {c \in accounts : Cardinality({d \in accounts : d < c}) < n}

(* A mistake: the cursor is the account beyond the page. *)
PageAfter_Skipping(cursor) ==
  LET after == After(cursor)
  IN [accounts |-> FirstOf(after, PageSize),
      next |-> IF Cardinality(after) > PageSize THEN Max(FirstOf(after, PageSize + 1)) ELSE Null]

(* list_accounts: the accounts after the cursor, a page and one more. *)
PageAfter(cursor) ==
  LET after == After(cursor)
      page == FirstOf(after, PageSize)
  IN [accounts |-> page,
      next |-> IF Cardinality(after) > PageSize THEN Max(page) ELSE Null]

FetchPage ==
  LET page == PageAfter(eraser.cursor)
  IN /\ eraser.at = "fetch"
     /\ CycleStep([eraser EXCEPT !.found = @ \cup page.accounts,
                                 !.cursor = IF page.next = Null THEN 0 ELSE page.next,
                                 !.at = IF page.next = Null THEN "report" ELSE "fetch"])

Report ==
  /\ eraser.at = "report"
  /\ CycleStep([eraser EXCEPT !.erasing = @ \cup (eraser.found \cap eraser.shut),
                              !.found = {}, !.at = "erase"])

(* /erase: the rows the UPDATE sees. *)
EraseBegin ==
  LET accounts == eraser.erasing
  IN /\ eraser.at = "erase" /\ Cardinality(accounts) <= EraseLimit
     /\ CycleStep([eraser EXCEPT !.at = IF accounts = {} THEN "done" ELSE "erasing",
                                 !.target = {i \in Stored : row[i].account \in accounts}])

(* A mistake: the names are emptied instead of set to NULL. *)
EraseEnd_Empty ==
  /\ eraser.at = "erasing"
  /\ row' = [i \in Issues |->
               IF i \in eraser.target THEN [row[i] EXCEPT !.account = 0] ELSE row[i]]
  /\ eraser' = [eraser EXCEPT !.at = "done", !.target = {}]
  /\ UNCHANGED <<world, batches, sprints, members, req, raised, loose, fresh, lost, spent>>

(* It waits for those an ingest has written, and looks at them again. *)
EraseEnd ==
  /\ eraser.at = "erasing"
  /\ \A i \in eraser.target, s \in Slots : req[s].rows[i] = Null
  /\ row' = [i \in Issues |->
               IF i \in eraser.target /\ row[i].account \in eraser.erasing
                 THEN [row[i] EXCEPT !.account = Null] ELSE row[i]]
  /\ eraser' = [eraser EXCEPT !.at = "done", !.target = {}]
  /\ UNCHANGED <<world, batches, sprints, members, req, raised, loose, fresh, lost, spent>>

(* A call fails, /erase refuses a list that is too long, or the invocation *)
(* is killed: the cycle ends, the next one begins anew.                     *)
CycleFails ==
  /\ eraser.at \notin {"idle", "done"}
  /\ eraser' = Resting /\ fresh' = {}
  /\ UNCHANGED <<world, tables, req, raised, loose, lost, spent>>

-----------------------------------------------------------------------------

Process(s) ==
  \/ Check(s) \/ Load(s) \/ Upsert(s)
  \/ BeginTransitions(s) \/ ReplaceTransitions(s)
  \/ Raise(s) \/ BeginSlices(s) \/ ReplaceSlices(s)
  \/ FindSprints(s) \/ InsertSprints(s)

Next ==
  \/ \E i \in Issues : IssueChanges(i)
  \/ \E x \in SprintIds : SprintEnds(x)
  \/ \E s \in Slots : Webhook(s) \/ Bulk(s) \/ Process(s)
                       \/ Fail(s) \/ Commit(s) \/ Abort(s)
  \/ StartCycle \/ FetchPage \/ Report \/ EraseBegin \/ EraseEnd \/ CycleFails

Spec == Init /\ [][Next]_vars

-----------------------------------------------------------------------------

(* Every table holds rows of its kind, and every request and cycle is one.  *)
TypeOK ==
  /\ jira \in [Issues -> Nat] /\ ended \subseteq SprintIds
  /\ \A i \in Issues : jira[i] \in 0..Len(History[i])
  /\ row \in [Issues -> Rows \cup {Null}] /\ batches \subseteq Batch
  /\ sprints \in [SprintIds -> States \cup {Null}]
  /\ members \subseteq Issues \X SprintIds
  /\ req \in [Slots -> Requests] /\ eraser \in Cycles
  /\ raised \subseteq Issues /\ loose \subseteq Issues /\ fresh \subseteq Issues
  /\ lost \subseteq Causes /\ spent \in Nat

(* The transitions and the slices of a stored issue are those of one       *)
(* build, of the version its row holds: ingests that write the row cannot   *)
(* leave the children of two versions, or of none, because the flush at     *)
(* ingestion_service.py:263 locks it until they commit.  Excepted are the    *)
(* version whose build raised, which the answer counts as an error, and     *)
(* builds beside an ingest that found the row unchanged and took no lock, or *)
(* that left the row a version it had not loaded.                            *)
ChildrenAreOneBuild ==
  \A i \in Stored \ (raised \cup loose) :
    LET moves == History[i][row[i].updated].moves
    IN /\ \E b \in Of(i, "slices") : /\ Of(i, "slices") = {b}
                                      /\ b.updated = row[i].updated /\ b.moves = moves
       /\ {b.moves : b \in Of(i, "transitions")} = {moves} \ {0}
       /\ Cardinality(Of(i, "transitions")) <= 1

(* An answer without errors is true: every payload the ingest processed is  *)
(* stored when it is sent (forge_sync.py:306), with the sprints it named if  *)
(* all of them can be parsed; if not, with the memberships it had before,    *)
(* since sprints are best-effort (ingestion_service.py:275) but never half   *)
(* replaced.  Excepted are issues another ingest overlapped without a lock.  *)
AnswerIsTrue ==
  \A s \in Slots : Commit(s) /\ ~req[s].errors =>
    \A p \in {q \in req[s].stored : q.issue \notin loose'} :
      /\ row'[p.issue] # Null /\ row'[p.issue].updated = p.updated
      /\ IF Parses(p.issue, p.updated)
           THEN {m[2] : m \in MembersOf(p.issue)'} = History[p.issue][p.updated].sprints
           ELSE MembersOf(p.issue)' = MembersOf(p.issue)

AnswerMeansStored == [][AnswerIsTrue]_vars

(* After a cycle that ended, no issue names an account that was closed when *)
(* it began, but those an ingest wrote in the meantime (personal-data.ts:   *)
(* 131; the paging of personal_data.py:76 skips none).                       *)
ClosedAccountsAreErased ==
  eraser.at = "done" =>
    \A i \in Stored \ fresh : row[i].account \notin eraser.shut

(* ingestion_service.py:275-276: "Failures here don't break the issue       *)
(* ingest; sprint awareness is best-effort per issue."  Not kept: an insert *)
(* that fails leaves the transaction unable to commit.                       *)
SprintsAreBestEffort == "sprint" \notin lost

=============================================================================
