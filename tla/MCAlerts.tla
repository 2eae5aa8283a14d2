------------------------------ MODULE MCAlerts ------------------------------
(* Instances of Alerts for TLC: the rule of the daily tier goes to its own *)
(* destination, the other to the tenant's default.                         *)
EXTENDS Alerts, Sequences, TLC

CONSTANTS hourly, daily, chat, mail

MCBindings ==
  (daily :> [dests |-> {chat}, cooldown |-> 0]) @@
  (hourly :> [dests |-> {}, cooldown |-> None])

MCChoices ==
  {[dests |-> {chat, mail}, cooldown |-> 0], [dests |-> {}, cooldown |-> None]}

(* No operator tells one subject from another. *)
Alike == Permutations(Subjects)

-----------------------------------------------------------------------------
(* What goes out. *)

Out == INSTANCE Outbound WITH Null <- None

Answers == {0, 200, 302, 404, 503}

(* A message counts as delivered iff the last request made was accepted; a  *)
(* second is made iff the first had no answer or a server error, and never  *)
(* a third (webhook_dispatcher.py:63).  A first request that was taken but   *)
(* not answered in time is so posted twice.                                  *)
ASSUME OneRetry ==
  \A answers \in Answers \X Answers :
    LET made == Out!Requested(answers)
    IN /\ Len(made) = 2 <=> answers[1] \in {0, 503}
       /\ Out!PostWebhook(answers) <=> 200 \in {made[k] : k \in DOMAIN made}

(* A process sends two mails, the environment changing in between.           *)
TwoMails(e, f) ==
  LET one == Out!SendEmail(None, e) IN <<one, Out!SendEmail(one.key, f)>>

(* Unless it is a dry run, a mail reported as sent is out; the other way      *)
(* round only if Resend's answer arrives.  A failed fetch of the key is       *)
(* repeated, a key that was fetched is never fetched again, also if it has    *)
(* been replaced since (resend_service.py:78).                                *)
ASSUME MailsAreReported ==
  \A e, f \in Out!Environments :
    LET mails == TwoMails(e, f)
    IN /\ (~f.dryRun /\ mails[2].ok) => mails[2].out
       /\ (~f.dryRun /\ f.answered) => (mails[2].ok <=> mails[2].out)
       /\ mails[1].key # None => mails[2].key = mails[1].key
       /\ (mails[1].key = None /\ f.enabled /\ ~f.dryRun /\ f.secret \in f.accepted) => mails[2].out

Tenants ==
  [displayUrl : {None, "friendly", "renamed"}, baseUrl : {None, "opaque"},
   envId : {None, "env"}, admin : {None, "admin"},
   status : {"not_started", "running", "completed", "failed"},
   processed : {0, Out!HardCap - 1, Out!HardCap}, error : {{}, {"429"}, {"timeout", "500"}}]

(* The opaque address is never stored as the one to show, and a tenant with  *)
(* one to show never mails a link to another (url_helpers.py:97, the bug of   *)
(* 2026-06-08); what the dashboard did not know does not erase what it knew.  *)
ASSUME LinksAreFriendly ==
  \A t \in Tenants, url \in Out!Addresses \cup {None}, env \in {None, "blank", "env"} :
    LET after == Out!SetDisplay(t, url, env)
    IN /\ after.displayUrl # "opaque"
       /\ t.displayUrl # None => /\ after.displayUrl # None
                                 /\ Out!DashboardUrl(after, 1, "app").site # "opaque"
                                 /\ Out!TicketUrl(after, "T-1").site = after.displayUrl
       /\ t.envId # None => after.envId # None
       /\ Out!DashboardUrl(after, None, "app").page = "jira"

Projects == [1..3 -> {None, 1, 2}]

(* A backfill that ended mails the administrator once, if there is one, and   *)
(* says at the cap that it was capped (resend_service.py:457); the link is    *)
(* to a project no other has more issues than.                                *)
ASSUME OneMailAtTheEnd ==
  \A t \in Tenants : \A projects \in {[k \in 1..3 |-> None], <<1, 2, 2>>, <<2, 1, None>>} :
    LET mails == Out!TerminalMails(t, projects, "app")
    IN /\ Cardinality(mails) = IF t.admin # None /\ t.status \in {"completed", "failed"} THEN 1 ELSE 0
       /\ \A x \in mails : (x.kind = "cap") <=> (t.status = "completed" /\ t.processed >= Out!HardCap)

ASSUME PrimaryIsLargest ==
  \A projects \in Projects :
    LET p == Out!PrimaryProject(projects)
        n(q) == Cardinality({k \in 1..3 : projects[k] = q})
    IN p # None => \A q \in {1, 2} : n(q) < n(p) \/ (n(q) = n(p) /\ p <= q)

=============================================================================
