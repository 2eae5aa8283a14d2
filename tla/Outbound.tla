------------------------------ MODULE Outbound ------------------------------
(***************************************************************************)
(* What the backend sends out of the site: messages to Slack and Teams     *)
(* webhooks, mails through Resend, and the links in them.                  *)
(*                                                                         *)
(* The answer to an HTTP request is its status, or 0 if there is none: the *)
(* network failed or the time ran out.  A process holds the API key it has *)
(* fetched once; an environment is what it finds around it when it sends.  *)
(***************************************************************************)
EXTENDS Integers, Sequences, FiniteSets

CONSTANT Null

-----------------------------------------------------------------------------
(* Slack and Teams. *)

NoAnswer == 0
Transient(answer) == answer = NoAnswer \/ answer >= 500
Accepted(answer) == answer # NoAnswer /\ answer < 300

(* post_webhook: a second request if the first failed for a reason that    *)
(* may pass; the result is that of the last request.                        *)
Requested(answers) == IF Transient(answers[1]) THEN <<answers[1], answers[2]>> ELSE <<answers[1]>>
PostWebhook(answers) ==
  LET made == Requested(answers) IN Accepted(made[Len(made)])

-----------------------------------------------------------------------------
(* Mail. *)

Secrets == {"unset", "unreadable", "empty", "placeholder", "old key", "new key"}
Keys == {"old key", "new key"}
Environments == [enabled : BOOLEAN, dryRun : BOOLEAN, secret : Secrets,
                 accepted : SUBSET Keys, answered : BOOLEAN]

(* _ensure_initialized: the key a process holds after it tried to send;    *)
(* a failure is not remembered, a key is for good.                          *)
Initialized(key, env) ==
  IF key # Null THEN key ELSE IF env.secret \in Keys THEN env.secret ELSE Null

(* _send_email: the key held afterwards, whether the caller is told that   *)
(* the mail is out, and whether it is: an answer may get lost.              *)
SendEmail(key, env) ==
  IF ~env.enabled THEN [key |-> key, ok |-> FALSE, out |-> FALSE]
  ELSE IF env.dryRun THEN [key |-> key, ok |-> TRUE, out |-> FALSE]
  ELSE LET held == Initialized(key, env)
           taken == held \in env.accepted
       IN [key |-> held, ok |-> taken /\ env.answered, out |-> taken]

(* _deliver: an alert's message to one destination.  [type, target]        *)
Delivers(dest, key, env, answers) ==
  IF dest.target = Null THEN FALSE
  ELSE IF dest.type = "email" THEN SendEmail(key, env).ok
  ELSE PostWebhook(answers)

-----------------------------------------------------------------------------
(* The site's address.  An address is friendly, opaque (cloud-uuid) or     *)
(* some other text; Null stands for none.                                   *)

Addresses == {"friendly", "renamed", "opaque", "other", "blank"}

(* The dashboard's resolver pushes what its context holds on every mount.  *)
(* PUT /display-url *)
SetDisplay(tenant, url, env) ==
  [tenant EXCEPT
     !.displayUrl = IF url \in {Null, "blank", "opaque", "other"} THEN @ ELSE url,
     !.envId = IF env \in {Null, "blank"} THEN @ ELSE env]

(* PUT /admin-email: an empty address clears it. *)
SetAdminEmail(tenant, email) ==
  [tenant EXCEPT !.admin = IF email = "blank" THEN Null ELSE email]

SiteUrl(tenant) ==
  IF tenant.displayUrl # Null THEN tenant.displayUrl
  ELSE IF tenant.baseUrl # Null THEN tenant.baseUrl ELSE "atlassian"

TicketUrl(tenant, key) ==
  IF key = Null THEN Null ELSE [site |-> SiteUrl(tenant), page |-> "ticket", of |-> key]

(* project_dashboard_url; settings_url is the same. *)
DashboardUrl(tenant, project, appId) ==
  [site |-> SiteUrl(tenant), of |-> project,
   page |-> IF project = Null THEN "jira"
            ELSE IF appId # Null /\ tenant.envId # Null THEN "app" ELSE "boards"]

(* pick_primary_project_key: the project with the most issues, of several  *)
(* the first.  projects: one entry per issue; Null if it has none.          *)
PrimaryProject(projectOf) ==
  LET named == {projectOf[i] : i \in DOMAIN projectOf} \ {Null}
      count == [p \in named |-> Cardinality({i \in DOMAIN projectOf : projectOf[i] = p})]
      first == {p \in named : \A q \in named :
                  count[q] < count[p] \/ (count[q] = count[p] /\ p <= q)}
  IN IF named = {} THEN Null ELSE CHOOSE p \in first : TRUE

-----------------------------------------------------------------------------
(* The mails of the backfill. *)

HardCap == 50000

(* _classify_failure_mode, of the words the error contains. *)
FailureMode(words) ==
  IF words = {} THEN "unknown"
  ELSE IF "429" \in words \/ {"rate", "limit"} \subseteq words THEN "rate_limit"
  ELSE IF words \cap {"401", "403", "unauthorized", "forbidden"} # {} THEN "auth"
  ELSE IF words \cap {"500", "502", "503", "504"} # {} THEN "jira_5xx"
  ELSE IF words \cap {"timeout", "network", "connection"} # {} THEN "network"
  ELSE IF words \cap {"queue", "consumer", "forge"} # {} THEN "platform"
  ELSE "unknown"

Mail(tenant, kind, why, link) ==
  IF tenant.admin = Null THEN {}
  ELSE {[to |-> tenant.admin, kind |-> kind, why |-> why, link |-> link]}

(* fire_terminal_state_email: the mails it attempts, none or one. *)
TerminalMails(tenant, projectOf, appId) ==
  LET link == DashboardUrl(tenant, PrimaryProject(projectOf), appId)
  IN CASE tenant.status = "completed" /\ tenant.processed >= HardCap ->
            Mail(tenant, "cap", Null, Null)
       [] tenant.status = "completed" /\ tenant.processed < HardCap ->
            Mail(tenant, "completion", Null, link)
       [] tenant.status = "failed" ->
            Mail(tenant, "failure", FailureMode(tenant.error), link)
       [] OTHER -> {}

=============================================================================
