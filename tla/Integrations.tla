----------------------------- MODULE Integrations -----------------------------
(***************************************************************************)
(* The GitHub App and GitLab integrations: an administrator installs the   *)
(* app (application/githubintegration/service.go), the bridge turns the    *)
(* provider's webhooks into events and publishes them one at a time        *)
(* (apps/githubappingestor, apps/gitlabingestor), and ddash files each     *)
(* under the organization that the installation is mapped to               *)
(* (webhooks/custom/handler_github_app.go, handler_gitlab_app.go).         *)
(*                                                                         *)
(* Beside them run the calls of Settings; a deleted organization takes     *)
(* along what refers to it.  The ingestion behind the handler is taken as  *)
(* DurableIngest promises it.                                              *)
(***************************************************************************)
EXTENDS Settings

CONSTANTS
  Installations, \* GitHub installation ids and GitLab project ids
  States,        \* states of setup intents: random, none is drawn twice
  Deliveries,    \* webhooks, each [hook, state, from, env]
  MaxAttempts    \* bound: how often the provider sends a webhook

\* What the converters tell apart: the kind of webhook, and the action, state
\* or status it carries; for a workflow run [action, conclusion], for a pull
\* request [action, merged].
Hooks == {"release", "deployment_status", "workflow_run", "push", "pull_request",
          "Push Hook", "Tag Push Hook", "Pipeline Hook", "Deployment Hook",
          "Merge Request Hook", "other"}

ASSUME IntegrationAssumption ==
  /\ \A d \in Deliveries : d.hook \in Hooks /\ d.from \in Installations /\ d.env \in Envs
  /\ MaxAttempts \in Nat

VARIABLES
  intent,   \* intent[s]: the row of the state, Unused or Gone
  mapping,  \* mapping[i]: the organization of the installation, 0 for none
  attempt,  \* attempt[d, n]: what came of sending d for the n-th time
  rows      \* the events stored, each the attempt that brought it and its organization

integrationVars == <<intent, mapping, attempt, rows>>
vars == <<settingsVars, integrationVars>>

Attempts == Deliveries \X (1 .. MaxAttempts)

Intent == [org : Orgs \cup {0}, expired : BOOLEAN]

Unused == [org |-> 0, expired |-> FALSE]
Gone   == [org |-> 0, expired |-> TRUE]

IntegrationCall ==
  [at : {"map"}, state : States, installation : Installations, org : Orgs]
    \cup [at : {"drop intent"}, state : States]

\* bridge: the bridge's handler, and what it told the provider; ddash: the
\* endpoint's, which outlives a bridge that no longer waits for it.
Attempt ==
  [bridge : {"unsent", "publishing", "published", "ignored", "failed"},
   ddash : {"none", "resolve", "ingest", "stored", "refused"}, org : Orgs \cup {0}]

\* Every variable has its type.
AdministrationType ==
  /\ SettingsType
  /\ call \in [Calls -> SettingsCall \cup IntegrationCall]
  /\ intent \in [States -> Intent]
  /\ mapping \in [Installations -> Orgs \cup {0}]
  /\ attempt \in [Attempts -> Attempt]
  /\ rows \subseteq [attempt : Attempts, org : Orgs]

Init ==
  /\ SettingsInit
  /\ intent = [s \in States |-> Unused]
  /\ mapping = [i \in Installations |-> 0]
  /\ attempt = [a \in Attempts |-> [bridge |-> "unsent", ddash |-> "none", org |-> 0]]
  /\ rows = {}

-----------------------------------------------------------------------------
(* Set-up.                                                                 *)

Live(s) == intent[s].org # 0

StartInstall(o, s) ==
  /\ Begin
  /\ o \in Enabled
  /\ intent[s] = Unused
  /\ intent' = [intent EXCEPT ![s] = [org |-> o, expired |-> FALSE]]
  /\ UNCHANGED <<tables, call, checked, mapping, attempt, rows>>

Expire(s) ==
  /\ Live(s)
  /\ ~intent[s].expired
  /\ intent' = [intent EXCEPT ![s].expired = TRUE]
  /\ UNCHANGED <<settingsVars, mapping, attempt, rows>>

\* CompleteInstall: the provider sends the browser back, with any installation
\* and as often as someone reloads.  An expired intent is deleted, else the
\* mapping comes first; each is a statement of its own.
CompleteInstall(c, s, i) ==
  /\ Idle(c)
  /\ Begin
  /\ Live(s)
  /\ Goto(c, IF intent[s].expired
             THEN [at |-> "drop intent", state |-> s]
             ELSE [at |-> "map", state |-> s, installation |-> i, org |-> intent[s].org])
  /\ UNCHANGED <<tables, checked, integrationVars>>

\* The row of the installation is written over, whose ever it was; without its
\* organization the statement, and the call with it, fails.
UpsertGitHubInstallationMapping(c) ==
  LET k == call[c] IN
  /\ k.at = "map"
  /\ IF k.org \in Existing
     THEN /\ mapping' = [mapping EXCEPT ![k.installation] = k.org]
          /\ Goto(c, [at |-> "drop intent", state |-> k.state])
     ELSE /\ Return(c)
          /\ UNCHANGED mapping
  /\ UNCHANGED <<tables, begun, checked, intent, attempt, rows>>

DeleteGitHubSetupIntent(c) ==
  /\ call[c].at = "drop intent"
  /\ intent' = [intent EXCEPT ![call[c].state] = Gone]
  /\ Return(c)
  /\ UNCHANGED <<tables, begun, checked, mapping, attempt, rows>>

DeleteMapping(o, i) ==
  /\ Begin
  /\ o \in Enabled
  /\ mapping[i] = o
  /\ mapping' = [mapping EXCEPT ![i] = 0]
  /\ UNCHANGED <<tables, call, checked, intent, attempt, rows>>

-----------------------------------------------------------------------------
(* Webhooks.                                                               *)

\* The converters (githubbridge, gitlabbridge): the type of the event that a
\* webhook becomes, by what it carries.
Release(action) == IF action = "published" THEN "service.published" ELSE "none"

DeploymentStatus(state) ==
  CASE state = "success" -> "service.deployed"
    [] state \in {"failure", "error", "inactive"} -> "service.removed"
    [] OTHER -> "service.upgraded"

\* The conclusion counts once the run is completed, an empty one as a failure.
WorkflowRun(run) ==
  CASE run.action # "completed" -> "pipeline.run.started"
    [] run.action = "completed" /\ run.conclusion = "success" -> "pipeline.run.succeeded"
    [] OTHER -> "pipeline.run.failed"

\* Pushes carry no state.
Push == "change.pushed"

\* A pull request is merged by closing it.
PullRequest(pr) ==
  IF pr.action = "merged" \/ (pr.action = "closed" /\ pr.merged)
  THEN "change.merged" ELSE "change.named for the action"

PushHook == "change.pushed"
TagPushHook == "service.published"

Pipeline(status) ==
  CASE status = "success" -> "pipeline.run.succeeded"
    [] status \in {"failed", "canceled"} -> "pipeline.run.failed"
    [] OTHER -> "pipeline.run.started"

Deployment(status) ==
  CASE status = "success" -> "service.deployed"
    [] status \in {"failed", "canceled"} -> "service.removed"
    [] OTHER -> "service.upgraded"

MergeRequest(action) ==
  IF action \in {"merge", "merged"} THEN "change.merged" ELSE "change.named for the action"

Convert(hook, state) ==
  CASE hook = "release"             -> Release(state)
    [] hook = "deployment_status"   -> DeploymentStatus(state)
    [] hook = "workflow_run"        -> WorkflowRun(state)
    [] hook = "pull_request"        -> PullRequest(state)
    [] hook = "push"                -> Push
    [] hook = "Push Hook"           -> PushHook
    [] hook = "Tag Push Hook"       -> TagPushHook
    [] hook = "Pipeline Hook"       -> Pipeline(state)
    [] hook = "Deployment Hook"     -> Deployment(state)
    [] hook = "Merge Request Hook"  -> MergeRequest(state)
    [] OTHER -> "none"

ServiceTypes == {"service.published", "service.deployed", "service.upgraded", "service.removed"}

Set(a, r) == attempt' = [attempt EXCEPT ![a] = r]

\* The provider sends the webhook, again if the last answer was an error, and
\* the bridge publishes its event, built with an id of its own.
Send(d, n) ==
  LET a == <<d, n>> IN
  /\ attempt[a].bridge = "unsent"
  /\ n > 1 => attempt[<<d, n - 1>>].bridge = "failed"
  /\ Set(a, IF Convert(d.hook, d.state) = "none"
            THEN [attempt[a] EXCEPT !.bridge = "ignored"]
            ELSE [attempt[a] EXCEPT !.bridge = "publishing", !.ddash = "resolve"])
  /\ UNCHANGED <<settingsVars, intent, mapping, rows>>

\* GetOrganizationByGitHubInstallationID, GetOrganizationByGitLabProjectID: the
\* enabled organization that the installation is mapped to, if there is one.
OrganizationOf(installation) == {o \in Enabled : mapping[installation] = o}

ResolveOrganization(a) ==
  /\ attempt[a].ddash = "resolve"
  /\ \E o \in OrganizationOf(a[1].from) :
       Set(a, [attempt[a] EXCEPT !.ddash = "ingest", !.org = o])
  /\ UNCHANGED <<settingsVars, intent, mapping, rows>>

\* IngestForOrganization stores the event if the organization is still there,
Store(a) ==
  LET o == attempt[a].org IN
  /\ attempt[a].ddash = "ingest"
  /\ o \in Existing
  /\ rows' = rows \cup {[attempt |-> a, org |-> o]}
  /\ found' = IF Convert(a[1].hook, a[1].state) \in ServiceTypes
              THEN [found EXCEPT ![o] = @ \cup {a[1].env}] ELSE found
  /\ Set(a, [attempt[a] EXCEPT !.ddash = "stored"])
  /\ UNCHANGED <<org, settings, metadata, call, begun, checked, intent, mapping>>

\* or fails: nothing is mapped, the queue is full, the database busy, the
\* organization gone.
Refuse(a) ==
  /\ attempt[a].ddash \in {"resolve", "ingest"}
  /\ Set(a, [attempt[a] EXCEPT !.ddash = "refused"])
  /\ UNCHANGED <<settingsVars, intent, mapping, rows>>

\* Mutant: the status code of the answer is not looked at.
Answer_Any(a) ==
  /\ attempt[a].bridge = "publishing"
  /\ attempt[a].ddash \in {"stored", "refused"}
  /\ Set(a, [attempt[a] EXCEPT !.bridge = "published"])
  /\ UNCHANGED <<settingsVars, intent, mapping, rows>>

\* The answer reaches the bridge, which answers the provider: 202 or 502.
Answer(a) ==
  /\ attempt[a].bridge = "publishing"
  /\ \/ /\ attempt[a].ddash = "stored"
        /\ Set(a, [attempt[a] EXCEPT !.bridge = "published"])
     \/ /\ attempt[a].ddash = "refused"
        /\ Set(a, [attempt[a] EXCEPT !.bridge = "failed"])
  /\ UNCHANGED <<settingsVars, intent, mapping, rows>>

\* The client's ten seconds pass, or the answer is lost; ddash goes on.
GiveUp(a) ==
  /\ attempt[a].bridge = "publishing"
  /\ Set(a, [attempt[a] EXCEPT !.bridge = "failed"])
  /\ UNCHANGED <<settingsVars, intent, mapping, rows>>

-----------------------------------------------------------------------------
\* DeleteOrganization, with the rows of this module that refer to o.
Delete(o) ==
  /\ DeleteOrganization(o)
  /\ intent' = [s \in States |-> IF intent[s].org = o THEN Gone ELSE intent[s]]
  /\ mapping' = [i \in Installations |-> IF mapping[i] = o THEN 0 ELSE mapping[i]]
  /\ rows' = {r \in rows : r.org # o}
  /\ UNCHANGED attempt

Next ==
  \/ SettingsNext /\ UNCHANGED integrationVars
  \/ \E o \in Orgs :
       \/ Delete(o)
       \/ \E s \in States : StartInstall(o, s)
       \/ \E i \in Installations : DeleteMapping(o, i)
  \/ \E s \in States : Expire(s)
  \/ \E c \in Calls :
       \/ \E s \in States, i \in Installations : CompleteInstall(c, s, i)
       \/ UpsertGitHubInstallationMapping(c)
       \/ DeleteGitHubSetupIntent(c)
  \/ \E d \in Deliveries, n \in 1 .. MaxAttempts : Send(d, n)
  \/ \E a \in Attempts :
       \/ ResolveOrganization(a) \/ Store(a) \/ Refuse(a) \/ Answer(a) \/ GiveUp(a)

Spec == Init /\ [][Next]_vars

-----------------------------------------------------------------------------
(* Properties.                                                             *)

\* Nothing that refers to an organization is left when it is deleted, or comes
\* back, whatever calls and callbacks were under way (con.go:60 turns the
\* foreign keys on that this rests on).
NothingOutlivesItsOrganization ==
  \A o \in Orgs \ Existing :
    /\ settings[o] = NoRows
    /\ \A s \in Services : metadata[o][s] = <<>>
    /\ \A s \in States : intent[s].org # o
    /\ \A i \in Installations : mapping[i] # o
    /\ \A r \in rows : r.org # o

\* What the bridge told the provider it published is stored, under the
\* organization the installation was mapped to when it arrived, however many
\* attempts timed out before; deleting the organization is the one way to lose
\* it (routes_webhook.go:66).
AcknowledgedDeliveryIsStored ==
  \A a \in Attempts :
    attempt[a].bridge = "published" =>
      \/ [attempt |-> a, org |-> attempt[a].org] \in rows
      \/ attempt[a].org \in Orgs \ Existing

=============================================================================
