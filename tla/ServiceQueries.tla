---------------------------- MODULE ServiceQueries ----------------------------
(***************************************************************************)
(* The reads behind the service pages: the SELECTs over event_store and    *)
(* over the projections (internal/db/queries), what the SQLite adapter     *)
(* makes of their rows (adapters/sqlite/service_read_store.go), and what   *)
(* the read service computes from them (app/services/service_read.go).     *)
(*                                                                         *)
(* A list of rows is modelled as the set of the event_store rows it was    *)
(* made from; Newer is the order in which a list shows them.               *)
(***************************************************************************)
EXTENDS ServiceProjections, FiniteSetsExt

CONSTANTS
  Now,           \* the time at which pages are read, in the unit of ts
  MinuteLength,  \* times are shown in minutes
  WindowDays     \* the statistics cover so many days: 30 in the code

ASSUME QueryAssumption ==
  /\ Now \in Nat
  /\ MinuteLength \in Nat \ {0}
  /\ WindowDays \in Nat

ServiceName(row) == SqlName[row.event.subject]

\* The service rows of an organization.
RowsOf(org) == {row \in ServiceRows(store) : row.event.org = org}

\* A page may be asked for by the name of a service or by its subject id.
Matches(row, name) == row.event.subject = name \/ ServiceName(row) = name

\* A name that is some service's subject id is that service's name.  Asked for
\* by a subject id that is not, a page finds rows of the store, but none of the
\* projections, which are kept by name.
AskedByName == \A s \in Subjects \cap Names : SqlName[s] = s

RowsNamed(org, name) == {row \in RowsOf(org) : Matches(row, name)}

\* No filter at all.
Everything == {"", "all"}

\* No environment has the name that asks for all of them.
PlainEnvs == Envs \cap Everything = {}

\* row_number() OVER (PARTITION BY part ...) = 1.
FirstOfEach(S, part) == {x \in S : \A y \in S : part[x] = part[y] => ~Newer(y, x)}

ByService     == [x \in store |-> ServiceName(x)]
ByEnvironment == [x \in store |-> Environment(x)]

\* ORDER BY event_ts_ms DESC, seq DESC LIMIT n.
FirstRows(S, n) == {x \in S : Cardinality({y \in S : Newer(y, x)}) < n}

-----------------------------------------------------------------------------
(* The status of a row, as lists of services and of deployments show it.   *)

ServiceStatus(row) ==
  CASE row.event.kind \in {"deployed", "upgraded"} -> "synced"
    [] row.event.kind = "rolledback" -> "warning"
    [] row.event.kind = "removed" -> "out-of-sync"
    [] OTHER -> "unknown"

DeploymentStatus(row) ==
  CASE row.event.kind \in {"deployed", "upgraded"} -> "success"
    [] row.event.kind \in {"rolledback", "removed"} -> "error"
    [] OTHER -> "queued"

\* formatTimestamp cuts a time to its minute.
Minute(row) == row.event.ts \div MinuteLength

-----------------------------------------------------------------------------
(* The lists of services and of deployments.                               *)

\* The latest row of each service over all environments.
ListServiceInstancesFromEvents(org) == FirstOfEach(RowsOf(org), ByService)

\* Mutant: the services are ranked before the environment is filtered.
ListServiceInstancesByEnvFromEvents_RanksFirst(org, env) ==
  {x \in FirstOfEach(RowsOf(org), ByService) : Environment(x) = env}

\* The latest row of each service in one environment.
ListServiceInstancesByEnvFromEvents(org, env) ==
  FirstOfEach({x \in RowsOf(org) : Environment(x) = env}, ByService)

\* What a card or a table row of a service shows.
MapServiceInstance(row) ==
  [title |-> ServiceName(row), environment |-> Environment(row),
   status |-> ServiceStatus(row), lastDeploy |-> Minute(row), revision |-> row.event.artifact]

ListServiceInstances(org, env) ==
  {MapServiceInstance(x) :
     x \in IF env \in Everything THEN ListServiceInstancesFromEvents(org)
           ELSE ListServiceInstancesByEnvFromEvents(org, env)}

\* The environment is compared as the event spells it, not as it is shown:
\* asked for "unknown", the list leaves out events without an environment.
ListDeploymentsFromEvents(org, env, service) ==
  {x \in RowsOf(org) :
     /\ env \in Everything \/ x.event.env = env
     /\ service \in Everything \/ Matches(x, service)}

MapDeployment(row) ==
  [service |-> ServiceName(row), environment |-> Environment(row),
   deployedAt |-> Minute(row), status |-> DeploymentStatus(row)]

ListDistinctServiceEnvironments(org) == {Environment(x) : x \in RowsOf(org)}

-----------------------------------------------------------------------------
(* The reads of one service's page, in the order GetServiceDetail has them.*)

\* Empty when there is no such service, and the page is 404.
GetServiceLatest(org, name) == FirstRows(RowsNamed(org, name), 1)

ListServiceEnvironments(org, name) == FirstOfEach(RowsNamed(org, name), ByEnvironment)

ListDeploymentHistory(org, name, limit) == FirstRows(RowsNamed(org, name), limit)

\* The projections are asked for the name alone, never for the subject id.
GetServiceCurrentState(org, name) == {c \in current : Service(c.latest) = <<org, name>>}

InWindow(k) == k.day >= Now \div DayLength - WindowDays

GetServiceDeliveryStats30d(org, name) ==
  LET days == {k \in DOMAIN daily : k.org = org /\ k.name = name /\ InWindow(k)}
  IN  [success  |-> SumFunction([k \in days |-> daily[k].success]),
       failure  |-> SumFunction([k \in days |-> daily[k].failure]),
       rollback |-> SumFunction([k \in days |-> daily[k].rollback])]

\* The links are ordered by time alone: which of several with one time are
\* left out is up to the database, so this is the set of possible answers.
ListServiceChangeLinksRecent(org, name, limit) ==
  LET mine == {x \in links : Service(x) = <<org, name>>}
  IN  {L \in SUBSET mine :
         /\ Cardinality(L) = IF Cardinality(mine) < limit THEN Cardinality(mine) ELSE limit
         /\ \A x \in L, y \in mine \ L : x.event.ts >= y.event.ts}

\* The age of what runs in each environment; environments without an
\* artifact are left out.
GetArtifactAgeByEnvironment(org, name) ==
  {[environment |-> Environment(x), artifact |-> x.event.artifact, age |-> Now - x.event.ts] :
     x \in {y \in envState : Service(y) = <<org, name>> /\ y.event.artifact # NoArtifact}}

-----------------------------------------------------------------------------
(* What the page computes from the rows it has read.                       *)

\* How often an environment was deployed to in the last days, as far as the
\* history goes back.
DeployCount(history, env, days) ==
  Cardinality({x \in history : Environment(x) = env
                                 /\ Now - Minute(x) * MinuteLength <= days * DayLength})
=============================================================================
