----------------------------- MODULE ServicePages -----------------------------
(***************************************************************************)
(* Someone looks at services while events go on arriving and dependencies  *)
(* are entered: at the page of one, which GetServiceDetail puts together   *)
(* from reads that are transactions of their own, at the graph of what     *)
(* services depend on, or at the deployments, of which a stream            *)
(* (server/routes/view_deployments.go) sends the new ones every other      *)
(* second.  The projections are kept by ServiceProjections.                *)
(***************************************************************************)
EXTENDS DeliveryReports, ServiceDependencies

CONSTANTS
  HistoryLimit,  \* rows of a page's history: 200 in the code
  LinksLimit,    \* rows of its change links: 20 in the code
  Filters        \* the filters a deployment list is asked for: [env, service]

ASSUME PageAssumption == HistoryLimit \in Nat /\ LinksLimit \in Nat

VARIABLE reader  \* what is being looked at

pageVars == <<vars, dependencies, reader>>

NoPage == [at |-> "none"]

PageInit == Init /\ dependencies = {} /\ reader = NoPage

-----------------------------------------------------------------------------
(* One service's page.                                                     *)

\* GetServiceLatest: there must be such a service; the page takes no more than
\* its name from that row.  What is not read yet is empty.
OpenPage(o, name) ==
  /\ reader.at = "none"
  /\ GetServiceLatest(o, name) # {}
  /\ reader' = [at |-> "environments", org |-> o, name |-> name, environments |-> {},
                history |-> {}, current |-> {}, links |-> {},
                stats |-> [success |-> 0, failure |-> 0, rollback |-> 0]]
  /\ UNCHANGED <<vars, dependencies>>

\* Mutant: the page counts what is deployed before it asks for environments.
ReadPage_HistoryFirst ==
  LET o    == reader.org
      name == reader.name
  IN
  /\ \/ /\ reader.at = "environments"
        /\ reader' = [reader EXCEPT !.at = "history",
                                    !.history = ListDeploymentHistory(o, name, HistoryLimit)]
     \/ /\ reader.at = "history"
        /\ reader' = [reader EXCEPT !.at = "current",
                                    !.environments = ListServiceEnvironments(o, name)]
     \/ /\ reader.at = "current"
        /\ reader' = [reader EXCEPT !.at = "stats", !.current = GetServiceCurrentState(o, name)]
     \/ /\ reader.at = "stats"
        /\ reader' = [reader EXCEPT !.at = "links",
                                    !.stats = GetServiceDeliveryStats30d(o, name)]
     \/ /\ reader.at = "links"
        /\ \E L \in ListServiceChangeLinksRecent(o, name, LinksLimit) :
             reader' = [reader EXCEPT !.at = "shown", !.links = L]
  /\ UNCHANGED <<vars, dependencies>>

\* The reads that follow, one statement each.  Those of metadata, priorities
\* and dependencies touch none of these tables.
ReadPage ==
  LET o    == reader.org
      name == reader.name
  IN
  /\ \/ /\ reader.at = "environments"
        /\ reader' = [reader EXCEPT !.at = "history",
                                    !.environments = ListServiceEnvironments(o, name)]
     \/ /\ reader.at = "history"
        /\ reader' = [reader EXCEPT !.at = "current",
                                    !.history = ListDeploymentHistory(o, name, HistoryLimit)]
     \/ /\ reader.at = "current"
        /\ reader' = [reader EXCEPT !.at = "stats", !.current = GetServiceCurrentState(o, name)]
     \/ /\ reader.at = "stats"
        /\ reader' = [reader EXCEPT !.at = "links",
                                    !.stats = GetServiceDeliveryStats30d(o, name)]
     \/ /\ reader.at = "links"
        /\ \E L \in ListServiceChangeLinksRecent(o, name, LinksLimit) :
             reader' = [reader EXCEPT !.at = "shown", !.links = L]
  /\ UNCHANGED <<vars, dependencies>>

-----------------------------------------------------------------------------
(* The deployments, with a stream of the new ones.                         *)

Listed(o, f) == ListDeploymentsFromEvents(o, f.env, f.service)

\* Mutant: the key does not hold the status.
DeploymentEventKey_NoStatus(row) ==
  LET shown == MapDeployment(row) IN <<shown.deployedAt, shown.service, shown.environment>>

\* What tells two deployments of a stream apart.
DeploymentEventKey(row) ==
  LET shown == MapDeployment(row)
  IN  <<shown.deployedAt, shown.service, shown.environment, shown.status>>

\* The rows listed when the stream is opened are on the page already.
OpenStream(o, f) ==
  /\ reader.at = "none"
  /\ reader' = [at |-> "streaming", org |-> o, filter |-> f, shown |-> Listed(o, f),
                seen |-> {DeploymentEventKey(x) : x \in Listed(o, f)}]
  /\ UNCHANGED <<vars, dependencies>>

\* Of the rows with one new key only the first of the list is sent.
NewRows ==
  LET new == {x \in Listed(reader.org, reader.filter) : DeploymentEventKey(x) \notin reader.seen}
  IN  FirstOfEach(new, [x \in new |-> DeploymentEventKey(x)])

\* A tick that finds nothing new changes nothing.
Poll ==
  /\ reader.at = "streaming"
  /\ NewRows # {}
  /\ reader' = [reader EXCEPT !.shown = @ \cup NewRows,
                              !.seen = @ \cup {DeploymentEventKey(x) : x \in NewRows}]
  /\ UNCHANGED <<vars, dependencies>>

\* The page is shown and forgotten, a read fails, or the browser goes away.
Leave ==
  /\ reader.at # "none"
  /\ reader' = NoPage
  /\ UNCHANGED <<vars, dependencies>>

-----------------------------------------------------------------------------
(* The graph.                                                              *)

Edges(o, D) == {<<d.service, d.on>> : d \in {e \in D : e.org = o}}

\* Kept for the property: listed, the services of the list; lasting, the edges
\* that have been there ever since the graph was asked for; and ever, those
\* that have been there at some time since.
OpenGraph(o) ==
  /\ reader.at = "none"
  /\ reader' = [at |-> "graph", org |-> o, graph |-> EmptyGraph(o), listed |-> EmptyGraph(o).left,
                lasting |-> Edges(o, dependencies), ever |-> Edges(o, dependencies)]
  /\ UNCHANGED <<vars, dependencies>>

ReadGraph ==
  /\ reader.at = "graph"
  /\ \E name \in reader.graph.left :
       reader' = [reader EXCEPT !.graph = AddService(@, reader.org, name)]
  /\ UNCHANGED <<vars, dependencies>>

Watch ==
  LET now == Edges(reader.org, dependencies') IN
  reader' = IF reader.at # "graph" THEN reader
            ELSE [reader EXCEPT !.lasting = @ \cap now, !.ever = @ \cup now]

EnterDependency(o, name, on) ==
  /\ UpsertServiceDependency(o, name, on)
  /\ Watch
  /\ UNCHANGED vars

RemoveDependency(o, name, on) ==
  /\ DeleteServiceDependency(o, name, on)
  /\ Watch
  /\ UNCHANGED vars

\* An organization goes with all that refers to it.
Delete(o) ==
  /\ DeleteOrganization(o)
  /\ DropDependencies(o)
  /\ Watch

-----------------------------------------------------------------------------

PageNext ==
  \/ \E e \in Events : AppendEventStore(e) /\ UNCHANGED <<dependencies, reader>>
  \/ \E o \in Orgs : Delete(o)
  \/ \E d \in Entered :
       EnterDependency(d.org, d.service, d.on) \/ RemoveDependency(d.org, d.service, d.on)
  \/ \E o \in Orgs : OpenGraph(o)
  \/ ReadGraph
  \/ \E o \in Orgs, name \in Names : OpenPage(o, name)
  \/ ReadPage
  \/ \E o \in Orgs, f \in Filters : OpenStream(o, f)
  \/ Poll
  \/ Leave

\* The ticker goes on firing; nothing else has to happen.
PageSpec == PageInit /\ [][PageNext]_pageVars /\ WF_pageVars(Poll)
-----------------------------------------------------------------------------
(* Properties.                                                             *)

\* The lists of services, which rank the events of the store anew each time,
\* show what the projections have kept incrementally: in one environment its
\* env state, and over all of them the latest event of the current state.
ListingsMatchProjections ==
  NoRebuild =>
    \A o \in Orgs :
      LET mine == {x \in envState : x.event.org = o} IN
      /\ \A env \in Envs :
           ListServiceInstances(o, env) =
             {MapServiceInstance(x) : x \in {y \in mine : Environment(y) = env}}
      /\ ListServiceInstances(o, "all") =
           {MapServiceInstance(c.latest) : c \in {d \in current : d.latest.event.org = o}}
      /\ ListDistinctServiceEnvironments(o) = {Environment(x) : x \in mine}

\* A page never goes back between its reads: what it shows above is covered by
\* what it reads below, as far as the limits go and the organization was not
\* deleted meanwhile.  Every environment's row is in the history, the current
\* state is no older than the history, what is counted by environment from the
\* history is in the statistics, and every row of the history has its link.
PageOnlyMovesForward ==
  reader.at = "shown" =>
    LET kept    == reader.history \cap store
        counted == {x \in kept : x.event.kind # "other"}
        inStats == reader.stats.success + reader.stats.failure + reader.stats.rollback
    IN
    /\ \A x \in reader.environments \cap store :
         \/ x \in reader.history
         \/ /\ Cardinality(reader.history) = HistoryLimit
            /\ \A y \in reader.history : Newer(y, x)
    /\ \A x \in kept, c \in reader.current : ~Newer(x, c.latest)
    /\ kept # {} => reader.current # {}
    /\ SumFunction([env \in {Environment(x) : x \in counted} |->
                      DeployCount(counted, env, WindowDays)]) <= inStats
    /\ \A x \in kept : x \in reader.links \/ Cardinality(reader.links) = LinksLimit

\* The services at either end of some edges.
Ends(E) == UNION {{edge[1], edge[2]} : edge \in E}

\* The graph is no snapshot: an edge may be from one time and another from a
\* later one.  But it makes no edge up, of this organization or another, and
\* leaves none out that a service of the list had all the time; and it has the
\* nodes of its edges and of all services.  And a dependency is on the pages of
\* both services or on neither.
GraphIsFaithful ==
  /\ reader.at = "graph" =>
       LET g    == reader.graph
           read == reader.listed \ g.left
       IN
       /\ g.edges \subseteq reader.ever
       /\ \A edge \in reader.lasting : edge[1] \in read => edge \in g.edges
       /\ g.nodes = read \cup Ends(g.edges)
  /\ \A o \in Orgs, name, on \in DOMAIN Lower :
       on \in ListServiceDependencies(o, name) <=> name \in ListServiceDependants(o, on)

\* Two rows that a list of deployments shows alike.
Alike(x, y) ==
  /\ Minute(x) = Minute(y)
  /\ ServiceName(x) = ServiceName(y)
  /\ Environment(x) = Environment(y)
  /\ DeploymentStatus(x) = DeploymentStatus(y)

\* Whoever follows the deployments sees each that matches the filter sooner or
\* later, late ones too; of those that look alike one may stand for the others.
StreamCatchesUp ==
  \A e \in Events :
    (reader.at = "streaming" /\ \E x \in Listed(reader.org, reader.filter) : x.event = e)
      ~> \/ reader.at # "streaming"
         \/ ~Stored(e)
         \/ \E x \in Listed(reader.org, reader.filter), y \in reader.shown : x.event = e /\ Alike(x, y)
=============================================================================
