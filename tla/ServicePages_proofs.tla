-------------------------- MODULE ServicePages_proofs --------------------------
(***************************************************************************)
(* Theorems about ServicePages and the queries behind it, for any events,  *)
(* names, windows and limits.                                              *)
(*                                                                         *)
(* A page, a graph or a stream changes nothing: to the projections a step  *)
(* of PageSpec is an append, a deletion or a stutter (PageStepProjects),   *)
(* so what is proved of them holds of what the queries read.               *)
(***************************************************************************)
EXTENDS ServicePages, ServiceProjections_proofs

-----------------------------------------------------------------------------
(* What is looked at leaves the projections alone.                         *)

LEMMA PageStepProjects == [PageNext]_pageVars => [Next]_vars
BY DEF PageNext, pageVars, Next, Delete, EnterDependency, RemoveDependency, OpenGraph, ReadGraph,
       OpenPage, ReadPage, OpenStream, Poll, Leave

LEMMA PageProjections == PageSpec => []ProjectionsInv
<1>1. PageInit => Init
  BY DEF PageInit
<1> QED BY <1>1, PageStepProjects, ProjectionsInvHolds, PTL DEF PageSpec, Spec

\* Nothing here runs the rebuild tool.
LEMMA PageNeverRebuilds == PageSpec => []NoRebuild
<1>1. PageInit => NoRebuild
  BY DEF PageInit, Init, NoRebuild
<1>2. NoRebuild /\ [PageNext]_pageVars => NoRebuild'
  <2> SUFFICES ASSUME NoRebuild, [PageNext]_pageVars PROVE UNCHANGED tool
    BY DEF tool, NoRebuild
  <2> QED
    BY DEF PageNext, pageVars, vars, Delete, EnterDependency, RemoveDependency, OpenGraph,
           ReadGraph, OpenPage, ReadPage, OpenStream, Poll, Leave, AppendEventStore,
           AppendDuplicate, AppendOther, AppendService, DeleteOrganization
<1> QED BY <1>1, <1>2, PTL DEF PageSpec

-----------------------------------------------------------------------------
(* The lists of services against the projections.                          *)

\* The store's rows and the environments' rows, when no rebuild has run.
LEMMA RowsFacts ==
  ASSUME ProjectionsInv
  PROVE  /\ store \subseteq Row
         /\ IsFiniteSet(store)
         /\ \A x, y \in store : x.seq = y.seq => x = y
         /\ \A x \in store : x.event \in Event /\ x.event.ts \in Nat /\ x.seq \in Nat
         /\ \A x \in store : Environment(x) \in Envs
         /\ ServiceRows(store) \subseteq store
         /\ envState \subseteq ServiceRows(store)
<1>1. store \subseteq Row
  BY DEF ProjectionsInv, TypeOK
<1>2. \A x \in store : x.event \in Event /\ x.event.ts \in Nat /\ x.seq \in Nat
  BY <1>1 DEF Row, Event
<1>3. \A x \in store : Environment(x) \in Envs
  BY <1>2, ProjectionAssumption DEF Environment, Event
<1> QED
  BY <1>1, <1>2, <1>3 DEF ProjectionsInv, Numbered, ServiceRows, ProjectionsAreSound

LEMMA NamesAreCut == \A x \in store : ByService[x] = ServiceName(x)
BY DEF ByService

\* A row of an organization's list, in terms of the rows of the store.
LEMMA FirstByService ==
  ASSUME NEW S \in SUBSET store, NEW x
  PROVE  x \in FirstOfEach(S, ByService) <=>
           /\ x \in S
           /\ \A y \in S : ServiceName(x) = ServiceName(y) => ~Newer(y, x)
BY NamesAreCut DEF FirstOfEach

\* In one environment the latest row of a service is the one of the place.
LEMMA ListedInEnvironment ==
  ASSUME ProjectionsInv, Covered, NEW o, NEW env
  PROVE  ListServiceInstancesByEnvFromEvents(o, env) =
           {x \in envState : x.event.org = o /\ Environment(x) = env}
<1> DEFINE S == {x \in RowsOf(o) : Environment(x) = env}
<1>1. S \in SUBSET store
  BY RowsFacts DEF RowsOf
<1>2. envState = Latest(ServiceRows(store))
  BY CoveredIsLatest
<1>3. ASSUME NEW x
      PROVE  x \in FirstOfEach(S, ByService) <=>
               x \in envState /\ x.event.org = o /\ Environment(x) = env
  <2>1. x \in FirstOfEach(S, ByService) <=>
          x \in S /\ \A y \in S : ServiceName(x) = ServiceName(y) => ~Newer(y, x)
    BY <1>1, FirstByService
  <2>2. x \in S => (\A y \in ServiceRows(store) :
                      SamePlace(x, y) <=> y \in S /\ ServiceName(x) = ServiceName(y))
    BY DEF SamePlace, Service, ServiceName, RowsOf
  <2>3. x \in S <=> x \in ServiceRows(store) /\ x.event.org = o /\ Environment(x) = env
    BY DEF RowsOf
  <2>4. S \subseteq ServiceRows(store)
    BY DEF RowsOf
  <2> HIDE DEF S
  <2> QED BY <1>2, <2>1, <2>2, <2>3, <2>4 DEF Latest
<1> QED BY <1>3 DEF ListServiceInstancesByEnvFromEvents

\* The newest of a service's environments.
Heads(o) ==
  {x \in envState :
     x.event.org = o /\ \A y \in envState : Service(y) = Service(x) => ~Newer(y, x)}

\* Over all environments the latest row of a service is the newest of these.
LEMMA ListedOverAll ==
  ASSUME ProjectionsInv, Covered, NEW o
  PROVE  ListServiceInstancesFromEvents(o) = Heads(o)
<1>1. RowsOf(o) \in SUBSET store
  BY RowsFacts DEF RowsOf
<1>2. \A x : x \in RowsOf(o) <=> x \in ServiceRows(store) /\ x.event.org = o
  BY DEF RowsOf
<1>3. ASSUME NEW x \in ListServiceInstancesFromEvents(o)
      PROVE  x \in Heads(o)
  <2>1. x \in RowsOf(o) /\ \A y \in RowsOf(o) : ServiceName(x) = ServiceName(y) => ~Newer(y, x)
    BY <1>1, <1>3, FirstByService DEF ListServiceInstancesFromEvents
  <2>2. \A y \in ServiceRows(store) : Service(y) = Service(x) => ~Newer(y, x)
    BY <1>2, <2>1 DEF Service, ServiceName
  <2>3. x \in Latest(ServiceRows(store))
    BY <1>2, <2>1, <2>2 DEF Latest, SamePlace
  <2>4. x \in envState
    BY <2>3, CoveredIsLatest
  <2> QED BY <1>2, <2>1, <2>2, <2>4, RowsFacts DEF Heads
<1>4. ASSUME NEW x \in Heads(o)
      PROVE  x \in ListServiceInstancesFromEvents(o)
  <2>1. /\ x \in envState /\ x.event.org = o
        /\ \A y \in envState : Service(y) = Service(x) => ~Newer(y, x)
    BY DEF Heads
  <2>2. x \in RowsOf(o) /\ x \in Row
    BY <1>2, <2>1, RowsFacts
  <2>3. ASSUME NEW y \in RowsOf(o), ServiceName(x) = ServiceName(y)
        PROVE  ~Newer(y, x)
    <3>1. PICK z \in envState : SamePlace(z, y) /\ ~Newer(y, z)
      BY <1>2 DEF Covered
    <3>2. Service(z) = Service(x)
      BY <1>2, <2>1, <2>3, <3>1 DEF SamePlace, Service, ServiceName
    <3>3. ~Newer(z, x)
      BY <2>1, <3>2
    <3>4. y \in Row /\ z \in Row
      BY <1>1, RowsFacts
    <3> QED BY <2>2, <3>1, <3>3, <3>4, NewerOrder
  <2> QED BY <1>1, <2>2, <2>3, FirstByService DEF ListServiceInstancesFromEvents
<1> QED BY <1>3, <1>4

\* No environment of a service is newer than its current state.
LEMMA CurrentIsNewest ==
  ASSUME NEW E, NEW s, NEW c \in CurrentOf(E, s)
  PROVE  \A z \in E : Service(z) = s => ~Newer(z, c.latest)
<1> DEFINE mine == {x \in E : Service(x) = s}
           drift == Cardinality({y.event.artifact : y \in mine} \ {NoArtifact})
           failing == Cardinality({y \in mine : Failing(y)})
<1>1. c \in {[latest |-> x, drift |-> drift, failing |-> failing] :
               x \in {y \in mine : \A z \in mine : ~Newer(z, y)}}
  BY DEF CurrentOf
<1> HIDE DEF drift, failing
<1>2. PICK x \in {y \in mine : \A z \in mine : ~Newer(z, y)} :
             c = [latest |-> x, drift |-> drift, failing |-> failing]
  BY <1>1
<1> QED BY <1>2

\* The current state shows the newest environment of every service.
LEMMA CurrentShowsHeads ==
  ASSUME ProjectionsInv, current = CurrentRows(envState), NEW o
  PROVE  {c.latest : c \in {d \in current : d.latest.event.org = o}} = Heads(o)
<1>1. \A x, y \in envState : x.seq = y.seq => x = y
  BY RowsFacts
<1>2. envState \subseteq Row /\ IsFiniteSet(envState)
  BY RowsFacts, FS_Subset
<1>3. ASSUME NEW c \in current, c.latest.event.org = o
      PROVE  c.latest \in Heads(o)
  <2>1. c \in CurrentOf(envState, Service(c.latest))
    BY CurrentRowsAre
  <2>2. c.latest \in envState
    BY <2>1, CurrentIsOfService
  <2>3. \A z \in envState : Service(z) = Service(c.latest) => ~Newer(z, c.latest)
    BY <2>1, CurrentIsNewest
  <2> QED BY <1>3, <2>2, <2>3 DEF Heads
<1>4. ASSUME NEW x \in Heads(o)
      PROVE  \E c \in current : c.latest = x
  <2>1. /\ x \in envState
        /\ \A y \in envState : Service(y) = Service(x) => ~Newer(y, x)
    BY DEF Heads
  <2>2. CurrentOf(envState, Service(x)) # {}
    BY <1>2, <2>1, CurrentExists
  <2>3. PICK c : c \in CurrentOf(envState, Service(x))
    BY <2>2
  <2>4. c.latest \in envState /\ Service(c.latest) = Service(x)
    BY <2>3, CurrentIsOfService
  <2>5. ~Newer(x, c.latest) /\ ~Newer(c.latest, x)
    <3>1. \A z \in envState : Service(z) = Service(x) => ~Newer(z, c.latest)
      BY <2>3, CurrentIsNewest
    <3> QED BY <2>1, <2>4, <3>1
  <2>6. c.latest = x
    BY <1>1, <1>2, <2>1, <2>4, <2>5, NewerOrder
  <2>7. c \in current
    BY <2>3, <2>6, CurrentRowsAre
  <2> QED BY <2>6, <2>7
<1>5. \A x \in Heads(o) : x.event.org = o
  BY DEF Heads
<1> QED BY <1>3, <1>4, <1>5

\* Every environment an organization's events name has a row.
LEMMA EnvironmentsShown ==
  ASSUME ProjectionsInv, Covered, NEW o
  PROVE  ListDistinctServiceEnvironments(o) =
           {Environment(x) : x \in {y \in envState : y.event.org = o}}
<1>1. ASSUME NEW y \in RowsOf(o)
      PROVE  \E x \in envState : x.event.org = o /\ Environment(x) = Environment(y)
  <2>1. y \in ServiceRows(store) /\ y.event.org = o
    BY DEF RowsOf
  <2>2. PICK x \in envState : SamePlace(x, y)
    BY <2>1 DEF Covered
  <2> QED BY <2>1, <2>2 DEF SamePlace, Service
<1>2. \A x \in envState : x.event.org = o => x \in RowsOf(o)
  BY RowsFacts DEF RowsOf
<1> QED BY <1>1, <1>2 DEF ListDistinctServiceEnvironments

LEMMA ListingsFollow == ProjectionsInv /\ PlainNames /\ PlainEnvs => ListingsMatchProjections
<1> SUFFICES ASSUME ProjectionsInv, PlainNames, PlainEnvs, NoRebuild, NEW o \in Orgs
             PROVE  LET mine == {x \in envState : x.event.org = o} IN
                    /\ \A env \in Envs :
                         ListServiceInstances(o, env) =
                           {MapServiceInstance(x) : x \in {y \in mine : Environment(y) = env}}
                    /\ ListServiceInstances(o, "all") =
                         {MapServiceInstance(c.latest) :
                            c \in {d \in current : d.latest.event.org = o}}
                    /\ ListDistinctServiceEnvironments(o) = {Environment(x) : x \in mine}
  BY DEF ListingsMatchProjections
<1>1. Covered /\ current = CurrentRows(envState)
  BY DEF ProjectionsInv, Complete, Refreshed
<1>2. ASSUME NEW env \in Envs
      PROVE  ListServiceInstances(o, env) =
               {MapServiceInstance(x) :
                  x \in {y \in {z \in envState : z.event.org = o} : Environment(y) = env}}
  <2>1. env \notin Everything
    BY DEF PlainEnvs
  <2>2. ListServiceInstances(o, env) =
          {MapServiceInstance(x) : x \in ListServiceInstancesByEnvFromEvents(o, env)}
    BY <2>1 DEF ListServiceInstances
  <2>3. ListServiceInstancesByEnvFromEvents(o, env) =
          {y \in {z \in envState : z.event.org = o} : Environment(y) = env}
    BY <1>1, ListedInEnvironment
  <2> QED BY <2>2, <2>3
<1>3. ListServiceInstances(o, "all") =
        {MapServiceInstance(c.latest) : c \in {d \in current : d.latest.event.org = o}}
  <2>1. ListServiceInstances(o, "all") =
          {MapServiceInstance(x) : x \in ListServiceInstancesFromEvents(o)}
    BY DEF ListServiceInstances, Everything
  <2>2. ListServiceInstancesFromEvents(o) =
          {c.latest : c \in {d \in current : d.latest.event.org = o}}
    BY <1>1, ListedOverAll, CurrentShowsHeads
  <2> QED BY <2>1, <2>2
<1>4. ListDistinctServiceEnvironments(o) =
        {Environment(x) : x \in {z \in envState : z.event.org = o}}
  BY <1>1, EnvironmentsShown
<1> QED BY <1>2, <1>3, <1>4

\* The lists of services, ranked anew from the store at each request, show what
\* the projections have kept incrementally (ListServiceInstances,
\* ListDistinctServiceEnvironments), if the names of services can be cut in one
\* way only and no environment is called "all".
THEOREM ListsShowProjections ==
  ASSUME PlainNames, PlainEnvs
  PROVE  PageSpec => []ListingsMatchProjections
<1>1. PlainNames /\ PlainEnvs
  OBVIOUS
<1>2. ProjectionsInv => ListingsMatchProjections
  BY <1>1, ListingsFollow
<1> QED BY <1>2, PageProjections, PTL

-----------------------------------------------------------------------------
(* The graph.                                                              *)

PageStages == {"environments", "history", "current", "stats", "links", "shown"}

\* What is being looked at has the fields that its steps use.
ReaderForm ==
  /\ "at" \in DOMAIN reader
  /\ reader.at \in PageStages =>
       /\ {"environments", "history", "current", "stats", "links"} \subseteq DOMAIN reader
       /\ reader.org \in Orgs
       /\ reader.name \in Names
  /\ reader.at = "graph" => {"graph", "lasting", "ever"} \subseteq DOMAIN reader

LEMMA ReaderFormInit == PageInit => ReaderForm
BY DEF PageInit, NoPage, ReaderForm, PageStages

\* The next stage of a page has one more field read.
LEMMA PageReads ==
  ASSUME ReaderForm, ReadPage
  PROVE  /\ DOMAIN reader' = DOMAIN reader
         /\ reader'.org = reader.org /\ reader'.name = reader.name
         /\ \/ /\ reader.at = "environments" /\ reader'.at = "history"
               /\ reader'.environments = ListServiceEnvironments(reader.org, reader.name)
            \/ /\ reader.at = "history" /\ reader'.at = "current"
               /\ reader'.history = ListDeploymentHistory(reader.org, reader.name, HistoryLimit)
            \/ /\ reader.at = "current" /\ reader'.at = "stats"
               /\ reader'.current = GetServiceCurrentState(reader.org, reader.name)
            \/ /\ reader.at = "stats" /\ reader'.at = "links"
               /\ reader'.stats = GetServiceDeliveryStats30d(reader.org, reader.name)
            \/ /\ reader.at = "links" /\ reader'.at = "shown"
               /\ reader'.links \in ListServiceChangeLinksRecent(reader.org, reader.name, LinksLimit)
         /\ reader.at # "environments" => reader'.environments = reader.environments
         /\ reader.at # "history" => reader'.history = reader.history
         /\ reader.at # "current" => reader'.current = reader.current
         /\ reader.at # "stats" => reader'.stats = reader.stats
         /\ reader.at # "links" => reader'.links = reader.links
<1>1. /\ "at" \in DOMAIN reader
      /\ {"environments", "history", "current", "stats", "links"} \subseteq DOMAIN reader
  BY DEF ReadPage, ReaderForm, PageStages
<1>2. CASE reader.at = "environments"
  <2>1. PICK X : X = ListServiceEnvironments(reader.org, reader.name)
    OBVIOUS
  <2>2. reader' = [reader EXCEPT !.at = "history", !.environments = X]
    BY <1>2, <2>1 DEF ReadPage
  <2> QED BY <1>1, <1>2, <2>1, <2>2
<1>3. CASE reader.at = "history"
  <2>1. PICK X : X = ListDeploymentHistory(reader.org, reader.name, HistoryLimit)
    OBVIOUS
  <2>2. reader' = [reader EXCEPT !.at = "current", !.history = X]
    BY <1>3, <2>1 DEF ReadPage
  <2> QED BY <1>1, <1>3, <2>1, <2>2
<1>4. CASE reader.at = "current"
  <2>1. PICK X : X = GetServiceCurrentState(reader.org, reader.name)
    OBVIOUS
  <2>2. reader' = [reader EXCEPT !.at = "stats", !.current = X]
    BY <1>4, <2>1 DEF ReadPage
  <2> QED BY <1>1, <1>4, <2>1, <2>2
<1>5. CASE reader.at = "stats"
  <2>1. PICK X : X = GetServiceDeliveryStats30d(reader.org, reader.name)
    OBVIOUS
  <2>2. reader' = [reader EXCEPT !.at = "links", !.stats = X]
    BY <1>5, <2>1 DEF ReadPage
  <2> QED BY <1>1, <1>5, <2>1, <2>2
<1>6. CASE reader.at = "links"
  <2>1. PICK X \in ListServiceChangeLinksRecent(reader.org, reader.name, LinksLimit) :
          reader' = [reader EXCEPT !.at = "shown", !.links = X]
    BY <1>6 DEF ReadPage
  <2> QED BY <1>1, <1>6, <2>1
<1> QED BY <1>2, <1>3, <1>4, <1>5, <1>6 DEF ReadPage

LEMMA ReaderFormStep == ReaderForm /\ [PageNext]_pageVars => ReaderForm'
<1> SUFFICES ASSUME ReaderForm, [PageNext]_pageVars PROVE ReaderForm'
  OBVIOUS
<1>1. UNCHANGED reader => ReaderForm'
  BY DEF ReaderForm
<1>2. Watch => ReaderForm'
  BY DEF Watch, ReaderForm, PageStages
<1>3. Leave => ReaderForm'
  BY DEF Leave, NoPage, ReaderForm, PageStages
<1>4. ASSUME NEW o \in Orgs, OpenGraph(o) PROVE ReaderForm'
  BY <1>4 DEF OpenGraph, ReaderForm, PageStages
<1>5. CASE ReadGraph
  BY <1>5 DEF ReadGraph, ReaderForm, PageStages
<1>6. ASSUME NEW o \in Orgs, NEW name \in Names, OpenPage(o, name) PROVE ReaderForm'
  BY <1>6 DEF OpenPage, ReaderForm, PageStages
<1>7. CASE ReadPage
  <2>1. reader.at \in PageStages /\ reader'.at \in PageStages
    BY <1>7, PageReads DEF PageStages, ReadPage
  <2> QED BY <1>7, <2>1, PageReads DEF ReaderForm, PageStages
<1>8. ASSUME NEW o, NEW f, OpenStream(o, f) PROVE ReaderForm'
  BY <1>8 DEF OpenStream, ReaderForm, PageStages
<1>9. CASE Poll
  BY <1>9 DEF Poll, ReaderForm, PageStages
<1> QED
  BY <1>1, <1>2, <1>3, <1>4, <1>5, <1>6, <1>7, <1>8, <1>9
     DEF PageNext, pageVars, EnterDependency, RemoveDependency, Delete

\* The graph drawn so far, against what the table has held since.
GraphAgrees ==
  reader.at = "graph" =>
    /\ reader.graph.left \subseteq reader.listed
    /\ reader.graph.edges \subseteq reader.ever
    /\ reader.lasting \subseteq Edges(reader.org, dependencies)
    /\ Edges(reader.org, dependencies) \subseteq reader.ever
    /\ \A edge \in reader.lasting :
         edge[1] \in reader.listed \ reader.graph.left => edge \in reader.graph.edges
    /\ reader.graph.nodes =
         (reader.listed \ reader.graph.left) \cup Ends(reader.graph.edges)

LEMMA GraphInit == PageInit => GraphAgrees
BY DEF PageInit, NoPage, GraphAgrees

\* Whatever is entered or removed, the edges that last are still there, and
\* those that are there have been there.
LEMMA GraphWatched ==
  ASSUME ReaderForm, GraphAgrees, Watch
  PROVE  GraphAgrees'
<1> SUFFICES ASSUME reader'.at = "graph" PROVE GraphAgrees'
  BY DEF GraphAgrees
<1> DEFINE now == Edges(reader.org, dependencies')
<1>1. reader.at = "graph"
  BY DEF Watch
<1>2. /\ reader'.graph = reader.graph
      /\ reader'.listed = reader.listed
      /\ reader'.org = reader.org
      /\ reader'.lasting = reader.lasting \cap now
      /\ reader'.ever = reader.ever \cup now
  BY <1>1 DEF Watch, ReaderForm
<1>3. Edges(reader.org, dependencies)' = now
  BY <1>2 DEF Edges
<1> HIDE DEF now
<1> QED BY <1>1, <1>2, <1>3 DEF GraphAgrees

LEMMA EndsOfBoth ==
  ASSUME NEW A, NEW B
  PROVE  Ends(A \cup B) = Ends(A) \cup Ends(B)
<1>1. ASSUME NEW S, NEW n
      PROVE  n \in Ends(S) <=> \E edge \in S : n = edge[1] \/ n = edge[2]
  BY DEF Ends
<1> QED BY <1>1

\* The edges a service adds are those that lead away from it now.
LEMMA GraphAddsService ==
  ASSUME ReaderForm, GraphAgrees, ReadGraph
  PROVE  GraphAgrees'
<1>1. PICK name \in reader.graph.left :
        reader' = [reader EXCEPT !.graph = AddService(@, reader.org, name)]
  BY DEF ReadGraph
<1> DEFINE on == ListServiceDependencies(reader.org, name)
           new == {<<name, d>> : d \in on}
<1>2. PICK g : g = reader.graph
  OBVIOUS
<1>3. PICK E : E = Edges(reader.org, dependencies)
  OBVIOUS
<1>4. \A d : d \in on <=> <<name, d>> \in E
  BY <1>3 DEF ListServiceDependencies, Edges
<1>5. \A edge \in E : edge[1] = name => edge \in new
  BY <1>3, <1>4 DEF Edges
<1>6. new \subseteq E
  BY <1>4
<1>7. /\ reader.at = "graph" /\ reader'.at = "graph"
      /\ reader'.listed = reader.listed
      /\ reader'.org = reader.org
      /\ reader'.lasting = reader.lasting
      /\ reader'.ever = reader.ever
      /\ reader'.graph = [left  |-> g.left \ {name},
                          nodes |-> g.nodes \cup {name} \cup on,
                          edges |-> g.edges \cup new]
  <2>1. reader.at = "graph" /\ "graph" \in DOMAIN reader
    BY DEF ReadGraph, ReaderForm
  <2>2. reader' = [reader EXCEPT !.graph = AddService(g, reader.org, name)]
    BY <1>1, <1>2
  <2>3. AddService(g, reader.org, name) =
          [left  |-> g.left \ {name},
           nodes |-> g.nodes \cup {name} \cup on,
           edges |-> g.edges \cup new]
    BY DEF AddService
  <2> HIDE DEF on, new
  <2> QED BY <2>1, <2>2, <2>3
<1>8. Edges(reader.org, dependencies)' = E
  BY <1>3, <1>7 DEF ReadGraph, Edges
<1>9. Ends(g.edges \cup new) = Ends(g.edges) \cup Ends(new)
  BY EndsOfBoth
<1>10. \A n : n \in Ends(new) <=> n \in on \/ (n = name /\ on # {})
  <2>1. \A n : n \in Ends(new) <=>
                \E d \in on : n \in {<<name, d>>[1], <<name, d>>[2]}
    BY DEF Ends
  <2> HIDE DEF on, new
  <2> QED BY <2>1
<1>11. name \in g.left /\ name \in reader.listed
  BY <1>1, <1>2, <1>7 DEF GraphAgrees
<1> HIDE DEF on, new
<1>12. /\ g.left \subseteq reader.listed
       /\ g.edges \subseteq reader.ever
       /\ reader.lasting \subseteq E
       /\ E \subseteq reader.ever
       /\ \A edge \in reader.lasting : edge[1] \in reader.listed \ g.left => edge \in g.edges
       /\ g.nodes = (reader.listed \ g.left) \cup Ends(g.edges)
  BY <1>2, <1>3, <1>7 DEF GraphAgrees
<1>13. reader'.graph.nodes = (reader.listed \ (g.left \ {name})) \cup Ends(g.edges \cup new)
  <2>1. PICK A, B : A = Ends(g.edges) /\ B = Ends(new)
    OBVIOUS
  <2>2. B \cup {name} = on \cup {name}
    BY <1>10, <2>1
  <2>3. reader'.graph.nodes = (reader.listed \ g.left) \cup A \cup {name} \cup on
    BY <1>7, <1>12, <2>1
  <2>4. reader'.graph.nodes = (reader.listed \ (g.left \ {name})) \cup A \cup B
    BY <1>11, <2>2, <2>3
  <2> QED BY <1>9, <2>1, <2>4
<1>14. \A edge \in reader.lasting :
         edge[1] \in reader.listed \ (g.left \ {name}) => edge \in g.edges \cup new
  BY <1>5, <1>12
<1>15. reader'.graph.left = g.left \ {name} /\ reader'.graph.edges = g.edges \cup new
  BY <1>7
<1> QED BY <1>6, <1>7, <1>8, <1>12, <1>13, <1>14, <1>15 DEF GraphAgrees

LEMMA GraphStep == ReaderForm /\ GraphAgrees /\ [PageNext]_pageVars => GraphAgrees'
<1> SUFFICES ASSUME ReaderForm, GraphAgrees, [PageNext]_pageVars PROVE GraphAgrees'
  OBVIOUS
<1>1. UNCHANGED <<reader, dependencies>> => GraphAgrees'
  BY DEF GraphAgrees, Edges
<1>2. reader'.at # "graph" => GraphAgrees'
  BY DEF GraphAgrees
<1>3. ASSUME NEW o \in Orgs, OpenGraph(o) PROVE GraphAgrees'
  <2>1. Ends({}) = {}
    BY DEF Ends
  <2>2. PICK L : L = EmptyGraph(o).left
    OBVIOUS
  <2>3. EmptyGraph(o) = [left |-> L, nodes |-> {}, edges |-> {}]
    BY <2>2 DEF EmptyGraph
  <2>4. PICK E : E = Edges(o, dependencies)
    OBVIOUS
  <2>5. /\ reader'.org = o
        /\ reader'.graph = [left |-> L, nodes |-> {}, edges |-> {}]
        /\ reader'.listed = L
        /\ reader'.lasting = E
        /\ reader'.ever = E
    BY <1>3, <2>2, <2>3, <2>4 DEF OpenGraph
  <2>6. Edges(reader.org, dependencies)' = E
    BY <1>3, <2>4, <2>5 DEF OpenGraph, Edges
  <2> QED BY <2>1, <2>5, <2>6 DEF GraphAgrees
<1>4. CASE Leave
  BY <1>2, <1>4 DEF Leave, NoPage
<1>5. ASSUME NEW o \in Orgs, NEW name \in Names, OpenPage(o, name) PROVE GraphAgrees'
  BY <1>2, <1>5 DEF OpenPage
<1>6. CASE ReadPage
  BY <1>2, <1>6 DEF ReadPage, ReaderForm
<1>7. ASSUME NEW o, NEW f, OpenStream(o, f) PROVE GraphAgrees'
  BY <1>2, <1>7 DEF OpenStream
<1>8. CASE Poll
  BY <1>2, <1>8 DEF Poll, ReaderForm
<1> QED
  BY <1>1, <1>3, <1>4, <1>5, <1>6, <1>7, <1>8, GraphWatched, GraphAddsService
     DEF PageNext, pageVars, EnterDependency, RemoveDependency, Delete

\* A dependency is one row, whichever of its services' pages asks for it.
LEMMA DependencyOnBothPages ==
  ASSUME NEW o, NEW name, NEW on
  PROVE  on \in ListServiceDependencies(o, name) <=> name \in ListServiceDependants(o, on)
BY DEF ListServiceDependencies, ListServiceDependants

LEMMA GraphAgreesIsFaithful == GraphAgrees => GraphIsFaithful
<1> SUFFICES ASSUME GraphAgrees PROVE GraphIsFaithful
  OBVIOUS
<1>1. reader.at = "graph" =>
        LET g    == reader.graph
            read == reader.listed \ g.left
        IN
        /\ g.edges \subseteq reader.ever
        /\ \A edge \in reader.lasting : edge[1] \in read => edge \in g.edges
        /\ g.nodes = read \cup Ends(g.edges)
  BY DEF GraphAgrees
<1> QED BY <1>1, DependencyOnBothPages DEF GraphIsFaithful

\* BuildDependencyGraph asks for the dependencies service by service, while they
\* change: it draws no edge that was never there, and every edge that was there
\* throughout.
THEOREM GraphStaysFaithful == PageSpec => []GraphIsFaithful
<1>1. PageInit => ReaderForm /\ GraphAgrees
  BY ReaderFormInit, GraphInit
<1>2. ReaderForm /\ GraphAgrees /\ [PageNext]_pageVars => (ReaderForm /\ GraphAgrees)'
  BY ReaderFormStep, GraphStep
<1> QED BY <1>1, <1>2, GraphAgreesIsFaithful, PTL DEF PageSpec

-----------------------------------------------------------------------------
(* Sums.  SumFunction is a recursion over the subsets of a domain.  That   *)
(* there is one solution, and what it comes to, is shown of a least subset *)
(* on which it would fail.                                                 *)

Picked(S) == CHOOSE x \in S : TRUE

Solves(g, F, D) ==
  g = [S \in SUBSET D |-> IF S = {} THEN 0 ELSE F[Picked(S)] + g[S \ {Picked(S)}]]

LEMMA PickedIsIn == \A S : S # {} => Picked(S) \in S
BY DEF Picked

LEMMA SolvesAt ==
  ASSUME NEW F, NEW D, NEW g, Solves(g, F, D), NEW S \in SUBSET D
  PROVE  g[S] = IF S = {} THEN 0 ELSE F[Picked(S)] + g[S \ {Picked(S)}]
BY DEF Solves

\* A solution over a set is one over its subsets.
LEMMA SolvesBelow ==
  ASSUME NEW F, NEW D, NEW g, Solves(g, F, D), NEW E \in SUBSET D
  PROVE  Solves([S \in SUBSET E |-> g[S]], F, E)
<1> DEFINE h == [S \in SUBSET E |-> g[S]]
<1>1. ASSUME NEW S \in SUBSET E
      PROVE  h[S] = IF S = {} THEN 0 ELSE F[Picked(S)] + h[S \ {Picked(S)}]
  BY SolvesAt
<1>2. h = [S \in SUBSET E |-> h[S]]
  OBVIOUS
<1> HIDE DEF h
<1>3. h = [S \in SUBSET E |-> IF S = {} THEN 0 ELSE F[Picked(S)] + h[S \ {Picked(S)}]]
  BY <1>1, <1>2
<1> QED BY <1>3 DEF Solves, h

\* There is one solution at most.
LEMMA SolvesOnce ==
  ASSUME NEW F, NEW D, IsFiniteSet(D), NEW g, NEW h, Solves(g, F, D), Solves(h, F, D)
  PROVE  g = h
<1> DEFINE C == {S \in SUBSET D : g[S] # h[S]}
<1>1. ASSUME C # {} PROVE FALSE
  <2>1. PICK A \in C : \A B \in C : B \subseteq A => B = A
    <3>1. C \in SUBSET SUBSET D
      OBVIOUS
    <3> HIDE DEF C
    <3> QED BY <1>1, <3>1, LeastSubset
  <2>2. A \in SUBSET D /\ g[A] # h[A]
    OBVIOUS
  <2>3. A # {}
    BY <2>2, SolvesAt
  <2>4. PICK B : B = A \ {Picked(A)}
    OBVIOUS
  <2>5. B \in SUBSET D /\ B \subseteq A /\ B # A
    BY <2>2, <2>3, <2>4, PickedIsIn
  <2>6. g[B] = h[B]
    BY <2>1, <2>5
  <2> QED BY <2>2, <2>3, <2>4, <2>6, SolvesAt
<1>2. \A S \in SUBSET D : g[S] = h[S]
  BY <1>1
<1>3. /\ g = [S \in SUBSET D |-> g[S]]
      /\ h = [S \in SUBSET D |-> h[S]]
  BY DEF Solves
<1> QED BY <1>2, <1>3

\* And there is one.
LEMMA SolvesExist ==
  ASSUME NEW F, NEW D, IsFiniteSet(D)
  PROVE  \E g : Solves(g, F, D)
<1> DEFINE C == {E \in SUBSET D : ~\E g : Solves(g, F, E)}
<1> SUFFICES ASSUME C # {} PROVE FALSE
  OBVIOUS
<1>1. PICK A \in C : \A B \in C : B \subseteq A => B = A
  <2>1. C \in SUBSET SUBSET D
    OBVIOUS
  <2> HIDE DEF C
  <2> QED BY <2>1, LeastSubset
<1>2. A \in SUBSET D /\ ~\E g : Solves(g, F, A)
  OBVIOUS
<1>3. \A B \in SUBSET A : B # A => \E g : Solves(g, F, B)
  BY <1>1, <1>2
<1> DEFINE sol(B) == CHOOSE g : Solves(g, F, B)
           rest(S) == S \ {Picked(S)}
           G == [S \in SUBSET A |-> IF S = {} THEN 0 ELSE F[Picked(S)] + sol(rest(S))[rest(S)]]
<1>4. \A B \in SUBSET A : B # A => Solves(sol(B), F, B)
  BY <1>3
<1>5. \A S \in SUBSET A : S # {} => rest(S) \in SUBSET A /\ rest(S) # A
  BY PickedIsIn
<1> HIDE DEF sol
<1>6. ASSUME NEW T \in SUBSET A, T # A
      PROVE  G[T] = sol(T)[T]
  <2>1. Solves(sol(T), F, T)
    BY <1>4, <1>6
  <2>2. CASE T = {}
    <3>1. sol(T)[T] = 0
      BY <2>1, <2>2, SolvesAt
    <3> QED BY <2>2, <3>1
  <2>3. CASE T # {}
    <3>1. PICK U : U = rest(T)
      OBVIOUS
    <3>2. U \in SUBSET T /\ U \in SUBSET A /\ U # A
      BY <1>5, <2>3, <3>1
    <3>3. sol(T)[T] = F[Picked(T)] + sol(T)[U]
      BY <2>1, <2>3, <3>1, SolvesAt
    <3>4. PICK h : h = [S \in SUBSET U |-> sol(T)[S]]
      OBVIOUS
    <3>5. Solves(h, F, U)
      BY <2>1, <3>2, <3>4, SolvesBelow
    <3>6. Solves(sol(U), F, U) /\ IsFiniteSet(U)
      BY <1>4, <3>2, <1>2, FS_Subset
    <3>7. h = sol(U)
      BY <3>5, <3>6, SolvesOnce
    <3>8. sol(T)[U] = sol(U)[U]
      BY <3>4, <3>7
    <3>9. G[T] = F[Picked(T)] + sol(U)[U]
      BY <2>3, <3>1
    <3> QED BY <3>3, <3>8, <3>9
  <2> QED BY <2>2, <2>3
<1>7. ASSUME NEW S \in SUBSET A
      PROVE  G[S] = IF S = {} THEN 0 ELSE F[Picked(S)] + G[rest(S)]
  <2>1. CASE S = {}
    BY <2>1
  <2>2. CASE S # {}
    <3>1. PICK T : T = rest(S)
      OBVIOUS
    <3>2. G[T] = sol(T)[T]
      BY <1>5, <1>6, <2>2, <3>1
    <3>3. G[S] = F[Picked(S)] + sol(T)[T]
      BY <2>2, <3>1
    <3> QED BY <2>2, <3>1, <3>2, <3>3
  <2> QED BY <2>1, <2>2
<1>8. G = [S \in SUBSET A |-> G[S]]
  OBVIOUS
<1> HIDE DEF G
<1>9. G = [S \in SUBSET A |-> IF S = {} THEN 0 ELSE F[Picked(S)] + G[S \ {Picked(S)}]]
  BY <1>7, <1>8
<1>10. Solves(G, F, A)
  BY <1>9 DEF Solves
<1> QED BY <1>2, <1>10

LEMMA SumIsSolution ==
  ASSUME NEW F, IsFiniteSet(DOMAIN F)
  PROVE  \E g : Solves(g, F, DOMAIN F) /\ SumFunction(F) = g[DOMAIN F]
<1> DEFINE sol == CHOOSE g : Solves(g, F, DOMAIN F)
<1>1. SumFunction(F) = sol[DOMAIN F]
  BY DEF SumFunction, SumFunctionOnSet, FoldFunctionOnSet, MapThenFoldSet, Picked, Solves
<1>2. Solves(sol, F, DOMAIN F)
  BY SolvesExist
<1> QED BY <1>1, <1>2

LEMMA ImageIsFinite ==
  ASSUME NEW S, IsFiniteSet(S), NEW f, DOMAIN f = S
  PROVE  /\ IsFiniteSet({f[x] : x \in S})
         /\ Cardinality({f[x] : x \in S}) <= Cardinality(S)
<1> DEFINE T == {f[x] : x \in S}
           h == [x \in S |-> f[x]]
<1>1. h \in Surjection(S, T)
  BY DEF Surjection
<1> QED BY <1>1, FS_Surjection

\* The sizes of the parts of a finite set add up to its own.
LEMMA SumOfSizes ==
  ASSUME NEW T, IsFiniteSet(T), NEW S, IsFiniteSet(S), NEW part, \A x \in T : part[x] \in S,
         NEW F, F = [k \in S |-> Cardinality({x \in T : part[x] = k})]
  PROVE  SumFunction(F) = Cardinality(T)
<1>1. DOMAIN F = S
  OBVIOUS
<1>2. PICK g : Solves(g, F, S) /\ SumFunction(F) = g[S]
  BY <1>1, SumIsSolution
<1> DEFINE In(A) == {x \in T : part[x] \in A}
           C == {A \in SUBSET S : g[A] # Cardinality(In(A))}
<1>3. ASSUME C # {} PROVE FALSE
  <2>1. PICK A \in C : \A B \in C : B \subseteq A => B = A
    <3>1. C \in SUBSET SUBSET S
      OBVIOUS
    <3> HIDE DEF C
    <3> QED BY <1>3, <3>1, LeastSubset
  <2>2. A \in SUBSET S /\ g[A] # Cardinality(In(A))
    OBVIOUS
  <2>3. A # {}
    <3>1. SUFFICES ASSUME A = {} PROVE FALSE
      OBVIOUS
    <3>2. In(A) = {}
      BY <3>1
    <3>3. g[A] = 0
      BY <1>2, <3>1, SolvesAt
    <3> QED BY <2>2, <3>2, <3>3, FS_EmptySet
  <2>4. PICK k, B : k = Picked(A) /\ B = A \ {k}
    OBVIOUS
  <2>5. k \in A /\ k \in S /\ B \in SUBSET S /\ B \subseteq A /\ B # A
    BY <2>2, <2>3, <2>4, PickedIsIn
  <2>6. g[B] = Cardinality(In(B))
    BY <2>1, <2>5
  <2>7. g[A] = F[k] + g[B]
    BY <1>2, <2>2, <2>3, <2>4, SolvesAt
  <2>8. F[k] = Cardinality({x \in T : part[x] = k})
    BY <2>5
  <2>9. PICK X, Y : X = {x \in T : part[x] = k} /\ Y = In(B)
    OBVIOUS
  <2>10. X \cup Y = In(A) /\ X \cap Y = {}
    BY <2>4, <2>5, <2>9
  <2>11. IsFiniteSet(X) /\ IsFiniteSet(Y)
    BY <2>9, FS_Subset
  <2>12. Cardinality(X \cup Y) = Cardinality(X) + Cardinality(Y) - Cardinality(X \cap Y)
    BY <2>11, FS_Union
  <2>13. Cardinality(X \cap Y) = 0
    BY <2>10, FS_EmptySet
  <2>14. Cardinality(X) \in Nat /\ Cardinality(Y) \in Nat
    BY <2>11, FS_CardinalityType
  <2>15. Cardinality(In(A)) = Cardinality(X) + Cardinality(Y)
    <3>1. Cardinality(In(A)) = Cardinality(X \cup Y)
      BY <2>10
    <3>2. Cardinality(X \cup Y) = Cardinality(X) + Cardinality(Y)
      <4> PICK n, m, i : n = Cardinality(X) /\ m = Cardinality(Y) /\ i = Cardinality(X \cap Y)
        OBVIOUS
      <4> QED BY <2>12, <2>13, <2>14
    <3> HIDE DEF In
    <3> QED BY <3>1, <3>2
  <2> HIDE DEF In, C
  <2> QED BY <2>2, <2>6, <2>7, <2>8, <2>9, <2>15
<1>4. g[S] = Cardinality(In(S))
  BY <1>3
<1>5. In(S) = T
  OBVIOUS
<1> HIDE DEF In
<1> QED BY <1>2, <1>4, <1>5

-----------------------------------------------------------------------------
(* Lead times.                                                             *)

\* A strict order on a finite set, as a set of pairs, has a first element.
LEMMA FirstExists ==
  ASSUME NEW S, IsFiniteSet(S), S # {}, NEW R,
         \A x \in S : <<x, x>> \notin R,
         \A x, y, z \in S : <<x, y>> \in R /\ <<y, z>> \in R => <<x, z>> \in R
  PROVE  \E x \in S : \A z \in S : <<z, x>> \notin R
<1> DEFINE Closed(T) == T # {} /\ \A x \in T, z \in S : <<z, x>> \in R => z \in T
           C == {T \in SUBSET S : Closed(T)}
<1>1. C \in SUBSET SUBSET S /\ C # {}
  <2>1. Closed(S)
    OBVIOUS
  <2> QED BY <2>1
<1>2. PICK A \in C : \A B \in C : B \subseteq A => B = A
  <2> HIDE DEF C
  <2> QED BY <1>1, LeastSubset
<1>3. A \in SUBSET S /\ Closed(A)
  BY <1>2
<1>4. PICK x \in A : x \in S /\ \A z \in S : <<z, x>> \in R => z \in A
  BY <1>3
<1> DEFINE before == {z \in S : <<z, x>> \in R}
<1>5. before \in SUBSET S /\ before \subseteq A /\ x \notin before
  BY <1>3, <1>4
<1>6. before # {} => Closed(before)
  BY <1>4
<1>7. before = {}
  <2>1. before \in C => before = A
    BY <1>2, <1>5
  <2> HIDE DEF before, Closed
  <2> QED BY <1>4, <1>5, <1>6, <2>1
<1> QED BY <1>4, <1>7

\* Of finitely many numbers one is the greatest.
LEMMA GreatestExists ==
  ASSUME NEW S \in SUBSET Nat, IsFiniteSet(S), S # {}
  PROVE  \E m \in S : \A z \in S : z <= m
<1> DEFINE R == {p \in S \X S : p[1] > p[2]}
<1>1. \A x, y \in S : <<x, y>> \in R <=> x > y
  OBVIOUS
<1>2. \A x \in S : x \in Nat
  OBVIOUS
<1> HIDE DEF R
<1>3. \A x \in S : <<x, x>> \notin R
  BY <1>1, <1>2
<1>4. \A x, y, z \in S : <<x, y>> \in R /\ <<y, z>> \in R => <<x, z>> \in R
  BY <1>1, <1>2
<1>5. PICK x \in S : \A z \in S : <<z, x>> \notin R
  BY <1>3, <1>4, FirstExists
<1>6. ASSUME NEW z \in S PROVE z <= x
  <2>1. ~(z > x)
    BY <1>1, <1>5
  <2>2. z \in Nat /\ x \in Nat
    BY <1>2
  <2> QED BY <2>1, <2>2
<1> QED BY <1>5, <1>6

LEMMA MaxIsGreatest ==
  ASSUME NEW S \in SUBSET Nat, IsFiniteSet(S), S # {}
  PROVE  Max(S) \in S /\ \A z \in S : z <= Max(S)
<1>1. PICK m \in S : \A z \in S : m >= z
  BY GreatestExists
<1>2. \E n \in S : \A z \in S : n >= z
  BY <1>1
<1>3. Max(S) \in S /\ \A z \in S : Max(S) >= z
  BY <1>2 DEF Max
<1> QED BY <1>3

\* The changes that may have led to a deployment, and their times.
Before(o, since, d) ==
  {c \in Changes(o, ServiceName(d), since) : c.event.ts <= d.event.ts}

Times(S) == {c.event.ts : c \in S}

LEMMA SamplesAre ==
  ASSUME NEW o, NEW since, NEW s
  PROVE  s \in ListServiceLeadTimeSamples(o, since) <=>
           \E d \in Deploys(o, since) :
             /\ Before(o, since, d) # {}
             /\ s = [deploy |-> d, lead |-> d.event.ts - Max(Times(Before(o, since, d)))]
<1> DEFINE lead(d) == d.event.ts - Max(Times(Before(o, since, d)))
<1>1. ListServiceLeadTimeSamples(o, since) =
        {[deploy |-> d, lead |-> lead(d)] :
           d \in {x \in Deploys(o, since) : Before(o, since, x) # {}}}
  BY DEF ListServiceLeadTimeSamples, Before, Times
<1> HIDE DEF lead
<1>2. s \in ListServiceLeadTimeSamples(o, since) <=>
        \E d \in Deploys(o, since) :
          Before(o, since, d) # {} /\ s = [deploy |-> d, lead |-> lead(d)]
  BY <1>1
<1> QED BY <1>2 DEF lead

LEMMA SamplesAreNext ==
  \A o, since, s :
    (s \in ListServiceLeadTimeSamples(o, since) <=>
       \E d \in Deploys(o, since) :
         /\ Before(o, since, d) # {}
         /\ s = [deploy |-> d, lead |-> d.event.ts - Max(Times(Before(o, since, d)))])'
<1>1. \A o, since, s :
        s \in ListServiceLeadTimeSamples(o, since) <=>
          \E d \in Deploys(o, since) :
            /\ Before(o, since, d) # {}
            /\ s = [deploy |-> d, lead |-> d.event.ts - Max(Times(Before(o, since, d)))]
  BY SamplesAre
<1>2. (\A o, since, s :
         s \in ListServiceLeadTimeSamples(o, since) <=>
           \E d \in Deploys(o, since) :
             /\ Before(o, since, d) # {}
             /\ s = [deploy |-> d, lead |-> d.event.ts - Max(Times(Before(o, since, d)))])'
  BY <1>1, PTL
<1> QED BY <1>2

LEMMA TimesAreNumbers ==
  ProjectionsInv => \A S \in SUBSET store :
    Times(S) \in SUBSET Nat /\ IsFiniteSet(Times(S)) /\ (S # {} => Times(S) # {})
<1> SUFFICES ASSUME ProjectionsInv, NEW S \in SUBSET store
             PROVE  Times(S) \in SUBSET Nat /\ IsFiniteSet(Times(S)) /\ (S # {} => Times(S) # {})
  OBVIOUS
<1>1. IsFiniteSet(S)
  BY RowsFacts, FS_Subset
<1> DEFINE f == [c \in S |-> c.event.ts]
<1>2. IsFiniteSet({f[c] : c \in S})
  BY <1>1, ImageIsFinite
<1>3. {f[c] : c \in S} = Times(S)
  BY DEF Times
<1>4. \A c \in S : c.event.ts \in Nat
  BY RowsFacts
<1> QED BY <1>2, <1>3, <1>4 DEF Times

\* As long as one row of an organization stays, all of them do.
LEMMA OrganizationStays ==
  ASSUME [Next]_vars, NEW d \in store, d \in store', NEW x \in store, x.event.org = d.event.org
  PROVE  x \in store'
BY DEF Next, vars, AppendEventStore, AppendDuplicate, AppendOther, AppendService,
       DeleteOrganization, Rebuild, StartRebuild, Clear, Refill, RefillFails, Die

\* What arrives brings the nearest change before a deployment only closer.
LEMMA LeadShrinks ==
  ASSUME ProjectionsInv, ProjectionsInv', [Next]_vars, NEW o, NEW since,
         NEW s \in ListServiceLeadTimeSamples(o, since), s.deploy \in store'
  PROVE  \E t \in ListServiceLeadTimeSamples(o, since)' : t.deploy = s.deploy /\ t.lead <= s.lead
<1>1. PICK d \in Deploys(o, since) :
        /\ Before(o, since, d) # {}
        /\ s = [deploy |-> d, lead |-> d.event.ts - Max(Times(Before(o, since, d)))]
  BY SamplesAre
<1>2. PICK B : B = Before(o, since, d)
  OBVIOUS
<1>3. PICK C : C = Before(o, since, d)'
  OBVIOUS
<1>4. s.deploy = d /\ s.lead = d.event.ts - Max(Times(B))
  BY <1>1, <1>2
<1>5. d \in store /\ d.event.org = o /\ d \in store'
  BY <1>1, <1>4 DEF Deploys, RowsOf, ServiceRows
<1>6. \A x \in store : x.event.org = o => x \in store'
  BY <1>5, OrganizationStays
<1>7. d \in Deploys(o, since)'
  BY <1>1, <1>5 DEF Deploys, RowsOf, ServiceRows
<1>8. B \subseteq C /\ B \subseteq store /\ C \subseteq store'
  BY <1>2, <1>3, <1>6 DEF Before, Changes
<1>9. B # {} /\ C # {}
  BY <1>1, <1>2, <1>8
<1>10. Times(B) \in SUBSET Nat /\ IsFiniteSet(Times(B)) /\ Times(B) # {}
  BY <1>8, <1>9, TimesAreNumbers
<1>11. Times(C) \in SUBSET Nat /\ IsFiniteSet(Times(C)) /\ Times(C) # {}
  <2>1. (ProjectionsInv => \A S \in SUBSET store :
           Times(S) \in SUBSET Nat /\ IsFiniteSet(Times(S)) /\ (S # {} => Times(S) # {}))'
    BY TimesAreNumbers, PTL
  <2> QED BY <1>8, <1>9, <2>1
<1>12. Times(B) \subseteq Times(C)
  BY <1>8 DEF Times
<1>13. PICK m, n : m = Max(Times(B)) /\ n = Max(Times(C))
  OBVIOUS
<1>14. m \in Nat /\ n \in Nat /\ m <= n
  <2>1. m \in Times(B)
    BY <1>10, <1>13, MaxIsGreatest
  <2>2. n \in Times(C) /\ \A z \in Times(C) : z <= n
    BY <1>11, <1>13, MaxIsGreatest
  <2> QED BY <1>10, <1>11, <1>12, <2>1, <2>2
<1> DEFINE t == [deploy |-> d, lead |-> d.event.ts - n]
<1>15. t \in ListServiceLeadTimeSamples(o, since)'
  <2>2. /\ Before(o, since, d)' # {}
        /\ t = [deploy |-> d, lead |-> d.event.ts - Max(Times(Before(o, since, d)'))]
    BY <1>3, <1>9, <1>13
  <2> QED BY <1>7, <2>2, SamplesAreNext
<1>16. d.event.ts \in Nat
  BY <1>5, RowsFacts
<1>17. t.deploy = s.deploy /\ t.lead <= s.lead
  BY <1>4, <1>13, <1>14, <1>16
<1> QED BY <1>15, <1>17

LEMMA LeadTimesShrink ==
  ProjectionsInv /\ ProjectionsInv' /\ [Next]_vars =>
    [\A o \in Orgs, days \in Windows :
       \A s \in ListServiceLeadTimeSamples(o, Since(days)) :
         s.deploy \in store' =>
           \E t \in ListServiceLeadTimeSamples(o, Since(days))' :
             t.deploy = s.deploy /\ t.lead <= s.lead]_vars
<1> SUFFICES ASSUME ProjectionsInv, ProjectionsInv', [Next]_vars, NEW o \in Orgs,
                    NEW days \in Windows,
                    NEW s \in ListServiceLeadTimeSamples(o, Since(days)), s.deploy \in store'
             PROVE  \E t \in ListServiceLeadTimeSamples(o, Since(days))' :
                      t.deploy = s.deploy /\ t.lead <= s.lead
  OBVIOUS
<1> QED BY LeadShrinks

\* Whatever arrives late or is deleted, no sample of a stored deployment is lost
\* and no lead time grows (ListServiceLeadTimeSamples).
THEOREM LeadTimesNeverGrow == PageSpec => LeadTimesOnlyShrink
BY LeadTimesShrink, PageProjections, PageStepProjects, PTL DEF PageSpec, LeadTimesOnlyShrink

-----------------------------------------------------------------------------
(* One page, read after read.  What an earlier read has shown was in the   *)
(* store then; as far as it still is, it has been there for the later read *)
(* too, and that one covers all the store.                                 *)

Recent(x) == Now - Minute(x) * MinuteLength <= WindowDays * DayLength

\* A row of the service that r shows, appended before the n-th.
IsRowOf(r, x, n) ==
  /\ x \in Row /\ x.seq <= n
  /\ x.event.type = "service"
  /\ x.event.org = r.org /\ Matches(x, r.name)

RecentOf(r, S) == {x \in r.history \cap S : x.event.kind # "other" /\ Recent(x)}

\* The rows of the environments are in the history, or it is full of newer ones.
HistoryFollows(r, S, n) ==
  /\ IsFiniteSet(r.history)
  /\ \A x \in r.history : IsRowOf(r, x, n)
  /\ \A x \in r.environments \cap S :
       \/ x \in r.history
       \/ Cardinality(r.history) = HistoryLimit /\ \A y \in r.history : Newer(y, x)

CurrentFollows(r, S) ==
  /\ \A x \in r.history \cap S, c \in r.current : ~Newer(x, c.latest)
  /\ r.history \cap S # {} => r.current # {}

StatsFollow(r, S) ==
  /\ r.stats.success \in Nat /\ r.stats.failure \in Nat /\ r.stats.rollback \in Nat
  /\ Cardinality(RecentOf(r, S)) <= r.stats.success + r.stats.failure + r.stats.rollback

LinksFollow(r, S) ==
  \A x \in r.history \cap S : x \in r.links \/ Cardinality(r.links) = LinksLimit

\* What the reads done so far have to do with each other.
PageAgrees(r, S, n) ==
  /\ r.at \in PageStages \ {"environments"} => \A x \in r.environments : IsRowOf(r, x, n)
  /\ r.at \in {"current", "stats", "links", "shown"} => HistoryFollows(r, S, n)
  /\ r.at \in {"stats", "links", "shown"} => CurrentFollows(r, S)
  /\ r.at \in {"links", "shown"} => StatsFollow(r, S)
  /\ r.at = "shown" => LinksFollow(r, S)

\* Rows get numbers no row has had.
LEMMA StoreMoves ==
  ProjectionsInv /\ [Next]_vars =>
    /\ lastSeq \in Nat /\ lastSeq' \in Nat /\ lastSeq <= lastSeq'
    /\ \A x \in store' : x \in store \/ x.seq > lastSeq
<1> SUFFICES ASSUME ProjectionsInv, [Next]_vars
             PROVE  /\ lastSeq \in Nat /\ lastSeq' \in Nat /\ lastSeq <= lastSeq'
                    /\ \A x \in store' : x \in store \/ x.seq > lastSeq
  OBVIOUS
<1>1. lastSeq \in Nat
  BY DEF ProjectionsInv, TypeOK
<1>2. ASSUME NEW e, AppendEventStore(e)
      PROVE  /\ lastSeq' = lastSeq + 1
             /\ \A x \in store' : x \in store \/ x.seq = lastSeq + 1
  BY <1>2 DEF AppendEventStore, AppendDuplicate, AppendOther, AppendService
<1>3. ASSUME NEW o, DeleteOrganization(o)
      PROVE  lastSeq' = lastSeq /\ store' \subseteq store
  BY <1>3 DEF DeleteOrganization
<1>4. ASSUME NEW t, Rebuild(t)
      PROVE  UNCHANGED <<store, lastSeq>>
  BY <1>4 DEF Rebuild, StartRebuild, Clear, Refill, RefillFails, Die
<1>5. UNCHANGED vars => UNCHANGED <<store, lastSeq>>
  BY DEF vars
<1>6. \/ lastSeq' = lastSeq + 1 /\ \A x \in store' : x \in store \/ x.seq = lastSeq + 1
      \/ lastSeq' = lastSeq /\ store' \subseteq store
  BY <1>2, <1>3, <1>4, <1>5 DEF Next
<1> QED BY <1>1, <1>6

\* What is appended or deleted leaves the reads of a page in agreement.
LEMMA PageAgreesStays ==
  ASSUME NEW r, NEW S, NEW T, NEW n \in Nat, NEW m \in Nat, n <= m, PageAgrees(r, S, n),
         \A x \in T : x \in S \/ x.seq > n
  PROVE  PageAgrees(r, T, m)
<1>1. \A x : IsRowOf(r, x, n) => IsRowOf(r, x, m) /\ x.seq <= n
  <2>1. \A x \in Row : x.seq \in Nat
    BY DEF Row
  <2> QED BY <2>1 DEF IsRowOf
<1>2. \A x \in T : IsRowOf(r, x, n) => x \in S
  <2>1. \A x \in Row : x.seq \in Nat
    BY DEF Row
  <2> QED BY <2>1 DEF IsRowOf
<1>3. HistoryFollows(r, S, n) => r.history \cap T \subseteq r.history \cap S
  BY <1>2 DEF HistoryFollows
<1>4. (\A x \in r.environments : IsRowOf(r, x, n)) /\ HistoryFollows(r, S, n)
        => HistoryFollows(r, T, m)
  BY <1>1, <1>2 DEF HistoryFollows
<1>5. HistoryFollows(r, S, n) /\ CurrentFollows(r, S) => CurrentFollows(r, T)
  BY <1>3 DEF CurrentFollows
<1>6. HistoryFollows(r, S, n) /\ StatsFollow(r, S) => StatsFollow(r, T)
  <2> SUFFICES ASSUME HistoryFollows(r, S, n), StatsFollow(r, S) PROVE StatsFollow(r, T)
    OBVIOUS
  <2>1. RecentOf(r, T) \subseteq RecentOf(r, S) /\ RecentOf(r, S) \subseteq r.history
    BY <1>3 DEF RecentOf
  <2>2. IsFiniteSet(RecentOf(r, S))
    BY <2>1, FS_Subset DEF HistoryFollows
  <2>3. /\ Cardinality(RecentOf(r, T)) <= Cardinality(RecentOf(r, S))
        /\ Cardinality(RecentOf(r, T)) \in Nat /\ Cardinality(RecentOf(r, S)) \in Nat
    BY <2>1, <2>2, FS_Subset, FS_CardinalityType
  <2> QED BY <2>3 DEF StatsFollow
<1>7. HistoryFollows(r, S, n) /\ LinksFollow(r, S) => LinksFollow(r, T)
  BY <1>3 DEF LinksFollow
<1> QED BY <1>1, <1>4, <1>5, <1>6, <1>7 DEF PageAgrees, PageStages

\* Of a set with rows that are not among its first n, the first n are n, all
\* of them newer.
LEMMA OldestExists ==
  ASSUME NEW S \in SUBSET Row, IsFiniteSet(S), S # {}
  PROVE  \E x \in S : \A z \in S : ~Newer(x, z)
<1> DEFINE R == {p \in S \X S : Newer(p[2], p[1])}
<1>1. \A x, y \in S : <<x, y>> \in R <=> Newer(y, x)
  OBVIOUS
<1> HIDE DEF R
<1>2. \A x, y, z \in Row : Newer(x, y) /\ Newer(y, z) => Newer(x, z)
  BY DEF Newer, Row, Event
<1>3. \A x \in Row : ~Newer(x, x)
  BY DEF Newer, Row, Event
<1>4. \A x \in S : <<x, x>> \notin R
  BY <1>1, <1>3
<1>5. \A x, y, z \in S : <<x, y>> \in R /\ <<y, z>> \in R => <<x, z>> \in R
  BY <1>1, <1>2
<1>6. PICK x \in S : \A z \in S : <<z, x>> \notin R
  BY <1>4, <1>5, FirstExists
<1> QED BY <1>1, <1>6

LEMMA FirstRowsFull ==
  ASSUME NEW S \in SUBSET Row, IsFiniteSet(S), \A x, y \in S : x.seq = y.seq => x = y,
         NEW n \in Nat, NEW x \in S, x \notin FirstRows(S, n)
  PROVE  Cardinality(FirstRows(S, n)) = n /\ \A y \in FirstRows(S, n) : Newer(y, x)
<1> DEFINE above(z) == {y \in S : Newer(y, z)}
<1>1. PICK F : F = FirstRows(S, n)
  OBVIOUS
<1>2. \A z \in S : z \in F <=> Cardinality(above(z)) < n
  BY <1>1 DEF FirstRows
<1>3. F \subseteq S /\ IsFiniteSet(F) /\ Cardinality(F) \in Nat
  BY <1>1, FS_Subset, FS_CardinalityType DEF FirstRows
<1>4. \A z \in S : IsFiniteSet(above(z)) /\ Cardinality(above(z)) \in Nat
  BY FS_Subset, FS_CardinalityType
<1>5. \A y, z \in Row : Newer(y, z) => ~Newer(z, y)
  BY NewerOrder
<1>6. \A y, z \in S : ~Newer(y, z) /\ ~Newer(z, y) => y = z
  BY NewerOrder
<1>7. \A w, y, z \in Row : Newer(w, y) /\ Newer(y, z) => Newer(w, z)
  BY DEF Newer, Row, Event
<1>8. ASSUME NEW y \in F PROVE Newer(y, x)
  <2>1. SUFFICES ASSUME Newer(x, y) PROVE FALSE
    BY <1>1, <1>3, <1>6
  <2>2. above(x) \subseteq above(y)
    BY <1>3, <1>7, <2>1
  <2>3. Cardinality(above(x)) <= Cardinality(above(y))
    BY <1>3, <1>4, <2>2, FS_Subset
  <2>4. Cardinality(above(y)) < n /\ ~(Cardinality(above(x)) < n)
    BY <1>1, <1>2, <1>3
  <2> HIDE DEF above
  <2> QED BY <1>3, <1>4, <2>3, <2>4
<1>9. ~(Cardinality(F) < n)
  <2>1. SUFFICES ASSUME Cardinality(F) < n PROVE FALSE
    OBVIOUS
  <2>2. PICK w \in S \ F : \A z \in S \ F : ~Newer(z, w)
    <3>1. S \ F \in SUBSET Row /\ IsFiniteSet(S \ F) /\ S \ F # {}
      BY <1>1, FS_Subset
    <3> QED BY <3>1, NewestExists
  <2>3. above(w) \subseteq F
    BY <2>2
  <2>4. Cardinality(above(w)) <= Cardinality(F)
    BY <1>3, <2>3, FS_Subset
  <2>5. ~(Cardinality(above(w)) < n) /\ Cardinality(above(w)) \in Nat
    BY <1>2, <1>4, <2>2
  <2> HIDE DEF above
  <2> QED BY <1>3, <2>1, <2>4, <2>5
<1>10. ~(Cardinality(F) > n)
  <2>1. SUFFICES ASSUME Cardinality(F) > n PROVE FALSE
    OBVIOUS
  <2>2. F # {}
    <3>1. F = {} => Cardinality(F) = 0
      BY FS_EmptySet
    <3> QED BY <2>1, <3>1
  <2>3. PICK v \in F : \A z \in F : ~Newer(v, z)
    <3>1. F \in SUBSET Row
      BY <1>3
    <3> QED BY <1>3, <2>2, <3>1, OldestExists
  <2>4. F \ {v} \subseteq above(v)
    BY <1>3, <1>6, <2>3
  <2>5. Cardinality(F \ {v}) = Cardinality(F) - 1
    BY <1>3, <2>3, FS_RemoveElement
  <2>6. Cardinality(F \ {v}) <= Cardinality(above(v))
    BY <1>3, <1>4, <2>4, FS_Subset
  <2>7. Cardinality(above(v)) < n /\ Cardinality(above(v)) \in Nat
    BY <1>2, <1>3, <1>4, <2>3
  <2> HIDE DEF above
  <2> QED BY <1>3, <2>1, <2>5, <2>6, <2>7
<1> QED BY <1>1, <1>3, <1>8, <1>9, <1>10

\* The rows a page asks for are rows of its service.
LEMMA NamedAre ==
  ASSUME ProjectionsInv, NEW r
  PROVE  /\ \A x : x \in RowsNamed(r.org, r.name) <=> x \in store /\ IsRowOf(r, x, lastSeq)
         /\ RowsNamed(r.org, r.name) \in SUBSET Row
         /\ RowsNamed(r.org, r.name) \in SUBSET store
         /\ IsFiniteSet(RowsNamed(r.org, r.name))
<1>1. \A x : x \in RowsNamed(r.org, r.name) <=> x \in store /\ IsRowOf(r, x, lastSeq)
  BY RowsFacts DEF RowsNamed, RowsOf, ServiceRows, IsRowOf, ProjectionsInv, Numbered
<1>2. RowsNamed(r.org, r.name) \subseteq store
  BY <1>1
<1> QED BY <1>1, <1>2, RowsFacts, FS_Subset

\* Asked for by its name, a page shows the rows of that service alone.
LEMMA AskedFor ==
  ASSUME AskedByName, NEW r, r.name \in Names, NEW n, NEW x, IsRowOf(r, x, n)
  PROVE  Service(x) = <<r.org, r.name>>
<1>1. x.event.subject \in Subjects
  BY DEF IsRowOf, Row, Event
<1> QED BY <1>1 DEF AskedByName, IsRowOf, Matches, ServiceName, Service

LEMMA HistoryRead ==
  ASSUME ProjectionsInv, NEW r, \A x \in r.environments : IsRowOf(r, x, lastSeq),
         r.history = ListDeploymentHistory(r.org, r.name, HistoryLimit)
  PROVE  HistoryFollows(r, store, lastSeq)
<1>1. PICK S : S = RowsNamed(r.org, r.name)
  OBVIOUS
<1>2. /\ \A x : x \in S <=> x \in store /\ IsRowOf(r, x, lastSeq)
      /\ S \in SUBSET Row /\ S \subseteq store /\ IsFiniteSet(S)
  BY <1>1, NamedAre
<1>3. \A x, y \in S : x.seq = y.seq => x = y
  BY <1>2 DEF ProjectionsInv, Numbered
<1>4. r.history = FirstRows(S, HistoryLimit) /\ r.history \subseteq S
  BY <1>1 DEF ListDeploymentHistory, FirstRows
<1>5. ASSUME NEW x \in r.environments \cap store, x \notin r.history
      PROVE  Cardinality(r.history) = HistoryLimit /\ \A y \in r.history : Newer(y, x)
  <2>1. x \in S /\ x \notin FirstRows(S, HistoryLimit)
    BY <1>2, <1>4, <1>5
  <2> QED BY <1>2, <1>3, <1>4, <2>1, FirstRowsFull, PageAssumption
<1> QED BY <1>2, <1>4, <1>5, FS_Subset DEF HistoryFollows

LEMMA CurrentRead ==
  ASSUME ProjectionsInv, NoRebuild, PlainNames, AskedByName, NEW r, r.name \in Names,
         HistoryFollows(r, store, lastSeq), r.current = GetServiceCurrentState(r.org, r.name)
  PROVE  CurrentFollows(r, store)
<1>1. Covered /\ current = CurrentRows(envState)
  BY DEF ProjectionsInv, Complete, Refreshed
<1>2. envState \subseteq Row /\ envState \subseteq store /\ IsFiniteSet(envState)
  BY RowsFacts, FS_Subset
<1>3. PICK s : s = <<r.org, r.name>>
  OBVIOUS
<1>4. r.current = {c \in current : Service(c.latest) = s}
  BY <1>3 DEF GetServiceCurrentState
<1>5. ASSUME NEW x \in r.history \cap store
      PROVE  \E y \in envState : Service(y) = s /\ ~Newer(x, y)
  <2>1. IsRowOf(r, x, lastSeq)
    BY DEF HistoryFollows
  <2>2. Service(x) = s /\ x \in ServiceRows(store)
    BY <1>3, <2>1, AskedFor DEF IsRowOf, ServiceRows
  <2> QED BY <1>1, <2>2 DEF Covered, SamePlace
<1>6. ASSUME NEW x \in r.history \cap store, NEW c \in r.current
      PROVE  ~Newer(x, c.latest)
  <2>1. PICK y \in envState : Service(y) = s /\ ~Newer(x, y)
    BY <1>5
  <2>2. c \in CurrentOf(envState, s)
    BY <1>1, <1>4, CurrentRowsAre
  <2>3. c.latest \in envState /\ ~Newer(y, c.latest)
    BY <2>1, <2>2, CurrentIsOfService, CurrentIsNewest
  <2>4. x \in Row /\ y \in Row /\ c.latest \in Row
    BY <1>2, <2>3, RowsFacts
  <2> QED BY <2>1, <2>3, <2>4, NewerOrder
<1>7. ASSUME NEW x \in r.history \cap store
      PROVE  r.current # {}
  <2>1. \E y \in envState : Service(y) = s
    BY <1>5
  <2>2. PICK c : c \in CurrentOf(envState, s)
    BY <1>2, <2>1, CurrentExists
  <2>3. Service(c.latest) = s
    BY <2>2, CurrentIsOfService
  <2> QED BY <1>1, <1>4, <2>2, <2>3, CurrentRowsAre
<1> QED BY <1>6, <1>7 DEF CurrentFollows

\* A time of the last days is of one of the days they are counted in.
LEMMA DaysCovered ==
  ASSUME NEW t \in Nat, NEW w \in Nat, Now <= t + w * DayLength
  PROVE  t \div DayLength >= Now \div DayLength - w
<1>1. DayLength \in Nat \ {0} /\ Now \in Nat
  BY ProjectionAssumption, QueryAssumption
<1>2. PICK p, k : p = t \div DayLength /\ k = Now \div DayLength
  OBVIOUS
<1>3. /\ p \in Nat /\ k \in Nat
      /\ t < p * DayLength + DayLength
      /\ k * DayLength <= Now
  BY <1>1, <1>2
<1>4. k * DayLength < (p + w + 1) * DayLength
  <2>1. (p + w + 1) * DayLength = p * DayLength + w * DayLength + DayLength
    BY <1>1, <1>3
  <2> QED BY <1>1, <1>3, <2>1
<1>5. k < p + w + 1
  BY <1>1, <1>3, <1>4
<1> QED BY <1>1, <1>2, <1>3, <1>5

LEMMA RecentDays ==
  ASSUME NEW x, x.event.ts \in Nat, Recent(x)
  PROVE  InWindow(Day(x))
<1>1. DayLength \in Nat \ {0} /\ MinuteLength \in Nat \ {0} /\ Now \in Nat /\ WindowDays \in Nat
  BY ProjectionAssumption, QueryAssumption
<1>2. PICK t, q : t = x.event.ts /\ q = t \div MinuteLength
  OBVIOUS
<1>3. q \in Nat /\ q * MinuteLength <= t
  BY <1>1, <1>2
<1>4. Now - q * MinuteLength <= WindowDays * DayLength
  BY <1>2 DEF Recent, Minute
<1>5. Now <= t + WindowDays * DayLength
  BY <1>1, <1>2, <1>3, <1>4
<1>6. t \div DayLength >= Now \div DayLength - WindowDays
  BY <1>1, <1>2, <1>5, DaysCovered
<1> QED BY <1>2, <1>6 DEF Day, InWindow

LEMMA LinksRead ==
  ASSUME ProjectionsInv, NoRebuild, AskedByName, NEW r, r.name \in Names,
         HistoryFollows(r, store, lastSeq),
         r.links \in ListServiceChangeLinksRecent(r.org, r.name, LinksLimit)
  PROVE  LinksFollow(r, store)
<1>1. links = ServiceRows(store)
  BY DEF ProjectionsInv, Complete, Linked
<1>2. PICK mine : mine = {x \in links : Service(x) = <<r.org, r.name>>}
  OBVIOUS
<1>3. /\ r.links \subseteq mine
      /\ Cardinality(r.links) = IF Cardinality(mine) < LinksLimit THEN Cardinality(mine)
                                ELSE LinksLimit
  BY <1>2 DEF ListServiceChangeLinksRecent
<1>4. IsFiniteSet(mine)
  BY <1>1, <1>2, RowsFacts, FS_Subset
<1>5. Cardinality(r.links) = LinksLimit \/ r.links = mine
  BY <1>3, <1>4, FS_Subset
<1>6. ASSUME NEW x \in r.history \cap store
      PROVE  x \in mine
  <2>1. IsRowOf(r, x, lastSeq)
    BY DEF HistoryFollows
  <2> QED BY <1>1, <1>2, <2>1, AskedFor DEF IsRowOf, ServiceRows
<1> QED BY <1>5, <1>6 DEF LinksFollow

\* Rows are counted day by day, or all at once.
LEMMA DaySum ==
  ASSUME NEW P, IsFiniteSet(P), NEW K, IsFiniteSet(K), NEW F,
         F = [k \in K |-> Cardinality({x \in P : Day(x) = k})]
  PROVE  SumFunction(F) = Cardinality({x \in P : Day(x) \in K})
<1> DEFINE T == {x \in P : Day(x) \in K}
           part == [x \in T |-> Day(x)]
<1>1. IsFiniteSet(T) /\ \A x \in T : part[x] \in K
  BY FS_Subset
<1>2. \A k \in K : {x \in T : part[x] = k} = {x \in P : Day(x) = k}
  OBVIOUS
<1>3. F = [k \in K |-> Cardinality({x \in T : part[x] = k})]
  BY <1>2
<1>4. IsFiniteSet(K)
  OBVIOUS
<1> HIDE DEF T, part
<1>5. SumFunction(F) = Cardinality(T)
  BY ONLY <1>1, <1>3, <1>4, SumOfSizes
<1> QED BY <1>5 DEF T

\* An event of a kind that is counted is counted as one thing.
LEMMA KindsAreCounted ==
  ASSUME NEW x \in Row
  PROVE  /\ x.event.kind # "other" =>
              Tally(x).success = 1 \/ Tally(x).failure = 1 \/ Tally(x).rollback = 1
         /\ ~(Tally(x).success = 1 /\ Tally(x).failure = 1)
         /\ ~(Tally(x).success = 1 /\ Tally(x).rollback = 1)
         /\ ~(Tally(x).failure = 1 /\ Tally(x).rollback = 1)
<1>1. x.event.kind \in Kinds
  BY DEF Row, Event
<1>2. /\ Tally(x).success = IF x.event.kind \in {"deployed", "upgraded"} THEN 1 ELSE 0
      /\ Tally(x).failure = IF x.event.kind \in {"removed"} THEN 1 ELSE 0
      /\ Tally(x).rollback = IF x.event.kind \in {"rolledback"} THEN 1 ELSE 0
  BY DEF Tally, One
<1> QED BY <1>1, <1>2 DEF Kinds

LEMMA DailyDays ==
  ASSUME ProjectionsInv, NoRebuild
  PROVE  /\ DOMAIN daily = {Day(x) : x \in ServiceRows(store)}
         /\ IsFiniteSet(DOMAIN daily)
         /\ \A k \in DOMAIN daily :
              /\ daily[k].success = Cardinality({x \in {y \in ServiceRows(store) : Tally(y).success = 1} : Day(x) = k})
              /\ daily[k].failure = Cardinality({x \in {y \in ServiceRows(store) : Tally(y).failure = 1} : Day(x) = k})
              /\ daily[k].rollback = Cardinality({x \in {y \in ServiceRows(store) : Tally(y).rollback = 1} : Day(x) = k})
<1>1. PICK S : S = ServiceRows(store)
  OBVIOUS
<1>2. IsFiniteSet(S)
  BY <1>1, ShownAreTyped
<1>3. daily = DailyRows(S)
  BY <1>1 DEF ProjectionsInv, Complete, Counted
<1>4. DOMAIN daily = {Day(x) : x \in S}
  BY <1>3 DEF DailyRows
<1>5. IsFiniteSet(DOMAIN daily)
  <2> DEFINE f == [x \in S |-> Day(x)]
  <2>1. IsFiniteSet({f[x] : x \in S})
    BY <1>2, ImageIsFinite
  <2> QED BY <1>4, <2>1
<1>6. ASSUME NEW k \in DOMAIN daily
      PROVE  /\ daily[k].success = Cardinality(Successes(S, k))
             /\ daily[k].failure = Cardinality(Failures(S, k))
             /\ daily[k].rollback = Cardinality(Rollbacks(S, k))
  <2>1. daily[k] = [success |-> Cardinality(Successes(S, k)),
                    failure |-> Cardinality(Failures(S, k)),
                    rollback |-> Cardinality(Rollbacks(S, k))]
    BY <1>3, <1>4, DailyRowsAre
  <2> QED BY <2>1
<1>7. \A k : /\ Successes(S, k) = {x \in {y \in S : Tally(y).success = 1} : Day(x) = k}
             /\ Failures(S, k) = {x \in {y \in S : Tally(y).failure = 1} : Day(x) = k}
             /\ Rollbacks(S, k) = {x \in {y \in S : Tally(y).rollback = 1} : Day(x) = k}
  BY DEF Successes, Failures, Rollbacks
<1> QED BY <1>1, <1>4, <1>5, <1>6, <1>7

\* The counters of some days are the sizes of disjoint sets of rows of these
\* days, and no row of a counted kind is left out.
LEMMA DaysCount ==
  ASSUME ProjectionsInv, NoRebuild, NEW K \in SUBSET DOMAIN daily
  PROVE  LET success  == SumFunction([k \in K |-> daily[k].success])
             failure  == SumFunction([k \in K |-> daily[k].failure])
             rollback == SumFunction([k \in K |-> daily[k].rollback])
             those    == {x \in ServiceRows(store) : x.event.kind # "other" /\ Day(x) \in K}
         IN  /\ success \in Nat /\ failure \in Nat /\ rollback \in Nat
             /\ success = Cardinality({x \in {y \in ServiceRows(store) : Tally(y).success = 1} :
                                         Day(x) \in K})
             /\ IsFiniteSet(those)
             /\ Cardinality(those) <= success + failure + rollback
<1>1. PICK S : S = ServiceRows(store)
  OBVIOUS
<1>2. IsFiniteSet(S) /\ S \subseteq Row
  BY <1>1, ShownAreTyped
<1>3. IsFiniteSet(K)
  BY DailyDays, FS_Subset
<1>4. PICK P, Q, R : /\ P = {y \in S : Tally(y).success = 1}
                     /\ Q = {y \in S : Tally(y).failure = 1}
                     /\ R = {y \in S : Tally(y).rollback = 1}
  OBVIOUS
<1>5. IsFiniteSet(P) /\ IsFiniteSet(Q) /\ IsFiniteSet(R)
  BY <1>2, <1>4, FS_Subset
<1>6. \A k \in K : /\ daily[k].success = Cardinality({x \in P : Day(x) = k})
                   /\ daily[k].failure = Cardinality({x \in Q : Day(x) = k})
                   /\ daily[k].rollback = Cardinality({x \in R : Day(x) = k})
  BY <1>1, <1>4, DailyDays
<1>7. /\ [k \in K |-> daily[k].success] = [k \in K |-> Cardinality({x \in P : Day(x) = k})]
      /\ [k \in K |-> daily[k].failure] = [k \in K |-> Cardinality({x \in Q : Day(x) = k})]
      /\ [k \in K |-> daily[k].rollback] = [k \in K |-> Cardinality({x \in R : Day(x) = k})]
  BY <1>6
<1>8. PICK A, B, C : /\ A = {x \in P : Day(x) \in K}
                     /\ B = {x \in Q : Day(x) \in K}
                     /\ C = {x \in R : Day(x) \in K}
  OBVIOUS
<1>9. /\ SumFunction([k \in K |-> daily[k].success]) = Cardinality(A)
      /\ SumFunction([k \in K |-> daily[k].failure]) = Cardinality(B)
      /\ SumFunction([k \in K |-> daily[k].rollback]) = Cardinality(C)
  BY <1>3, <1>5, <1>7, <1>8, DaySum
<1>10. /\ IsFiniteSet(A) /\ IsFiniteSet(B) /\ IsFiniteSet(C)
       /\ A \cap B = {} /\ A \cap C = {} /\ B \cap C = {}
  BY <1>2, <1>4, <1>5, <1>8, FS_Subset, KindsAreCounted
<1>11. PICK D : D = {x \in S : x.event.kind # "other" /\ Day(x) \in K}
  OBVIOUS
<1>12. PICK U : U = A \cup B \cup C
  OBVIOUS
<1>13. D \subseteq U
  BY <1>2, <1>4, <1>8, <1>11, <1>12, KindsAreCounted
<1>14. /\ Cardinality(A) \in Nat /\ Cardinality(B) \in Nat /\ Cardinality(C) \in Nat
       /\ IsFiniteSet(U) /\ Cardinality(U) = Cardinality(A) + Cardinality(B) + Cardinality(C)
  <2>1. Cardinality(A) \in Nat /\ Cardinality(B) \in Nat /\ Cardinality(C) \in Nat
    BY <1>10, FS_CardinalityType
  <2>2. PICK V : V = A \cup B
    OBVIOUS
  <2>3. IsFiniteSet(V) /\ Cardinality(V) = Cardinality(A) + Cardinality(B) - Cardinality(A \cap B)
    BY <1>10, <2>2, FS_Union
  <2>4. V \cup C = U /\ V \cap C = {}
    BY <1>10, <1>12, <2>2
  <2>5. IsFiniteSet(U) /\ Cardinality(U) = Cardinality(V) + Cardinality(C) - Cardinality(V \cap C)
    BY <1>10, <2>3, <2>4, FS_Union
  <2>6. Cardinality(A \cap B) = 0 /\ Cardinality(V \cap C) = 0
    BY <1>10, <2>4, FS_EmptySet
  <2> QED BY <2>1, <2>3, <2>5, <2>6
<1>15. IsFiniteSet(D) /\ Cardinality(D) <= Cardinality(U)
  BY <1>13, <1>14, FS_Subset
<1> QED BY <1>1, <1>4, <1>8, <1>9, <1>11, <1>14, <1>15

LEMMA StatsRead ==
  ASSUME ProjectionsInv, NoRebuild, AskedByName, NEW r, r.name \in Names,
         HistoryFollows(r, store, lastSeq), r.stats = GetServiceDeliveryStats30d(r.org, r.name)
  PROVE  StatsFollow(r, store)
<1>1. PICK K : K = {k \in DOMAIN daily : k.org = r.org /\ k.name = r.name /\ InWindow(k)}
  OBVIOUS
<1>2. PICK i, j, l : /\ i = SumFunction([k \in K |-> daily[k].success])
                     /\ j = SumFunction([k \in K |-> daily[k].failure])
                     /\ l = SumFunction([k \in K |-> daily[k].rollback])
  OBVIOUS
<1>3. r.stats = [success |-> i, failure |-> j, rollback |-> l]
  BY <1>1, <1>2 DEF GetServiceDeliveryStats30d
<1>4. PICK D : D = {x \in ServiceRows(store) : x.event.kind # "other" /\ Day(x) \in K}
  OBVIOUS
<1>5. /\ i \in Nat /\ j \in Nat /\ l \in Nat
      /\ IsFiniteSet(D) /\ Cardinality(D) <= i + j + l
  BY <1>1, <1>2, <1>4, DaysCount
<1>6. ASSUME NEW x \in RecentOf(r, store)
      PROVE  x \in D
  <2>1. /\ x \in store /\ IsRowOf(r, x, lastSeq)
        /\ x.event.kind # "other" /\ Recent(x)
    BY DEF RecentOf, HistoryFollows
  <2>2. x \in ServiceRows(store) /\ x.event.ts \in Nat
    BY <2>1, RowsFacts DEF ServiceRows, IsRowOf
  <2>3. Service(x) = <<r.org, r.name>>
    BY <2>1, AskedFor
  <2>4. Day(x).org = r.org /\ Day(x).name = r.name /\ Day(x).day = x.event.ts \div DayLength
    BY <2>3 DEF Service, Day
  <2>5. InWindow(Day(x))
    BY <2>1, <2>2, RecentDays
  <2>6. Day(x) \in DOMAIN daily
    BY <2>2, DailyDays
  <2> QED BY <1>1, <1>4, <2>1, <2>2, <2>4, <2>5, <2>6
<1>7. /\ Cardinality(RecentOf(r, store)) <= Cardinality(D)
      /\ Cardinality(RecentOf(r, store)) \in Nat /\ Cardinality(D) \in Nat
  <2>1. RecentOf(r, store) \subseteq D
    BY <1>6
  <2> QED BY <1>5, <2>1, FS_Subset, FS_CardinalityType
<1> QED BY <1>3, <1>5, <1>7 DEF StatsFollow

LEMMA PageReadKeeps ==
  ASSUME ProjectionsInv, NoRebuild, PlainNames, AskedByName, ReaderForm,
         PageAgrees(reader, store, lastSeq), ReadPage
  PROVE  PageAgrees(reader, store, lastSeq)'
<1>1. PICK r : r = reader'
  OBVIOUS
<1>2. /\ r.org = reader.org /\ r.name = reader.name
      /\ reader.at # "environments" => r.environments = reader.environments
      /\ reader.at # "history" => r.history = reader.history
      /\ reader.at # "current" => r.current = reader.current
      /\ reader.at # "stats" => r.stats = reader.stats
      /\ reader.at # "links" => r.links = reader.links
  BY <1>1, PageReads
<1>3. \/ /\ reader.at = "environments" /\ r.at = "history"
         /\ r.environments = ListServiceEnvironments(r.org, r.name)
      \/ /\ reader.at = "history" /\ r.at = "current"
         /\ r.history = ListDeploymentHistory(r.org, r.name, HistoryLimit)
      \/ /\ reader.at = "current" /\ r.at = "stats"
         /\ r.current = GetServiceCurrentState(r.org, r.name)
      \/ /\ reader.at = "stats" /\ r.at = "links"
         /\ r.stats = GetServiceDeliveryStats30d(r.org, r.name)
      \/ /\ reader.at = "links" /\ r.at = "shown"
         /\ r.links \in ListServiceChangeLinksRecent(r.org, r.name, LinksLimit)
  BY <1>1, <1>2, PageReads
<1>4. UNCHANGED <<store, lastSeq>>
  BY DEF ReadPage, vars
<1>5. r.name \in Names
  BY <1>2, <1>3 DEF ReaderForm, PageStages
<1>6. \A x \in Row : IsRowOf(r, x, lastSeq) <=> IsRowOf(reader, x, lastSeq)
  BY <1>2 DEF IsRowOf
<1>7. \A x : IsRowOf(r, x, lastSeq) <=> IsRowOf(reader, x, lastSeq)
  BY <1>6 DEF IsRowOf
<1>8. PageAgrees(r, store, lastSeq)
  <2>1. CASE reader.at = "environments"
    <3>1. \A x \in r.environments : x \in RowsNamed(r.org, r.name)
      BY <1>3, <2>1 DEF ListServiceEnvironments, FirstOfEach
    <3>2. \A x \in r.environments : IsRowOf(r, x, lastSeq)
      BY <3>1, NamedAre
    <3> QED BY <1>3, <2>1, <3>2 DEF PageAgrees
  <2>2. CASE reader.at = "history"
    <3>1. \A x \in r.environments : IsRowOf(r, x, lastSeq)
      BY <1>2, <1>7, <2>2 DEF PageAgrees, PageStages
    <3>2. HistoryFollows(r, store, lastSeq)
      BY <1>3, <2>2, <3>1, HistoryRead
    <3> QED BY <1>3, <2>2, <3>1, <3>2 DEF PageAgrees
  <2>3. CASE reader.at \in {"current", "stats", "links"}
    <3>1. \A x \in r.environments : IsRowOf(r, x, lastSeq)
      BY <1>2, <1>7, <2>3 DEF PageAgrees, PageStages
    <3>2. HistoryFollows(r, store, lastSeq)
      BY <1>2, <1>7, <2>3 DEF PageAgrees, HistoryFollows
    <3>3. CurrentFollows(r, store)
      <4>1. CASE reader.at = "current"
        BY <1>3, <1>5, <3>2, <4>1, CurrentRead
      <4>2. CASE reader.at \in {"stats", "links"}
        BY <1>2, <4>2 DEF PageAgrees, CurrentFollows
      <4> QED BY <2>3, <4>1, <4>2
    <3>4. r.at \in {"links", "shown"} => StatsFollow(r, store)
      <4>1. CASE reader.at = "stats"
        BY <1>3, <1>5, <3>2, <4>1, StatsRead
      <4>2. CASE reader.at = "links"
        BY <1>2, <4>2 DEF PageAgrees, StatsFollow, RecentOf
      <4>3. CASE reader.at = "current"
        BY <1>3, <4>3
      <4> QED BY <2>3, <4>1, <4>2, <4>3
    <3>5. r.at = "shown" => LinksFollow(r, store)
      BY <1>3, <1>5, <3>2, LinksRead
    <3> QED BY <3>1, <3>2, <3>3, <3>4, <3>5 DEF PageAgrees
  <2> QED BY <1>3, <2>1, <2>2, <2>3
<1> QED BY <1>1, <1>4, <1>8

LEMMA PageAgreesStep ==
  ASSUME PlainNames, AskedByName
  PROVE  /\ ProjectionsInv /\ NoRebuild /\ ReaderForm /\ PageAgrees(reader, store, lastSeq)
         /\ [PageNext]_pageVars
         => PageAgrees(reader, store, lastSeq)'
<1> SUFFICES ASSUME ProjectionsInv, NoRebuild, ReaderForm, PageAgrees(reader, store, lastSeq),
                    [PageNext]_pageVars
             PROVE  PageAgrees(reader', store', lastSeq')
  OBVIOUS
<1>1. /\ lastSeq \in Nat /\ lastSeq' \in Nat /\ lastSeq <= lastSeq'
      /\ \A x \in store' : x \in store \/ x.seq > lastSeq
  BY StoreMoves, PageStepProjects
<1>2. reader' = reader => PageAgrees(reader', store', lastSeq')
  BY <1>1, PageAgreesStays
<1>3. reader'.at \notin PageStages => PageAgrees(reader', store', lastSeq')
  BY DEF PageAgrees, PageStages
<1>4. reader'.at = "environments" => PageAgrees(reader', store', lastSeq')
  BY DEF PageAgrees
<1>5. Watch => reader' = reader \/ reader'.at \notin PageStages
  BY DEF Watch, ReaderForm, PageStages
<1>6. Leave => reader'.at \notin PageStages
  BY DEF Leave, NoPage, PageStages
<1>7. ASSUME NEW o \in Orgs, OpenGraph(o) PROVE reader'.at \notin PageStages
  BY <1>7 DEF OpenGraph, PageStages
<1>8. ReadGraph => reader'.at \notin PageStages
  BY DEF ReadGraph, ReaderForm, PageStages
<1>9. ASSUME NEW o \in Orgs, NEW name \in Names, OpenPage(o, name)
      PROVE  reader'.at = "environments"
  BY <1>9 DEF OpenPage
<1>10. ASSUME NEW o, NEW f, OpenStream(o, f) PROVE reader'.at \notin PageStages
  BY <1>10 DEF OpenStream, PageStages
<1>11. Poll => reader'.at \notin PageStages
  BY DEF Poll, ReaderForm, PageStages
<1>12. ReadPage => PageAgrees(reader', store', lastSeq')
  BY PageReadKeeps
<1> QED
  BY <1>2, <1>3, <1>4, <1>5, <1>6, <1>7, <1>8, <1>9, <1>10, <1>11, <1>12
     DEF PageNext, pageVars, EnterDependency, RemoveDependency, Delete

\* What is counted by environment is counted once.
LEMMA RecentByEnvironment ==
  ASSUME NEW A, IsFiniteSet(A)
  PROVE  SumFunction([env \in {Environment(x) : x \in A} |-> DeployCount(A, env, WindowDays)])
           = Cardinality({x \in A : Recent(x)})
<1> DEFINE S == {Environment(x) : x \in A}
           T == {x \in A : Recent(x)}
           part == [x \in T |-> Environment(x)]
<1>1. IsFiniteSet(T) /\ \A x \in T : part[x] \in S
  BY FS_Subset
<1>2. IsFiniteSet(S)
  <2> DEFINE f == [x \in A |-> Environment(x)]
  <2>1. IsFiniteSet({f[x] : x \in A})
    BY ImageIsFinite
  <2> QED BY <2>1
<1>3. ASSUME NEW env
      PROVE  DeployCount(A, env, WindowDays) = Cardinality({x \in T : part[x] = env})
  <2>1. {x \in T : part[x] = env} =
          {x \in A : Environment(x) = env
                       /\ Now - Minute(x) * MinuteLength <= WindowDays * DayLength}
    BY DEF Recent
  <2> QED BY <2>1 DEF DeployCount
<1>4. PICK F : F = [env \in S |-> DeployCount(A, env, WindowDays)]
  OBVIOUS
<1>5. F = [env \in S |-> Cardinality({x \in T : part[x] = env})]
  BY <1>3, <1>4
<1> HIDE DEF S, T, part
<1>6. SumFunction(F) = Cardinality(T)
  BY <1>1, <1>2, <1>5, SumOfSizes
<1> QED BY <1>4, <1>6 DEF S, T

LEMMA ShownFollows == PageAgrees(reader, store, lastSeq) => PageOnlyMovesForward
<1> SUFFICES ASSUME PageAgrees(reader, store, lastSeq), reader.at = "shown"
             PROVE  PageOnlyMovesForward
  BY DEF PageOnlyMovesForward
<1>1. /\ HistoryFollows(reader, store, lastSeq) /\ CurrentFollows(reader, store)
      /\ StatsFollow(reader, store) /\ LinksFollow(reader, store)
  BY DEF PageAgrees
<1>2. PICK A : A = {x \in reader.history \cap store : x.event.kind # "other"}
  OBVIOUS
<1>3. IsFiniteSet(A)
  BY <1>1, <1>2, FS_Subset DEF HistoryFollows
<1>4. {x \in A : Recent(x)} = RecentOf(reader, store)
  BY <1>2 DEF RecentOf
<1>5. SumFunction([env \in {Environment(x) : x \in A} |-> DeployCount(A, env, WindowDays)])
        <= reader.stats.success + reader.stats.failure + reader.stats.rollback
  BY <1>1, <1>3, <1>4, RecentByEnvironment DEF StatsFollow
<1> QED BY <1>1, <1>2, <1>5
  DEF PageOnlyMovesForward, HistoryFollows, CurrentFollows, LinksFollow

\* However appends and deletions fall between its reads, what a page shows above
\* is covered by what it reads below (GetServiceDetail), asked for by the name of
\* a service that has one.
THEOREM PagesOnlyMoveForward ==
  ASSUME PlainNames, AskedByName
  PROVE  PageSpec => []PageOnlyMovesForward
<1> DEFINE Agrees == PageAgrees(reader, store, lastSeq)
<1>1. PageInit => Agrees
  BY DEF PageInit, NoPage, PageAgrees, PageStages
<1>2. ProjectionsInv /\ NoRebuild /\ ReaderForm /\ Agrees /\ [PageNext]_pageVars => Agrees'
  BY PageAgreesStep
<1>3. Agrees => PageOnlyMovesForward
  BY ShownFollows
<1> HIDE DEF Agrees
<1> QED
  BY <1>1, <1>2, <1>3, PageProjections, PageNeverRebuilds, ReaderFormInit, ReaderFormStep, PTL
     DEF PageSpec

-----------------------------------------------------------------------------
(* The reports.                                                            *)

LEMMA SamplesFacts ==
  ASSUME ProjectionsInv, NEW o, NEW since, NEW samples,
         samples = ListServiceLeadTimeSamples(o, since)
  PROVE  /\ IsFiniteSet(samples) /\ Cardinality(samples) \in Nat
         /\ (samples # {} => Cardinality(samples) # 0)
         /\ \A s \in samples : s.lead \in Nat /\ s.deploy \in store
<1>1. PICK D : D = {x \in Deploys(o, since) : Before(o, since, x) # {}}
  OBVIOUS
<1>2. D \subseteq store
  BY <1>1 DEF Deploys, RowsOf, ServiceRows
<1>3. IsFiniteSet(D)
  BY <1>2, RowsFacts, FS_Subset
<1> DEFINE f == [d \in D |-> [deploy |-> d, lead |-> d.event.ts - Max(Times(Before(o, since, d)))]]
<1>4. IsFiniteSet({f[d] : d \in D})
  BY <1>3, ImageIsFinite
<1>5. samples \subseteq {f[d] : d \in D}
  <2> SUFFICES ASSUME NEW s \in samples PROVE \E d \in D : s = f[d]
    OBVIOUS
  <2>1. PICK d \in Deploys(o, since) :
          /\ Before(o, since, d) # {}
          /\ s = [deploy |-> d, lead |-> d.event.ts - Max(Times(Before(o, since, d)))]
    BY SamplesAre
  <2> QED BY <1>1, <2>1
<1>6. IsFiniteSet(samples) /\ Cardinality(samples) \in Nat
  BY <1>4, <1>5, FS_Subset, FS_CardinalityType
<1>7. samples # {} => Cardinality(samples) # 0
  BY <1>6, FS_EmptySet
<1>8. ASSUME NEW s \in samples
      PROVE  s.lead \in Nat /\ s.deploy \in store
  <2>1. PICK d \in Deploys(o, since) :
          /\ Before(o, since, d) # {}
          /\ s = [deploy |-> d, lead |-> d.event.ts - Max(Times(Before(o, since, d)))]
    BY SamplesAre
  <2>2. d \in store /\ d.event.ts \in Nat
    BY RowsFacts DEF Deploys, RowsOf, ServiceRows
  <2>3. PICK B : B = Before(o, since, d)
    OBVIOUS
  <2>4. B \in SUBSET store /\ B # {}
    BY <2>1, <2>3 DEF Before, Changes
  <2>5. Max(Times(B)) \in Times(B) /\ Times(B) \in SUBSET Nat
    BY <2>4, TimesAreNumbers, MaxIsGreatest
  <2>6. \A t \in Times(B) : t <= d.event.ts
    BY <2>3 DEF Times, Before
  <2>7. PICK m : m = Max(Times(B))
    OBVIOUS
  <2>8. m \in Nat /\ m <= d.event.ts
    BY <2>5, <2>6, <2>7
  <2> QED BY <2>1, <2>2, <2>3, <2>7, <2>8
<1> QED BY <1>6, <1>7, <1>8

\* The value at the i-th place of the lead times in order.
IsRanked(v, i, samples) ==
  /\ Cardinality({s \in samples : s.lead < v}) < i
  /\ i <= Cardinality({s \in samples : s.lead <= v})

LEMMA RankExists ==
  ASSUME NEW samples, IsFiniteSet(samples), \A s \in samples : s.lead \in Nat,
         NEW i \in Nat \ {0}, i <= Cardinality(samples)
  PROVE  \E v \in {s.lead : s \in samples} : IsRanked(v, i, samples)
<1>1. PICK V : V = {s.lead : s \in samples}
  OBVIOUS
<1>2. V \in SUBSET Nat
  BY <1>1
<1>3. IsFiniteSet(V)
  <2> DEFINE f == [s \in samples |-> s.lead]
  <2>1. IsFiniteSet({f[s] : s \in samples})
    BY ImageIsFinite
  <2> QED BY <1>1, <2>1
<1> DEFINE upto(v) == {s \in samples : s.lead <= v}
           below(v) == {s \in samples : s.lead < v}
<1>4. \A v : /\ IsFiniteSet(upto(v)) /\ Cardinality(upto(v)) \in Nat
             /\ IsFiniteSet(below(v)) /\ Cardinality(below(v)) \in Nat
  BY FS_Subset, FS_CardinalityType
<1>5. PICK W : W = {v \in V : i <= Cardinality(upto(v))}
  OBVIOUS
<1>6. W # {}
  <2>1. samples # {}
    <3>1. samples = {} => Cardinality(samples) = 0
      BY FS_EmptySet
    <3> QED BY <3>1
  <2>2. PICK m \in V : \A v \in V : v <= m
    BY <1>1, <1>2, <1>3, <2>1, GreatestExists
  <2>3. upto(m) = samples
    BY <1>1, <2>2
  <2> HIDE DEF upto
  <2> QED BY <1>5, <2>2, <2>3
<1>7. PICK v \in W : \A w \in W : ~(w < v)
  <2> DEFINE R == {p \in W \X W : p[1] < p[2]}
  <2>1. \A x, y \in W : <<x, y>> \in R <=> x < y
    OBVIOUS
  <2>2. \A x \in W : x \in Nat
    BY <1>2, <1>5
  <2>3. IsFiniteSet(W)
    BY <1>3, <1>5, FS_Subset
  <2> HIDE DEF R
  <2>4. \A x \in W : <<x, x>> \notin R
    BY <2>1, <2>2
  <2>5. \A x, y, z \in W : <<x, y>> \in R /\ <<y, z>> \in R => <<x, z>> \in R
    BY <2>1, <2>2
  <2>6. PICK x \in W : \A z \in W : <<z, x>> \notin R
    BY <1>6, <2>3, <2>4, <2>5, FirstExists
  <2> QED BY <2>1, <2>6
<1>8. v \in V /\ v \in Nat /\ i <= Cardinality(upto(v))
  BY <1>2, <1>5
<1>9. Cardinality(below(v)) < i
  <2>1. CASE below(v) = {}
    <3>1. Cardinality(below(v)) = 0
      BY <2>1, FS_EmptySet
    <3> HIDE DEF below
    <3> QED BY <3>1
  <2>2. CASE below(v) # {}
    <3>1. PICK U : U = {u \in V : u < v}
      OBVIOUS
    <3>2. U # {} /\ U \in SUBSET Nat /\ IsFiniteSet(U)
      BY <1>1, <1>2, <1>3, <2>2, <3>1, FS_Subset
    <3>3. PICK u \in U : \A w \in U : w <= u
      BY <3>2, GreatestExists
    <3>4. u \in V /\ u < v /\ u \in Nat
      BY <3>1, <3>2
    <3>5. below(v) = upto(u)
      BY <1>1, <1>8, <3>1, <3>3, <3>4
    <3>6. ~(i <= Cardinality(upto(u)))
      BY <1>5, <1>7, <3>4
    <3> HIDE DEF upto, below
    <3> QED BY <1>4, <3>5, <3>6
  <2> QED BY <2>1, <2>2
<1> QED BY <1>1, <1>8, <1>9 DEF IsRanked

LEMMA OrderedIsRanked ==
  ASSUME NEW samples, IsFiniteSet(samples), \A s \in samples : s.lead \in Nat,
         NEW i \in Nat \ {0}, i <= Cardinality(samples)
  PROVE  IsRanked(Ordered(samples)[i], i, samples)
<1> DEFINE ranked(j) == CHOOSE v \in {s.lead : s \in samples} : IsRanked(v, j, samples)
<1>1. Ordered(samples) = [j \in 1..Cardinality(samples) |-> ranked(j)]
  BY DEF Ordered, IsRanked
<1>2. IsRanked(ranked(i), i, samples)
  <2>1. \E v \in {s.lead : s \in samples} : IsRanked(v, i, samples)
    BY RankExists
  <2> QED BY <2>1
<1>3. i \in 1..Cardinality(samples)
  BY FS_CardinalityType
<1> HIDE DEF ranked
<1>4. Ordered(samples)[i] = ranked(i)
  BY <1>1, <1>3
<1> QED BY <1>2, <1>4

LEMMA PercentilesAre ==
  ASSUME NEW samples, IsFiniteSet(samples), \A s \in samples : s.lead \in Nat,
         Cardinality(samples) # 0, NEW p \in {50, 95}
  PROVE  IsPercentile(Percentile(Ordered(samples), Cardinality(samples), p), p, samples)
<1>1. PICK n : n = Cardinality(samples)
  OBVIOUS
<1>2. PICK i : i = (p * n + 99) \div 100
  OBVIOUS
<1>3. n \in Nat /\ n # 0
  BY <1>1, FS_CardinalityType
<1>4. i \in Nat \ {0} /\ i <= n /\ p * n <= 100 * i /\ 100 * i <= p * n + 99
  BY <1>2, <1>3
<1>5. PICK v : v = Ordered(samples)[i]
  OBVIOUS
<1>6. Percentile(Ordered(samples), n, p) = v
  BY <1>2, <1>3, <1>4, <1>5 DEF Percentile
<1>7. PICK l, u : /\ l = Cardinality({s \in samples : s.lead < v})
                  /\ u = Cardinality({s \in samples : s.lead <= v})
  OBVIOUS
<1>8. l < i /\ i <= u
  BY <1>1, <1>4, <1>5, <1>7, OrderedIsRanked DEF IsRanked
<1>9. l \in Nat /\ u \in Nat
  BY <1>7, FS_Subset, FS_CardinalityType
<1>10. 100 * u >= p * n /\ 100 * l < p * n
  BY <1>3, <1>4, <1>8, <1>9
<1> QED BY <1>1, <1>6, <1>7, <1>10 DEF IsPercentile

\* Every sample is summarized once.
LEMMA SummariesAddUp ==
  ASSUME NEW samples, IsFiniteSet(samples), NEW part, NEW each, each = SummarizeEach(samples, part)
  PROVE  SumFunction([k \in DOMAIN each |-> each[k].samples]) = Cardinality(samples)
<1>1. PICK K : K = {part[s.deploy] : s \in samples}
  OBVIOUS
<1>2. PICK of : of = [s \in samples |-> part[s.deploy]]
  OBVIOUS
<1>3. \A s \in samples : of[s] = part[s.deploy] /\ of[s] \in K
  BY <1>1, <1>2
<1>4. IsFiniteSet(K)
  <2>1. IsFiniteSet({of[s] : s \in samples})
    BY <1>2, ImageIsFinite
  <2> QED BY <1>1, <1>3, <2>1
<1>5. DOMAIN each = K
  BY <1>1 DEF SummarizeEach
<1>6. ASSUME NEW k \in K
      PROVE  each[k].samples = Cardinality({s \in samples : of[s] = k})
  <2>1. each[k] = SummarizeLeadTimes({s \in samples : part[s.deploy] = k})
    BY <1>1 DEF SummarizeEach
  <2>2. {s \in samples : part[s.deploy] = k} = {s \in samples : of[s] = k}
    BY <1>3
  <2>3. PICK T : T = {s \in samples : of[s] = k}
    OBVIOUS
  <2>4. SummarizeLeadTimes(T).samples = Cardinality(T)
    BY DEF SummarizeLeadTimes
  <2> QED BY <2>1, <2>2, <2>3, <2>4
<1>7. PICK F : F = [k \in DOMAIN each |-> each[k].samples]
  OBVIOUS
<1>8. F = [k \in K |-> Cardinality({s \in samples : of[s] = k})]
  BY <1>5, <1>6, <1>7
<1>9. SumFunction(F) = Cardinality(samples)
  BY <1>3, <1>4, <1>8, SumOfSizes
<1> QED BY <1>7, <1>9

\* No deployment of the window is missing from the counters of its days.
LEMMA DeploysAreCounted ==
  ASSUME ProjectionsInv, NoRebuild, NEW o, NEW days \in Windows, ReportDays(days) <= WindowDays
  PROVE  Cardinality(Deploys(o, Since(days)))
           <= GetComprehensiveDeliveryMetrics(o, Since(days)).frequency
<1>1. PICK K : K = Window(o)
  OBVIOUS
<1>2. K \in SUBSET DOMAIN daily
  BY <1>1 DEF Window
<1>3. PICK A : A = {x \in {y \in ServiceRows(store) : Tally(y).success = 1} : Day(x) \in K}
  OBVIOUS
<1>4. GetComprehensiveDeliveryMetrics(o, Since(days)).frequency
        = SumFunction([k \in K |-> daily[k].success])
  BY <1>1 DEF GetComprehensiveDeliveryMetrics
<1>5. SumFunction([k \in K |-> daily[k].success]) = Cardinality(A)
  BY <1>2, <1>3, DaysCount
<1>6. IsFiniteSet(A)
  <2>1. A \subseteq ServiceRows(store)
    BY <1>3
  <2> QED BY <2>1, ShownAreTyped, FS_Subset
<1>7. DayLength \in Nat \ {0} /\ Now \in Nat /\ WindowDays \in Nat
  BY ProjectionAssumption, QueryAssumption
<1>8. ReportDays(days) \in Nat
  BY <1>7 DEF ReportDays, Windows
<1>9. ASSUME NEW x \in Deploys(o, Since(days))
      PROVE  x \in A
  <2>1. /\ x \in ServiceRows(store) /\ x.event.org = o /\ x.event.ts \in Nat
        /\ x.event.kind = "deployed" /\ x.event.ts >= Since(days)
    BY RowsFacts DEF Deploys, RowsOf
  <2>2. Tally(x).success = 1
    BY <2>1 DEF Tally, One
  <2>3. PICK t, w : t = x.event.ts /\ w = ReportDays(days)
    OBVIOUS
  <2>4. t >= Now - w * DayLength
    BY <2>1, <2>3 DEF Since
  <2>5. w * DayLength <= WindowDays * DayLength
    BY <1>7, <1>8, <2>3
  <2>6. /\ w * DayLength \in Nat /\ WindowDays * DayLength \in Nat
    BY <1>7, <1>8, <2>3
  <2>7. Now <= t + WindowDays * DayLength
    BY <1>7, <2>1, <2>3, <2>4, <2>5, <2>6
  <2>8. InWindow(Day(x))
    BY <1>7, <2>1, <2>3, <2>7, DaysCovered DEF InWindow, Day
  <2>9. Day(x) \in DOMAIN daily /\ Day(x).org = o
    BY <2>1, DailyDays DEF Day
  <2> QED BY <1>1, <1>3, <2>1, <2>2, <2>8, <2>9 DEF Window
<1> QED
  <2>1. Deploys(o, Since(days)) \subseteq A
    BY <1>9
  <2> QED BY <1>4, <1>5, <1>6, <2>1, FS_Subset

\* The services of an organization's report are those that have a current state.
LEMMA ServicesAreCounted ==
  ASSUME ProjectionsInv, NoRebuild, PlainNames, NEW o, NEW days
  PROVE  GetOrgMetrics(o, days).services = Cardinality({c \in current : c.latest.event.org = o})
<1>1. Covered /\ current = CurrentRows(envState)
  BY DEF ProjectionsInv, Complete, Refreshed
<1>2. PICK C : C = {c \in current : c.latest.event.org = o}
  OBVIOUS
<1>3. PICK T : T = {s.title : s \in ListServiceInstances(o, "")}
  OBVIOUS
<1>4. T = {ServiceName(c.latest) : c \in C}
  <2>1. ListServiceInstances(o, "") = {MapServiceInstance(x) : x \in Heads(o)}
    BY <1>1, ListedOverAll DEF ListServiceInstances, Everything
  <2>2. Heads(o) = {c.latest : c \in C}
    BY <1>1, <1>2, CurrentShowsHeads
  <2>3. \A x : MapServiceInstance(x).title = ServiceName(x)
    BY DEF MapServiceInstance
  <2>4. PICK H : H = Heads(o)
    OBVIOUS
  <2>5. T = {ServiceName(x) : x \in H}
    BY <1>3, <2>1, <2>3, <2>4
  <2> QED BY <2>2, <2>4, <2>5
<1>5. \A c \in C : c.latest \in Row /\ c.latest.event.subject \in Subjects /\ c \in current
                     /\ c.latest.event.org = o
  BY <1>2, ShownAreTyped DEF Row, Event
<1>6. \A c \in C : ServiceName(c.latest) # NoName
  BY <1>5 DEF ServiceName, PlainNames
<1>7. T \ {NoName} = T
  BY <1>4, <1>6
<1>8. \A c, d \in C : ServiceName(c.latest) = ServiceName(d.latest) => c = d
  BY <1>5 DEF ProjectionsInv, ProjectionsAreSound, Service, ServiceName
<1>9. IsFiniteSet(C)
  <2>1. IsFiniteSet(envState) /\ envState \subseteq Row /\ envState \in SUBSET Row
    BY RowsFacts, FS_Subset
  <2>2. \A x, y \in envState : x.seq = y.seq => x = y
    BY RowsFacts
  <2> DEFINE f == [c \in C |-> c.latest]
  <2>3. f \in Injection(C, envState)
    <3>1. \A c \in C : c.latest \in envState
      BY <1>1, <1>5, CurrentRowsAre, CurrentIsOfService
    <3>2. \A c, d \in C : c.latest = d.latest => c = d
      BY <1>8
    <3> QED BY <3>1, <3>2 DEF Injection, IsInjective
  <2> QED BY <2>1, <2>3, FS_Injection
<1>10. Cardinality(C) = Cardinality(T)
  <2> DEFINE f == [c \in C |-> ServiceName(c.latest)]
  <2>1. f \in Surjection(C, T)
    BY <1>4 DEF Surjection
  <2>2. f \in Injection(C, T)
    BY <1>4, <1>8 DEF Injection, IsInjective
  <2> HIDE DEF f
  <2> QED BY <1>9, <2>1, <2>2, FS_Surjection
<1>11. GetOrgMetrics(o, days).services = Cardinality(T \ {NoName})
  BY <1>3 DEF GetOrgMetrics
<1> QED BY <1>2, <1>7, <1>10, <1>11

\* What runs in an environment is in the list of that environment.
LEMMA AgesAreListed ==
  ASSUME ProjectionsInv, NoRebuild, PlainEnvs, NEW o, NEW name,
         NEW a \in GetArtifactAgeByEnvironment(o, name)
  PROVE  \E s \in ListServiceInstances(o, a.environment) : s.title = name /\ s.revision = a.artifact
<1>1. Covered
  BY DEF ProjectionsInv, Complete
<1>2. PICK x \in envState :
        /\ Service(x) = <<o, name>>
        /\ a.environment = Environment(x) /\ a.artifact = x.event.artifact
  BY DEF GetArtifactAgeByEnvironment
<1>3. PICK env : env = a.environment
  OBVIOUS
<1>4. Environment(x) \in Envs /\ env = Environment(x)
  BY <1>2, <1>3, RowsFacts
<1>5. env \notin Everything
  BY <1>4 DEF PlainEnvs
<1>6. x \in ListServiceInstancesByEnvFromEvents(o, env)
  BY <1>1, <1>2, <1>4, ListedInEnvironment DEF Service
<1>7. MapServiceInstance(x) \in ListServiceInstances(o, env)
  BY <1>5, <1>6 DEF ListServiceInstances
<1>8. MapServiceInstance(x).title = name /\ MapServiceInstance(x).revision = a.artifact
  BY <1>2 DEF MapServiceInstance, Service, ServiceName
<1> QED BY <1>3, <1>7, <1>8

LEMMA SummaryAgrees ==
  ASSUME ProjectionsInv, NEW o, NEW days, NEW samples,
         samples = ListServiceLeadTimeSamples(o, Since(days))
  PROVE  LET leads   == BuildLeadTimeReport(o, days)
             metrics == GetComprehensiveDeliveryMetrics(o, Since(days))
             count(part) == SumFunction([k \in DOMAIN part |-> part[k].samples])
         IN  /\ count(leads.byService) = Cardinality(samples)
             /\ count(leads.byDay) = Cardinality(samples)
             /\ metrics.leadCount = leads.overall.samples
             /\ samples # {} =>
                  /\ leads.overall.average = metrics.leadTotal \div metrics.leadCount
                  /\ IsPercentile(leads.overall.p50, 50, samples)
                  /\ IsPercentile(leads.overall.p95, 95, samples)
<1>1. /\ IsFiniteSet(samples) /\ Cardinality(samples) \in Nat
      /\ (samples # {} => Cardinality(samples) # 0)
      /\ \A s \in samples : s.lead \in Nat
  BY SamplesFacts
<1>2. PICK leads : leads = BuildLeadTimeReport(o, days)
  OBVIOUS
<1>3. /\ leads.overall = SummarizeLeadTimes(samples)
      /\ leads.byService = SummarizeEach(samples, ByService)
      /\ leads.byDay = SummarizeEach(samples, ByDay)
  BY <1>2 DEF BuildLeadTimeReport
<1>4. PICK metrics : metrics = GetComprehensiveDeliveryMetrics(o, Since(days))
  OBVIOUS
<1>5. PICK total : total = SumFunction([s \in samples |-> s.lead])
  OBVIOUS
<1>6. metrics.leadCount = Cardinality(samples) /\ metrics.leadTotal = total
  BY <1>4, <1>5 DEF GetComprehensiveDeliveryMetrics
<1>7. /\ SumFunction([k \in DOMAIN leads.byService |-> leads.byService[k].samples]) = Cardinality(samples)
      /\ SumFunction([k \in DOMAIN leads.byDay |-> leads.byDay[k].samples]) = Cardinality(samples)
  <2>1. PICK E, G : E = leads.byService /\ G = leads.byDay
    OBVIOUS
  <2> QED BY <1>1, <1>3, <2>1, SummariesAddUp
<1>8. PICK n, sorted : n = Cardinality(samples) /\ sorted = Ordered(samples)
  OBVIOUS
<1>9. leads.overall = [samples |-> n, average |-> IF n = 0 THEN 0 ELSE total \div n,
                       p50 |-> Percentile(sorted, n, 50), p95 |-> Percentile(sorted, n, 95)]
  BY <1>3, <1>5, <1>8 DEF SummarizeLeadTimes
<1>10. /\ leads.overall.samples = n
       /\ n # 0 => leads.overall.average = total \div n
       /\ leads.overall.p50 = Percentile(sorted, n, 50)
       /\ leads.overall.p95 = Percentile(sorted, n, 95)
  BY <1>9
<1>11. n # 0 =>
         /\ IsPercentile(Percentile(sorted, n, 50), 50, samples)
         /\ IsPercentile(Percentile(sorted, n, 95), 95, samples)
  BY <1>1, <1>8, PercentilesAre
<1> QED BY <1>1, <1>2, <1>4, <1>6, <1>7, <1>8, <1>10, <1>11

\* The three reports agree with each other, with the counters of the days and
\* with the lists of services, whatever is appended late or deleted
\* (BuildLeadTimeReport, GetComprehensiveDeliveryMetrics, GetOrgMetrics,
\* GetServiceMetrics).
THEOREM ReportsStayInAgreement ==
  ASSUME PlainNames, PlainEnvs
  PROVE  PageSpec => []ReportsAgree
<1>1. ProjectionsInv => ReportsAgree
  <2> SUFFICES ASSUME ProjectionsInv, NoRebuild PROVE ReportsAgree
    BY DEF ReportsAgree
  <2>1. ASSUME NEW o, NEW days, NEW name, NEW m, m = GetServiceMetrics(o, name, days), m.ok
        PROVE  m.ages = GetArtifactAgeByEnvironment(o, name)
    BY <2>1 DEF GetServiceMetrics
  <2>2. ASSUME NEW o, NEW days, NEW name, GetServiceMetrics(o, name, days).ok,
               NEW a \in GetServiceMetrics(o, name, days).ages
        PROVE  \E s \in ListServiceInstances(o, a.environment) :
                 s.title = name /\ s.revision = a.artifact
    BY <2>1, <2>2, AgesAreListed
  <2> QED BY <2>2, SummaryAgrees, DeploysAreCounted, ServicesAreCounted DEF ReportsAgree
<1> QED BY <1>1, PageProjections, PTL
=============================================================================
