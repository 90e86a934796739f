-------------------------- MODULE ServiceDependencies --------------------------
(***************************************************************************)
(* What services depend on, as their pages let users enter it, and the     *)
(* graph that is drawn of it (application/servicecatalog/service.go,       *)
(* domains/servicecatalog).  The graph is put together service by service, *)
(* each with a statement of its own.                                       *)
(***************************************************************************)
EXTENDS ServiceQueries

CONSTANTS
  Entered,  \* what users enter: a set of [org, service, on]
  Lower     \* Lower[n]: the name in lower case

ASSUME DependencyAssumption ==
  /\ Entered \subseteq [org : Orgs, service : DOMAIN Lower, on : DOMAIN Lower]
  /\ Names \subseteq DOMAIN Lower

VARIABLE dependencies  \* service_dependencies: a set of [org, service, on]

\* A blank name is none, and no service depends on itself, however it is spelled.
NormalizeDependencyInput(name, on) == "" \notin {name, on} /\ Lower[name] # Lower[on]

\* One of the names of a form.  Each is a statement of its own, so that a form
\* with several is several steps, and the first that fails leaves out the rest.
UpsertServiceDependency(o, name, on) ==
  /\ NormalizeDependencyInput(name, on)
  /\ dependencies' = dependencies \cup {[org |-> o, service |-> name, on |-> on]}

DeleteServiceDependency(o, name, on) ==
  /\ NormalizeDependencyInput(name, on)
  /\ dependencies' = dependencies \ {[org |-> o, service |-> name, on |-> on]}

\* The rows refer to the organization ON DELETE CASCADE.
DropDependencies(o) == dependencies' = {d \in dependencies : d.org # o}

-----------------------------------------------------------------------------
(* The queries.                                                            *)

ListServiceDependencies(o, name) ==
  {d.on : d \in {e \in dependencies : e.org = o /\ e.service = name}}

ListServiceDependants(o, name) ==
  {d.service : d \in {e \in dependencies : e.org = o /\ e.on = name}}

-----------------------------------------------------------------------------
(* The graph: BuildDependencyGraph.                                        *)

\* It asks for the services first,
EmptyGraph(o) ==
  [left |-> {x.title : x \in ListServiceInstances(o, "")} \ {NoName}, nodes |-> {}, edges |-> {}]

\* Mutant: the edge leads the other way.
AddService_Turned(g, o, name) ==
  LET on == ListServiceDependencies(o, name) IN
  [left  |-> g.left \ {name},
   nodes |-> g.nodes \cup {name} \cup on,
   edges |-> g.edges \cup {<<d, name>> : d \in on}]

\* and then for what each depends on.
AddService(g, o, name) ==
  LET on == ListServiceDependencies(o, name) IN
  [left  |-> g.left \ {name},
   nodes |-> g.nodes \cup {name} \cup on,
   edges |-> g.edges \cup {<<name, d>> : d \in on}]

=============================================================================
