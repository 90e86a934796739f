--------------------------- MODULE MCIngestBatcher ---------------------------
(***************************************************************************)
(* Small instances of IngestBatcher: three or four deliveries, among them  *)
(* a retry of an event, an event of another organization with the same     *)
(* source and id, and a second event of the first organization.            *)
(***************************************************************************)
EXTENDS IngestInvariant, TLC

CONSTANTS r1, r2, r3, r4, o1, o2, k1, k2, b1

e1 == [org |-> o1, key |-> k1]
e2 == [org |-> o2, key |-> k1]
e3 == [org |-> o1, key |-> k2]

\* One endpoint: a retry and another tenant share queue and batch.
OneEndpointEvents == r1 :> e1 @@ r2 :> e1 @@ r3 :> e2 @@ r4 :> e3
OneEndpoint       == [r \in {r1, r2, r3, r4} |-> b1]

OneEndpointEvents3 == Restrict(OneEndpointEvents, {r1, r2, r3})
OneEndpoint3       == Restrict(OneEndpoint, {r1, r2, r3})

\* Two deliveries of one organization at one endpoint.
PairEvents   == Restrict(OneEndpointEvents, {r1, r4})
PairEndpoint == Restrict(OneEndpoint, {r1, r4})
=============================================================================
