SPECIFICATION FairSpec
CONSTANTS
  alice = alice
  Orgs = {1, 2}
  Users = {alice}
  Member <- Everywhere
  Queries = {grid}
  Requests = {r1, r2}
  Capacity = 1
  TTL = 1
  RenderTime = 1
INVARIANTS
  CacheAgrees
  FragmentsAreRecent
PROPERTIES
  FragmentsSettle
