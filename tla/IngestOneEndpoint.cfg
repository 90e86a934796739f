SPECIFICATION Spec
CONSTANTS
  r1 = r1
  r2 = r2
  r3 = r3
  r4 = r4
  o1 = o1
  o2 = o2
  k1 = k1
  k2 = k2
  b1 = b1
  Requests = {r1, r2, r3}
  Orgs = {o1, o2}
  Keys = {k1, k2}
  Batchers = {b1}
  EventOf <- OneEndpointEvents3
  EndpointOf <- OneEndpoint3
  WellFormed = {r1, r2, r3}
  BatchSize = 2
  QueueFactor = 1
  StorageFaults = TRUE
INVARIANTS
  TypeOK
  AcknowledgedIsStored
  RefusalLeavesNoRow
  OneRowPerEvent
  NoneStranded
  ReplyNeverBlocks
  SeqFollowsArrival
PROPERTIES
  BatchIsAtomic
  DurableSpec
