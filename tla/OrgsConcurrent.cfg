SPECIFICATION MCSpec
CONSTANTS
  Orgs = {o1, o2}
  Users = {u1, u2}
  Roles = {"owner", "member"}
  Calls = {c1, c2}
  Operations = {"create", "join", "approve", "reject", "add", "role", "remove", "enable", "disable", "delete"}
  ReadsMayFail = TRUE
  Rows = 3
INVARIANTS
  ApprovedWereMembers
PROPERTIES
  LastOwnerGuard
  LastOrganizationGuard
  LastEnabledGuard
  DeletionIsFinal
SYMMETRY Interchangeable
