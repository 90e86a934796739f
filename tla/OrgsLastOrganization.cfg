SPECIFICATION MCSpec
CONSTANTS
  Orgs = {o1, o2}
  Users = {u1}
  Roles = {"owner", "admin", "member"}
  Calls = {c1, c2}
  Operations = {"create", "delete"}
  ReadsMayFail = FALSE
  Rows = 3
PROPERTIES
  OneOrganizationRemains
SYMMETRY Interchangeable
CHECK_DEADLOCK FALSE
