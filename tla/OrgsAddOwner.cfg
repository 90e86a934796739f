SPECIFICATION MCSpec
CONSTANTS
  Orgs = {o1}
  Users = {u1, u2}
  Calls = {c1}
  Roles = {"owner", "admin", "member"}
  Operations = {"create", "add"}
  ReadsMayFail = FALSE
  Rows = 3
PROPERTIES
  OwnerIsKept
SYMMETRY Interchangeable
