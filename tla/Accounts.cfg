SPECIFICATION AccountsSpec
CONSTANTS
  ann = ann
  bob = bob
  crow = crow
  dove = dove
  Orgs = {o1}
  Users = {1, 2}
  Calls = {c1}
  Roles = {"owner", "admin", "member"}
  Operations = {"create", "join", "add"}
  ReadsMayFail = FALSE
  Browsers = {b1, b2}
  Emails = {ann, bob}
  Nicknames = {crow, dove}
  Profiles <- Renamed
  DevLogins <- NoLogin
  MaxReplaced = 1
INVARIANTS
  SessionsNameTheirUser
  WelcomeActsForItsUser
SYMMETRY Interchangeable
