SPECIFICATION Spec
CONSTANTS
  app = app
  Orgs = {1, 2}
  Services = {pay}
  Labels = {tier, team}
  Sensitive = {}
  Filterable = {tier}
  Values = {v}
  Envs = {1, 2}
  Features = {"strict", "editing"}
  Calls = {c1, c2}
  MaxCalls = 3
  Installations = {app}
  States = {s1}
  Deliveries <- Upgrade
  MaxAttempts = 2
INVARIANTS
  AdministrationType
  NothingOutlivesItsOrganization
  StrictMetadataIsComplete
  ListsAgreeWithPages
  AcknowledgedDeliveryIsStored
PROPERTIES
  SavesKeepToTheirPage
SYMMETRY Interchangeable
CHECK_DEADLOCK FALSE
