SPECIFICATION Spec
CONSTANTS
  app = app
  Orgs = {1}
  Services = {pay}
  Labels = {tier, secret}
  Sensitive = {secret}
  Filterable = {}
  Values = {v}
  Envs = {}
  Features = {"mask", "editing"}
  Calls = {c1}
  MaxCalls = 6
  Installations = {}
  States = {}
  Deliveries <- Nobody
  MaxAttempts = 0
INVARIANTS
  MaskIsOnlyShown
CHECK_DEADLOCK FALSE
