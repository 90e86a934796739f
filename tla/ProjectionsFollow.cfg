SPECIFICATION BackfillSpec
CONSTANTS
  o1 = o1
  o2 = o2
  pay = pay
  v1 = v1
  v2 = v2
  v3 = v3
  none = none
  Orgs = {o1, o2}
  Subjects = {pay}
  Names = {"pay"}
  Envs = {"prod", "unknown"}
  Artifacts = {v1, v2, v3}
  NoArtifact = none
  NoEnv = none
  NoName = none
  SqlName <- Plain
  GoName <- Plain
  Events <- PlainEvents
  DayLength = 3
  Tools = {}
  ToolsMayDie = FALSE
  MaxSeq = 5
  OrgIds <- ById
  Deployments <- OldDeployments
  Times = {4, 5}
  Backfills = {b1, b2}
INVARIANTS
  EnvStateIsLatest
  CurrentStateIsLatest
  DailyCountsEvents
  LinksMatchEvents
  BackfilledOnce
SYMMETRY Either
