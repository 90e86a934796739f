SPECIFICATION Spec
CONSTANTS
  o1 = o1
  o2 = o2
  pay = pay
  v1 = v1
  v2 = v2
  none = none
  Orgs = {o1, o2}
  Subjects = {pay}
  Names = {"pay"}
  Envs = {"prod", "unknown"}
  Artifacts = {v1, v2}
  NoArtifact = none
  NoEnv = none
  NoName = none
  SqlName <- Plain
  GoName <- Plain
  Events <- RebuildEvents
  DayLength = 2
  Tools = {"t1", "t2"}
  ToolsMayDie = TRUE
  MaxSeq = 4
INVARIANTS
  ProjectionsAreSound
PROPERTIES
  CompletedRebuildAgrees
