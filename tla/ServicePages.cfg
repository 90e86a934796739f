SPECIFICATION PageSpec
CONSTANTS
  o1 = o1
  o2 = o2
  v1 = v1
  v2 = v2
  none = none
  Orgs = {o1, o2}
  Subjects = {"service/pay", "web"}
  Names = {"pay", "web"}
  Envs = {"prod", "unknown"}
  Artifacts = {v1, v2}
  NoArtifact = none
  NoEnv = none
  NoName = none
  SqlName <- Name
  GoName <- Name
  Events <- PageEvents
  DayLength = 4
  MinuteLength = 2
  Now = 7
  WindowDays = 1
  ArtifactService <- PayVersions
  HistoryLimit = 2
  LinksLimit = 2
  Filters <- AnyFilter
  Entered <- Typed
  Lower <- LowerCase
  Tools = {}
  ToolsMayDie = FALSE
  MaxSeq = 3
INVARIANTS
  ListingsMatchProjections
  PageOnlyMovesForward
  ReportsAgree
  GraphIsFaithful
PROPERTIES
  LeadTimesOnlyShrink
  StreamCatchesUp
