SPECIFICATION LifecycleSpec
CONSTANTS
  d = d
  g1 = g1
  g2 = g2
  g3 = g3
  h1 = h1
  Chains = {d, g1, g2}
  DNSOR = d
  NumFamilies = 1
  Attempts = 1
  Hooks = {h1}
  CallModes = {}
  SubGroups = {g1}
  FirstGroups = {g1, g2}
  LifecycleCalls = {"enable", "disable", "prio"}
  Edits = {"rebuild"}
  MaxCalls = 3
  MaxEdits = 1
  MaxRewrites = 1
  MaxFaults = 2
  Wipes <- TwoTables
INVARIANTS LifecycleTypeOK CommitterFollowsRouting PriorityIsCoherent DownMeansClean
PROPERTY EnableRespectsShutdown
CHECK_DEADLOCK FALSE
