SPECIFICATION LifecycleSpec
CONSTANTS
  d = d
  g1 = g1
  g2 = g2
  g3 = g3
  h1 = h1
  Chains = {d, g1, g2}
  DNSOR = d
  NumFamilies = 1
  Attempts = 1
  Hooks = {h1}
  CallModes = {}
  SubGroups = {}
  FirstGroups = {g1}
  LifecycleCalls = {"disable"}
  Edits = {"add"}
  MaxCalls = 1
  MaxEdits = 1
  MaxRewrites = 0
  MaxFaults = 0
  Wipes <- TwoTables
INVARIANT DownMeansClean
CHECK_DEADLOCK FALSE
