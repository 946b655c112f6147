SPECIFICATION LifecycleSpec
CONSTANTS
  d = d
  g1 = g1
  g2 = g2
  g3 = g3
  h1 = h1
  Chains = {d, g1, g2, g3}
  DNSOR = d
  NumFamilies = 1
  Attempts = 1
  Hooks = {h1}
  CallModes = {}
  SubGroups = {g2}
  FirstGroups = {g1, g2}
  LifecycleCalls = {"enable", "disable", "prio"}
  Edits = {"put", "delete"}
  MaxCalls = 2
  MaxEdits = 2
  MaxRewrites = 0
  MaxFaults = 0
  Wipes = {}
INVARIANT NoGroupMissed
CHECK_DEADLOCK FALSE
