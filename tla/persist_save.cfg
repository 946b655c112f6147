SPECIFICATION LiveSpec
CONSTANTS
  shop = shop  edge = edge  blog = blog
  None = None
  Names <- TwoNames
  Matched = {shop}
  Cname <- TwoAliased
  Stops = TRUE
  Flips = TRUE
  Watched = {}
  MaxFaults = 1
  MaxCrashes = 1
INVARIANTS TypeOK FileIsWhole
PROPERTIES NotWiped AnswersReachDisk
CHECK_DEADLOCK FALSE
