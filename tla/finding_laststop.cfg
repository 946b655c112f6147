SPECIFICATION Spec
CONSTANTS
  shop = shop  edge = edge  blog = blog
  None = None
  Names <- TwoNames
  Matched = {shop}
  Cname <- TwoAliased
  Stops = TRUE
  Flips = FALSE
  Watched = {shop, edge}
  MaxFaults = 0
  MaxCrashes = 0
INVARIANT CleanStopSaves
CHECK_DEADLOCK FALSE
