SPECIFICATION Spec
CONSTANTS
  shop = shop  edge = edge  blog = blog
  None = None
  Names <- AllNames
  Matched = {shop, blog}
  Cname <- Aliased
  Stops = FALSE
  Flips = TRUE
  Watched = {}
  MaxFaults = 0
  MaxCrashes = 0
PROPERTY NothingDropped
CHECK_DEADLOCK FALSE
