SPECIFICATION Spec
CONSTANTS
  a1 = a1  a2 = a2  a3 = a3  a4 = a4
  g1 = g1  g2 = g2  s1 = s1
  shop = shop  edge = edge  blog = blog
  None = None
  Names = {shop, edge, blog}
  Addrs = {a1, a2, a3, a4}
  Order <- TwoGroups
  SubGroups = {}
  FirstRules <- ClockRules
  Listings <- ClockListings
  Answers <- ClockAnswers
  AdditionalTTL = 2  ClientTTLCap = 2  MaxRecordTTL = 2
  MaxTime = 4
  Handlers = {h1}
  Kinds = {"rules", "flip"}
  MaxEdits = 1
  Overlap = FALSE
INVARIANTS ClientsAreRouted NothingForever
CHECK_DEADLOCK FALSE
