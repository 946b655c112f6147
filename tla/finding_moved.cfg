SPECIFICATION Spec
CONSTANTS
  a1 = a1  a2 = a2  a3 = a3  a4 = a4
  g1 = g1  g2 = g2  s1 = s1
  shop = shop  edge = edge  blog = blog
  None = None
  SubGroups = {}
  AdditionalTTL = 1  ClientTTLCap = 1  MaxRecordTTL = 2
  Order <- OneGroup
  FirstRules <- SharedRules
  Listings <- AddedListings
  Answers <- MovedAnswers
  Kinds = {"rules"}
  MaxEdits = 1
  Names = {shop, edge, blog}
  Addrs = {a1, a2}
  MaxTime = 1
  Handlers = {h1}
  Overlap = FALSE
INVARIANT ClientsAreRouted
CHECK_DEADLOCK FALSE
