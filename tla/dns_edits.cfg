SPECIFICATION Spec
CONSTANTS
  a1 = a1  a2 = a2  a3 = a3  a4 = a4
  g1 = g1  g2 = g2  s1 = s1
  shop = shop  edge = edge  blog = blog
  None = None
  Names = {shop, edge}
  Addrs = {a1, a4}
  Order <- WithSubs
  SubGroups = {s1}
  FirstRules <- EditRules
  Listings <- EditListings
  Answers <- EditAnswers
  AdditionalTTL = 1  ClientTTLCap = 1  MaxRecordTTL = 2
  MaxTime = 1
  Handlers = {h1, h2}
  Kinds = {"rules", "put", "rebuild"}
  MaxEdits = 2
  Overlap = FALSE
INVARIANTS TypeOK ClientsAreRouted TrieFollowsRules
CHECK_DEADLOCK FALSE
