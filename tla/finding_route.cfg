SPECIFICATION Spec
CONSTANTS
    a = a
    b = b
    gw1 = gw1
    gw2 = gw2
    None = None
    Groups = {a, b}
    KindMaps <- LinkAndBlackhole
    Families <- OneFamily
    Gateways = {gw1, gw2}
    PointToPoint = {FALSE}
    Bounds <- ManyChanges
    MaxFaults = 0
    NumMarks = 3
INVARIANT RouteFollowsLink
CHECK_DEADLOCK FALSE
