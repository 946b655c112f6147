SPECIFICATION Spec
CONSTANTS
    a = a
    b = b
    gw1 = gw1
    gw2 = gw2
    None = None
    Groups = {a, b}
    KindMaps <- Mixes
    Families <- BothFamilies
    Gateways = {gw1, gw2}
    PointToPoint = {TRUE, FALSE}
    Bounds <- LinksAndKills
    MaxFaults = 1
    NumMarks = 5
INVARIANTS TypeOK MarksAreOwn LeakGuard RouteFollowsTunnel StartLeavesOnlyStrays
CHECK_DEADLOCK FALSE
