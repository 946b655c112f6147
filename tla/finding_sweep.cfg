SPECIFICATION Spec
CONSTANTS
    a = a
    b = b
    gw1 = gw1
    gw2 = gw2
    None = None
    Groups = {a, b}
    KindMaps <- LinkAndBlackhole
    Families <- OneFamily
    Gateways = {gw1, gw2}
    PointToPoint = {FALSE}
    Bounds <- TwoKills
    MaxFaults = 0
    NumMarks = 3
INVARIANT TablesAreNamed
CHECK_DEADLOCK FALSE
