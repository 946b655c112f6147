SPECIFICATION LiveSpec
CONSTANTS
    h1 = h1
    h2 = h2
    n1 = n1
    n2 = n2
    None = None
    Callers = {h1, h2}
    Networks = {n1, n2}
    Families <- BothFamilies
    MaxCalls = 3
    MaxFaults = 2
    MaxCrashes = 1
    MaxStops = 1
INVARIANTS TypeOK BypassIsWhole BypassIsAccepted
PROPERTY CallsEnd
CHECK_DEADLOCK FALSE
