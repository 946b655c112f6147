SPECIFICATION Spec
CONSTANTS
    h1 = h1
    h2 = h2
    n1 = n1
    n2 = n2
    None = None
    Callers = {h1, h2}
    Networks = {n1, n2}
    Families <- BothFamilies
    MaxCalls = 2
    MaxFaults = 0
    MaxCrashes = 0
    MaxStops = 0
INVARIANT FileIsCurrent
CHECK_DEADLOCK FALSE
