SPECIFICATION Spec
CONSTANTS
    Chains = {c1}
    NumFamilies = 2
    Attempts = 2
    Hooks = {h1}
    CallModes <- BothModes
    MaxRewrites = 2
    MaxFaults = 1
INVARIANTS TypeOK NoStalePass
PROPERTIES ImplementsContract WipeIsRepaired CallsReturn WipesRemembered
CHECK_DEADLOCK FALSE
