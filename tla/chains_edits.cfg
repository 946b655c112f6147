SPECIFICATION Spec
CONSTANTS
    a = a
    b = b
    P = P
    None = None
    Groups = {a, b}
    Courses <- ShortAndLong
    Preamble = P
    Families <- OneFamily
    ByOrder = FALSE
    Leftovers <- MarkedLeft
INVARIANTS TypeOK JumpsLeadToWholeChains OrderHolds PassInstallsWhatIsUp RepairKeepsOrder
CHECK_DEADLOCK FALSE
