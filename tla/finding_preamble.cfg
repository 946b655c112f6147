SPECIFICATION Spec
CONSTANTS
    a = a
    b = b
    P = P
    None = None
    Groups = {a, b}
    Courses <- OneShort
    Preamble = P
    Families <- OneFamily
    ByOrder = FALSE
    Leftovers <- NothingLeft
INVARIANT PreambleAbove
CHECK_DEADLOCK FALSE
