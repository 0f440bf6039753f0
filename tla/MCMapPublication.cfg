SPECIFICATION PublicationSpec
CONSTANTS
    p1 = p1
    p2 = p2
    p3 = p3
    Publications = {p1, p2, p3}
SYMMETRY Symmetry
INVARIANTS
    OneActive
    ActiveIsInstalled
CHECK_DEADLOCK FALSE
