SPECIFICATION Spec
CONSTANTS
    c1 = c1
    c2 = c2
    c3 = c3
    Conns = {c1, c2, c3}
    AuthEnabled = TRUE
INVARIANTS
    TypeOK
    GaugeDrift
    TalliesExact
PROPERTIES
    FirstReadIsBounded
    FailuresAreSettled
CHECK_DEADLOCK FALSE
