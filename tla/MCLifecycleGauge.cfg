SPECIFICATION Spec
CONSTANTS
    c1 = c1
    c2 = c2
    c3 = c3
    Conns = {c1, c2}
    AuthEnabled = TRUE
INVARIANTS
    GaugeIsExact
CHECK_DEADLOCK FALSE
