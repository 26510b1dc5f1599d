SPECIFICATION Spec
CONSTANTS
    Chains <- MCChains
    TargetLengths = {255}
    Nobody = Nobody
    MaxSaid = 2
INVARIANTS
    TypeOK
    WholeAfterSocks
PROPERTIES
    TunnelSpec
    HeaderIsBounded
    EndsAreNoticed
CHECK_DEADLOCK FALSE
