SPECIFICATION Spec
CONSTANTS
    Cases <- MCCases
    Nobody = Nobody
    MaxSaid = 1
INVARIANTS
    TypeOK
    TakenAtItsWord
    NobodyRidesFree
    DeliversTheStream
    ReturnsTheStream
PROPERTIES
    EverybodyIsAnswered
CHECK_DEADLOCK FALSE
