SPECIFICATION Spec
CONSTANTS
    FlushTicks = 2
    MaxEvents = 2
INVARIANTS
    TypeOK
    NeverAheadOfEvents
PROPERTIES
    StoredTotalsGrow
    EventuallyStored
