SPECIFICATION Spec
CONSTANTS
    Unlimited = Unlimited
    NoAccount = NoAccount
    limited = limited
    c1 = c1
    c2 = c2
    c3 = c3
    MaxDebit = 4
    Accounts <- MCAccounts
    Limit <- MCLimit
    Conns = {c1, c2, c3}
    Owner <- MCOwner
    Cost <- MCCost
    Chunks = {1, 2}
    MaxBytes = 2
INVARIANTS
    TypeOK
    BalancesHold
    HandedOnWithinLimit
    OneChunkAtRisk
    OnlyCutOffOrWriteLosesAChunk
PROPERTIES
    LedgerSpec
    SpentRelayEnds
CHECK_DEADLOCK FALSE
