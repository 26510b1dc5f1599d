SPECIFICATION Spec
CONSTANTS
    Unlimited = Unlimited
    alice = alice
    bob = bob
    nobody = nobody
    c1 = c1
    c2 = c2
    c3 = c3
    MaxDebit = 4
    MaxCalls = 2
    Users <- MCUsers
    NoUser = nobody
    Allowance <- MCAllowance
    Callers = {c1, c2, c3}
    Chunks = {2}
    Cost <- MCCost
INVARIANTS
    TypeOK
    NeverRefusedWhileFunded
PROPERTIES
    LedgerSpec
    EveryReportIsAnswered
CHECK_DEADLOCK FALSE
