SPECIFICATION Spec
CONSTANTS
    Cases <- MCCases
    Nobody = Nobody
    MaxSaid = 1
INVARIANT Socks4aIsHonoured
CHECK_DEADLOCK FALSE
