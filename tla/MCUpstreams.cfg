SPECIFICATION Spec
CONSTANTS
    c1 = c1
    c2 = c2
    None = None
    Dims <- MCDims
    Untemplated = "type"
    Values <- MCValues
    Sessions <- MCSessions
    Hash <- MCHash
    Labels <- MCLabels
    ChainIds <- MCChainIds
    Chains <- MCChains
    Global = "random"
    Logins <- MCLogins
    Peers <- MCPeers
    Listed <- MCListed
    Static <- MCStatic
    Rows <- MCRows
    Conns = {c1}
    Requests <- MCRequests
INVARIANTS
    TypeOK
    FailClosed
    StaticLabelWins
    PinnedOnOneSet
    OneAccountDecides
PROPERTIES
    TableIsFollowed
