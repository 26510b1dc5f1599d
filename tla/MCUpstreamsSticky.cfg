SPECIFICATION Spec
CONSTANTS
    c1 = c1
    c2 = c2
    None = None
    Dims <- MCDims
    Untemplated = "type"
    Values <- MCValues
    Sessions <- MCSessions
    Hash <- MCHash
    Labels <- MCLabels
    ChainIds <- MCChainIds
    Chains <- MCChains
    Global = "A"
    Logins <- MCLogins
    Peers <- MCPeers
    Listed <- MCListed
    Static <- MCStatic
    Rows <- MCRows
    Conns = {c1, c2}
    Requests <- PinnedRequests
INVARIANTS
    PinnedOnOneMatchingSet
