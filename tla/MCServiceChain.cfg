CONSTANTS
    h1 = h1  h2 = h2  h3 = h3  h4 = h4  k1 = k1  k2 = k2  p1 = p1  p2 = p2
    Handlers = {h1, h2, h3}
    Keys = {k1, k2}
    Peers = {p1, p2}
    KeyOf <- MCKeyOf
    PeerOf <- MCPeerOf
    Denied <- MCDenied
    Limit = 1
    MayThrow = FALSE
    MaxAdminCalls = 0
    None = None
SPECIFICATION Spec
INVARIANT FinishedLeavesChain
