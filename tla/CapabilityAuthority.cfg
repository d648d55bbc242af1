SPECIFICATION Spec
CONSTANTS
    i1 = i1
    i2 = i2
    root = root
    child = child
    leaf = leaf
    wide = wide
    Identities = {i1, i2}
    NoIdentity = NoIdentity
    AgentOf <- MCAgentOf
    Capabilities = {root, child, leaf, wide}
    NoCapability = NoCapability
    Def <- MCDef
    Actions <- MCActions
    Requests <- MCRequests
    Fields <- MCFields
    MaxDepth = 2
    Ttl = 2
    Workers = {w1, w2}
    MaxTime = 1
SYMMETRY Symmetry
INVARIANTS
    TypeOK
    DelegationNarrows
    RevocationIsHeeded
    AuthorizationsAreConfined
    EdgesFollowCapabilities
