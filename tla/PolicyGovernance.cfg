SPECIFICATION Spec
CONSTANTS
    p1 = p1
    p2 = p2
    p3 = p3
    g1 = g1
    g2 = g2
    g3 = g3
    Governors = {g1, g2, g3}
    Officers = {g1}
    Threshold = 2
    RequiredOfficers = 1
    MaxApprovals = 2
    Policies = {p1, p2, p3}
    NoPolicy = NoPolicy
    Changes <- MCChanges
    Controls <- MCControls
    NoDocument = NoDocument
    RuntimeCopy = RuntimeCopy
    Configs <- MCConfigs
    Workers = {w1, w2}
    MaxRestarts = 1
SYMMETRY Symmetry
INVARIANTS
    TypeOK
    LineageIsGrounded
    ApprovalsBackChanges
    ControlIsGoverned
    IssuesOnlyEnforceable
PROPERTIES
    ImplementsQuorumGate
