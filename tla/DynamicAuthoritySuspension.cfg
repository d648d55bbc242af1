SPECIFICATION Spec
CONSTANTS
    c1 = c1
    c2 = c2
    s1 = s1
    Evidence = {c1, c2}
    KindOf <- MCKindOf
    NoEvidence = NoEvidence
    Workers = {w1}
    Window = 1
    ProbationSuccesses = 1
    StandardSuccesses = 2
    LimitedAdverse = 2
    SuspensionCritical = 1
    Lifetime = 2
    OverOne = {}
    Skew = 0
    MaxTime = 5
    MaxEpoch = 2
    MaxGrants = 0
    MaxCrashes = 0
SYMMETRY Symmetry
PROPERTIES
    SuspensionNeedsReset
