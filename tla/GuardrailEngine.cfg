SPECIFICATION Spec
CONSTANTS
    Intents <- MCIntents
    Requests <- MCRequests
    Fields <- MCFields
    Optional = {"network"}
    Caseless = {}
    Lower <- MCLower
    Upper <- MCUpper
    Policy <- MCPolicy
    Multipliers = {0, 1, 2, 3}
    Scale = 2
    Plans <- MCPlans
    Workers = {w1, w2}
    MaxRows = 3
SYMMETRY Symmetry
INVARIANTS
    TypeOK
    WithinLimits
    SignaturesBelong
    OneAuthorizationPerIntent
    AuthorizedIsExecutable
    CeilingConfines
    PlansAreAssessed
