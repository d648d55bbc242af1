SPECIFICATION Spec
CONSTANTS
    Callers = {w1}
    Genesis = genesis
    Attestors = {"verifier", "executor"}
    Attestations <- MCAttestations
    Documents <- MCDocuments
    Bootstrapped <- MCBootstrapped
    Receipts <- MCReceipts
    AuthorizationEnds = 1
    MaxTime = 2
    MaxFailures = 1
INVARIANTS
    TypeOK
    ClaimsMatchReceipts
    LearnedFromAttested
    OneVerdict
    LearningIsLedgered
    ProofIsGrounded
PROPERTY ProofNeedsLiveEvidence
