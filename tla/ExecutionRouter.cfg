SPECIFICATION Spec
CONSTANTS
    a1 = a1
    a2 = a2
    n1 = n1
    Authorizations = {a1, a2}
    Nonces = {n1}
    NonceOf <- MCNonceOf
    NoAuthorization = NoAuthorization
    Workers = {w1, w2, w3}
    Confirmations = {c1, c2}
    NoConfirmation = NoConfirmation
    MaxCrashes = 1
    AllowReorg = FALSE
SYMMETRY Symmetry
INVARIANTS
    TypeOK
    OneBroadcastPerIntent
    ReceiptsTruthful
PROPERTIES
    ExpiryIsFinal
    
    TerminalStatusIsFinal
    ImplementsOneTime
