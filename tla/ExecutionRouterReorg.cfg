SPECIFICATION Spec
CONSTANTS
    a1 = a1
    a2 = a2
    n1 = n1
    Authorizations = {a1, a2}
    Nonces = {n1}
    NonceOf <- MCNonceOf
    NoAuthorization = NoAuthorization
    Workers = {w1, w2}
    Confirmations = {c1, c2}
    NoConfirmation = NoConfirmation
    MaxCrashes = 0
    AllowReorg = TRUE
SYMMETRY Symmetry
PROPERTIES
    TerminalStatusIsFinal
