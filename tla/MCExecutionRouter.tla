--------------------------- MODULE MCExecutionRouter ---------------------------
(* Two authorizations of one intent (AuthorizationService.issue persists    *)
(* nothing, so an intent can be authorized twice) and three workers.        *)
EXTENDS ExecutionRouter, TLC

CONSTANTS a1, a2, n1

\* Both authorizations carry the same nonce.
MCNonceOf == (a1 :> n1) @@ (a2 :> n1)

Symmetry == Permutations(Workers) \cup Permutations(Confirmations)
===============================================================================
