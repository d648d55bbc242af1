--------------------------- MODULE OneTimeExecution ---------------------------
(***************************************************************************)
(* What the execution boundary promises, whatever the number of threads,   *)
(* retries and crashes: an intent is granted to at most one authorization, *)
(* its side effect is invoked at most once and only after the grant, and   *)
(* evidence of a submission (a receipt with a transaction reference) is    *)
(* published only for the authorization whose side effect was invoked.     *)
(***************************************************************************)
EXTENDS Naturals

CONSTANTS Authorizations, Nonces, NonceOf, NoAuthorization

VARIABLES
    holder,       \* nonce -> the authorization it was granted to
    invocations,  \* nonce -> how often the side effect was invoked
    evidence      \* authorizations with published evidence of a submission

vars == <<holder, invocations, evidence>>

Init ==
    /\ holder = [n \in Nonces |-> NoAuthorization]
    /\ invocations = [n \in Nonces |-> 0]
    /\ evidence = {}

Grant(a) ==
    /\ holder[NonceOf[a]] = NoAuthorization
    /\ holder' = [holder EXCEPT ![NonceOf[a]] = a]
    /\ UNCHANGED <<invocations, evidence>>

Invoke(n) ==
    /\ holder[n] # NoAuthorization
    /\ invocations[n] = 0
    /\ invocations' = [invocations EXCEPT ![n] = 1]
    /\ UNCHANGED <<holder, evidence>>

Publish(a) ==
    /\ holder[NonceOf[a]] = a
    /\ invocations[NonceOf[a]] = 1
    /\ evidence' = evidence \cup {a}
    /\ UNCHANGED <<holder, invocations>>

Next ==
    \/ \E a \in Authorizations : Grant(a) \/ Publish(a)
    \/ \E n \in Nonces : Invoke(n)

Spec == Init /\ [][Next]_vars
===============================================================================
