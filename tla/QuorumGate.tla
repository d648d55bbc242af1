------------------------------ MODULE QuorumGate ------------------------------
(***************************************************************************)
(* What multi-party governance promises: a governed action takes effect at *)
(* most once, and only with the approvals of enough distinct governors,    *)
(* enough of them in the role that the governance policy requires.         *)
(***************************************************************************)
EXTENDS Naturals, FiniteSets

CONSTANTS
    Governors,
    Officers,       \* the governors in the required role
    Threshold,
    RequiredOfficers,
    Documents       \* the actions that governors can approve

VARIABLE effects    \* what took effect: the document and who approved it

\* verify_governance_quorum, on the governors that signed.
Quorums ==
    {signers \in SUBSET Governors :
        /\ Cardinality(signers) >= Threshold
        /\ Cardinality(signers \cap Officers) >= RequiredOfficers}

Init == effects = {}

TakeEffect(document, signers) ==
    /\ \A e \in effects : e.document # document
    /\ effects' = effects \cup {[document |-> document, signers |-> signers]}

Next ==
    \E signers \in Quorums, document \in Documents :
        TakeEffect(document, signers)

Spec == Init /\ [][Next]_effects
===============================================================================
