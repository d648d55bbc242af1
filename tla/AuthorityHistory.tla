---------------------------- MODULE AuthorityHistory ----------------------------
(***************************************************************************)
(* What the authority tables promise whoever replays them: a history of    *)
(* evidence in which every row commits to the one before it, and a history *)
(* of epochs in the order of their times.  Both only grow, by one row at   *)
(* their end, whatever processes race for that end or die on the way, and  *)
(* an authorization is bound to a row that stays.                          *)
(***************************************************************************)
EXTENDS Naturals

CONSTANTS
    Evidence,
    NoEvidence,   \* what the first row commits to
    Times

VARIABLES
    ledger,       \* rows with their sequence number
    resets,       \* epochs with their time
    bound         \* the rows that authorizations are bound to

vars == <<ledger, resets, bound>>

Init == ledger = {} /\ resets = {} /\ bound = {}

Add(sequence, e, previous, t) ==
    ledger' = ledger \cup
        {[sequence |-> sequence, event |-> e, prev |-> previous, at |-> t]}

\* Evidence is recorded once, behind the last row.
Record(e, t) ==
    /\ \A r \in ledger : r.event # e
    /\ \/ ledger = {} /\ Add(1, e, NoEvidence, t)
       \/ \E last \in ledger :
             /\ \A r \in ledger : r.sequence <= last.sequence
             /\ Add(last.sequence + 1, e, last.event, t)
    /\ UNCHANGED <<resets, bound>>

OpenEpoch(t) ==
    /\ \A r \in resets : r.at < t
    /\ \/ resets = {} /\ resets' = {[epoch |-> 1, at |-> t]}
       \/ \E last \in resets :
             /\ \A r \in resets : r.epoch <= last.epoch
             /\ resets' = resets \cup {[epoch |-> last.epoch + 1, at |-> t]}
    /\ UNCHANGED <<ledger, bound>>

\* Evidence on record, or none while there is none.
Bind(head) ==
    /\ head = NoEvidence \/ \E r \in ledger : r.event = head
    /\ bound' = bound \cup {head}
    /\ UNCHANGED <<ledger, resets>>

\* One row more in the ledger, one epoch more, or one more row that is bound.
Next ==
    \/ ledger' # ledger /\ \E e \in Evidence, t \in Times : Record(e, t)
    \/ resets' # resets /\ \E t \in Times : OpenEpoch(t)
    \/ \E head \in Evidence \cup {NoEvidence} : Bind(head)

Spec == Init /\ [][Next]_vars
===============================================================================
