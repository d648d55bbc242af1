--------------------------- MODULE MCPolicyGovernance -------------------------
(* A first version, two rivals for the second one, a freeze and a rollback   *)
(* of the first version (to a newer one: a rollback may go either way).      *)
EXTENDS PolicyGovernance, TLC

CONSTANTS p1, p2, p3, g1, g2, g3

Version(p, v, parent) == [policy |-> p, version |-> v, parent |-> parent]
First == Version(p1, 1, NoPolicy)
Second == Version(p2, 2, p1)

MCChanges ==
    {ChangeAction(1, First), ChangeAction(2, Second), ChangeAction(3, Version(p3, 2, p1))}

MCControls == {FreezeAction(p1), RollbackAction(p1, p2, 2)}

MCConfigs == {First, Second}

Symmetry == Permutations({g2, g3}) \cup Permutations(Workers)
===============================================================================
