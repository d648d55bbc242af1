--------------------------- MODULE MCDynamicAuthority ---------------------------
(* Two incidents (so that a second epoch can be opened) and one success.    *)
EXTENDS DynamicAuthority, TLC

CONSTANTS c1, c2, s1

MCKindOf == [e \in Evidence |-> IF e = s1 THEN "success" ELSE "critical"]

\* The two incidents are interchangeable, and so are the workers.
Symmetry == Permutations({c1, c2}) \cup Permutations(Workers)
===============================================================================
