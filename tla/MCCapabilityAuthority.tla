------------------------- MODULE MCCapabilityAuthority -------------------------
(* A root capability, a child, a grandchild, and a child without limits.      *)
EXTENDS CapabilityAuthority, TLC

CONSTANTS i1, i2, root, child, leaf, wide

MCFields == {"target", "asset"}
MCAgentOf == i1 :> "alice" @@ i2 :> "bob"

Definition(agent, id, parent, delegator, depth, targets, limits, expires) ==
    [agent |-> agent, identity |-> id, parent |-> parent, delegator |-> delegator,
     depth |-> depth, allowed |-> [target |-> targets, asset |-> {}],
     context |-> [x \in {"mode"} |-> {"live", "test"}],
     limits |-> limits, expires |-> expires]

MCDef ==
    root :> Definition("alice", i1, NoCapability, NoIdentity, 0, {}, "usd" :> 2, 2) @@
    child :> Definition("bob", i2, root, i1, 1, {"shop"}, "usd" :> 2, 2) @@
    leaf :> Definition("alice", i1, child, i2, 2, {"shop"}, "usd" :> 1, 2) @@
    wide :> Definition("bob", i2, root, i1, 1, {}, <<>>, 2)

Action(agent, amount) ==
    [agent |-> agent, amount |-> amount, context |-> "mode" :> "live",
     value |-> [target |-> "shop", asset |-> "usd"]]

MCActions == {Action("alice", 1), Action("bob", 3)}

Ask(c, i, a) ==
    [kind |-> "authorize", capability |-> c, identity |-> i, action |-> a]

MCRequests ==
    {Ask(leaf, i1, Action("alice", 1)), Ask(wide, i2, Action("bob", 3))}

Symmetry == Permutations(Workers)
===============================================================================
