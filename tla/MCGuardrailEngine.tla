--------------------------- MODULE MCGuardrailEngine ---------------------------
(* A payment, and an action under the same id that is spelled otherwise than   *)
(* the policy and has neither network nor amount; a check in another spelling  *)
(* of the asset; a payment of the legacy path; and one, in that spelling, to a *)
(* payee that is no target of the policy.                                      *)
EXTENDS GuardrailEngine, TLC

Payment(id, amount, target, network, asset) ==
    [id |-> id, amount |-> amount,
     value |-> ("target" :> target @@ "network" :> network @@ "asset" :> asset)]

Pay == Payment(1, 2, "shop", "base", "USDC")
Again == [id |-> 1, value |-> ("target" :> "Shop")]
Other == Payment(2, 2, "shop", "base", "usdc")
Act == Payment(3, 3, "bank", "base", "usdc")
Blocked == Payment(4, 1, "mixer", "base", "USDC")
Elsewhere == Payment(5, 1, "shop", "arc", "USDC")
Rent == Payment(6, 2, "bank", "base", "usdc")
Small == Payment(7, 1, "shop", "base", "USDC")
Unpriced == [id |-> 8, value |-> ("target" :> "shop" @@ "network" :> "base")]
MCIntents == {Pay, Again, Other, Act, Blocked, Elsewhere, Rent, Small, Unpriced}

MCLower ==
    [v \in {"shop", "Shop", "bank", "mixer", "base", "arc", "USDC", "usdc"} |->
        CASE v = "Shop" -> "shop" [] v = "USDC" -> "usdc" [] OTHER -> v]
MCUpper == [v \in {"USDC", "usdc"} |-> "USDC"]

MCFields == {"target", "network", "asset"}
MCPolicy ==
    [allowed |-> [f \in {"target", "network"} |->
                   IF f = "target" THEN {"shop", "mixer"} ELSE {"base", "arc"}],
     payees |-> [f \in {"target"} |-> {"shop", "bank"}],
     blocked |-> [f \in {"target"} |-> {"mixer"}],
     txCap |-> "USDC" :> 2, dailyCap |-> "USDC" :> 3, newPayeeCap |-> "USDC" :> 2,
     threshold |-> "USDC" :> 2, rate |-> 2]

List(targets, networks) ==
    "target" :> targets @@ "network" :> networks @@ "asset" :> {}

Card ==
    [allowed |-> List({"shop"}, {"base"}), limits |-> "USDC" :> 2,
     id |-> "card", agent |-> "agent", bound |-> TRUE]

\* For whoever presents it.  What they permit is on no list of targets, and what
\* the lease permits is in no asset that the policy spells.
Loud == [Card EXCEPT !.bound = FALSE, !.allowed = List({"Shop"}, {})]
Lease == [Card EXCEPT !.bound = FALSE, !.allowed = List({"bank"}, {"base"}),
                      !.limits = "usdc" :> 3]

Req(path, intent, card) == [path |-> path, intent |-> intent, capability |-> card]

MCRequests ==
    {Req("identity", Pay, Card), Req("action", Again, Loud), Req("check", Other, Card),
     Req("authorize", Blocked, Card), Req("capability", Rent, Lease)}

\* Plans of three nodes, up to their order: each an action that the card permits,
\* one that it does not, one without an amount, or a goal, with any dependencies
\* between them.
Step(agent, intent) == [agent |-> agent, requested |-> "", intent |-> intent]
MCNodes ==
    <<Planning!Node("ACTION", Step("agent", Small)),
      Planning!Node("ACTION", Step("other", Small)),
      Planning!Node("ACTION", Step("agent", Unpriced)),
      Planning!Node("GOAL", Planning!NoAction)>>
Drawn(x, y, z, depends) ==
    LET Add(g, n, node) == Planning!AddNode(g, n, node)
        nodes == Add(Add(Add(Planning!Empty, 1, x), 2, y), 3, z)
        DependsOn(e, g) == Planning!Link(g, Planning!Edge(e[1], "DEPENDS_ON", e[2]))
    IN  FoldSet(DependsOn, Planning!Link(nodes, Planning!Edge(1, "CONTAINS", 2)), depends)
Ordered == {t \in (1..4) \X (1..4) \X (1..4) : t[1] <= t[2] /\ t[2] <= t[3]}
MCPlans ==
    {Drawn(MCNodes[t[1]], MCNodes[t[2]], MCNodes[t[3]], depends) :
        t \in Ordered, depends \in SUBSET ((1..3) \X (1..3))}

Symmetry == Permutations(Workers)
===============================================================================
