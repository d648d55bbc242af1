------------------------------ MODULE IntentPlan ------------------------------
(***************************************************************************)
(* core/intent_graph.py and core/authority_intent_graph.py: a plan is a    *)
(* graph of nodes, and an action of it is assessed against one authority   *)
(* and one capability.  An assessment is eligibility, never authorization. *)
(* Builder methods that raise leave the graph as it is.  The order of the  *)
(* edges decides only how an action is refused (BLOCKED or an exception),  *)
(* not whether it is, so edges are a set.                                  *)
(***************************************************************************)
EXTENDS Naturals

CONSTANTS
    Permits(_, _),   \* Capability.permits(capability, intent)
    HasLimit(_, _),  \* the capability has a limit for the asset of the intent
    Limit(_, _),     \* that limit
    Scale            \* the multiplier of an authority counts in 1 / Scale

NoAction == [agent |-> "none"]

Node(type, action) == [type |-> type, action |-> action]
Edge(source, relation, target) ==
    [source |-> source, relation |-> relation, target |-> target]

Empty == [nodes |-> [n \in {} |-> NoAction], edges |-> {}]

AddNode(g, n, node) ==
    IF n \in DOMAIN g.nodes THEN g
    ELSE [nodes |-> [k \in DOMAIN g.nodes \cup {n} |->
                       IF k = n THEN node ELSE g.nodes[k]],
          edges |-> g.edges]

AddAction(g, n, action) == AddNode(g, n, Node("ACTION", action))

Link(g, e) ==
    IF {e.source, e.target} \subseteq DOMAIN g.nodes
    THEN [nodes |-> g.nodes, edges |-> g.edges \cup {e}]
    ELSE g

DependenciesOf(g, n) ==
    {e.target : e \in {x \in g.edges : x.source = n /\ x.relation = "DEPENDS_ON"}}

\* validate: every edge is between nodes, and visiting along dependencies
\* never meets a node that is being visited.  Visited[visiting]: the nodes whose
\* visit returns while these are being visited.
Valid(g) ==
    LET ids == DOMAIN g.nodes
        Visited[visiting \in SUBSET ids] ==
            {n \in ids \ visiting :
                DependenciesOf(g, n) \subseteq Visited[visiting \cup {n}]}
    IN  /\ \A e \in g.edges : {e.source, e.target} \subseteq ids
        /\ Visited[{}] = ids

\* authority_ceiling_allows: a factor above one is no ceiling.
CeilingAllows(limit, factor, requested) ==
    factor <= Scale /\ requested * Scale <= limit * factor

\* An authority is assessed only with the capability that it names.
Binds(authority, c) == authority.agent = c.agent /\ authority.capability = c.id

\* What _assess asks of one action, its dependencies apart.
WithinAuthority(action, authority, c) ==
    /\ ~authority.suspended
    /\ action.agent = authority.agent
    /\ action.requested \in {"", authority.capability}
    /\ Permits(c, action.intent)
    /\ "amount" \in DOMAIN action.intent /\ HasLimit(c, action.intent) =>
          CeilingAllows(Limit(c, action.intent), authority.multiplier, action.intent.amount)

\* Mutant: a dependency that is being assessed already counts as eligible.
AssessCycles(g, authority, c) ==
    LET ids == DOMAIN g.nodes
        Eligible[visiting \in SUBSET ids] ==
            visiting \cup
            {n \in ids \ visiting :
                /\ g.nodes[n].type = "ACTION"
                /\ DependenciesOf(g, n) \subseteq Eligible[visiting \cup {n}]
                /\ WithinAuthority(g.nodes[n].action, authority, c)}
    IN  Eligible[{}]

\* assess_all: the nodes that are ELIGIBLE, as _assess recurses.
\* Eligible[visiting]: those that are while these are being assessed.
Assess(g, authority, c) ==
    LET ids == DOMAIN g.nodes
        Eligible[visiting \in SUBSET ids] ==
            {n \in ids \ visiting :
                /\ g.nodes[n].type = "ACTION"
                /\ DependenciesOf(g, n) \subseteq Eligible[visiting \cup {n}]
                /\ WithinAuthority(g.nodes[n].action, authority, c)}
    IN  IF Binds(authority, c) THEN Eligible[{}] ELSE {}

-------------------------------------------------------------------------------
\* The reference: the least set of nodes that n needs, itself included.
Needs(g, n) ==
    LET closed(S) == \A k \in S : DependenciesOf(g, k) \subseteq S
        candidates == {S \in SUBSET DOMAIN g.nodes : n \in S /\ closed(S)}
    IN  {k \in DOMAIN g.nodes : \A S \in candidates : k \in S}

\* A node is eligible exactly if all that it needs are actions within the
\* authority and none of them needs itself through others.
EligibleByReference(g, authority, c) ==
    {n \in DOMAIN g.nodes :
        \A k \in Needs(g, n) :
            /\ g.nodes[k].type = "ACTION"
            /\ WithinAuthority(g.nodes[k].action, authority, c)
            /\ \A d \in DependenciesOf(g, k) : k \notin Needs(g, d)}
===============================================================================
