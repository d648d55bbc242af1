---------------------------- MODULE IntentPlanProofs ----------------------------
(***************************************************************************)
(* The assessment of plans, for every graph that the builders make: what   *)
(* the recursion of _assess and of validate computes.  A recursive         *)
(* definition is the choice of a function that satisfies it: the reference *)
(* is one, and by induction on the nodes not being visited no other is.    *)
(***************************************************************************)
EXTENDS GuardrailEngine, FiniteSums

-------------------------------------------------------------------------------
(* What a node needs                                                       *)

Deps(g, n) == Planning!DependenciesOf(g, n)

\* The graphs that the builders make.
Built(g) ==
    /\ IsFiniteSet(DOMAIN g.nodes)
    /\ \A e \in g.edges : {e.source, e.target} \subseteq DOMAIN g.nodes

LEMMA DependenciesAreNodes ==
  ASSUME NEW g, Built(g), NEW n
  PROVE  Deps(g, n) \subseteq DOMAIN g.nodes
  BY DEF Built, Deps, Planning!DependenciesOf

\* A node needs itself and all that its dependencies need, and no more.
LEMMA NeedsUnfold ==
  ASSUME NEW g, Built(g), NEW n \in DOMAIN g.nodes
  PROVE  /\ n \in Planning!Needs(g, n) /\ Planning!Needs(g, n) \subseteq DOMAIN g.nodes
         /\ \A d \in Deps(g, n) : Planning!Needs(g, d) \subseteq Planning!Needs(g, n)
         /\ \A k \in Planning!Needs(g, n) :
               k = n \/ \E d \in Deps(g, n) : k \in Planning!Needs(g, d)
<1> DEFINE ids == DOMAIN g.nodes
           Needs(m) == Planning!Needs(g, m)
           Closed(S) == \A k \in S : Deps(g, k) \subseteq S
           Candidates(m) == {S \in SUBSET ids : m \in S /\ Closed(S)}
<1>1. \A m : Needs(m) = {k \in ids : \A S \in Candidates(m) : k \in S}
  BY DEF Planning!Needs, Deps
<1>2. \A m : Deps(g, m) \subseteq ids
  BY DependenciesAreNodes
<1> HIDE DEF ids, Needs
<1>3. \A m \in ids : m \in Needs(m) /\ Closed(Needs(m)) /\ Needs(m) \subseteq ids
  BY <1>1, <1>2
<1>4. n \in ids
  BY DEF ids
<1>5. ASSUME NEW d \in Deps(g, n) PROVE Needs(d) \subseteq Needs(n)
  <2>1. Candidates(n) \subseteq Candidates(d)
    OBVIOUS
  <2> QED BY <1>1, <2>1
<1>6. ASSUME NEW k \in Needs(n) PROVE k = n \/ \E d \in Deps(g, n) : k \in Needs(d)
  <2> DEFINE R == {n} \cup UNION {Needs(d) : d \in Deps(g, n)}
  <2>1. R \in SUBSET ids /\ n \in R
    BY <1>2, <1>3, <1>4
  <2>2. Closed(R)
    BY <1>2, <1>3
  <2>3. k \in R
    BY <1>1, <2>1, <2>2
  <2> QED BY <2>3
<1> QED BY <1>3, <1>4, <1>5, <1>6 DEF ids, Needs

-------------------------------------------------------------------------------
(* Visits along dependencies                                               *)

\* A recursive visit that accepts nodes of OK only, and none being visited.
Visits(g, OK, f) ==
    f = [visiting \in SUBSET DOMAIN g.nodes |->
           {n \in DOMAIN g.nodes \ visiting :
               n \in OK /\ Deps(g, n) \subseteq f[visiting \cup {n}]}]

\* All that n needs is accepted and none of it needs itself.
Sound(g, OK, n) ==
    \A k \in Planning!Needs(g, n) :
        k \in OK /\ \A d \in Deps(g, k) : k \notin Planning!Needs(g, d)

Avoiding(g, OK, V) ==
    {n \in DOMAIN g.nodes : Sound(g, OK, n) /\ Planning!Needs(g, n) \cap V = {}}

LEMMA AvoidingUnfold ==
  ASSUME NEW g, Built(g), NEW OK, NEW V \in SUBSET DOMAIN g.nodes
  PROVE  Avoiding(g, OK, V) =
           {n \in DOMAIN g.nodes \ V :
               n \in OK /\ Deps(g, n) \subseteq Avoiding(g, OK, V \cup {n})}
<1>1. ASSUME NEW n \in DOMAIN g.nodes
      PROVE  Sound(g, OK, n) /\ Planning!Needs(g, n) \cap V = {} <=>
               /\ n \in OK /\ n \notin V
               /\ \A d \in Deps(g, n) :
                     Sound(g, OK, d) /\ Planning!Needs(g, d) \cap (V \cup {n}) = {}
  <2>1. \A d \in Deps(g, n) : d \in DOMAIN g.nodes
    BY DependenciesAreNodes
  <2> QED BY <2>1, NeedsUnfold DEF Sound
<1>2. \A n \in DOMAIN g.nodes : \A d \in Deps(g, n) : d \in DOMAIN g.nodes
  BY DependenciesAreNodes
<1> QED BY <1>1, <1>2 DEF Avoiding

LEMMA AvoidingVisits ==
  ASSUME NEW g, Built(g), NEW OK
  PROVE  Visits(g, OK, [V \in SUBSET DOMAIN g.nodes |-> Avoiding(g, OK, V)])
<1> DEFINE f == [V \in SUBSET DOMAIN g.nodes |-> Avoiding(g, OK, V)]
<1> SUFFICES ASSUME NEW V \in SUBSET DOMAIN g.nodes
             PROVE  Avoiding(g, OK, V) =
                      {n \in DOMAIN g.nodes \ V :
                          n \in OK /\ Deps(g, n) \subseteq f[V \cup {n}]}
  BY DEF Visits
<1>1. \A n \in DOMAIN g.nodes : f[V \cup {n}] = Avoiding(g, OK, V \cup {n})
  OBVIOUS
<1> HIDE DEF f
<1>2. Avoiding(g, OK, V) =
        {n \in DOMAIN g.nodes \ V :
            n \in OK /\ Deps(g, n) \subseteq Avoiding(g, OK, V \cup {n})}
  BY AvoidingUnfold
<1>3. {n \in DOMAIN g.nodes \ V : n \in OK /\ Deps(g, n) \subseteq f[V \cup {n}]} =
        {n \in DOMAIN g.nodes \ V :
            n \in OK /\ Deps(g, n) \subseteq Avoiding(g, OK, V \cup {n})}
  BY <1>1
<1> QED BY <1>2, <1>3, Zenon

\* The recursion ends, so it computes this and nothing else.
LEMMA VisitsAvoid ==
  ASSUME NEW g, Built(g), NEW OK, NEW f, Visits(g, OK, f)
  PROVE  f[{}] = {n \in DOMAIN g.nodes : Sound(g, OK, n)}
<1> DEFINE ids == DOMAIN g.nodes
           Q == {U \in SUBSET ids : f[ids \ U] = Avoiding(g, OK, ids \ U)}
<1>1. ASSUME NEW U \in SUBSET ids, \A x \in U : U \ {x} \in Q
      PROVE  U \in Q
  <2>1. f[ids \ U] = {n \in U : n \in OK /\ Deps(g, n) \subseteq f[(ids \ U) \cup {n}]}
    <3>1. ids \ (ids \ U) = U /\ ids \ U \in SUBSET ids
      OBVIOUS
    <3>2. f[ids \ U] = {n \in ids \ (ids \ U) :
                          n \in OK /\ Deps(g, n) \subseteq f[(ids \ U) \cup {n}]}
      BY <3>1 DEF Visits
    <3> QED BY <3>1, <3>2
  <2>2. Avoiding(g, OK, ids \ U) =
          {n \in U : n \in OK /\ Deps(g, n) \subseteq Avoiding(g, OK, (ids \ U) \cup {n})}
    BY AvoidingUnfold
  <2>3. \A n \in U : f[(ids \ U) \cup {n}] = Avoiding(g, OK, (ids \ U) \cup {n})
    <3>1. \A n \in U : (ids \ U) \cup {n} = ids \ (U \ {n})
      OBVIOUS
    <3> QED BY <1>1, <3>1
  <2>4. {n \in U : n \in OK /\ Deps(g, n) \subseteq f[(ids \ U) \cup {n}]} =
          {n \in U : n \in OK /\ Deps(g, n) \subseteq Avoiding(g, OK, (ids \ U) \cup {n})}
    BY <2>3
  <2> QED BY <2>1, <2>2, <2>4, Zenon
<1> HIDE DEF Q
<1>2. \A U \in SUBSET ids : U \in Q
  BY <1>1, SetInduction DEF Built
<1>3. ids \in Q /\ ids \ ids = {}
  BY <1>2
<1>4. f[{}] = Avoiding(g, OK, {})
  BY <1>3 DEF Q
<1> QED BY <1>4 DEF Avoiding

\* The visit of the code, as a recursive definition.
LEMMA VisitAll ==
  ASSUME NEW g, Built(g)
  PROVE  Planning!Valid(g) <=> \A n \in DOMAIN g.nodes : Sound(g, DOMAIN g.nodes, n)
<1> DEFINE ids == DOMAIN g.nodes
           f == CHOOSE h : h = [visiting \in SUBSET ids |->
                  {n \in ids \ visiting :
                     Planning!DependenciesOf(g, n) \subseteq h[visiting \cup {n}]}]
<1>1. \E h : h = [visiting \in SUBSET ids |->
                  {n \in ids \ visiting :
                     Planning!DependenciesOf(g, n) \subseteq h[visiting \cup {n}]}]
  <2>1. PICK h : Visits(g, ids, h)
    BY AvoidingVisits
  <2>2. \A V \in SUBSET ids :
          {n \in ids \ V : n \in ids /\ Deps(g, n) \subseteq h[V \cup {n}]} =
          {n \in ids \ V : Planning!DependenciesOf(g, n) \subseteq h[V \cup {n}]}
    BY DEF Deps
  <2>3. h = [visiting \in SUBSET ids |->
                {n \in ids \ visiting :
                   Planning!DependenciesOf(g, n) \subseteq h[visiting \cup {n}]}]
    <3>1. h = [V \in SUBSET ids |->
                  {n \in ids \ V : n \in ids /\ Deps(g, n) \subseteq h[V \cup {n}]}]
      BY <2>1 DEF Visits
    <3> QED BY <2>2, <3>1
  <2> QED BY <2>3
<1>2. f = [visiting \in SUBSET ids |->
              {n \in ids \ visiting :
                 Planning!DependenciesOf(g, n) \subseteq f[visiting \cup {n}]}]
  BY <1>1
<1>3. Planning!Valid(g) <=> f[{}] = ids
  BY DEF Planning!Valid, Built
<1> HIDE DEF f
<1>4. Visits(g, ids, f)
  BY <1>2 DEF Visits, Deps
<1>5. f[{}] = {n \in ids : Sound(g, ids, n)}
  BY <1>4, VisitsAvoid
<1> QED BY <1>3, <1>5

\* The nodes that _assess accepts on their own.
Acceptable(g, authority, c) ==
    {n \in DOMAIN g.nodes :
        /\ g.nodes[n].type = "ACTION"
        /\ Planning!WithinAuthority(g.nodes[n].action, authority, c)}

\* The assessment of the code, as a recursive definition.
LEMMA AssessAll ==
  ASSUME NEW g, Built(g), NEW authority, NEW c, Planning!Binds(authority, c)
  PROVE  Planning!Assess(g, authority, c) =
           {n \in DOMAIN g.nodes : Sound(g, Acceptable(g, authority, c), n)}
<1> DEFINE ids == DOMAIN g.nodes
           OK == Acceptable(g, authority, c)
           Passed(h, V) ==
             {n \in ids \ V :
                /\ g.nodes[n].type = "ACTION"
                /\ Planning!DependenciesOf(g, n) \subseteq h[V \cup {n}]
                /\ Planning!WithinAuthority(g.nodes[n].action, authority, c)}
           f == CHOOSE h : h = [visiting \in SUBSET ids |-> Passed(h, visiting)]
<1>1. ASSUME NEW h, NEW V \in SUBSET ids
      PROVE  Passed(h, V) =
               {n \in ids \ V : n \in OK /\ Deps(g, n) \subseteq h[V \cup {n}]}
  BY DEF Acceptable, Deps
<1>2. \E h : h = [visiting \in SUBSET ids |-> Passed(h, visiting)]
  <2>1. PICK h : Visits(g, OK, h)
    BY AvoidingVisits
  <2>2. h = [visiting \in SUBSET ids |-> Passed(h, visiting)]
    <3>1. h = [V \in SUBSET ids |->
                 {n \in ids \ V : n \in OK /\ Deps(g, n) \subseteq h[V \cup {n}]}]
      BY <2>1 DEF Visits
    <3>2. \A V \in SUBSET ids :
            Passed(h, V) = {n \in ids \ V : n \in OK /\ Deps(g, n) \subseteq h[V \cup {n}]}
      BY <1>1
    <3> HIDE DEF OK
    <3> QED BY <3>1, <3>2
  <2> QED BY <2>2
<1>3. f = [visiting \in SUBSET ids |-> Passed(f, visiting)]
  BY <1>2
<1>4. Planning!Assess(g, authority, c) = f[{}]
  BY DEF Planning!Assess
<1> HIDE DEF f
<1>5. Visits(g, OK, f)
  <2>1. \A V \in SUBSET ids :
          Passed(f, V) = {n \in ids \ V : n \in OK /\ Deps(g, n) \subseteq f[V \cup {n}]}
    BY <1>1
  <2> HIDE DEF OK
  <2>2. f = [V \in SUBSET ids |->
               {n \in ids \ V : n \in OK /\ Deps(g, n) \subseteq f[V \cup {n}]}]
    BY <1>3, <2>1
  <2> QED BY <2>2 DEF Visits
<1> HIDE DEF OK
<1>6. f[{}] = {n \in ids : Sound(g, OK, n)}
  BY <1>5, VisitsAvoid
<1> QED BY <1>4, <1>6 DEF OK

LEMMA PlanTruthful ==
  ASSUME NEW g \in Plans, NEW c, NEW s \in Snapshots
  PROVE  Truthful(g, c, s)
<1> DEFINE a == Authority(c, s)
           ids == DOMAIN g.nodes
           eligible == Planning!Assess(g, a, c)
<1>1. Built(g)
  BY PlansType DEF Built
<1>2. Planning!Binds(a, c)
  BY DEF Planning!Binds, Authority
<1>3. eligible = {n \in ids : Sound(g, Acceptable(g, a, c), n)}
  BY <1>1, <1>2, AssessAll
<1>4. eligible = Planning!EligibleByReference(g, a, c)
  <2>1. \A n \in ids : Planning!Needs(g, n) \subseteq ids
    BY <1>1, NeedsUnfold
  <2> QED BY <1>3, <2>1 DEF Planning!EligibleByReference, Sound, Acceptable, Deps
<1>5. ASSUME ~Planning!Valid(g) PROVE eligible # ids
  <2>1. PICK n \in ids : ~Sound(g, ids, n)
    BY <1>1, <1>5, VisitAll
  <2>2. Acceptable(g, a, c) \subseteq ids
    BY DEF Acceptable
  <2>3. ~Sound(g, Acceptable(g, a, c), n)
    BY <2>1, <2>2 DEF Sound
  <2> QED BY <1>3, <2>1, <2>3
<1>6. \A n \in ids : n \in Planning!Needs(g, n)
  BY <1>1, NeedsUnfold
<1>7. eligible \subseteq Acceptable(g, a, c)
  BY <1>3, <1>6 DEF Sound
<1>8. ASSUME s.suspended PROVE eligible = {}
  <2>1. Acceptable(g, a, c) = {}
    BY <1>8 DEF Acceptable, Planning!WithinAuthority, Authority
  <2> QED BY <1>7, <2>1
<1>9. ASSUME s.multiplier > Scale, NEW n \in eligible
      PROVE  LET i == g.nodes[n].action.intent IN ~(HasAmount(i) /\ HasLimit(c, i))
  <2>1. Planning!WithinAuthority(g.nodes[n].action, a, c)
    BY <1>7, <1>9 DEF Acceptable
  <2>2. ~(a.multiplier <= Scale)
    BY <1>9, NumbersType DEF Snapshots, Authority
  <2> QED BY <2>1, <2>2 DEF Planning!WithinAuthority, Planning!CeilingAllows, HasAmount
<1> QED BY <1>4, <1>5, <1>8, <1>9 DEF Truthful

-------------------------------------------------------------------------------
(* The plans that the builders make                                        *)

LEMMA EmptyBuilt == Built(Planning!Empty)
  BY FS_EmptySet DEF Built, Planning!Empty

LEMMA AddNodeBuilt ==
  ASSUME NEW g, Built(g), NEW n, NEW node
  PROVE  Built(Planning!AddNode(g, n, node))
<1>1. IsFiniteSet(DOMAIN g.nodes \cup {n})
  BY FS_AddElement DEF Built
<1> QED BY <1>1 DEF Built, Planning!AddNode

LEMMA LinkBuilt ==
  ASSUME NEW g, Built(g), NEW e
  PROVE  Built(Planning!Link(g, e))
  BY DEF Built, Planning!Link

\* The plan of one action, which _genesis_assessment assesses for a bound
\* capability, adds one thing to the checks on the capability and on dynamic
\* authority: where the action has an amount and the capability a limit for its
\* asset, a multiplier above one is refused (authority_intent_graph.py, _assess).
THEOREM OneActionAssessed ==
  ASSUME NEW c, NEW i, NEW s
  PROVE  Assessed(c, i, s) <=>
           (c.bound => /\ Permits(c, i) /\ Asserts(s, c, i)
                       /\ HasAmount(i) /\ HasLimit(c, i) => s.multiplier <= Scale)
<1> DEFINE action == [agent |-> c.agent, requested |-> "", intent |-> i]
           node == Planning!Node("ACTION", action)
           g == Planning!AddAction(Planning!Empty, i.id, action)
           a == Authority(c, s)
<1>1. Built(g)
  BY EmptyBuilt, AddNodeBuilt DEF Planning!AddAction
<1>2. DOMAIN g.nodes = {i.id} /\ g.nodes[i.id] = node /\ g.edges = {}
  BY DEF Planning!AddAction, Planning!AddNode, Planning!Empty
<1>3. Deps(g, i.id) = {}
  BY <1>2 DEF Deps, Planning!DependenciesOf
<1>4. Planning!Needs(g, i.id) = {i.id}
  BY <1>1, <1>2, NeedsUnfold
<1>5. Planning!Assess(g, a, c) = {n \in DOMAIN g.nodes : Sound(g, Acceptable(g, a, c), n)}
  <2>1. Planning!Binds(a, c)
    BY DEF Planning!Binds, Authority
  <2> QED BY <1>1, <2>1, AssessAll
<1>6. i.id \in Planning!Assess(g, a, c) <=> Planning!WithinAuthority(action, a, c)
  <2>1. node.type = "ACTION" /\ node.action = action
    BY DEF Planning!Node
  <2> HIDE DEF node, g, action, a
  <2> QED BY <1>2, <1>3, <1>4, <1>5, <2>1 DEF Sound, Acceptable
<1>7. Planning!WithinAuthority(action, a, c) <=>
        /\ Permits(c, i) /\ Asserts(s, c, i)
        /\ HasAmount(i) /\ HasLimit(c, i) => s.multiplier <= Scale
  BY DEF Planning!WithinAuthority, Planning!CeilingAllows, Authority, Asserts, HasAmount
<1> HIDE DEF node, action, a
<1> QED BY <1>6, <1>7 DEF Assessed, action, a

\* Every plan, built of any number of nodes with any dependencies, is told the
\* truth, whatever the capability and the multiplier (authority_intent_graph.py,
\* assess and assess_all).
THEOREM PlansAlwaysAssessed == Spec => []PlansAreAssessed
<1>1. PlansAreAssessed
  BY PlanTruthful DEF PlansAreAssessed, AllPlansTruthful
<1> QED BY <1>1, PTL
===============================================================================
