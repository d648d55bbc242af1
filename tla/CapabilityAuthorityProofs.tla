----------------------- MODULE CapabilityAuthorityProofs -----------------------
(***************************************************************************)
(* Delegation, revocation and the issue of authorizations, for every set   *)
(* of capabilities, identities, requests and workers.                      *)
(***************************************************************************)
EXTENDS CapabilityAuthority, TLAPS

Walking == {"walk", "owner"}
Authorizing == {"identity", "permit", "issue"}
Delegating == {"delegator", "recipient", "register"}

TablesOK ==
    /\ identity \in [Identities -> Status]
    /\ capability \in [Capabilities -> Status]
    /\ edge \in [Capabilities -> Status]
    /\ held \subseteq Capabilities
    /\ now \in 0..MaxTime

LocalsOK ==
    /\ pc \in [Workers -> Steps]
    /\ request \in [Workers ->
         {NoRequest} \cup Delegations \cup Revocations \cup Requests]
    /\ at \in [Workers -> Capabilities \cup {NoCapability}]
    /\ then \in [Workers -> AfterWalk]
    /\ intact \in [Workers -> BOOLEAN]

\* What a worker was asked for fits the step it is at.
RoleOK(w) ==
    /\ \/ pc[w] \in Authorizing
       \/ pc[w] \in Walking /\ then[w] # "delegator"
       => request[w] \in Requests
    /\ \/ pc[w] \in Delegating
       \/ pc[w] \in Walking /\ then[w] = "delegator"
       => request[w] \in Delegations /\ Def[request[w].capability].parent \in Capabilities
    /\ pc[w] \in {"revoke", "unlink"} => request[w] \in Revocations
    /\ pc[w] \in Walking => at[w] \in Capabilities

ShapeInv == TablesOK /\ LocalsOK /\ \A w \in Workers : RoleOK(w)

-------------------------------------------------------------------------------
LEMMA RequestsTyped ==
  ASSUME NEW r \in Delegations \cup Revocations \cup Requests
  PROVE  r.capability \in Capabilities
  BY RequestsType DEF Delegations, Revocations

\* Only a worker's own steps move it.
Stays(v) ==
    /\ pc'[v] = pc[v] /\ request'[v] = request[v] /\ at'[v] = at[v]
    /\ then'[v] = then[v] /\ intact'[v] = intact[v]

\* How the locals of the worker that takes a step change.
Moves(w) ==
    \/ Return(w)
    \/ \E step \in Steps : Goto(w, step)
    \/ \E c \in Capabilities, next \in AfterWalk : Resolve(w, c, next)
    \/ pc[w] \in Walking /\ Hop(w)

LEMMA StepMoves ==
  ASSUME ShapeInv, NEW w \in Workers, WorkerStep(w)
  PROVE  Moves(w)
<1> USE DEF Moves, Steps, Checked, AfterWalk, Walking
<1>1. CASE WalkCapability(w)    BY <1>1 DEF WalkCapability
<1>2. CASE WalkOwner(w)         BY <1>2 DEF WalkOwner
<1>3. CASE CheckDelegator(w)    BY <1>3 DEF CheckDelegator
<1>4. CASE CheckRecipient(w)    BY <1>4 DEF CheckRecipient
<1>5. CASE RegisterDelegated(w) BY <1>5 DEF RegisterDelegated
<1>6. CASE RevokeDelegated(w)   BY <1>6 DEF RevokeDelegated
<1>7. CASE RevokeEdge(w)        BY <1>7 DEF RevokeEdge
<1>8. CASE CheckIdentity(w)
  <2>1. request[w].capability \in Capabilities
    BY <1>8, RequestsTyped DEF CheckIdentity, ShapeInv, RoleOK, Authorizing
  <2> QED BY <1>8, <2>1 DEF CheckIdentity
<1>9. CASE CheckPermit(w)
  <2>1. request[w].capability \in Capabilities
    BY <1>9, RequestsTyped DEF CheckPermit, ShapeInv, RoleOK, Authorizing
  <2> QED BY <1>9, <2>1 DEF CheckPermit
<1>10. CASE Issue(w)            BY <1>10 DEF Issue
<1>11. CASE Crash(w)            BY <1>11 DEF Crash
<1> QED
  BY <1>1, <1>2, <1>3, <1>4, <1>5, <1>6, <1>7, <1>8, <1>9, <1>10, <1>11 DEF WorkerStep

LEMMA OthersStay ==
  ASSUME ShapeInv, NEW w \in Workers, NEW v \in Workers, v # w,
         WorkerStep(w) \/ Request(w)
  PROVE  Stays(v)
<1>1. CASE Moves(w)
  BY <1>1 DEF Moves, Return, Goto, Resolve, Hop, Stays, ShapeInv, LocalsOK
<1>2. CASE Request(w)
  BY <1>2 DEF Request, BeginDelegate, BeginRevoke, BeginAuthorize, Begin, Stays,
              ShapeInv, LocalsOK
<1> QED BY <1>1, <1>2, StepMoves

-------------------------------------------------------------------------------
(* Types                                                                   *)

LEMMA LocalsStep ==
  ASSUME ShapeInv, NEW w \in Workers, WorkerStep(w) \/ Request(w)
  PROVE  LocalsOK'
<1>1. CASE Moves(w)
  <2> USE DEF ShapeInv, LocalsOK
  <2>1. CASE Return(w)
    BY <2>1 DEF Return, Steps, AfterWalk
  <2>2. CASE \E step \in Steps : Goto(w, step)
    BY <2>2 DEF Goto
  <2>3. CASE \E c \in Capabilities, next \in AfterWalk : Resolve(w, c, next)
    BY <2>3 DEF Resolve, Intact, Steps
  <2>4. CASE pc[w] \in Walking /\ Hop(w)
    BY <2>4, DefType DEF Hop, Steps, AfterWalk, Checked, RoleOK
  <2> QED BY <1>1, <2>1, <2>2, <2>3, <2>4 DEF Moves
<1>2. CASE Request(w)
  <2> USE DEF ShapeInv, LocalsOK, Steps, Checked, AfterWalk
  <2>1. CASE \E c \in Capabilities : BeginDelegate(w, c)
    BY <2>1, DefType DEF BeginDelegate, Delegations, Intact
  <2>2. CASE \E c \in Capabilities : BeginRevoke(w, c)
    BY <2>2 DEF BeginRevoke, Begin, Revocations
  <2>3. CASE \E r \in Requests : BeginAuthorize(w, r)
    BY <2>3 DEF BeginAuthorize, Begin
  <2> QED BY <1>2, <2>1, <2>2, <2>3 DEF Request
<1> QED BY <1>1, <1>2, StepMoves

LEMMA RolesStep ==
  ASSUME ShapeInv, NEW w \in Workers, WorkerStep(w) \/ Request(w)
  PROVE  RoleOK(w)'
<1> USE DEF ShapeInv, LocalsOK, RoleOK, Walking, Authorizing, Delegating
<1>1. CASE Return(w)
  BY <1>1 DEF Return
<1>2. CASE pc[w] \in Walking /\ Hop(w)
  BY <1>2, DefType DEF Hop, AfterWalk
<1>3. CASE WalkCapability(w)    BY <1>1, <1>2, <1>3 DEF WalkCapability, Goto
<1>4. CASE WalkOwner(w)         BY <1>1, <1>2, <1>4 DEF WalkOwner
<1>5. CASE CheckDelegator(w)    BY <1>1, <1>5 DEF CheckDelegator, Goto
<1>6. CASE CheckRecipient(w)    BY <1>1, <1>6 DEF CheckRecipient, Goto
<1>7. CASE RegisterDelegated(w) BY <1>1, <1>7 DEF RegisterDelegated
<1>8. CASE RevokeDelegated(w)   BY <1>1, <1>8 DEF RevokeDelegated, Goto
<1>9. CASE RevokeEdge(w)        BY <1>1, <1>9 DEF RevokeEdge
<1>10. CASE CheckIdentity(w)
  <2>1. request[w].capability \in Capabilities
    BY <1>10, RequestsTyped DEF CheckIdentity
  <2> QED BY <1>1, <1>10, <2>1 DEF CheckIdentity, Resolve
<1>11. CASE CheckPermit(w)
  <2>1. request[w].capability \in Capabilities
    BY <1>11, RequestsTyped DEF CheckPermit
  <2> QED BY <1>1, <1>11, <2>1 DEF CheckPermit, Resolve
<1>12. CASE Issue(w)            BY <1>1, <1>12 DEF Issue
<1>13. CASE Crash(w)            BY <1>1, <1>13 DEF Crash
<1>14. ASSUME NEW c \in Capabilities, BeginDelegate(w, c)
       PROVE  RoleOK(w)'
  BY <1>14, DefType DEF BeginDelegate, Delegations
<1>15. ASSUME NEW c \in Capabilities, BeginRevoke(w, c)
       PROVE  RoleOK(w)'
  BY <1>15 DEF BeginRevoke, Begin, Revocations
<1>16. ASSUME NEW r \in Requests, BeginAuthorize(w, r)
       PROVE  RoleOK(w)'
  BY <1>16 DEF BeginAuthorize, Begin
<1> QED
  BY <1>3, <1>4, <1>5, <1>6, <1>7, <1>8, <1>9, <1>10, <1>11, <1>12, <1>13, <1>14,
     <1>15, <1>16 DEF WorkerStep, Request

LEMMA TablesStep ==
  ASSUME ShapeInv, [Next]_vars
  PROVE  TablesOK'
<1> USE DEF ShapeInv, TablesOK, Status, Registered, tables, Revoked
<1>1. CASE UNCHANGED vars
  BY <1>1 DEF vars
<1>2. CASE Tick
  BY <1>2, TimeType DEF Tick
<1>3. ASSUME NEW i \in Identities, RegisterIdentity(i) \/ RevokeIdentity(i)
      PROVE  TablesOK'
  BY <1>3 DEF RegisterIdentity, RevokeIdentity
<1>4. ASSUME NEW c \in Capabilities, RegisterCapability(c) \/ RevokeCapability(c)
      PROVE  TablesOK'
  BY <1>4 DEF RegisterCapability, RevokeCapability, StoreCapability, HoldsEdge
<1>5. ASSUME NEW w \in Workers, Request(w)
      PROVE  TablesOK'
  BY <1>5 DEF Request, BeginDelegate, BeginRevoke, BeginAuthorize, Begin
<1>6. ASSUME NEW w \in Workers, RegisterDelegated(w) \/ RevokeDelegated(w) \/ RevokeEdge(w)
      PROVE  TablesOK'
  <2>1. request[w].capability \in Capabilities
    BY <1>6, RequestsTyped
    DEF RegisterDelegated, RevokeDelegated, RevokeEdge, RoleOK, Delegating
  <2> QED
    BY <1>6, <2>1
    DEF RegisterDelegated, RevokeDelegated, RevokeEdge, StoreCapability, HoldsEdge
<1>7. ASSUME NEW w \in Workers,
             \/ WalkCapability(w) \/ WalkOwner(w) \/ CheckDelegator(w) \/ CheckRecipient(w)
             \/ CheckIdentity(w) \/ CheckPermit(w) \/ Issue(w) \/ Crash(w)
      PROVE  TablesOK'
  BY <1>7 DEF WalkCapability, WalkOwner, CheckDelegator, CheckRecipient, CheckIdentity,
              CheckPermit, Issue, Crash
<1> QED
  BY <1>1, <1>2, <1>3, <1>4, <1>5, <1>6, <1>7 DEF Next, Registry, WorkerStep

LEMMA RegistryMoves ==
  ASSUME Registry \/ Tick
  PROVE  UNCHANGED <<locals, issued>>
  BY DEF Registry, Tick, RegisterIdentity, RevokeIdentity, RegisterCapability,
         RevokeCapability

LEMMA ShapeStep == ShapeInv /\ [Next]_vars => ShapeInv'
<1> SUFFICES ASSUME ShapeInv, [Next]_vars PROVE LocalsOK' /\ \A v \in Workers : RoleOK(v)'
  BY TablesStep DEF ShapeInv
<1>1. CASE UNCHANGED vars \/ Registry \/ Tick
  <2>1. UNCHANGED locals
    BY <1>1, RegistryMoves DEF vars, locals
  <2> QED BY <2>1 DEF locals, ShapeInv, LocalsOK, RoleOK
<1>2. ASSUME NEW w \in Workers, WorkerStep(w) \/ Request(w)
      PROVE  LocalsOK' /\ \A v \in Workers : RoleOK(v)'
  <2>1. ASSUME NEW v \in Workers, v # w
        PROVE  RoleOK(v)'
    BY <1>2, <2>1, OthersStay DEF Stays, ShapeInv, RoleOK
  <2> QED BY <1>2, <2>1, LocalsStep, RolesStep
<1> QED BY <1>1, <1>2 DEF Next

LEMMA ShapeInit == Init => ShapeInv
<1> SUFFICES ASSUME Init PROVE ShapeInv
  OBVIOUS
<1>1. TablesOK
  BY TimeType DEF Init, TablesOK, Status
<1>2. LocalsOK
  BY DEF Init, LocalsOK, Steps, AfterWalk
<1>3. \A w \in Workers : RoleOK(w)
  BY DEF Init, RoleOK, Walking, Authorizing, Delegating
<1> QED BY <1>1, <1>2, <1>3 DEF ShapeInv

Authorizations == [capability : Capabilities, action : Actions, expires : Nat]

IssuedOK == issued \subseteq Authorizations

LEMMA IssuedStep == ShapeInv /\ IssuedOK /\ [Next]_vars => IssuedOK'
<1> SUFFICES ASSUME ShapeInv, issued \subseteq Authorizations, [Next]_vars
             PROVE  issued' \subseteq Authorizations
  BY DEF IssuedOK, Authorizations
<1>1. ASSUME NEW w \in Workers, Issue(w)
      PROVE  issued' \subseteq Authorizations
  <2>1. request[w] \in Requests
    BY <1>1 DEF Issue, ShapeInv, RoleOK, Authorizing
  <2>2. request[w].capability \in Capabilities /\ request[w].action \in Actions
    BY <2>1, RequestsType
  <2>3. now + Ttl \in Nat
    BY TimeType DEF ShapeInv, TablesOK
  <2> DEFINE x(n) == [capability |-> request[w].capability,
                      action |-> request[w].action, expires |-> n]
  <2>4. \A n \in Nat : x(n) \in Authorizations
    BY <2>2 DEF Authorizations
  <2>5. issued' = issued \/ issued' = issued \cup {x(now + Ttl)}
    BY <1>1 DEF Issue
  <2> HIDE DEF x
  <2> QED BY <2>3, <2>4, <2>5
<1>2. ASSUME NEW w \in Workers, WorkerStep(w) \/ Request(w), ~Issue(w)
      PROVE  UNCHANGED issued
  BY <1>2 DEF WorkerStep, Request, WalkCapability, WalkOwner, CheckDelegator,
              CheckRecipient, RegisterDelegated, RevokeDelegated, RevokeEdge,
              CheckIdentity, CheckPermit, Crash, BeginDelegate, BeginRevoke,
              BeginAuthorize, Begin
<1> QED BY <1>1, <1>2, RegistryMoves DEF Next, vars

\* Every reachable state has its tables and locals of their types.
THEOREM TypeCorrect == Spec => []TypeOK
<1>1. Init => IssuedOK
  BY DEF Init, IssuedOK
<1>2. ShapeInv /\ IssuedOK => TypeOK
  BY DEF ShapeInv, TablesOK, LocalsOK, TypeOK, IssuedOK, Authorizations
<1> QED BY <1>1, <1>2, ShapeInit, ShapeStep, IssuedStep, PTL DEF Spec

-------------------------------------------------------------------------------
(* Delegation narrows                                                      *)

\* A chain is below every closed set with its capability.
LEMMA ChainWithin ==
  ASSUME NEW c \in Capabilities, NEW S \in SUBSET Capabilities, c \in S, Closed(S)
  PROVE  Chain[c] \subseteq S
  BY DEF Chain

LEMMA ChainClosed ==
  ASSUME NEW c \in Capabilities
  PROVE  Closed(Chain[c]) /\ c \in Chain[c] /\ Chain[c] \subseteq Capabilities
<1>1. c \in Chain[c] /\ Chain[c] \subseteq Capabilities
  BY DEF Chain
<1>2. ASSUME NEW d \in Chain[c], Def[d].parent # NoCapability
      PROVE  Def[d].parent \in Chain[c]
  <2>1. d \in Capabilities
    BY <1>1
  <2>2. Def[d].parent \in Capabilities
    BY <1>2, <2>1, DefType
  <2> QED BY <1>2, <2>2 DEF Chain, Closed
<1> QED BY <1>1, <1>2 DEF Closed

\* The chain of a capability is itself and the chain of its parent.
LEMMA ChainUnfolds ==
  ASSUME NEW c \in Capabilities, NEW d \in Chain[c], d # c
  PROVE  Def[c].parent \in Capabilities /\ d \in Chain[Def[c].parent]
<1>1. CASE Def[c].parent = NoCapability
  <2>1. {c} \in SUBSET Capabilities /\ Closed({c})
    BY <1>1 DEF Closed
  <2>2. Chain[c] \subseteq {c}
    BY <2>1, ChainWithin
  <2> QED BY <2>2
<1>2. CASE Def[c].parent # NoCapability
  <2>1. Def[c].parent \in Capabilities
    BY <1>2, DefType
  <2> DEFINE S == {c} \cup Chain[Def[c].parent]
  <2>2. S \in SUBSET Capabilities /\ c \in S /\ Closed(S)
    BY <2>1, ChainClosed DEF Closed
  <2> HIDE DEF S
  <2>3. d \in S
    BY <2>2, ChainWithin
  <2> QED BY <2>1, <2>3 DEF S
<1> QED BY <1>1, <1>2

\* Whatever a capability that is within the scope of p has in scope, p has too.
LEMMA ScopeNarrows ==
  ASSUME NEW p \in Capabilities, NEW c \in Capabilities, ScopeWithin(p, c),
         NEW a \in Actions, InScope(c, a)
  PROVE  InScope(p, a)
<1>1. \A f \in Fields : Allows(p, f, a.value[f])
  BY DEF ScopeWithin, FieldWithin, InScope, Allows
<1>2. \A k \in DOMAIN Def[p].context :
          k \in DOMAIN a.context /\ a.context[k] \in Def[p].context[k]
  BY DEF ScopeWithin, ContextWithin, InScope
<1>3. ASSUME a.value["asset"] \in DOMAIN Def[p].limits
      PROVE  a.amount <= Def[p].limits[a.value["asset"]]
  <2> DEFINE x == a.value["asset"]
  <2>1. x \in DOMAIN Def[c].limits /\ Def[c].limits[x] <= Def[p].limits[x]
    BY <1>3 DEF ScopeWithin, LimitsWithin
  <2>2. a.amount <= Def[c].limits[x]
    BY <2>1 DEF InScope
  <2>3. a.amount \in Nat /\ Def[c].limits[x] \in Nat /\ Def[p].limits[x] \in Nat
    BY <1>3, <2>1, ActionsType, DefType
  <2> HIDE DEF x
  <2>4. a.amount <= Def[p].limits[x]
    BY <2>1, <2>2, <2>3
  <2> QED BY <2>4 DEF x
<1> QED BY <1>1, <1>2, <1>3 DEF InScope

\* A capability is registered after its parent and within its scope.
NarrowInv ==
    /\ \A c \in Capabilities :
          Known(c) /\ Def[c].parent # NoCapability =>
              Known(Def[c].parent) /\ ScopeWithin(Def[c].parent, c)
    /\ \A w \in Workers :
          pc[w] = "register" =>
              LET c == request[w].capability IN ScopeWithin(Def[c].parent, c)

LEMMA KnownStays ==
  ASSUME ShapeInv, [Next]_vars, NEW c \in Capabilities, Known(c)
  PROVE  Known(c)'
<1> USE DEF Known, ShapeInv, TablesOK, Revoked, Registered, tables
<1>1. CASE UNCHANGED vars
  BY <1>1 DEF vars
<1>2. CASE Tick
  BY <1>2 DEF Tick
<1>3. ASSUME NEW i \in Identities, RegisterIdentity(i) \/ RevokeIdentity(i)
      PROVE  Known(c)'
  BY <1>3 DEF RegisterIdentity, RevokeIdentity
<1>4. ASSUME NEW d \in Capabilities, RegisterCapability(d) \/ RevokeCapability(d)
      PROVE  Known(c)'
  BY <1>4 DEF RegisterCapability, RevokeCapability, StoreCapability
<1>5. ASSUME NEW w \in Workers, Request(w)
      PROVE  Known(c)'
  BY <1>5 DEF Request, BeginDelegate, BeginRevoke, BeginAuthorize, Begin
<1>6. ASSUME NEW w \in Workers, RegisterDelegated(w) \/ RevokeDelegated(w) \/ RevokeEdge(w)
      PROVE  Known(c)'
  BY <1>6 DEF RegisterDelegated, RevokeDelegated, RevokeEdge, StoreCapability
<1>7. ASSUME NEW w \in Workers,
             \/ WalkCapability(w) \/ WalkOwner(w) \/ CheckDelegator(w) \/ CheckRecipient(w)
             \/ CheckIdentity(w) \/ CheckPermit(w) \/ Issue(w) \/ Crash(w)
      PROVE  Known(c)'
  BY <1>7 DEF WalkCapability, WalkOwner, CheckDelegator, CheckRecipient, CheckIdentity,
              CheckPermit, Issue, Crash
<1> QED
  BY <1>1, <1>2, <1>3, <1>4, <1>5, <1>6, <1>7 DEF Next, Registry, WorkerStep

\* A capability becomes known as a root, or as the child of a known one.
LEMMA KnownBegins ==
  ASSUME ShapeInv, [Next]_vars, NEW c \in Capabilities, ~Known(c), Known(c)'
  PROVE  \/ Def[c].parent = NoCapability
         \/ \E w \in Workers : /\ pc[w] = "register" /\ request[w].capability = c
                               /\ Known(Def[c].parent)
<1> USE DEF Known, ShapeInv, TablesOK, Revoked, Registered, Status, tables
<1>1. CASE UNCHANGED vars
  BY <1>1 DEF vars
<1>2. CASE Tick
  BY <1>2 DEF Tick
<1>3. ASSUME NEW i \in Identities, RegisterIdentity(i) \/ RevokeIdentity(i)
      PROVE  FALSE
  BY <1>3 DEF RegisterIdentity, RevokeIdentity
<1>4. ASSUME NEW d \in Capabilities, RegisterCapability(d) \/ RevokeCapability(d)
      PROVE  Def[c].parent = NoCapability
  BY <1>4 DEF RegisterCapability, RevokeCapability, StoreCapability
<1>5. ASSUME NEW w \in Workers, Request(w)
      PROVE  FALSE
  BY <1>5 DEF Request, BeginDelegate, BeginRevoke, BeginAuthorize, Begin
<1>6. ASSUME NEW w \in Workers, RegisterDelegated(w)
      PROVE  /\ pc[w] = "register" /\ request[w].capability = c
             /\ Known(Def[c].parent)
  BY <1>6 DEF RegisterDelegated, StoreCapability
<1>7. ASSUME NEW w \in Workers, RevokeDelegated(w) \/ RevokeEdge(w)
      PROVE  FALSE
  BY <1>7 DEF RevokeDelegated, RevokeEdge
<1>8. ASSUME NEW w \in Workers,
             \/ WalkCapability(w) \/ WalkOwner(w) \/ CheckDelegator(w) \/ CheckRecipient(w)
             \/ CheckIdentity(w) \/ CheckPermit(w) \/ Issue(w) \/ Crash(w)
      PROVE  FALSE
  BY <1>8 DEF WalkCapability, WalkOwner, CheckDelegator, CheckRecipient, CheckIdentity,
              CheckPermit, Issue, Crash
<1> QED
  BY <1>1, <1>2, <1>3, <1>4, <1>5, <1>6, <1>7, <1>8 DEF Next, Registry, WorkerStep

\* A worker that registers has just compared the scopes, or stands still.
LEMMA RegisterArrives ==
  ASSUME ShapeInv, [Next]_vars, NEW v \in Workers, pc'[v] = "register"
  PROVE  \/ Stays(v)
         \/ /\ request'[v] = request[v]
            /\ ScopeWithin(Def[request[v].capability].parent, request[v].capability)
<1>1. CASE UNCHANGED vars \/ Registry \/ Tick
  BY <1>1, RegistryMoves DEF vars, locals, Stays
<1>2. ASSUME NEW w \in Workers, WorkerStep(w) \/ Request(w), w # v
      PROVE  Stays(v)
  BY <1>2, OthersStay
<1>3. CASE Request(v)
  BY <1>3 DEF Request, BeginDelegate, BeginRevoke, BeginAuthorize, Begin, ShapeInv, LocalsOK
<1>4. CASE WorkerStep(v)
  <2> USE DEF ShapeInv, LocalsOK, Return, Goto, Hop, Resolve, AfterWalk
  <2>1. CASE WalkCapability(v)    BY <2>1 DEF WalkCapability
  <2>2. CASE WalkOwner(v)         BY <2>2 DEF WalkOwner
  <2>3. CASE CheckDelegator(v)    BY <2>3 DEF CheckDelegator
  <2>4. CASE CheckRecipient(v)    BY <2>4 DEF CheckRecipient
  <2>5. CASE RegisterDelegated(v) BY <2>5 DEF RegisterDelegated
  <2>6. CASE RevokeDelegated(v)   BY <2>6 DEF RevokeDelegated
  <2>7. CASE RevokeEdge(v)        BY <2>7 DEF RevokeEdge
  <2>8. CASE CheckIdentity(v)     BY <2>8 DEF CheckIdentity
  <2>9. CASE CheckPermit(v)       BY <2>9 DEF CheckPermit
  <2>10. CASE Issue(v) \/ Crash(v) BY <2>10 DEF Issue, Crash
  <2> QED
    BY <1>4, <2>1, <2>2, <2>3, <2>4, <2>5, <2>6, <2>7, <2>8, <2>9, <2>10 DEF WorkerStep
<1> QED BY <1>1, <1>2, <1>3, <1>4 DEF Next

LEMMA NarrowStep == ShapeInv /\ NarrowInv /\ [Next]_vars => NarrowInv'
<1> SUFFICES ASSUME ShapeInv, NarrowInv, [Next]_vars PROVE NarrowInv'
  OBVIOUS
<1>1. ASSUME NEW c \in Capabilities, Known(c)', Def[c].parent # NoCapability
      PROVE  Known(Def[c].parent)' /\ ScopeWithin(Def[c].parent, c)
  <2>1. Def[c].parent \in Capabilities
    BY <1>1, DefType
  <2>2. Known(Def[c].parent) /\ ScopeWithin(Def[c].parent, c)
    BY <1>1, KnownBegins DEF NarrowInv
  <2> QED BY <2>1, <2>2, KnownStays
<1>2. ASSUME NEW w \in Workers, pc'[w] = "register"
      PROVE  ScopeWithin(Def[request'[w].capability].parent, request'[w].capability)
  BY <1>2, RegisterArrives DEF Stays, NarrowInv
<1> QED BY <1>1, <1>2 DEF NarrowInv

\* Everything above a known capability is known and has its scope.
LEMMA AboveKnown ==
  ASSUME NarrowInv, NEW c \in Capabilities, Known(c), NEW d \in Chain[c]
  PROVE  Known(d) /\ \A a \in Actions : InScope(c, a) => InScope(d, a)
<1> DEFINE S == {x \in Capabilities :
                    Known(x) /\ \A a \in Actions : InScope(c, a) => InScope(x, a)}
<1>1. S \in SUBSET Capabilities /\ c \in S
  OBVIOUS
<1>2. ASSUME NEW x \in S, Def[x].parent # NoCapability
      PROVE  Def[x].parent \in S
  <2>1. Def[x].parent \in Capabilities
    BY <1>2, DefType
  <2>2. Known(Def[x].parent) /\ ScopeWithin(Def[x].parent, x)
    BY <1>2 DEF NarrowInv
  <2> QED BY <2>1, <2>2, ScopeNarrows
<1>3. Closed(S)
  BY <1>2 DEF Closed
<1> HIDE DEF S
<1>4. d \in S
  BY <1>1, <1>3, ChainWithin
<1> QED BY <1>4 DEF S

\* No chain of registered delegations widens authority.
THEOREM DelegationIsNarrow == Spec => []DelegationNarrows
<1>1. Init => NarrowInv
  BY DEF Init, NarrowInv, Known, Registered
<1>2. ShapeInv /\ NarrowInv => DelegationNarrows
  <2> SUFFICES ASSUME ShapeInv, NarrowInv, NEW c \in Capabilities,
                      capability[c] # "absent", NEW d \in Chain[c]
               PROVE  /\ capability[d] # "absent"
                      /\ Scope[c] \subseteq Scope[d]
                      /\ Def[d].parent # NoCapability =>
                            /\ Def[d].depth = Def[Def[d].parent].depth + 1
                            /\ Def[Def[d].parent].identity = Def[d].delegator
    BY DEF DelegationNarrows
  <2>1. Known(c)
    BY DEF Known, ShapeInv, TablesOK, Status
  <2>2. Known(d) /\ \A a \in Actions : InScope(c, a) => InScope(d, a)
    BY <2>1, AboveKnown
  <2>3. d \in Capabilities
    BY ChainClosed
  <2>4. Scope[c] \subseteq Scope[d]
    BY <2>2, <2>3 DEF Scope
  <2> QED BY <2>2, <2>3, <2>4 DEF Known, Registered, NarrowInv, ScopeWithin
<1> QED BY <1>1, <1>2, ShapeInit, ShapeStep, NarrowStep, PTL DEF Spec

-------------------------------------------------------------------------------
(* Revocation is heeded                                                    *)

\* The capabilities whose owner is revoked, and those that do not hold any more.
Ownerless ==
    {d \in Capabilities :
        Def[d].identity # NoIdentity /\ identity[Def[d].identity] = "REVOKED"}
Gone ==
    {d \in Capabilities : capability[d] = "REVOKED" \/ ~(now < Def[d].expires)} \cup Ownerless

\* A walk that began when something in the chain was gone has that still ahead.
Heeds(w) ==
    /\ pc[w] = "walk" /\ ~intact[w] => Chain[at[w]] \cap Gone # {}
    /\ pc[w] = "owner" /\ ~intact[w] =>
          \/ at[w] \in Ownerless
          \/ /\ Def[at[w]].parent \in Capabilities
             /\ Chain[Def[at[w]].parent] \cap Gone # {}
    /\ pc[w] \in Checked => intact[w]

LEMMA IntactChain ==
  ASSUME NEW c \in Capabilities
  PROVE  Intact(c) \/ Chain[c] \cap Gone # {}
  BY ChainClosed DEF Intact, Gone, Ownerless

\* Revocation is final, and time does not go back.
LEMMA RevokedStays ==
  ASSUME ShapeInv, [Next]_vars
  PROVE  /\ \A c \in Capabilities : capability[c] = "REVOKED" => capability'[c] = "REVOKED"
         /\ \A i \in Identities : identity[i] = "REVOKED" => identity'[i] = "REVOKED"
         /\ now <= now' /\ now \in Nat /\ now' \in Nat
<1>0. now \in Nat /\ now' \in Nat
  BY TablesStep, TimeType DEF ShapeInv, TablesOK
<1> USE DEF Known, ShapeInv, TablesOK, Revoked, Registered, tables
<1>1. CASE UNCHANGED vars
  BY <1>0, <1>1 DEF vars
<1>2. CASE Tick
  BY <1>0, <1>2 DEF Tick
<1>3. ASSUME NEW i \in Identities, RegisterIdentity(i) \/ RevokeIdentity(i)
      PROVE  /\ UNCHANGED <<capability, now>>
             /\ \A j \in Identities : identity[j] = "REVOKED" => identity'[j] = "REVOKED"
  BY <1>3 DEF RegisterIdentity, RevokeIdentity
<1>4. ASSUME NEW d \in Capabilities, RegisterCapability(d) \/ RevokeCapability(d)
      PROVE  /\ UNCHANGED <<identity, now>>
             /\ \A c \in Capabilities :
                   capability[c] = "REVOKED" => capability'[c] = "REVOKED"
  BY <1>4 DEF RegisterCapability, RevokeCapability, StoreCapability
<1>5. ASSUME NEW w \in Workers, RegisterDelegated(w) \/ RevokeDelegated(w)
      PROVE  /\ UNCHANGED <<identity, now>>
             /\ \A c \in Capabilities :
                   capability[c] = "REVOKED" => capability'[c] = "REVOKED"
  BY <1>5 DEF RegisterDelegated, RevokeDelegated, StoreCapability
<1>6. ASSUME NEW w \in Workers,
             \/ WalkCapability(w) \/ WalkOwner(w) \/ CheckDelegator(w) \/ CheckRecipient(w)
             \/ CheckIdentity(w) \/ CheckPermit(w) \/ Issue(w) \/ Crash(w)
             \/ RevokeEdge(w) \/ Request(w)
      PROVE  UNCHANGED <<identity, capability, now>>
  BY <1>6 DEF WalkCapability, WalkOwner, CheckDelegator, CheckRecipient, CheckIdentity,
              CheckPermit, Issue, Crash, RevokeEdge, Request, BeginDelegate, BeginRevoke,
              BeginAuthorize, Begin
<1>7. ASSUME now' = now
      PROVE  now <= now'
  BY <1>0, <1>7
<1> QED
  BY <1>0, <1>1, <1>2, <1>3, <1>4, <1>5, <1>6, <1>7 DEF Next, Registry, WorkerStep

LEMMA GoneStays ==
  ASSUME ShapeInv, [Next]_vars
  PROVE  Ownerless \subseteq Ownerless' /\ Gone \subseteq Gone'
<1>1. Ownerless \subseteq Ownerless'
  BY RevokedStays, DefType DEF Ownerless
<1>2. ASSUME NEW d \in Capabilities, ~(now < Def[d].expires)
      PROVE  ~(now' < Def[d].expires)
  <2>1. Def[d].expires \in Nat
    BY DefType
  <2> QED BY <1>2, <2>1, RevokedStays
<1> QED BY <1>1, <1>2, RevokedStays DEF Gone

LEMMA HeedsStay ==
  ASSUME ShapeInv, [Next]_vars, NEW v \in Workers, Heeds(v), Stays(v)
  PROVE  Heeds(v)'
  BY GoneStays DEF Heeds, Stays

LEMMA HopHeeds ==
  ASSUME ShapeInv, NEW w \in Workers, at[w] \in Capabilities, UNCHANGED Gone, Hop(w),
         ~intact[w] => /\ Def[at[w]].parent \in Capabilities
                       /\ Chain[Def[at[w]].parent] \cap Gone # {}
  PROVE  Heeds(w)'
<1>1. intact'[w] = intact[w]
  BY DEF Hop
<1>2. CASE Def[at[w]].parent = NoCapability
  <2>1. intact[w]
    BY <1>2, IdentitiesType
  <2>2. pc'[w] \notin Walking
    BY <1>2 DEF Hop, ShapeInv, LocalsOK, AfterWalk, Walking
  <2> QED BY <1>1, <2>1, <2>2 DEF Heeds, Walking
<1>3. CASE Def[at[w]].parent # NoCapability
  <2>1. pc'[w] = "walk" /\ at'[w] = Def[at[w]].parent
    BY <1>3 DEF Hop, ShapeInv, LocalsOK
  <2> QED BY <1>1, <2>1 DEF Heeds, Checked
<1> QED BY <1>2, <1>3

\* The walk itself.  A check that passes leaves what is gone further up.
LEMMA WalkHeeds ==
  ASSUME ShapeInv, NEW w \in Workers, Heeds(w), WalkCapability(w) \/ WalkOwner(w)
  PROVE  Heeds(w)'
<1> DEFINE c == at[w]
<1>1. c \in Capabilities /\ UNCHANGED <<Ownerless, Gone>>
  BY DEF ShapeInv, RoleOK, Walking, WalkCapability, WalkOwner, tables, Ownerless, Gone
<1>2. CASE Return(w)
  BY <1>2 DEF Return, Heeds, ShapeInv, LocalsOK, Checked
<1>3. CASE WalkCapability(w) /\ CapabilityActive(c)
  <2>1. c \in Gone => c \in Ownerless
    BY <1>1, <1>3 DEF Gone, CapabilityActive
  <2>2. ~intact[w] => \/ c \in Ownerless
                      \/ /\ Def[c].parent \in Capabilities
                         /\ Chain[Def[c].parent] \cap Gone # {}
    BY <1>1, <1>3, <2>1, ChainUnfolds DEF WalkCapability, Heeds
  <2>3. CASE Goto(w, "owner")
    BY <1>1, <2>2, <2>3 DEF Goto, Heeds, ShapeInv, LocalsOK, Checked
  <2>4. CASE Def[c].identity = NoIdentity /\ Hop(w)
    <3>1. c \notin Ownerless
      BY <2>4 DEF Ownerless
    <3> QED BY <1>1, <2>2, <2>4, <3>1, HopHeeds
  <2> QED BY <1>2, <1>3, <2>3, <2>4 DEF WalkCapability
<1>4. CASE WalkOwner(w) /\ Hop(w) /\ OwnerActive(c)
  <2>1. c \notin Ownerless
    BY <1>4 DEF Ownerless, OwnerActive, IdentityActive
  <2>2. ~intact[w] => /\ Def[c].parent \in Capabilities
                      /\ Chain[Def[c].parent] \cap Gone # {}
    BY <1>4, <2>1 DEF WalkOwner, Heeds
  <2> QED BY <1>1, <1>4, <2>2, HopHeeds
<1> QED BY <1>2, <1>3, <1>4 DEF WalkCapability, WalkOwner

LEMMA HeedsStep ==
  ShapeInv /\ (\A w \in Workers : Heeds(w)) /\ [Next]_vars => \A w \in Workers : Heeds(w)'
<1> SUFFICES ASSUME ShapeInv, \A w \in Workers : Heeds(w), [Next]_vars, NEW v \in Workers
             PROVE  Heeds(v)'
  OBVIOUS
<1>1. CASE UNCHANGED vars \/ Registry \/ Tick
  <2>1. Stays(v)
    BY <1>1, RegistryMoves DEF vars, locals, Stays
  <2> QED BY <2>1, HeedsStay
<1>2. ASSUME NEW w \in Workers, WorkerStep(w) \/ Request(w), w # v
      PROVE  Heeds(v)'
  BY <1>2, OthersStay, HeedsStay
<1>3. CASE WalkCapability(v) \/ WalkOwner(v)
  BY <1>3, WalkHeeds
<1>4. ASSUME NEW c \in Capabilities, BeginDelegate(v, c)
      PROVE  Heeds(v)'
  <2>1. Def[c].parent \in Capabilities
    BY <1>4, DefType DEF BeginDelegate
  <2>2. UNCHANGED Gone
    BY <1>4 DEF BeginDelegate, tables, Gone, Ownerless
  <2> QED BY <1>4, <2>1, <2>2, IntactChain
          DEF BeginDelegate, Heeds, ShapeInv, LocalsOK, Checked
<1>5. ASSUME NEW c \in Capabilities, NEW next \in AfterWalk, Resolve(v, c, next),
             UNCHANGED <<tables, now>>
      PROVE  Heeds(v)'
  <2>1. UNCHANGED Gone
    BY <1>5 DEF tables, Gone, Ownerless
  <2> QED BY <1>5, <2>1, IntactChain DEF Resolve, Heeds, ShapeInv, LocalsOK, Checked
<1>6. CASE Return(v)
  BY <1>6 DEF Return, Heeds, ShapeInv, LocalsOK, Checked
<1>7. CASE CheckIdentity(v) \/ CheckPermit(v)
  <2>1. request[v].capability \in Capabilities
    BY <1>7, RequestsTyped DEF CheckIdentity, CheckPermit, ShapeInv, RoleOK, Authorizing
  <2> QED BY <1>5, <1>6, <1>7, <2>1 DEF CheckIdentity, CheckPermit, AfterWalk
<1>8. CASE CheckDelegator(v) \/ CheckRecipient(v)
  BY <1>6, <1>8 DEF CheckDelegator, CheckRecipient, Goto, Heeds, ShapeInv, LocalsOK, Checked
<1>9. CASE \/ RegisterDelegated(v) \/ RevokeDelegated(v) \/ RevokeEdge(v)
           \/ Issue(v) \/ Crash(v)
  BY <1>6, <1>9 DEF RegisterDelegated, RevokeDelegated, RevokeEdge, Issue, Crash, Goto,
                    Heeds, ShapeInv, LocalsOK, Checked
<1>10. ASSUME NEW r, NEW step \in {"revoke", "identity"}, Begin(v, r, step)
       PROVE  Heeds(v)'
  BY <1>10 DEF Begin, Heeds, ShapeInv, LocalsOK, Checked
<1> QED
  BY <1>1, <1>2, <1>3, <1>4, <1>7, <1>8, <1>9, <1>10
  DEF Next, WorkerStep, Request, BeginRevoke, BeginAuthorize

HeedInv == \A w \in Workers : Heeds(w)

\* A decision after a walk heeds what was revoked or had expired, anywhere in
\* the chain, before the walk began.
THEOREM RevocationHeeded == Spec => []RevocationIsHeeded
<1>1. Init => HeedInv
  BY DEF Init, HeedInv, Heeds, Checked
<1>2. ShapeInv /\ HeedInv /\ [Next]_vars => HeedInv'
  BY HeedsStep DEF HeedInv
<1>3. HeedInv => RevocationIsHeeded
  BY DEF HeedInv, Heeds, RevocationIsHeeded
<1> QED BY <1>1, <1>2, <1>3, ShapeInit, ShapeStep, PTL DEF Spec

-------------------------------------------------------------------------------
(* Edges                                                                   *)

\* An edge is withdrawn by a worker that has revoked the capability.
EdgeInv ==
    /\ EdgesFollowCapabilities
    /\ \A w \in Workers : pc[w] = "unlink" => capability[request[w].capability] = "REVOKED"

\* The steps that change edges or capabilities, and those that do not.
LEMMA EdgeMoves ==
  ASSUME ShapeInv, [Next]_vars
  PROVE  \/ UNCHANGED <<capability, edge>>
         \/ \E c \in Capabilities : RegisterCapability(c) \/ RevokeCapability(c)
         \/ \E w \in Workers : RegisterDelegated(w) \/ RevokeDelegated(w) \/ RevokeEdge(w)
<1>1. CASE UNCHANGED vars \/ Tick
  BY <1>1 DEF vars, Tick, tables
<1>2. ASSUME NEW i \in Identities, RegisterIdentity(i) \/ RevokeIdentity(i)
      PROVE  UNCHANGED <<capability, edge>>
  BY <1>2 DEF RegisterIdentity, RevokeIdentity
<1>3. ASSUME NEW w \in Workers,
             \/ WalkCapability(w) \/ WalkOwner(w) \/ CheckDelegator(w) \/ CheckRecipient(w)
             \/ CheckIdentity(w) \/ CheckPermit(w) \/ Issue(w) \/ Crash(w) \/ Request(w)
      PROVE  UNCHANGED <<capability, edge>>
  BY <1>3 DEF WalkCapability, WalkOwner, CheckDelegator, CheckRecipient, CheckIdentity,
              CheckPermit, Issue, Crash, Request, BeginDelegate, BeginRevoke,
              BeginAuthorize, Begin, tables
<1> QED BY <1>1, <1>2, <1>3 DEF Next, Registry, WorkerStep

\* A worker arrives at "unlink" after it has revoked the capability.
LEMMA UnlinkArrives ==
  ASSUME ShapeInv, [Next]_vars, NEW v \in Workers, pc'[v] = "unlink"
  PROVE  \/ Stays(v)
         \/ request'[v] = request[v] /\ capability'[request[v].capability] = "REVOKED"
<1>1. CASE UNCHANGED vars \/ Registry \/ Tick
  BY <1>1, RegistryMoves DEF vars, locals, Stays
<1>2. ASSUME NEW w \in Workers, WorkerStep(w) \/ Request(w), w # v
      PROVE  Stays(v)
  BY <1>2, OthersStay
<1>3. CASE RevokeDelegated(v)
  <2>1. request[v].capability \in Capabilities
    BY <1>3, RequestsTyped DEF RevokeDelegated, ShapeInv, RoleOK
  <2>2. Known(request[v].capability) /\ request'[v] = request[v]
    BY <1>3 DEF RevokeDelegated, Return, Goto, ShapeInv, LocalsOK
  <2>3. capability'[request[v].capability] = "REVOKED"
    BY <1>3, <2>1, <2>2
    DEF RevokeDelegated, Revoked, Known, Registered, ShapeInv, TablesOK
  <2> QED BY <2>2, <2>3
<1>4. CASE Request(v)
  BY <1>4 DEF Request, BeginDelegate, BeginRevoke, BeginAuthorize, Begin, ShapeInv, LocalsOK
<1>5. CASE WorkerStep(v) /\ ~RevokeDelegated(v)
  <2> USE DEF ShapeInv, LocalsOK, Return, Goto, Hop, Resolve, AfterWalk
  <2>1. CASE WalkCapability(v)    BY <2>1 DEF WalkCapability
  <2>2. CASE WalkOwner(v)         BY <2>2 DEF WalkOwner
  <2>3. CASE CheckDelegator(v)    BY <2>3 DEF CheckDelegator
  <2>4. CASE CheckRecipient(v)    BY <2>4 DEF CheckRecipient
  <2>5. CASE RegisterDelegated(v) BY <2>5 DEF RegisterDelegated
  <2>6. CASE RevokeEdge(v)        BY <2>6 DEF RevokeEdge
  <2>7. CASE CheckIdentity(v)     BY <2>7 DEF CheckIdentity
  <2>8. CASE CheckPermit(v)       BY <2>8 DEF CheckPermit
  <2>9. CASE Issue(v) \/ Crash(v) BY <2>9 DEF Issue, Crash
  <2> QED
    BY <1>5, <2>1, <2>2, <2>3, <2>4, <2>5, <2>6, <2>7, <2>8, <2>9 DEF WorkerStep
<1> QED BY <1>1, <1>2, <1>3, <1>4, <1>5 DEF Next

LEMMA EdgeStep == ShapeInv /\ EdgeInv /\ [Next]_vars => EdgeInv'
<1> SUFFICES ASSUME ShapeInv, EdgeInv, [Next]_vars PROVE EdgeInv'
  OBVIOUS
<1>1. ASSUME NEW v \in Workers, pc'[v] = "unlink"
      PROVE  capability'[request'[v].capability] = "REVOKED"
  <2>1. CASE Stays(v)
    <3>1. request[v].capability \in Capabilities
      BY <1>1, <2>1, RequestsTyped DEF Stays, ShapeInv, RoleOK
    <3> QED BY <1>1, <2>1, <3>1, RevokedStays DEF Stays, EdgeInv
  <2> QED BY <1>1, <2>1, UnlinkArrives
<1>2. EdgesFollowCapabilities'
  <2> USE DEF EdgeInv, EdgesFollowCapabilities, ShapeInv, TablesOK, Status, Registered,
              Known, Revoked
  <2>1. CASE UNCHANGED <<capability, edge>>
    BY <2>1
  <2>2. ASSUME NEW c \in Capabilities, RegisterCapability(c) \/ RevokeCapability(c)
        PROVE  EdgesFollowCapabilities'
    BY <2>2 DEF RegisterCapability, RevokeCapability, StoreCapability
  <2>3. ASSUME NEW w \in Workers, RegisterDelegated(w)
        PROVE  EdgesFollowCapabilities'
    <3>1. Def[request[w].capability].parent # NoCapability
      BY <2>3, IdentitiesType DEF RegisterDelegated, RoleOK, Delegating
    <3> QED BY <2>3, <3>1 DEF RegisterDelegated, StoreCapability
  <2>4. ASSUME NEW w \in Workers, RevokeDelegated(w)
        PROVE  EdgesFollowCapabilities'
    BY <2>4 DEF RevokeDelegated
  <2>5. ASSUME NEW w \in Workers, RevokeEdge(w)
        PROVE  EdgesFollowCapabilities'
    BY <2>5 DEF RevokeEdge, Linked
  <2> QED BY <2>1, <2>2, <2>3, <2>4, <2>5, EdgeMoves
<1> QED BY <1>1, <1>2 DEF EdgeInv

\* The delegation edges are those of the delegated capabilities, and an edge is
\* revoked only after its capability.
THEOREM EdgesFollow == Spec => []EdgesFollowCapabilities
<1>1. Init => EdgeInv
  BY DEF Init, EdgeInv, EdgesFollowCapabilities
<1>2. EdgeInv => EdgesFollowCapabilities
  BY DEF EdgeInv
<1> QED BY <1>1, <1>2, ShapeInit, ShapeStep, EdgeStep, PTL DEF Spec

-------------------------------------------------------------------------------
(* Authorizations                                                          *)

LEMMA AboveOutlives ==
  ASSUME NarrowInv, NEW c \in Capabilities, Known(c), NEW d \in Chain[c]
  PROVE  Def[c].expires <= Def[d].expires
<1> DEFINE S == {x \in Capabilities : Known(x) /\ Def[c].expires <= Def[x].expires}
<1>0. \A x \in Capabilities : Def[x].expires \in Nat
  BY DefType
<1>1. S \in SUBSET Capabilities /\ c \in S
  BY <1>0
<1>2. ASSUME NEW x \in S, Def[x].parent # NoCapability
      PROVE  Def[x].parent \in S
  <2>1. Def[x].parent \in Capabilities
    BY <1>2, DefType
  <2>2. Known(Def[x].parent) /\ Def[x].expires <= Def[Def[x].parent].expires
    BY <1>2 DEF NarrowInv, ScopeWithin
  <2>3. Def[c].expires <= Def[Def[x].parent].expires
    BY <1>0, <1>2, <2>1, <2>2
  <2> QED BY <2>1, <2>2, <2>3
<1>3. Closed(S)
  BY <1>2 DEF Closed
<1> HIDE DEF S
<1>4. d \in S
  BY <1>1, <1>3, ChainWithin
<1> QED BY <1>4 DEF S

\* The capability of a request is known once the walk has passed it.
Passed(w) ==
    /\ \/ pc[w] \in {"permit", "issue"}
       \/ pc[w] = "owner" /\ then[w] # "delegator"
       => Known(request[w].capability)
    /\ pc[w] = "walk" /\ then[w] # "delegator" =>
          at[w] = request[w].capability \/ Known(request[w].capability)

Confined(x) ==
    /\ Known(x.capability)
    /\ x.expires <= Def[x.capability].expires
    /\ InScope(x.capability, x.action)
ConfinedInv ==
    /\ \A w \in Workers : Passed(w)
    /\ \A x \in issued : Confined(x)

LEMMA PassedStays ==
  ASSUME ShapeInv, [Next]_vars, NEW v \in Workers, Passed(v), Stays(v)
  PROVE  Passed(v)'
<1>1. request[v] \in Requests => request[v].capability \in Capabilities
  BY RequestsType
<1>2. \/ pc[v] \in {"permit", "issue"}
      \/ pc[v] \in Walking /\ then[v] # "delegator"
      => request[v] \in Requests
  BY DEF ShapeInv, RoleOK, Authorizing
<1>3. \A c \in Capabilities : Known(c) => c \in {d \in Capabilities : Known(d)'}
  BY KnownStays
<1> QED BY <1>1, <1>2, <1>3 DEF Passed, Walking, Stays

LEMMA PassedStep ==
  ASSUME ShapeInv, NEW w \in Workers, Passed(w), WorkerStep(w) \/ Request(w)
  PROVE  Passed(w)'
<1> USE DEF ShapeInv, LocalsOK
<1>1. CASE Return(w)
  BY <1>1 DEF Return, Passed
<1>2. CASE WalkCapability(w) /\ CapabilityActive(at[w])
  <2>1. UNCHANGED capability /\ Known(at[w])
    BY <1>2 DEF WalkCapability, tables, CapabilityActive, Known, Registered
  <2>2. then[w] # "delegator" => Known(request[w].capability)
    BY <1>2, <2>1 DEF WalkCapability, Passed
  <2>3. CASE Goto(w, "owner")
    BY <2>1, <2>2, <2>3 DEF Goto, Passed, Known
  <2>4. CASE Hop(w)
    BY <2>1, <2>2, <2>4 DEF Hop, Passed, Known, AfterWalk
  <2> QED BY <1>2, <2>3, <2>4 DEF WalkCapability
<1>3. CASE WalkOwner(w) /\ Hop(w)
  BY <1>3 DEF WalkOwner, Hop, tables, Passed, Known, AfterWalk
<1>4. CASE CheckIdentity(w) \/ CheckPermit(w)
  BY <1>1, <1>4 DEF CheckIdentity, CheckPermit, Resolve, Passed
<1>5. CASE \/ CheckDelegator(w) \/ CheckRecipient(w) \/ RegisterDelegated(w)
           \/ RevokeDelegated(w) \/ RevokeEdge(w) \/ Issue(w) \/ Crash(w)
  BY <1>1, <1>5 DEF CheckDelegator, CheckRecipient, RegisterDelegated, RevokeDelegated,
                    RevokeEdge, Issue, Crash, Goto, Passed
<1>6. CASE Request(w)
  BY <1>6 DEF Request, BeginDelegate, BeginRevoke, BeginAuthorize, Begin, Passed
<1> QED
  BY <1>1, <1>2, <1>3, <1>4, <1>5, <1>6 DEF WorkerStep, WalkCapability, WalkOwner

\* What is issued is confined when it is, and stays so.
LEMMA IssueConfines ==
  ASSUME ShapeInv, NEW w \in Workers, Passed(w), Issue(w),
         NEW x \in issued', x \notin issued
  PROVE  Confined(x) /\ x.capability \in Capabilities
<1> DEFINE c == request[w].capability
           y(n) == [capability |-> c, action |-> request[w].action, expires |-> n]
<1>1. c \in Capabilities /\ Known(c)
  BY RequestsTyped DEF Issue, Passed, ShapeInv, RoleOK, Authorizing
<1>2. x = y(now + Ttl) /\ InScope(c, request[w].action) /\ now + Ttl <= Def[c].expires
  BY DEF Issue, Permits
<1>3. \A n : /\ y(n).capability = c /\ y(n).action = request[w].action
             /\ y(n).expires = n
  OBVIOUS
<1> HIDE DEF c, y
<1>4. x.capability = c /\ x.expires = now + Ttl /\ InScope(c, x.action)
  BY <1>2, <1>3
<1> QED BY <1>1, <1>2, <1>4 DEF Confined

LEMMA ConfinedStep == ShapeInv /\ IssuedOK /\ ConfinedInv /\ [Next]_vars => ConfinedInv'
<1> SUFFICES ASSUME ShapeInv, IssuedOK, ConfinedInv, [Next]_vars PROVE ConfinedInv'
  OBVIOUS
<1>1. ASSUME NEW v \in Workers
      PROVE  Passed(v)'
  <2>1. CASE Stays(v)
    BY <2>1, PassedStays DEF ConfinedInv
  <2>2. CASE UNCHANGED vars \/ Registry \/ Tick
    BY <2>1, <2>2, RegistryMoves DEF vars, locals, Stays
  <2>3. ASSUME NEW w \in Workers, WorkerStep(w) \/ Request(w), w # v
        PROVE  Stays(v)
    BY <2>3, OthersStay
  <2>4. CASE WorkerStep(v) \/ Request(v)
    BY <2>4, PassedStep DEF ConfinedInv
  <2> QED BY <2>1, <2>2, <2>3, <2>4 DEF Next
<1>2. ASSUME NEW x \in issued'
      PROVE  Confined(x)'
  <2>1. Confined(x) /\ x.capability \in Capabilities
    <3>1. CASE x \in issued
      BY <3>1 DEF ConfinedInv, IssuedOK, Authorizations
    <3>2. ASSUME NEW w \in Workers, WorkerStep(w) \/ Request(w), ~Issue(w)
          PROVE  UNCHANGED issued
      BY <3>2 DEF WorkerStep, Request, WalkCapability, WalkOwner, CheckDelegator,
                  CheckRecipient, RegisterDelegated, RevokeDelegated, RevokeEdge,
                  CheckIdentity, CheckPermit, Crash, BeginDelegate, BeginRevoke,
                  BeginAuthorize, Begin
    <3>3. ASSUME NEW w \in Workers, Issue(w), x \notin issued
          PROVE  Confined(x) /\ x.capability \in Capabilities
      BY <1>2, <3>3, IssueConfines DEF ConfinedInv
    <3> QED BY <1>2, <3>1, <3>2, <3>3, RegistryMoves DEF Next, vars
  <2>2. Known(x.capability)'
    BY <2>1, KnownStays DEF Confined
  <2> QED BY <2>1, <2>2 DEF Confined
<1> QED BY <1>1, <1>2 DEF ConfinedInv

\* An authorization expires before every capability its authority comes from,
\* and its action is in scope of them all.
THEOREM AuthorizationsConfined == Spec => []AuthorizationsAreConfined
<1>1. Init => ConfinedInv /\ IssuedOK
  BY DEF Init, ConfinedInv, Passed, IssuedOK
<1>2. Init => NarrowInv
  BY DEF Init, NarrowInv, Known, Registered
<1>3. ShapeInv /\ IssuedOK /\ NarrowInv /\ ConfinedInv => AuthorizationsAreConfined
  <2> SUFFICES ASSUME IssuedOK, NarrowInv, ConfinedInv, NEW x \in issued,
                      NEW d \in Chain[x.capability]
               PROVE  x.expires <= Def[d].expires /\ InScope(d, x.action)
    BY DEF AuthorizationsAreConfined
  <2> DEFINE c == x.capability
  <2>1. c \in Capabilities /\ x.action \in Actions /\ x.expires \in Nat
    BY DEF IssuedOK, Authorizations
  <2>2. Known(c) /\ x.expires <= Def[c].expires /\ InScope(c, x.action)
    BY DEF ConfinedInv, Confined
  <2>3. InScope(d, x.action) /\ Def[c].expires <= Def[d].expires
    BY <2>1, <2>2, AboveKnown, AboveOutlives
  <2>4. Def[c].expires \in Nat /\ Def[d].expires \in Nat
    BY <2>1, DefType, ChainClosed
  <2> QED BY <2>1, <2>2, <2>3, <2>4
<1> QED BY <1>1, <1>2, <1>3, ShapeInit, ShapeStep, IssuedStep, NarrowStep, ConfinedStep,
           PTL DEF Spec
===============================================================================
