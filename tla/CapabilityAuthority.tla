-------------------------- MODULE CapabilityAuthority --------------------------
(***************************************************************************)
(* core/identity.py, core/capabilities.py and core/authority.py over the   *)
(* identity, capability and edge tables of core/storage.py, with the path  *)
(* of core/engine.py and core/authorization.py that turns a capability     *)
(* into an execution authorization.  A chain of delegations is walked hop  *)
(* by hop, each hop two storage calls, while identities and capabilities   *)
(* are registered, delegated, revoked and expire.  Workers are threads, or *)
(* processes on one database: every storage call is one step.  The policy  *)
(* decision and the dynamic authority of the same pipeline belong to other *)
(* modules: here each may refuse.                                          *)
(***************************************************************************)
EXTENDS Naturals, FiniteSets

CONSTANTS
    Identities, NoIdentity,
    AgentOf,            \* identity -> the agent it is registered for
    Capabilities, NoCapability,
    Def,                \* capability -> its signed definition
    Actions,            \* the actions that agents ask for
    Requests,           \* the authorizations that they request
    Fields,             \* action_type, target, network, asset, ...
    MaxDepth,           \* _MAX_DELEGATION_DEPTH and max_depth (32)
    Ttl,                \* lifetime of an execution authorization
    Workers,
    MaxTime             \* bound on the clock

Registered == {"ACTIVE", "REVOKED"}
Status == {"absent"} \cup Registered

ASSUME IdentitiesType ==
    /\ NoIdentity \notin Identities
    /\ NoCapability \notin Capabilities
ASSUME DefType ==
    \A c \in Capabilities :
        /\ Def[c].identity \in Identities \cup {NoIdentity}
        /\ Def[c].parent \in Capabilities \cup {NoCapability}
        /\ Def[c].depth \in Nat
        /\ Def[c].expires \in Nat
        /\ \A asset \in DOMAIN Def[c].limits : Def[c].limits[asset] \in Nat
ASSUME ActionsType == \A a \in Actions : a.amount \in Nat
ASSUME RequestsType ==
    \A r \in Requests :
        /\ r.kind = "authorize" /\ r.capability \in Capabilities
        /\ r.identity \in Identities \cup {NoIdentity} /\ r.action \in Actions
ASSUME TimeType == MaxTime \in Nat /\ Ttl \in Nat /\ MaxDepth \in Nat

VARIABLES
    identity,    \* table identities: status of each identity
    capability,  \* table capabilities: status of each capability
    edge,        \* table authority_edges: the DELEGATES edge of each capability
    held,        \* and the capabilities with a HOLDS edge, which nothing revokes
    now,
    issued,      \* the execution authorizations that were signed
    pc,          \* worker -> next step
    request,     \* worker -> what it was asked for
    at,          \* worker -> the hop it is at, while it walks a chain
    then,        \* worker -> the step that follows the walk
    intact        \* history: the chain was intact when the walk began

tables == <<identity, capability, edge, held>>
locals == <<pc, request, at, then, intact>>
vars == <<identity, capability, edge, held, now, issued,
          pc, request, at, then, intact>>

NoRequest == [kind |-> "none", capability |-> NoCapability]
Delegations == {[kind |-> "delegate", capability |-> c] : c \in Capabilities}
Revocations == {[kind |-> "revoke", capability |-> c] : c \in Capabilities}

Checked == {"delegator", "recipient", "register", "permit", "issue"}
AfterWalk == {"delegator", "permit", "issue"}
Steps == {"idle", "identity", "walk", "owner", "revoke", "unlink"} \cup Checked

TypeOK ==
    /\ identity \in [Identities -> Status]
    /\ capability \in [Capabilities -> Status]
    /\ edge \in [Capabilities -> Status]
    /\ held \subseteq Capabilities
    /\ now \in 0..MaxTime
    /\ issued \subseteq
         [capability : Capabilities, action : Actions, expires : Nat]
    /\ pc \in [Workers -> Steps]
    /\ request \in [Workers ->
         {NoRequest} \cup Delegations \cup Revocations \cup Requests]
    /\ at \in [Workers -> Capabilities \cup {NoCapability}]
    /\ then \in [Workers -> AfterWalk]
    /\ intact \in [Workers -> BOOLEAN]

Init ==
    /\ identity = [i \in Identities |-> "absent"]
    /\ capability = [c \in Capabilities |-> "absent"]
    /\ edge = [c \in Capabilities |-> "absent"]
    /\ held = {}
    /\ now = 0
    /\ issued = {}
    /\ pc = [w \in Workers |-> "idle"]
    /\ request = [w \in Workers |-> NoRequest]
    /\ at = [w \in Workers |-> NoCapability]
    /\ then = [w \in Workers |-> "permit"]
    /\ intact = [w \in Workers |-> FALSE]

-------------------------------------------------------------------------------
(* Scopes                                                                  *)

\* An empty list of a capability allows everything.
Allows(c, f, v) == Def[c].allowed[f] = {} \/ v \in Def[c].allowed[f]

\* Capability.permits, without the agent and the expiry: every field and every
\* context constraint allows the action, and so does the limit of its asset.
InScope(c, a) ==
    /\ \A f \in Fields : Allows(c, f, a.value[f])
    /\ \A k \in DOMAIN Def[c].context :
          k \in DOMAIN a.context /\ a.context[k] \in Def[c].context[k]
    /\ a.value["asset"] \in DOMAIN Def[c].limits =>
          a.amount <= Def[c].limits[a.value["asset"]]

Permits(c, a) ==
    /\ Def[c].agent = a.agent
    /\ now < Def[c].expires
    /\ InScope(c, a)

\* _is_subset, a context constraint that is kept, and _limits_subset.
FieldWithin(p, c, f) ==
    Def[p].allowed[f] = {}
    \/ (Def[c].allowed[f] # {} /\ Def[c].allowed[f] \subseteq Def[p].allowed[f])
ContextWithin(p, c) ==
    \A k \in DOMAIN Def[p].context :
        k \in DOMAIN Def[c].context /\ Def[c].context[k] \subseteq Def[p].context[k]
LimitsWithin(p, c) ==
    /\ DOMAIN Def[p].limits \subseteq DOMAIN Def[c].limits
    /\ \A x \in DOMAIN Def[p].limits : Def[c].limits[x] <= Def[p].limits[x]

\* Mutant: a limit that the child does not have is not compared.
ScopeWithinCommonLimits(p, c) ==
    /\ Def[p].identity # NoIdentity /\ Def[c].delegator = Def[p].identity
    /\ Def[c].depth = Def[p].depth + 1 /\ Def[c].depth <= MaxDepth
    /\ \A f \in Fields : FieldWithin(p, c, f)
    /\ ContextWithin(p, c)
    /\ \A x \in DOMAIN Def[p].limits \cap DOMAIN Def[c].limits :
          Def[c].limits[x] <= Def[p].limits[x]
    /\ Def[c].expires <= Def[p].expires

\* validate_delegation_scope
ScopeWithin(p, c) ==
    /\ Def[p].identity # NoIdentity /\ Def[c].delegator = Def[p].identity
    /\ Def[c].depth = Def[p].depth + 1 /\ Def[c].depth <= MaxDepth
    /\ \A f \in Fields : FieldWithin(p, c, f)
    /\ ContextWithin(p, c) /\ LimitsWithin(p, c)
    /\ Def[c].expires <= Def[p].expires

-------------------------------------------------------------------------------
(* Storage                                                                 *)

\* capability(): the row, whatever its status.
Known(c) == capability[c] \in Registered

\* identity_is_active and capability_is_active.
IdentityActive(i) == identity[i] = "ACTIVE"
CapabilityActive(c) == capability[c] = "ACTIVE" /\ now < Def[c].expires
\* resolve and verify_action_signature: the identity of the agent that acts.
Resolved(i) == identity[i] \in Registered /\ IdentityActive(i)
SignedBy(i, a) == AgentOf[i] = a.agent

OwnerActive(c) == Def[c].identity # NoIdentity => IdentityActive(Def[c].identity)

\* authority_edges, of the active ones: the delegation of c.
Linked(c) == edge[c] = "ACTIVE"

\* The HOLDS edge that goes in with a capability of an identity.
HoldsEdge(c) == held' = held \cup {x \in {c} : Def[x].identity # NoIdentity}

\* UPDATE ... SET status = 'REVOKED' WHERE status = 'ACTIVE'
Revoked(table, x) ==
    [table EXCEPT ![x] = IF @ = "ACTIVE" THEN "REVOKED" ELSE @]

\* The delegation chain of a capability: the smallest set with the capability
\* and the parent of each of its members.
Closed(S) == \A d \in S : Def[d].parent # NoCapability => Def[d].parent \in S
Chain ==
    [c \in Capabilities |->
        {x \in Capabilities :
            \A S \in SUBSET Capabilities : (c \in S /\ Closed(S)) => x \in S}]

\* Nothing in the chain is revoked or expired.
Intact(c) ==
    \A d \in Chain[c] :
        /\ capability[d] # "REVOKED" /\ now < Def[d].expires
        /\ Def[d].identity # NoIdentity => identity[Def[d].identity] # "REVOKED"

-------------------------------------------------------------------------------
(* Registries: one storage call each                                       *)

RegisterIdentity(i) ==
    /\ identity[i] = "absent"
    /\ identity' = [identity EXCEPT ![i] = "ACTIVE"]
    /\ UNCHANGED <<capability, edge, held, now, issued, locals>>

RevokeIdentity(i) ==
    /\ identity[i] = "ACTIVE"
    /\ identity' = Revoked(identity, i)
    /\ UNCHANGED <<capability, edge, held, now, issued, locals>>

\* register_capability: the row and its edge in one transaction, or neither.
StoreCapability(c) ==
    /\ ~Known(c)
    /\ capability' = [capability EXCEPT ![c] = "ACTIVE"]
    /\ HoldsEdge(c)

\* CapabilityRegistry.register: a root capability, of a known identity of its
\* agent if it is bound to one.  That identity may have been revoked.
RegisterCapability(c) ==
    /\ Def[c].parent = NoCapability
    /\ Def[c].identity # NoIdentity =>
          /\ identity[Def[c].identity] \in Registered
          /\ AgentOf[Def[c].identity] = Def[c].agent
    /\ StoreCapability(c)
    /\ UNCHANGED <<identity, edge, now, issued, locals>>

\* CapabilityRegistry.revoke leaves the edges alone.
RevokeCapability(c) ==
    /\ capability[c] = "ACTIVE"
    /\ capability' = Revoked(capability, c)
    /\ UNCHANGED <<identity, edge, held, now, issued, locals>>

Tick ==
    /\ now < MaxTime
    /\ now' = now + 1
    /\ UNCHANGED <<tables, issued, locals>>

-------------------------------------------------------------------------------
(* Workers                                                                 *)

Goto(w, step) ==
    /\ pc' = [pc EXCEPT ![w] = step]
    /\ UNCHANGED <<request, at, then, intact>>

\* The call ends: it returns, raises, or its process dies.
Return(w) ==
    /\ pc' = [pc EXCEPT ![w] = "idle"]
    /\ request' = [request EXCEPT ![w] = NoRequest]
    /\ at' = [at EXCEPT ![w] = NoCapability]
    /\ then' = [then EXCEPT ![w] = "permit"]
    /\ intact' = [intact EXCEPT ![w] = FALSE]

Crash(w) ==
    /\ pc[w] # "idle"
    /\ Return(w)
    /\ UNCHANGED <<tables, now, issued>>

Begin(w, r, step) ==
    /\ pc[w] = "idle"
    /\ request' = [request EXCEPT ![w] = r]
    /\ pc' = [pc EXCEPT ![w] = step]
    /\ UNCHANGED <<tables, now, issued, at, then, intact>>

\* resolve(c): the walk of effective_active begins.
Resolve(w, c, next) ==
    /\ pc' = [pc EXCEPT ![w] = "walk"]
    /\ at' = [at EXCEPT ![w] = c]
    /\ then' = [then EXCEPT ![w] = next]
    /\ intact' = [intact EXCEPT ![w] = Intact(c)]
    /\ UNCHANGED request

\* The parent, or the step after the walk at the end of the chain.
Hop(w) ==
    /\ IF Def[at[w]].parent = NoCapability
       THEN /\ pc' = [pc EXCEPT ![w] = then[w]]
            /\ UNCHANGED at
       ELSE /\ pc' = [pc EXCEPT ![w] = "walk"]
            /\ at' = [at EXCEPT ![w] = Def[at[w]].parent]
    /\ UNCHANGED <<request, then, intact>>

\* capability() and capability_is_active
WalkCapability(w) ==
    /\ pc[w] = "walk"
    /\ \/ ~CapabilityActive(at[w]) /\ Return(w)
       \/ /\ CapabilityActive(at[w])
          /\ IF Def[at[w]].identity = NoIdentity THEN Hop(w) ELSE Goto(w, "owner")
    /\ UNCHANGED <<tables, now, issued>>

\* Mutant: only the first owner of the chain is checked.
WalkFirstOwner(w) ==
    /\ pc[w] = "owner"
    /\ IF at[w] # request[w].capability \/ OwnerActive(at[w])
       THEN Hop(w)
       ELSE Return(w)
    /\ UNCHANGED <<tables, now, issued>>

WalkOwner(w) ==
    /\ pc[w] = "owner"
    /\ IF OwnerActive(at[w]) THEN Hop(w) ELSE Return(w)
    /\ UNCHANGED <<tables, now, issued>>

-------------------------------------------------------------------------------
(* CapabilityDelegationService                                             *)

\* The delegator signs a child capability that names its parent.
BeginDelegate(w, c) ==
    /\ pc[w] = "idle"
    /\ Def[c].parent # NoCapability
    /\ request' = [request EXCEPT ![w] = [kind |-> "delegate", capability |-> c]]
    /\ pc' = [pc EXCEPT ![w] = "walk"]
    /\ at' = [at EXCEPT ![w] = Def[c].parent]
    /\ then' = [then EXCEPT ![w] = "delegator"]
    /\ intact' = [intact EXCEPT ![w] = Intact(Def[c].parent)]
    /\ UNCHANGED <<tables, now, issued>>

\* The delegator is the active identity of the parent.
CheckDelegator(w) ==
    /\ pc[w] = "delegator"
    /\ LET owner == Def[Def[request[w].capability].parent].identity IN
       IF owner # NoIdentity /\ IdentityActive(owner)
       THEN Goto(w, "recipient")
       ELSE Return(w)
    /\ UNCHANGED <<tables, now, issued>>

\* The recipient is the active identity of the child's agent, and the child
\* stays within the scope of its parent.
CheckRecipient(w) ==
    /\ pc[w] = "recipient"
    /\ LET c == request[w].capability IN
       IF /\ Def[c].identity # NoIdentity
          /\ IdentityActive(Def[c].identity)
          /\ AgentOf[Def[c].identity] = Def[c].agent
          /\ ScopeWithin(Def[c].parent, c)
       THEN Goto(w, "register")
       ELSE Return(w)
    /\ UNCHANGED <<tables, now, issued>>

\* register_delegated_capability: one transaction, which looks at the status
\* of the parent again.
RegisterDelegated(w) ==
    /\ pc[w] = "register"
    /\ LET c == request[w].capability IN
       IF capability[Def[c].parent] = "ACTIVE" /\ ~Known(c)
       THEN /\ StoreCapability(c)
            /\ edge' = [edge EXCEPT ![c] = "ACTIVE"]
       ELSE UNCHANGED <<capability, edge, held>>
    /\ Return(w)
    /\ UNCHANGED <<identity, now, issued>>

BeginRevoke(w, c) == Begin(w, [kind |-> "revoke", capability |-> c], "revoke")

\* Mutant: the edge first, then the capability.
RevokeEdgeFirst(w) ==
    /\ pc[w] = "revoke"
    /\ edge' = Revoked(edge, request[w].capability)
    /\ Goto(w, "unlink")
    /\ UNCHANGED <<identity, capability, held, now, issued>>

\* revoke: the capability, and then the edge to it.
RevokeDelegated(w) ==
    /\ pc[w] = "revoke"
    /\ capability' = Revoked(capability, request[w].capability)
    /\ IF Known(request[w].capability)
          /\ Def[request[w].capability].parent # NoCapability
       THEN Goto(w, "unlink")
       ELSE Return(w)
    /\ UNCHANGED <<identity, edge, held, now, issued>>

\* Mutant: a status that no reader knows.
RevokeEdgeMisspelt(w) ==
    /\ pc[w] = "unlink"
    /\ edge' = [edge EXCEPT ![request[w].capability] = "revoked"]
    /\ Return(w)
    /\ UNCHANGED <<identity, capability, held, now, issued>>

RevokeEdge(w) ==
    /\ pc[w] = "unlink"
    /\ edge' = IF Linked(request[w].capability)
               THEN Revoked(edge, request[w].capability) ELSE edge
    /\ Return(w)
    /\ UNCHANGED <<identity, capability, held, now, issued>>

-------------------------------------------------------------------------------
(* GuardrailEngine._authorize_control_plane, AuthorizationService.issue    *)

BeginAuthorize(w, r) == Begin(w, r, "identity")

\* IdentityRegistry.authorize_action, if an identity is given.  An action that
\* the policy does not allow ends here, with a decision receipt only.
CheckIdentity(w) ==
    /\ pc[w] = "identity"
    /\ \/ Return(w)
       \/ /\ request[w].identity # NoIdentity =>
                /\ Resolved(request[w].identity)
                /\ SignedBy(request[w].identity, request[w].action)
          /\ Resolve(w, request[w].capability, "permit")
    /\ UNCHANGED <<tables, now, issued>>

\* CapabilityRegistry.authorize: the identity is the owner and active, and the
\* action is in scope.  Policy control and dynamic authority may refuse after
\* that; otherwise issue resolves the chain a second time.
CheckPermit(w) ==
    /\ pc[w] = "permit"
    /\ LET c == request[w].capability IN
       \/ Return(w)
       \/ /\ Def[c].identity # NoIdentity =>
                /\ request[w].identity = Def[c].identity
                /\ IdentityActive(Def[c].identity)
                /\ AgentOf[Def[c].identity] = Def[c].agent
          /\ Permits(c, request[w].action)
          /\ Resolve(w, c, "issue")
    /\ UNCHANGED <<tables, now, issued>>

\* Mutant: the remaining lifetime of the capability is not compared.
IssueWithoutTtl(w) ==
    /\ pc[w] = "issue"
    /\ LET c == request[w].capability
           i == request[w].identity
       IN  IF /\ Permits(c, request[w].action)
              /\ i # NoIdentity => IdentityActive(i)
              /\ Def[c].identity # NoIdentity => i = Def[c].identity
           THEN issued' = issued \cup
                  {[capability |-> c, action |-> request[w].action,
                    expires |-> now + Ttl]}
           ELSE UNCHANGED issued
    /\ Return(w)
    /\ UNCHANGED <<tables, now>>

\* issue: scope, remaining lifetime and identity once more, then the signature.
\* The code reads the clock for the lifetime and again for the signature; no
\* storage call lies between, and here both are one reading.
Issue(w) ==
    /\ pc[w] = "issue"
    /\ LET c == request[w].capability
           i == request[w].identity
       IN  IF /\ Permits(c, request[w].action)
              /\ now + Ttl <= Def[c].expires
              /\ i # NoIdentity => IdentityActive(i)
              /\ Def[c].identity # NoIdentity => i = Def[c].identity
           THEN issued' = issued \cup
                  {[capability |-> c, action |-> request[w].action,
                    expires |-> now + Ttl]}
           ELSE UNCHANGED issued
    /\ Return(w)
    /\ UNCHANGED <<tables, now>>

-------------------------------------------------------------------------------
Registry ==
    \/ \E i \in Identities : RegisterIdentity(i) \/ RevokeIdentity(i)
    \/ \E c \in Capabilities : RegisterCapability(c) \/ RevokeCapability(c)

Request(w) ==
    \/ \E c \in Capabilities : BeginDelegate(w, c) \/ BeginRevoke(w, c)
    \/ \E r \in Requests : BeginAuthorize(w, r)

WorkerStep(w) ==
    \/ WalkCapability(w) \/ WalkOwner(w)
    \/ CheckDelegator(w) \/ CheckRecipient(w) \/ RegisterDelegated(w)
    \/ RevokeDelegated(w) \/ RevokeEdge(w)
    \/ CheckIdentity(w) \/ CheckPermit(w) \/ Issue(w)
    \/ Crash(w)

Next ==
    \/ Registry
    \/ Tick
    \/ \E w \in Workers : Request(w) \/ WorkerStep(w)

Spec == Init /\ [][Next]_vars

-------------------------------------------------------------------------------
(* Properties                                                              *)

\* The actions that a capability has in scope.
Scope == [c \in Capabilities |-> {a \in Actions : InScope(c, a)}]

\* No chain of delegations widens authority: whatever a registered capability
\* has in scope, every capability above it has in scope too, and each link was
\* registered and is owned by the identity that signed the delegation
\* (authority.py, validate_delegation_scope).
DelegationNarrows ==
    \A c \in Capabilities : capability[c] # "absent" =>
        \A d \in Chain[c] :
            /\ capability[d] # "absent"
            /\ Scope[c] \subseteq Scope[d]
            /\ Def[d].parent # NoCapability =>
                  /\ Def[d].depth = Def[Def[d].parent].depth + 1
                  /\ Def[Def[d].parent].identity = Def[d].delegator

\* A decision taken after a walk heeds every revocation and expiry, anywhere
\* in the chain, that came before the walk began, although the walk reads the
\* chain one row at a time (capabilities.py, effective_active).
RevocationIsHeeded == \A w \in Workers : pc[w] \in Checked => intact[w]

\* An authorization expires before every capability its authority comes from,
\* and its action is in scope of them all (authorization.py: "execution
\* authorization ttl exceeds capability expiry").
AuthorizationsAreConfined ==
    \A x \in issued : \A d \in Chain[x.capability] :
        x.expires <= Def[d].expires /\ InScope(d, x.action)

\* The edge of a delegation is there exactly when the delegated capability is,
\* and is revoked only after the capability: the authority graph never shows a
\* delegation as withdrawn while the capability can still be used.
EdgesFollowCapabilities ==
    \A c \in Capabilities :
        /\ edge[c] # "absent" <=>
             capability[c] # "absent" /\ Def[c].parent # NoCapability
        /\ edge[c] = "REVOKED" => capability[c] = "REVOKED"
===============================================================================
