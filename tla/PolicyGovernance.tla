--------------------------- MODULE PolicyGovernance ---------------------------
(***************************************************************************)
(* core/policy_version.py with the governed-policy part of core/storage.py *)
(* and of core/engine.py, for one policy lineage and one API process.      *)
(* Governors approve a change (publish) or a control (freeze, rollback);   *)
(* the handlers read what they validate in separate storage calls and      *)
(* write last.  A strict runtime (require_governed_policy) checks the      *)
(* governance of its policy in every authorization.  Workers are the       *)
(* threads of the process: they share one connection, so rows that one of  *)
(* them inserts and does not commit are committed, or rolled back, by the  *)
(* next call that does.  Documents whose signature, fingerprint, lifetime  *)
(* or fields are refused change nothing and are left out; letting the      *)
(* others live forever only adds behaviours.                               *)
(***************************************************************************)
EXTENDS Naturals, FiniteSets, Sequences

CONSTANTS
    Governors,
    Officers,           \* the governors in the required role
    Threshold, RequiredOfficers,
    MaxApprovals,       \* bound on the approvals sent with a request
    Policies,           \* policy digests of the lineage
    NoPolicy,
    Changes,            \* POLICY_CHANGE actions with the policy they publish
    Controls,           \* POLICY_FREEZE and POLICY_ROLLBACK actions
    NoDocument,
    RuntimeCopy,        \* the version artifact that a runtime signs itself
    Configs,            \* what a runtime may be started with
    Workers,
    MaxRestarts         \* bound on the restarts of the process

Documents == Changes \cup Controls

\* GovernancePolicy.validate: the quorum can be met.  No required role is zero
\* governors of it.
ValidGovernance ==
    /\ Threshold \in 1..Cardinality(Governors)
    /\ RequiredOfficers \in 0..Cardinality(Officers)

\* build_policy_version, for a runtime and for what is published.
PolicyVersions ==
    [policy : Policies, version : Nat \ {0}, parent : Policies \cup {NoPolicy}]

VersionOf(c) == [policy |-> c.policy, version |-> c.version, parent |-> c.parent]

\* create_policy_change_action copies the version that it publishes.
ChangeAction(id, v) ==
    [id |-> id, policy |-> v.policy, version |-> v.version, parent |-> v.parent]

\* create_policy_control_action: a freeze has no target, a rollback has one
\* that is not the current policy.
FreezeAction(p) == [kind |-> "POLICY_FREEZE", current |-> p]
RollbackAction(p, target, version) ==
    [kind |-> "POLICY_ROLLBACK", current |-> p, target |-> target, version |-> version]
IsControlAction(c) ==
    /\ c.current \in Policies
    /\ \/ c = FreezeAction(c.current)
       \/ /\ c = RollbackAction(c.current, c.target, c.version)
          /\ c.target \in Policies \ {c.current} /\ c.version \in Nat \ {0}

ASSUME GovernorsType ==
    /\ IsFiniteSet(Governors) /\ Officers \subseteq Governors
    /\ ValidGovernance
    /\ MaxApprovals \in Nat
ASSUME DocumentsType ==
    /\ NoPolicy \notin Policies
    /\ NoDocument \notin Documents /\ RuntimeCopy \notin Changes \cup {NoDocument}
    /\ Changes \cap Controls = {}
    /\ \A c \in Changes :
          VersionOf(c) \in PolicyVersions /\ c = ChangeAction(c.id, VersionOf(c))
    /\ \A c \in Controls : IsControlAction(c)
ASSUME ConfigsType == Configs \subseteq PolicyVersions
ASSUME RestartsType == MaxRestarts \in Nat

VARIABLES
    approvals,   \* table governance_approvals: action and governor
    pending,     \* approvals inserted on the connection and not committed
    content,     \* table policy_versions: policy -> the artifact stored for it
    governed,    \* table governed_policy_changes: change and its approvers
    taken,       \* table policy_control_actions: control and its approvers
    control,     \* table policy_controls: active policy and frozen
    running,     \* what the runtime was started with
    cached,      \* the runtime holds its signed policy version
    restarts,
    pc,          \* worker -> next step
    doc,         \* worker -> the document it applies
    signers,     \* worker -> the governors that approved it
    live         \* history: worker -> its policy was enforceable since it began

tables == <<approvals, pending, content, governed, taken, control>>
runtime == <<running, cached, restarts>>
locals == <<pc, doc, signers>>
vars == <<approvals, pending, content, governed, taken, control,
          running, cached, restarts, pc, doc, signers, live>>

NoControl == [active |-> NoPolicy, frozen |-> FALSE]

Approval == [action : Changes, governor : Governors]
Effect(D) == [document : D, signers : SUBSET Governors]
Control == [active : Policies \cup {NoPolicy}, frozen : BOOLEAN]
Steps == {"idle", "published", "lineage", "register",
          "action", "current", "active", "target", "apply",
          "evaluate", "sign", "governed", "controlled", "issue"}
RuntimeSteps == {"evaluate", "sign", "governed", "controlled", "issue"}

TypeOK ==
    /\ approvals \subseteq Approval
    /\ pending \subseteq Approval
    /\ content \in [Policies -> Changes \cup {RuntimeCopy, NoDocument}]
    /\ governed \subseteq Effect(Changes)
    /\ taken \subseteq Effect(Controls)
    /\ control \in Control
    /\ running \in Configs
    /\ cached \in BOOLEAN
    /\ restarts \in 0..MaxRestarts
    /\ pc \in [Workers -> Steps]
    /\ doc \in [Workers -> Documents \cup {NoDocument}]
    /\ signers \in [Workers -> SUBSET Governors]
    /\ live \in [Workers -> BOOLEAN]

Init ==
    /\ approvals = {} /\ pending = {}
    /\ content = [p \in Policies |-> NoDocument]
    /\ governed = {} /\ taken = {}
    /\ control = NoControl
    /\ running \in Configs
    /\ cached = FALSE
    /\ restarts = 0
    /\ pc = [w \in Workers |-> "idle"]
    /\ doc = [w \in Workers |-> NoDocument]
    /\ signers = [w \in Workers |-> {}]
    /\ live = [w \in Workers |-> FALSE]

-------------------------------------------------------------------------------
(* Rules                                                                   *)

Signers(list) == {list[i] : i \in DOMAIN list}

\* Mutant: a governor that signs twice counts twice.
QuorumOfSignatures(list) ==
    /\ Len(list) >= Threshold
    /\ Cardinality(Signers(list) \cap Officers) >= RequiredOfficers

\* verify_governance_quorum on the list of approvals that came with the
\* action: distinct governors, enough of them, and enough in the required role.
QuorumSatisfied(list) ==
    /\ \A i, j \in DOMAIN list : list[i] = list[j] => i = j
    /\ Len(list) >= Threshold
    /\ Cardinality(Signers(list) \cap Officers) >= RequiredOfficers

\* The lists of approvals with which a request gets past its verification.
Lists == UNION {[1..n -> Governors] : n \in 0..MaxApprovals}
Quorate == {list \in Lists : QuorumSatisfied(list)}

GovernedChanges == {g.document : g \in governed}
IsGoverned(p) == \E c \in GovernedChanges : c.policy = p

\* ORDER BY version DESC LIMIT 1: any of the changes with the highest version.
LatestGoverned ==
    {c \in GovernedChanges : \A d \in GovernedChanges : d.version <= c.version}

\* Mutant: an empty lineage may begin anywhere.
ContinuesAnything(c) ==
    \/ governed = {}
    \/ \E latest \in LatestGoverned :
          c.version = latest.version + 1 /\ c.parent = latest.policy

\* The change continues the governed lineage.
ContinuesLineage(c) ==
    IF governed = {}
    THEN c.version = 1 /\ c.parent = NoPolicy
    ELSE \E latest \in LatestGoverned :
            c.version = latest.version + 1 /\ c.parent = latest.policy

MatchesRunning(c) == VersionOf(c) = running

\* _assert_governed_policy_control, at one instant.
ControlAllows ==
    \/ control = NoControl
    \/ ~control.frozen /\ control.active = running.policy

Enforceable == (\E c \in GovernedChanges : MatchesRunning(c)) /\ ControlAllows

Goto(w, step) ==
    /\ pc' = [pc EXCEPT ![w] = step]
    /\ UNCHANGED <<doc, signers>>

Return(w) ==
    /\ pc' = [pc EXCEPT ![w] = "idle"]
    /\ doc' = [doc EXCEPT ![w] = NoDocument]
    /\ signers' = [signers EXCEPT ![w] = {}]

\* Whatever the connection holds is committed with the caller's rows.
Commit == approvals' = approvals \cup pending /\ pending' = {}
Rollback == pending' = {} /\ UNCHANGED approvals

-------------------------------------------------------------------------------
(* GovernedPolicyVersionRegistry.publish                                   *)

\* A request whose list of approvals was verified first; any other ends there.
Submit(w, d, list, step) ==
    /\ pc[w] = "idle"
    /\ doc' = [doc EXCEPT ![w] = d]
    /\ signers' = [signers EXCEPT ![w] = Signers(list)]
    /\ pc' = [pc EXCEPT ![w] = step]
    /\ UNCHANGED <<tables, runtime>>

BeginPublish(w, c, list) == Submit(w, c, list, "published")

\* "governed policy version already published"
CheckPublished(w) ==
    /\ pc[w] = "published"
    /\ IF IsGoverned(doc[w].policy) THEN Return(w) ELSE Goto(w, "lineage")
    /\ UNCHANGED <<tables, runtime>>

\* The first version, or the child of the latest governed one.
CheckLineage(w) ==
    /\ pc[w] = "lineage"
    /\ \/ ContinuesLineage(doc[w]) /\ Goto(w, "register")
       \/ /\ ~ContinuesLineage(doc[w]) \/ Cardinality(LatestGoverned) > 1
          /\ Return(w)
    /\ UNCHANGED <<tables, runtime>>

\* Mutant: the rows name the policy instead of the action.
ApprovalRowsByPolicy(w) ==
    {[action |-> doc[w].policy, governor |-> g] : g \in signers[w]}

ApprovalRows(w) == {[action |-> doc[w], governor |-> g] : g \in signers[w]}

\* The UNIQUE constraints refuse approvals that are already there, and a
\* policy or an action that is already governed.
Duplicate(w) ==
    \/ ApprovalRows(w) \cap (approvals \cup pending) # {}
    \/ \E c \in GovernedChanges : c = doc[w] \/ c.policy = doc[w].policy

\* "policy digest is already bound to different signed policy content"
Rebound(w) ==
    /\ ApprovalRows(w) \cap (approvals \cup pending) = {}
    /\ content[doc[w].policy] \notin {NoDocument, doc[w]}

\* Mutant: the approvals are committed before the rest is inserted.
RegisterInTwoCommits(w) ==
    /\ pc[w] = "register"
    /\ approvals' = approvals \cup pending \cup ApprovalRows(w)
    /\ pending' = {}
    /\ \/ /\ Rebound(w) \/ Duplicate(w)
          /\ UNCHANGED <<content, governed>>
       \/ /\ ~Rebound(w) /\ ~Duplicate(w)
          /\ content' = [content EXCEPT ![doc[w].policy] = doc[w]]
          /\ governed' = governed \cup
                {[document |-> doc[w], signers |-> signers[w]]}
    /\ Return(w)
    /\ UNCHANGED <<taken, control, runtime>>

\* register_governed_policy_change: the approvals, the artifact if the digest
\* has none, and the change, in one commit.  A constraint that fails rolls
\* everything back.  A digest that is bound to other content raises a
\* ValueError that nothing rolls back: the approvals stay pending.
Register(w) ==
    /\ pc[w] = "register"
    /\ \/ /\ Rebound(w)
          /\ pending' = pending \cup ApprovalRows(w)
          /\ UNCHANGED <<approvals, content, governed>>
       \/ /\ ~Rebound(w) /\ Duplicate(w)
          /\ Rollback
          /\ UNCHANGED <<content, governed>>
       \/ /\ ~Rebound(w) /\ ~Duplicate(w)
          /\ approvals' = approvals \cup pending \cup ApprovalRows(w)
          /\ pending' = {}
          /\ content' = [content EXCEPT ![doc[w].policy] = doc[w]]
          /\ governed' = governed \cup
                {[document |-> doc[w], signers |-> signers[w]]}
    /\ Return(w)
    /\ UNCHANGED <<taken, control, runtime>>

-------------------------------------------------------------------------------
(* GovernedPolicyControlService.apply                                      *)

BeginControl(w, c, list) == Submit(w, c, list, "action")

\* policy_control_action: "policy control action already registered"
Applied(c) == \E t \in taken : t.document = c

CheckAction(w) ==
    /\ pc[w] = "action"
    /\ IF Applied(doc[w])
       THEN Return(w)
       ELSE Goto(w, "current")
    /\ UNCHANGED <<tables, runtime>>

\* "current policy is not governed"
CheckCurrent(w) ==
    /\ pc[w] = "current"
    /\ IF IsGoverned(doc[w].current) THEN Goto(w, "active") ELSE Return(w)
    /\ UNCHANGED <<tables, runtime>>

\* The action names the active policy, if a control was ever applied; a frozen
\* policy cannot be frozen again.
ControlFits(c) ==
    \/ control = NoControl
    \/ /\ control.active = c.current
       /\ c.kind = "POLICY_FREEZE" => ~control.frozen

CheckActive(w) ==
    /\ pc[w] = "active"
    /\ \/ ~ControlFits(doc[w]) /\ Return(w)
       \/ ControlFits(doc[w]) /\ doc[w].kind = "POLICY_FREEZE" /\ Goto(w, "apply")
       \/ ControlFits(doc[w]) /\ doc[w].kind = "POLICY_ROLLBACK" /\ Goto(w, "target")
    /\ UNCHANGED <<tables, runtime>>

\* A governed policy of that version, other than the current one.
RollbackTarget(c) ==
    /\ \E g \in GovernedChanges : g.policy = c.target /\ g.version = c.version
    /\ c.target # c.current

\* Mutant: the target need not be governed.
CheckTargetDiffers(w) ==
    /\ pc[w] = "target"
    /\ IF doc[w].target # doc[w].current THEN Goto(w, "apply") ELSE Return(w)
    /\ UNCHANGED <<tables, runtime>>

CheckTarget(w) ==
    /\ pc[w] = "target"
    /\ IF RollbackTarget(doc[w]) THEN Goto(w, "apply") ELSE Return(w)
    /\ UNCHANGED <<tables, runtime>>

\* A freeze keeps the current policy; a rollback moves to its target and
\* unfreezes.
Outcome(c) ==
    IF c.kind = "POLICY_FREEZE"
    THEN [active |-> c.current, frozen |-> TRUE]
    ELSE [active |-> c.target, frozen |-> FALSE]

\* apply_policy_control: INSERT of the action, then an unconditional upsert of
\* the control, in one commit.
Apply(w) ==
    /\ pc[w] = "apply"
    /\ \/ /\ Applied(doc[w])
          /\ Rollback
          /\ UNCHANGED <<taken, control>>
       \/ /\ ~Applied(doc[w])
          /\ Commit
          /\ taken' = taken \cup {[document |-> doc[w], signers |-> signers[w]]}
          /\ control' = Outcome(doc[w])
    /\ Return(w)
    /\ UNCHANGED <<content, governed, runtime>>

-------------------------------------------------------------------------------
(* The strict runtime, core/engine.py                                      *)

BeginAuthorize(w) ==
    /\ pc[w] = "idle"
    /\ Goto(w, "evaluate")
    /\ UNCHANGED <<tables, runtime>>

\* evaluate_action: BEGIN IMMEDIATE raises inside an open transaction, and the
\* handler of that exception rolls it back.
Evaluate(w) ==
    /\ pc[w] = "evaluate"
    /\ IF pending = {} THEN Goto(w, "sign") ELSE Return(w)
    /\ Rollback
    /\ UNCHANGED <<content, governed, taken, control, runtime>>

\* register_policy_version: INSERT OR REPLACE, and commit.
StoreVersion(p) ==
    /\ content' = [content EXCEPT ![p] = RuntimeCopy]
    /\ Commit

\* Mutant: a signed version in the cache is not checked again.
SignVersionUnchecked(w) ==
    /\ pc[w] = "sign"
    /\ \/ cached /\ Goto(w, "issue") /\ UNCHANGED <<approvals, pending, content>>
       \/ ~cached /\ Goto(w, "governed") /\ StoreVersion(running.policy)
    /\ cached' = TRUE
    /\ UNCHANGED <<governed, taken, control, running, restarts>>

\* signed_policy_version signs the version once and stores it, before its
\* governance is checked.
SignVersion(w) ==
    /\ pc[w] = "sign"
    /\ \/ cached /\ UNCHANGED <<approvals, pending, content>>
       \/ ~cached /\ StoreVersion(running.policy)
    /\ cached' = TRUE
    /\ Goto(w, "governed")
    /\ UNCHANGED <<governed, taken, control, running, restarts>>

\* _assert_governed_policy_control reads the change and then the control; a
\* refusal also forgets the signed version.
CheckGoverned(w) ==
    /\ pc[w] = "governed"
    /\ IF \E c \in GovernedChanges : MatchesRunning(c)
       THEN Goto(w, "controlled") /\ UNCHANGED cached
       ELSE Return(w) /\ cached' = FALSE
    /\ UNCHANGED <<tables, running, restarts>>

CheckControl(w) ==
    /\ pc[w] = "controlled"
    /\ IF ControlAllows
       THEN Goto(w, "issue") /\ UNCHANGED cached
       ELSE Return(w) /\ cached' = FALSE
    /\ UNCHANGED <<tables, running, restarts>>

\* The authorization is signed and its artifacts are committed.
Issue(w) ==
    /\ pc[w] = "issue"
    /\ Commit
    /\ Return(w)
    /\ UNCHANGED <<content, governed, taken, control, runtime>>

\* The process ends and starts again, perhaps with another policy: its
\* threads, its open transaction and the cached version are gone.
Restart(c) ==
    /\ restarts < MaxRestarts
    /\ restarts' = restarts + 1
    /\ running' = c
    /\ cached' = FALSE
    /\ pc' = [w \in Workers |-> "idle"]
    /\ doc' = [w \in Workers |-> NoDocument]
    /\ signers' = [w \in Workers |-> {}]
    /\ Rollback
    /\ UNCHANGED <<content, governed, taken, control>>

-------------------------------------------------------------------------------
WorkerStep(w) ==
    \/ CheckPublished(w) \/ CheckLineage(w) \/ Register(w)
    \/ CheckAction(w) \/ CheckCurrent(w) \/ CheckActive(w)
    \/ CheckTarget(w) \/ Apply(w)
    \/ BeginAuthorize(w) \/ Evaluate(w) \/ SignVersion(w)
    \/ CheckGoverned(w) \/ CheckControl(w) \/ Issue(w)

Request(w, list) ==
    \/ \E c \in Changes : BeginPublish(w, c, list)
    \/ \E c \in Controls : BeginControl(w, c, list)

Step ==
    \/ \E w \in Workers : WorkerStep(w)
    \/ \E w \in Workers, list \in Quorate : Request(w, list)
    \/ \E c \in Configs : Restart(c)

\* live remembers whether the policy was enforceable at some instant since the
\* authorization began.
Remember ==
    live' = [w \in Workers |->
                /\ pc'[w] \in RuntimeSteps
                /\ Enforceable' \/ (pc[w] \in RuntimeSteps /\ live[w])]

Next == Step /\ Remember

Spec == Init /\ [][Next]_vars

-------------------------------------------------------------------------------
(* Properties                                                              *)

\* Every governed change continues another governed change, and a policy is
\* governed once, also when several publications validate against the same
\* latest version (policy_version.py: "governed policy parent does not match
\* latest version").  The lineage may fork; it never has a gap.
LineageIsGrounded ==
    /\ \A c \in GovernedChanges :
          \/ c.version = 1 /\ c.parent = NoPolicy
          \/ \E p \in GovernedChanges :
                p.policy = c.parent /\ p.version + 1 = c.version
    /\ \A g, h \in governed : g.document.policy = h.document.policy => g = h

\* The governors whose approval of a change is on record.
ApproversOf(c) == {a.governor : a \in {b \in approvals : b.action = c}}

IsQuorum(S) ==
    /\ Cardinality(S) >= Threshold
    /\ Cardinality(S \cap Officers) >= RequiredOfficers
QuorumsMeet ==
    \A S, T \in SUBSET Governors : IsQuorum(S) /\ IsQuorum(T) => S \cap T # {}

\* A governed change has the approvals of the quorum it was published with on
\* record, and no others where any two quorums share a governor.  Approvals of
\* a change that was not published are there only if its digest was bound to
\* other content (register_governed_policy_change leaves those uncommitted).
ApprovalsBackChanges ==
    /\ \A g \in governed :
          /\ g.signers \subseteq ApproversOf(g.document)
          /\ QuorumsMeet => ApproversOf(g.document) \subseteq g.signers
    /\ \A a \in approvals :
          \/ a.action \in GovernedChanges
          \/ content[a.action.policy] \notin {NoDocument, a.action}

\* Controls only ever activate governed policies, and the control on record is
\* the outcome of an action that was applied (a rollback validates its target
\* in a call of its own).
ControlIsGoverned ==
    /\ control = NoControl <=> taken = {}
    /\ control # NoControl =>
          /\ IsGoverned(control.active)
          /\ \E t \in taken : Outcome(t.document) = control

\* A strict runtime issues an authorization only if its policy was governed,
\* active and not frozen at some instant of that very request: a freeze stops
\* every authorization that begins after it.
IssuesOnlyEnforceable == \A w \in Workers : pc[w] = "issue" => live[w]

\* Changes and controls implement the abstract quorum gate: each takes effect
\* at most once, with the approvals of a quorum of distinct governors.
Gate == INSTANCE QuorumGate WITH effects <- governed \cup taken

ImplementsQuorumGate == Gate!Spec
===============================================================================
