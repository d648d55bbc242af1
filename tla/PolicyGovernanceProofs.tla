------------------------ MODULE PolicyGovernanceProofs ------------------------
(***************************************************************************)
(* Governed publication, freeze and rollback, for every set of governors,  *)
(* documents, runtimes and workers.                                        *)
(***************************************************************************)
EXTENDS PolicyGovernance, FiniteSetTheorems, FunctionTheorems, SequenceTheorems, TLAPS

Publishing == {"published", "lineage", "register"}
Controlling == {"action", "current", "active", "target", "apply"}

\* Type correctness in two halves: the tables, what the workers hold.
LocalsOK ==
    /\ pc \in [Workers -> Steps]
    /\ doc \in [Workers -> Documents \cup {NoDocument}]
    /\ signers \in [Workers -> SUBSET Governors]

TablesOK ==
    /\ approvals \subseteq Approval
    /\ pending \subseteq Approval
    /\ content \in [Policies -> Changes \cup {RuntimeCopy, NoDocument}]
    /\ governed \subseteq Effect(Changes)
    /\ taken \subseteq Effect(Controls)
    /\ control \in Control
    /\ running \in Configs
    /\ cached \in BOOLEAN
    /\ restarts \in 0..MaxRestarts

\* What a handler works on is a document of its kind, approved by a quorum.
WorkInv ==
    \A w \in Workers :
        /\ pc[w] \in Publishing => doc[w] \in Changes
        /\ pc[w] \in Controlling => doc[w] \in Controls
        /\ pc[w] \in Publishing \cup Controlling => IsQuorum(signers[w])

ShapeInv == LocalsOK /\ TablesOK /\ WorkInv

\* A step of a worker ends its call or goes on with the same document.
Advance(w) ==
    \/ Return(w)
    \/ \E s \in Steps :
          /\ Goto(w, s)
          /\ s \in Publishing => pc[w] \in Publishing
          /\ s \in Controlling => pc[w] \in Controlling

-------------------------------------------------------------------------------
\* Distinct members of a list are as many as the list is long.
LEMMA QuorumOfList ==
  ASSUME NEW list \in Lists, QuorumSatisfied(list)
  PROVE  Signers(list) \subseteq Governors /\ IsQuorum(Signers(list))
<1>1. PICK n \in 0..MaxApprovals : list \in [1..n -> Governors]
  BY DEF Lists
<1>2. n \in Nat
  BY <1>1, GovernorsType
<1>3. list \in Seq(Governors)
  BY <1>1, <1>2
<1>4. Len(list) \in Nat /\ 1..Len(list) = 1..n
  BY <1>1, <1>3, LenProperties
<1>5. Len(list) = n
  <2>1. n \in 1..n <=> n >= 1
    BY <1>2
  <2>2. Len(list) \in 1..Len(list) <=> Len(list) >= 1
    BY <1>4
  <2> QED BY <1>2, <1>4, <2>1, <2>2
<1>6. list \in Bijection(1..n, Signers(list))
  <2>1. list \in [1..n -> Signers(list)]
    BY <1>1 DEF Signers
  <2>2. \A i, j \in 1..n : list[i] = list[j] => i = j
    BY <1>1 DEF QuorumSatisfied
  <2>3. \A g \in Signers(list) : \E i \in 1..n : list[i] = g
    BY <1>1 DEF Signers
  <2> QED BY <2>1, <2>2, <2>3, Fun_IsBij
<1>7. IsFiniteSet(1..n) /\ Cardinality(1..n) = n
  BY <1>2, FS_Interval
<1>8. Cardinality(Signers(list)) = n
  BY <1>6, <1>7, FS_Bijection DEF ExistsBijection
<1>9. Signers(list) \subseteq Governors
  BY <1>1 DEF Signers
<1> QED BY <1>5, <1>8, <1>9 DEF QuorumSatisfied, IsQuorum

LEMMA WorkerAdvances ==
  ASSUME ShapeInv, NEW w \in Workers, WorkerStep(w)
  PROVE  Advance(w)
<1> USE DEF Publishing, Controlling, Steps, Advance
<1>1. CASE CheckPublished(w) BY <1>1 DEF CheckPublished
<1>2. CASE CheckLineage(w)   BY <1>2 DEF CheckLineage
<1>3. CASE Register(w)       BY <1>3 DEF Register
<1>4. CASE CheckAction(w)    BY <1>4 DEF CheckAction
<1>5. CASE CheckCurrent(w)   BY <1>5 DEF CheckCurrent
<1>6. CASE CheckActive(w)    BY <1>6 DEF CheckActive
<1>7. CASE CheckTarget(w)    BY <1>7 DEF CheckTarget
<1>8. CASE Apply(w)          BY <1>8 DEF Apply
<1>9. CASE BeginAuthorize(w) BY <1>9 DEF BeginAuthorize
<1>10. CASE Evaluate(w)      BY <1>10 DEF Evaluate
<1>11. CASE SignVersion(w)   BY <1>11 DEF SignVersion
<1>12. CASE CheckGoverned(w) BY <1>12 DEF CheckGoverned
<1>13. CASE CheckControl(w)  BY <1>13 DEF CheckControl
<1>14. CASE Issue(w)         BY <1>14 DEF Issue
<1> QED
  BY <1>1, <1>2, <1>3, <1>4, <1>5, <1>6, <1>7, <1>8, <1>9, <1>10, <1>11, <1>12,
     <1>13, <1>14 DEF WorkerStep

LEMMA AdvanceKeeps ==
  ASSUME ShapeInv, NEW w \in Workers, Advance(w)
  PROVE  LocalsOK' /\ WorkInv'
<1>1. CASE Return(w)
  BY <1>1 DEF ShapeInv, LocalsOK, WorkInv, Return, Steps, Publishing, Controlling
<1>2. ASSUME NEW s \in Steps, Goto(w, s),
             s \in Publishing => pc[w] \in Publishing,
             s \in Controlling => pc[w] \in Controlling
      PROVE  LocalsOK' /\ WorkInv'
  <2>1. LocalsOK'
    BY <1>2 DEF ShapeInv, LocalsOK, Goto
  <2>2. ASSUME NEW v \in Workers
        PROVE  /\ pc'[v] \in Publishing => pc[v] \in Publishing
               /\ pc'[v] \in Controlling => pc[v] \in Controlling
    BY <1>2, <2>2 DEF ShapeInv, LocalsOK, Goto
  <2>3. WorkInv'
    BY <1>2, <2>2 DEF ShapeInv, WorkInv, Goto, IsQuorum
  <2> QED BY <2>1, <2>3
<1> QED BY <1>1, <1>2 DEF Advance

-------------------------------------------------------------------------------
LEMMA RequestKeeps ==
  ASSUME ShapeInv, NEW w \in Workers, NEW list \in Quorate, Request(w, list)
  PROVE  ShapeInv' /\ UNCHANGED <<tables, runtime>>
<1>1. PICK d \in Documents, step \in {"published", "action"} :
          /\ Submit(w, d, list, step)
          /\ step = "published" => d \in Changes
          /\ step = "action" => d \in Controls
  BY DEF Request, BeginPublish, BeginControl, Documents
<1>2. Signers(list) \subseteq Governors /\ IsQuorum(Signers(list))
  BY <1>1, QuorumOfList DEF Submit, Quorate
<1>3. LocalsOK' /\ UNCHANGED <<tables, runtime>>
  BY <1>1, <1>2 DEF Submit, ShapeInv, LocalsOK, Steps
<1>4. WorkInv'
  <2> SUFFICES ASSUME NEW v \in Workers
               PROVE  /\ pc'[v] \in Publishing => doc'[v] \in Changes
                      /\ pc'[v] \in Controlling => doc'[v] \in Controls
                      /\ pc'[v] \in Publishing \cup Controlling => IsQuorum(signers'[v])
    BY DEF WorkInv, IsQuorum
  <2>1. CASE v = w
    BY <1>1, <1>2, <2>1 DEF Submit, ShapeInv, LocalsOK, Publishing, Controlling
  <2>2. CASE v # w
    BY <1>1, <2>2 DEF Submit, ShapeInv, LocalsOK, WorkInv
  <2> QED BY <2>1, <2>2
<1>5. TablesOK'
  BY <1>3 DEF ShapeInv, TablesOK, tables, runtime
<1> QED BY <1>3, <1>4, <1>5 DEF ShapeInv

LEMMA RowsAreApprovals ==
  ASSUME ShapeInv, NEW w \in Workers, pc[w] = "register"
  PROVE  /\ doc[w] \in Changes /\ doc[w].policy \in Policies
         /\ ApprovalRows(w) \subseteq Approval
         /\ [document |-> doc[w], signers |-> signers[w]] \in Effect(Changes)
<1>1. doc[w] \in Changes /\ signers[w] \subseteq Governors
  BY DEF ShapeInv, LocalsOK, WorkInv, Publishing
<1>2. doc[w].policy \in Policies
  BY <1>1, DocumentsType DEF VersionOf, PolicyVersions
<1> QED BY <1>1, <1>2 DEF ApprovalRows, Approval, Effect

LEMMA RunningTyped ==
  ASSUME ShapeInv
  PROVE  running.policy \in Policies
  BY ConfigsType DEF ShapeInv, TablesOK, PolicyVersions

LEMMA OutcomeTyped ==
  ASSUME NEW c \in Controls
  PROVE  /\ Outcome(c) \in Control /\ Outcome(c).active \in Policies
         /\ Outcome(c) # NoControl
<1>1. IsControlAction(c)
  BY DocumentsType
<1>2. CASE c = FreezeAction(c.current)
  BY <1>1, <1>2, DocumentsType
  DEF IsControlAction, FreezeAction, Outcome, Control, NoControl
<1>3. CASE /\ c = RollbackAction(c.current, c.target, c.version)
           /\ c.target \in Policies \ {c.current}
  <2>1. c.kind = "POLICY_ROLLBACK"
    BY <1>3 DEF RollbackAction
  <2> QED BY <1>3, <2>1, DocumentsType DEF Outcome, Control, NoControl
<1> QED BY <1>1, <1>2, <1>3 DEF IsControlAction

LEMMA WorkerTables ==
  ASSUME ShapeInv, NEW w \in Workers, WorkerStep(w)
  PROVE  TablesOK'
<1> USE DEF ShapeInv, TablesOK, tables, runtime
<1>1. CASE CheckPublished(w) \/ CheckLineage(w) \/ CheckAction(w) \/ CheckCurrent(w)
           \/ CheckActive(w) \/ CheckTarget(w) \/ BeginAuthorize(w)
  BY <1>1 DEF CheckPublished, CheckLineage, CheckAction, CheckCurrent, CheckActive,
              CheckTarget, BeginAuthorize
<1>2. CASE Register(w)
  <2>1. /\ doc[w] \in Changes /\ ApprovalRows(w) \subseteq Approval
        /\ [document |-> doc[w], signers |-> signers[w]] \in Effect(Changes)
    BY <1>2, RowsAreApprovals DEF Register
  <2> QED BY <1>2, <2>1 DEF Register, Rollback
<1>3. CASE Apply(w)
  <2>1. doc[w] \in Controls /\ signers[w] \subseteq Governors
    BY <1>3 DEF Apply, LocalsOK, WorkInv, Controlling
  <2>2. Outcome(doc[w]) \in Control
    BY <2>1, OutcomeTyped
  <2>3. [document |-> doc[w], signers |-> signers[w]] \in Effect(Controls)
    BY <2>1 DEF Effect
  <2> QED BY <1>3, <2>2, <2>3 DEF Apply, Commit, Rollback
<1>4. CASE Evaluate(w) \/ Issue(w)
  BY <1>4 DEF Evaluate, Issue, Commit, Rollback
<1>5. CASE SignVersion(w)
  BY <1>5, RunningTyped DEF SignVersion, StoreVersion, Commit
<1>6. CASE CheckGoverned(w) \/ CheckControl(w)
  BY <1>6 DEF CheckGoverned, CheckControl
<1> QED BY <1>1, <1>2, <1>3, <1>4, <1>5, <1>6 DEF WorkerStep

LEMMA RestartKeeps ==
  ASSUME ShapeInv, NEW c \in Configs, Restart(c)
  PROVE  ShapeInv'
<1>1. LocalsOK'
  BY DEF Restart, LocalsOK, Steps
<1>2. restarts' \in 0..MaxRestarts
  BY RestartsType DEF Restart, ShapeInv, TablesOK
<1>3. TablesOK'
  BY <1>2 DEF Restart, Rollback, ShapeInv, TablesOK
<1>4. WorkInv'
  BY DEF Restart, WorkInv, Publishing, Controlling
<1> QED BY <1>1, <1>3, <1>4 DEF ShapeInv

LEMMA ShapeStep == ShapeInv /\ [Next]_vars => ShapeInv'
<1> SUFFICES ASSUME ShapeInv, [Next]_vars PROVE ShapeInv'
  OBVIOUS
<1>1. CASE UNCHANGED vars
  BY <1>1 DEF vars, ShapeInv, LocalsOK, TablesOK, WorkInv, IsQuorum
<1>2. ASSUME NEW w \in Workers, WorkerStep(w) PROVE ShapeInv'
  BY <1>2, WorkerAdvances, AdvanceKeeps, WorkerTables DEF ShapeInv
<1>3. ASSUME NEW w \in Workers, NEW list \in Quorate, Request(w, list) PROVE ShapeInv'
  BY <1>3, RequestKeeps
<1>4. ASSUME NEW c \in Configs, Restart(c) PROVE ShapeInv'
  BY <1>4, RestartKeeps
<1> QED BY <1>1, <1>2, <1>3, <1>4 DEF Next, Step

LEMMA ShapeInit == Init => ShapeInv
<1> SUFFICES ASSUME Init PROVE LocalsOK /\ TablesOK /\ WorkInv
  BY DEF ShapeInv
<1>1. LocalsOK
  BY DEF Init, LocalsOK, Steps
<1>2. TablesOK
  <2>1. control \in Control
    BY DEF Init, Control, NoControl
  <2>2. content \in [Policies -> Changes \cup {RuntimeCopy, NoDocument}]
    BY DEF Init
  <2>3. restarts \in 0..MaxRestarts
    BY RestartsType DEF Init
  <2> QED BY <2>1, <2>2, <2>3 DEF Init, TablesOK
<1>3. WorkInv
  BY DEF Init, WorkInv, Publishing, Controlling
<1> QED BY <1>1, <1>2, <1>3

\* Every reachable state has its tables and locals of their types.
THEOREM TypeCorrect == Spec => []TypeOK
<1>1. Init => live \in [Workers -> BOOLEAN]
  BY DEF Init
<1>2. live \in [Workers -> BOOLEAN] /\ [Next]_vars => (live \in [Workers -> BOOLEAN])'
  <2>1. Remember => (live \in [Workers -> BOOLEAN])'
    BY DEF Remember
  <2> QED BY <2>1 DEF Next, vars
<1>3. ShapeInv /\ live \in [Workers -> BOOLEAN] => TypeOK
  BY DEF ShapeInv, LocalsOK, TablesOK, TypeOK
<1> QED BY <1>1, <1>2, <1>3, ShapeInit, ShapeStep, PTL DEF Spec

-------------------------------------------------------------------------------
(* What a step may do                                                      *)

\* A change takes effect in Register only, a control in Apply only.
Published(w) ==
    /\ pc[w] = "register" /\ ~Rebound(w) /\ ~Duplicate(w)
    /\ governed' = governed \cup {[document |-> doc[w], signers |-> signers[w]]}
    /\ UNCHANGED <<taken, control, running>>

Controlled(w) ==
    /\ pc[w] = "apply" /\ ~Applied(doc[w])
    /\ taken' = taken \cup {[document |-> doc[w], signers |-> signers[w]]}
    /\ control' = Outcome(doc[w])
    /\ UNCHANGED <<governed, running>>

LEMMA WorkerEffects ==
  ASSUME NEW w \in Workers, WorkerStep(w)
  PROVE  UNCHANGED <<governed, taken, control, running>> \/ Published(w) \/ Controlled(w)
<1> USE DEF tables, runtime
<1>1. CASE CheckPublished(w) \/ CheckLineage(w) \/ CheckAction(w) \/ CheckCurrent(w)
           \/ CheckActive(w) \/ CheckTarget(w) \/ BeginAuthorize(w)
  BY <1>1 DEF CheckPublished, CheckLineage, CheckAction, CheckCurrent, CheckActive,
              CheckTarget, BeginAuthorize
<1>2. CASE Register(w)
  BY <1>2 DEF Register, Published
<1>3. CASE Apply(w)
  BY <1>3 DEF Apply, Controlled
<1>4. CASE Evaluate(w) \/ Issue(w) \/ SignVersion(w) \/ CheckGoverned(w) \/ CheckControl(w)
  BY <1>4 DEF Evaluate, Issue, SignVersion, CheckGoverned, CheckControl
<1> QED BY <1>1, <1>2, <1>3, <1>4 DEF WorkerStep

LEMMA Effects ==
  ASSUME ShapeInv, [Next]_vars
  PROVE  \/ UNCHANGED <<governed, taken, control>>
         \/ \E w \in Workers : Published(w) \/ Controlled(w)
<1>1. CASE UNCHANGED vars
  BY <1>1 DEF vars
<1>2. ASSUME NEW w \in Workers, NEW list \in Quorate, Request(w, list)
      PROVE  UNCHANGED <<governed, taken, control>>
  BY <1>2, RequestKeeps DEF tables
<1>3. ASSUME NEW c \in Configs, Restart(c)
      PROVE  UNCHANGED <<governed, taken, control>>
  BY <1>3 DEF Restart
<1> QED BY <1>1, <1>2, <1>3, WorkerEffects DEF Next, Step

\* Each worker stands still, is idle or at the beginning of a request, or has
\* taken a step of its own.
Still(v) == pc'[v] = pc[v] /\ doc'[v] = doc[v] /\ signers'[v] = signers[v]

LEMMA LocalMoves ==
  ASSUME ShapeInv, [Next]_vars, NEW v \in Workers
  PROVE  \/ Still(v) /\ UNCHANGED running
         \/ pc'[v] \in {"idle", "published", "action"}
         \/ WorkerStep(v)
<1>1. CASE UNCHANGED vars
  BY <1>1 DEF vars, Still
<1>2. ASSUME NEW w \in Workers, WorkerStep(w), v # w
      PROVE  Still(v) /\ UNCHANGED running
  <2>1. Advance(w)
    BY <1>2, WorkerAdvances
  <2>2. UNCHANGED running
    BY <1>2, WorkerEffects DEF Published, Controlled
  <2> QED BY <1>2, <2>1, <2>2 DEF Advance, Goto, Return, Still, ShapeInv, LocalsOK
<1>3. ASSUME NEW w \in Workers, NEW list \in Quorate, Request(w, list)
      PROVE  \/ Still(v) /\ UNCHANGED running
             \/ pc'[v] \in {"published", "action"}
  BY <1>3 DEF Request, BeginPublish, BeginControl, Submit, Still, ShapeInv, LocalsOK,
              runtime
<1>4. ASSUME NEW c \in Configs, Restart(c)
      PROVE  pc'[v] = "idle"
  BY <1>4 DEF Restart
<1> QED BY <1>1, <1>2, <1>3, <1>4 DEF Next, Step

\* What a worker has just found when it arrives at a step.
Found(v) ==
    /\ pc'[v] = "register" => ContinuesLineage(doc[v])
    /\ pc'[v] = "active" => IsGoverned(doc[v].current)
    /\ pc'[v] = "target" => pc[v] = "active" /\ doc[v].kind = "POLICY_ROLLBACK"
    /\ pc'[v] = "apply" => \/ pc[v] = "active" /\ doc[v].kind = "POLICY_FREEZE"
                           \/ pc[v] = "target" /\ RollbackTarget(doc[v])
    /\ pc'[v] = "controlled" => \E c \in GovernedChanges : MatchesRunning(c)
    /\ pc'[v] = "issue" => pc[v] = "controlled" /\ ControlAllows

Arrivals == {"register", "active", "target", "apply", "controlled", "issue"}

LEMMA WorkerArrives ==
  ASSUME ShapeInv, NEW v \in Workers, WorkerStep(v), pc'[v] \in Arrivals
  PROVE  /\ Found(v) /\ doc'[v] = doc[v]
         /\ UNCHANGED <<governed, taken, control, running>>
<1> USE DEF ShapeInv, LocalsOK, Goto, Return, Arrivals, Found, tables, runtime
<1>1. CASE CheckPublished(v) BY <1>1 DEF CheckPublished
<1>2. CASE CheckLineage(v)   BY <1>2 DEF CheckLineage
<1>3. CASE Register(v)       BY <1>3 DEF Register
<1>4. CASE CheckAction(v)    BY <1>4 DEF CheckAction
<1>5. CASE CheckCurrent(v)   BY <1>5 DEF CheckCurrent
<1>6. CASE CheckActive(v)    BY <1>6 DEF CheckActive
<1>7. CASE CheckTarget(v)    BY <1>7 DEF CheckTarget
<1>8. CASE Apply(v)          BY <1>8 DEF Apply
<1>9. CASE BeginAuthorize(v) BY <1>9 DEF BeginAuthorize
<1>10. CASE Evaluate(v)      BY <1>10 DEF Evaluate
<1>11. CASE SignVersion(v)   BY <1>11 DEF SignVersion
<1>12. CASE CheckGoverned(v) BY <1>12 DEF CheckGoverned
<1>13. CASE CheckControl(v)  BY <1>13 DEF CheckControl
<1>14. CASE Issue(v)         BY <1>14 DEF Issue
<1> QED
  BY <1>1, <1>2, <1>3, <1>4, <1>5, <1>6, <1>7, <1>8, <1>9, <1>10, <1>11, <1>12,
     <1>13, <1>14 DEF WorkerStep

\* Governed stays governed.
LEMMA GovernedGrows ==
  ASSUME ShapeInv, [Next]_vars
  PROVE  governed \subseteq governed' /\ GovernedChanges \subseteq GovernedChanges'
<1>1. governed \subseteq governed'
  BY Effects DEF Published, Controlled
<1> QED BY <1>1 DEF GovernedChanges

-------------------------------------------------------------------------------
(* The lineage                                                             *)

Grounded(c, D) ==
    \/ c.version = 1 /\ c.parent = NoPolicy
    \/ \E p \in D : p.policy = c.parent /\ p.version + 1 = c.version

\* A change that is about to be registered is grounded already.
LineageInv ==
    /\ \A c \in GovernedChanges : Grounded(c, GovernedChanges)
    /\ \A g, h \in governed : g.document.policy = h.document.policy => g = h
    /\ \A w \in Workers : pc[w] = "register" => Grounded(doc[w], GovernedChanges)

LEMMA ContinuingIsGrounded ==
  ASSUME NEW c, ContinuesLineage(c)
  PROVE  Grounded(c, GovernedChanges)
  BY DEF ContinuesLineage, Grounded, LatestGoverned

LEMMA GroundedStays ==
  ASSUME NEW D, NEW E, D \subseteq E, NEW c, Grounded(c, D)
  PROVE  Grounded(c, E)
  BY DEF Grounded

LEMMA LineageStep == ShapeInv /\ LineageInv /\ [Next]_vars => LineageInv'
<1> SUFFICES ASSUME ShapeInv, LineageInv, [Next]_vars PROVE LineageInv'
  OBVIOUS
<1>1. GovernedChanges \subseteq GovernedChanges'
  BY GovernedGrows
<1>2. ASSUME NEW w \in Workers, pc'[w] = "register"
      PROVE  Grounded(doc'[w], GovernedChanges')
  <2>1. CASE Still(w)
    BY <1>1, <1>2, <2>1, GroundedStays DEF Still, LineageInv
  <2>2. CASE WorkerStep(w)
    <3>1. Found(w) /\ doc'[w] = doc[w]
      BY <1>2, <2>2, WorkerArrives DEF Arrivals
    <3>2. Grounded(doc[w], GovernedChanges)
      BY <1>2, <3>1, ContinuingIsGrounded DEF Found
    <3> QED BY <1>1, <3>1, <3>2, GroundedStays
  <2> QED BY <1>2, <2>1, <2>2, LocalMoves
<1>3. ASSUME UNCHANGED governed
      PROVE  LineageInv'
  BY <1>2, <1>3 DEF LineageInv, GovernedChanges
<1>4. ASSUME NEW w \in Workers, Published(w)
      PROVE  LineageInv'
  <2> DEFINE new == [document |-> doc[w], signers |-> signers[w]]
  <2>1. governed' = governed \cup {new} /\ new.document = doc[w]
    BY <1>4 DEF Published
  <2> HIDE DEF new
  <2>2. GovernedChanges' = GovernedChanges \cup {doc[w]}
    BY <2>1 DEF GovernedChanges
  <2>3. \A c \in GovernedChanges' : Grounded(c, GovernedChanges)
    BY <1>4, <2>2 DEF LineageInv, Published
  <2>4. \A c \in GovernedChanges' : Grounded(c, GovernedChanges')
    BY <1>1, <2>3, GroundedStays
  <2>5. \A g \in governed : g.document.policy # doc[w].policy
    BY <1>4 DEF Published, Duplicate, GovernedChanges
  <2>6. \A g, h \in governed' : g.document.policy = h.document.policy => g = h
    BY <2>1, <2>5 DEF LineageInv
  <2> QED BY <1>2, <2>4, <2>6 DEF LineageInv
<1> QED BY <1>3, <1>4, Effects DEF Controlled

LEMMA LineageInit == Init => LineageInv
  BY DEF Init, LineageInv, GovernedChanges

\* Every governed change continues another one, and a policy is governed once,
\* however many publications validate against the same latest version.
THEOREM LineageGrounded == Spec => []LineageIsGrounded
<1>1. LineageInv => LineageIsGrounded
  BY DEF LineageInv, LineageIsGrounded, Grounded
<1> QED BY <1>1, ShapeInit, ShapeStep, LineageInit, LineageStep, PTL DEF Spec

-------------------------------------------------------------------------------
(* Controls                                                                *)

\* The policies of the governed changes.
GovernedPolicies == {c.policy : c \in GovernedChanges}

\* What the handlers of controls found stays true until they apply them.
ControlInv ==
    /\ ControlIsGoverned
    /\ \A w \in Workers :
          /\ pc[w] \in {"active", "target", "apply"} => doc[w].current \in GovernedPolicies
          /\ pc[w] = "target" => doc[w].kind = "POLICY_ROLLBACK"
          /\ pc[w] = "apply" => Outcome(doc[w]).active \in GovernedPolicies

LEMMA GovernedPolicy == \A p : IsGoverned(p) <=> p \in GovernedPolicies
  BY DEF IsGoverned, GovernedPolicies

LEMMA ControlStep == ShapeInv /\ ControlInv /\ [Next]_vars => ControlInv'
<1> SUFFICES ASSUME ShapeInv, ControlInv, [Next]_vars PROVE ControlInv'
  OBVIOUS
<1>0. GovernedPolicies \subseteq GovernedPolicies'
  BY GovernedGrows DEF GovernedPolicies
<1>1. ASSUME NEW w \in Workers
      PROVE  /\ pc'[w] \in {"active", "target", "apply"} =>
                   doc'[w].current \in GovernedPolicies'
             /\ pc'[w] = "target" => doc'[w].kind = "POLICY_ROLLBACK"
             /\ pc'[w] = "apply" => Outcome(doc'[w]).active \in GovernedPolicies'
  <2>1. CASE Still(w)
    BY <1>0, <2>1 DEF Still, ControlInv
  <2>2. CASE WorkerStep(w) /\ pc'[w] \in {"active", "target", "apply"}
    <3>1. Found(w) /\ doc'[w] = doc[w]
      BY <2>2, WorkerArrives DEF Arrivals
    <3>2. doc[w].current \in GovernedPolicies
      BY <2>2, <3>1, GovernedPolicy DEF Found, ControlInv
    <3>3. pc'[w] = "apply" => Outcome(doc[w]).active \in GovernedPolicies
      <4>1. CASE pc[w] = "active" /\ doc[w].kind = "POLICY_FREEZE"
        BY <3>2, <4>1 DEF Outcome
      <4>2. CASE pc[w] = "target" /\ RollbackTarget(doc[w])
        BY <4>2 DEF ControlInv, Outcome, RollbackTarget, GovernedPolicies
      <4> QED BY <3>1, <4>1, <4>2 DEF Found
    <3> QED BY <1>0, <3>1, <3>2, <3>3 DEF Found
  <2> QED BY <2>1, <2>2, LocalMoves
<1>2. CASE UNCHANGED <<governed, taken, control>> \/ \E w \in Workers : Published(w)
  <2>1. UNCHANGED <<taken, control>>
    BY <1>2 DEF Published
  <2>2. control # NoControl => control.active \in GovernedPolicies'
    BY <1>0, GovernedPolicy DEF ControlInv, ControlIsGoverned
  <2>3. ControlIsGoverned'
    BY <2>1, <2>2 DEF ControlInv, ControlIsGoverned, IsGoverned, GovernedPolicies
  <2> QED BY <1>1, <2>3 DEF ControlInv
<1>3. ASSUME NEW w \in Workers, Controlled(w)
      PROVE  ControlInv'
  <2>1. doc[w] \in Controls
    BY <1>3 DEF Controlled, ShapeInv, WorkInv, Controlling
  <2>2. Outcome(doc[w]).active \in GovernedPolicies' /\ Outcome(doc[w]) # NoControl
    BY <1>0, <1>3, <2>1, OutcomeTyped DEF Controlled, ControlInv
  <2>3. IsGoverned(control.active)'
    BY <1>3, <2>2 DEF Controlled, IsGoverned, GovernedPolicies
  <2> DEFINE new == [document |-> doc[w], signers |-> signers[w]]
  <2>a. taken' = taken \cup {new} /\ new.document = doc[w]
    BY <1>3 DEF Controlled
  <2> HIDE DEF new
  <2>4. \E t \in taken' : Outcome(t.document) = control'
    BY <1>3, <2>a DEF Controlled
  <2>5. taken' # {} /\ control' # NoControl
    BY <1>3, <2>2 DEF Controlled
  <2>6. ControlIsGoverned'
    BY <2>3, <2>4, <2>5, Zenon DEF ControlIsGoverned
  <2> QED BY <1>1, <2>6 DEF ControlInv
<1> QED BY <1>2, <1>3, Effects

LEMMA ControlInit == Init => ControlInv
  BY DEF Init, ControlInv, ControlIsGoverned

\* Only governed policies are ever activated, and the control on record is the
\* outcome of an applied action, although a rollback reads its target, the
\* current policy and the control in calls of their own.
THEOREM ControlGoverned == Spec => []ControlIsGoverned
<1>1. ControlInv => ControlIsGoverned
  BY DEF ControlInv
<1> QED BY <1>1, ShapeInit, ShapeStep, ControlInit, ControlStep, PTL DEF Spec

-------------------------------------------------------------------------------
(* The strict runtime                                                      *)

\* A worker that has passed the check of the change relies on a governed one.
IssueInv ==
    \A w \in Workers :
        /\ pc[w] = "controlled" => \E c \in GovernedChanges : MatchesRunning(c)
        /\ pc[w] = "issue" => live[w]

LEMMA IssueStep == ShapeInv /\ IssueInv /\ [Next]_vars => IssueInv'
<1> SUFFICES ASSUME ShapeInv, IssueInv, [Next]_vars, NEW w \in Workers
             PROVE  /\ pc'[w] = "controlled" =>
                          \E c \in GovernedChanges' : VersionOf(c) = running'
                    /\ pc'[w] = "issue" => live'[w]
  BY DEF IssueInv, MatchesRunning
<1>0. GovernedChanges \subseteq GovernedChanges'
  BY GovernedGrows
<1>1. CASE UNCHANGED vars
  BY <1>0, <1>1 DEF vars, IssueInv, MatchesRunning
<1>2. CASE Still(w) /\ UNCHANGED running /\ Next
  BY <1>0, <1>2 DEF Still, IssueInv, MatchesRunning, Next, Remember, RuntimeSteps
<1>3. CASE WorkerStep(w) /\ Next /\ pc'[w] \in {"controlled", "issue"}
  <2>1. Found(w) /\ UNCHANGED <<governed, taken, control, running>>
    BY <1>3, WorkerArrives DEF Arrivals
  <2>2. pc'[w] = "controlled" => \E c \in GovernedChanges : VersionOf(c) = running
    BY <2>1 DEF Found, MatchesRunning
  <2>3. ASSUME pc'[w] = "issue"
        PROVE  live'[w]
    <3>1. ControlAllows /\ \E c \in GovernedChanges : MatchesRunning(c)
      BY <2>1, <2>3 DEF Found, IssueInv
    <3>2. Enforceable'
      BY <2>1, <3>1 DEF Enforceable, ControlAllows, GovernedChanges, MatchesRunning
    <3> QED BY <1>3, <2>3, <3>2 DEF Next, Remember, RuntimeSteps
  <2> QED BY <1>0, <2>1, <2>2, <2>3
<1> QED BY <1>1, <1>2, <1>3, LocalMoves

\* No authorization is issued unless the policy was governed, active and not
\* frozen at an instant of that very request.
THEOREM IssuedEnforceable == Spec => []IssuesOnlyEnforceable
<1>1. Init => IssueInv
  BY DEF Init, IssueInv
<1>2. IssueInv => IssuesOnlyEnforceable
  BY DEF IssueInv, IssuesOnlyEnforceable
<1> QED BY <1>1, <1>2, ShapeInit, ShapeStep, IssueStep, PTL DEF Spec

-------------------------------------------------------------------------------
(* The quorum gate                                                         *)

LEMMA GateOpens ==
  ASSUME ShapeInv, NEW w \in Workers, Published(w) \/ Controlled(w)
  PROVE  /\ Gate!TakeEffect(doc[w], signers[w])
         /\ doc[w] \in Documents /\ signers[w] \in Gate!Quorums
<1>1. doc[w] \in Documents /\ signers[w] \in Gate!Quorums
  <2>1. /\ doc[w] \in Documents
        /\ signers[w] \subseteq Governors /\ IsQuorum(signers[w])
    BY DEF Published, Controlled, ShapeInv, LocalsOK, WorkInv, Publishing, Controlling,
           Documents
  <2>2. \A S : Gate!Cardinality(S) = Cardinality(S)
    BY DEF Gate!Cardinality, Cardinality
  <2> QED BY <2>1, <2>2 DEF Gate!Quorums, IsQuorum
<1>2. \A e \in governed \cup taken : e.document # doc[w]
  <2>1. CASE Published(w)
    <3>1. doc[w] \in Changes
      BY <2>1 DEF Published, ShapeInv, WorkInv, Publishing
    <3>2. \A e \in governed : e.document # doc[w]
      BY <2>1 DEF Published, Duplicate, GovernedChanges
    <3>3. \A e \in taken : e.document \in Controls
      BY DEF ShapeInv, TablesOK, Effect
    <3> QED BY <3>1, <3>2, <3>3, DocumentsType
  <2>2. CASE Controlled(w)
    <3>1. doc[w] \in Controls
      BY <2>2 DEF Controlled, ShapeInv, WorkInv, Controlling
    <3>2. \A e \in taken : e.document # doc[w]
      BY <2>2 DEF Controlled, Applied
    <3>3. \A e \in governed : e.document \in Changes
      BY DEF ShapeInv, TablesOK, Effect
    <3> QED BY <3>1, <3>2, <3>3, DocumentsType
  <2> QED BY <2>1, <2>2
<1>3. (governed \cup taken)' =
          (governed \cup taken) \cup {[document |-> doc[w], signers |-> signers[w]]}
  BY DEF Published, Controlled
<1> QED BY <1>1, <1>2, <1>3 DEF Gate!TakeEffect

LEMMA GateStep == ShapeInv /\ [Next]_vars => [Gate!Next]_(governed \cup taken)
<1> SUFFICES ASSUME ShapeInv, [Next]_vars
             PROVE  Gate!Next \/ UNCHANGED (governed \cup taken)
  OBVIOUS
<1>1. ASSUME NEW w \in Workers, Published(w) \/ Controlled(w)
      PROVE  Gate!Next
  BY <1>1, GateOpens DEF Gate!Next, ShapeInv, LocalsOK
<1> QED BY <1>1, Effects

\* Changes and controls implement the quorum gate: each takes effect at most
\* once, with the approvals of a quorum of distinct governors.
THEOREM QuorumGateImplemented == Spec => ImplementsQuorumGate
<1>1. Init => Gate!Init
  BY DEF Init, Gate!Init
<1> QED BY <1>1, ShapeInit, ShapeStep, GateStep, PTL
        DEF Spec, ImplementsQuorumGate, Gate!Spec

-------------------------------------------------------------------------------
(* Approvals                                                               *)

RowsOf(c, S) == {[action |-> c, governor |-> g] : g \in S}

\* The digest of a change is bound to other content than the change.
BoundElsewhere(C, c) == C[c.policy] \notin {NoDocument, c}

\* Rows that are still uncommitted belong to changes that can no longer be
\* published, or to changes that already were.
ApprovalInv ==
    /\ \A g \in governed :
          /\ IsQuorum(g.signers)
          /\ RowsOf(g.document, g.signers) \subseteq approvals
          /\ QuorumsMeet =>
                \A a \in approvals \cup pending :
                    a.action = g.document => a.governor \in g.signers
    /\ \A a \in approvals :
          a.action \in GovernedChanges \/ BoundElsewhere(content, a.action)
    /\ \A a \in pending : BoundElsewhere(content, a.action)

\* The tables of approvals and content: rows are committed or rolled back, the
\* runtime stores its copy, a refused publication leaves its rows, or a change
\* is published.
Settles ==
    /\ approvals \subseteq approvals'
    /\ approvals' \cup pending' \subseteq approvals \cup pending
    /\ pending' \subseteq pending
    /\ content' = content \/ content' = [content EXCEPT ![running.policy] = RuntimeCopy]
    /\ UNCHANGED governed

Leaves(w) ==
    /\ pc[w] = "register" /\ Rebound(w)
    /\ pending' = pending \cup ApprovalRows(w)
    /\ UNCHANGED <<approvals, content, governed>>

Publishes(w) ==
    /\ Published(w)
    /\ approvals' = approvals \cup pending \cup ApprovalRows(w)
    /\ pending' = {}
    /\ content' = [content EXCEPT ![doc[w].policy] = doc[w]]

LEMMA TableMoves ==
  ASSUME ShapeInv, [Next]_vars
  PROVE  Settles \/ \E w \in Workers : Leaves(w) \/ Publishes(w)
<1> USE DEF Settles
<1>1. CASE UNCHANGED vars
  BY <1>1 DEF vars
<1>2. ASSUME NEW w \in Workers, NEW list \in Quorate, Request(w, list)
      PROVE  Settles
  BY <1>2, RequestKeeps DEF tables
<1>3. ASSUME NEW c \in Configs, Restart(c)
      PROVE  Settles
  BY <1>3 DEF Restart, Rollback
<1>4. ASSUME NEW w \in Workers, WorkerStep(w)
      PROVE  Settles \/ Leaves(w) \/ Publishes(w)
  <2>1. CASE CheckPublished(w) \/ CheckLineage(w) \/ CheckAction(w) \/ CheckCurrent(w)
             \/ CheckActive(w) \/ CheckTarget(w) \/ BeginAuthorize(w)
             \/ CheckGoverned(w) \/ CheckControl(w)
    BY <2>1 DEF tables, CheckPublished, CheckLineage, CheckAction, CheckCurrent,
                CheckActive, CheckTarget, BeginAuthorize, CheckGoverned, CheckControl
  <2>2. CASE Register(w)
    BY <2>2 DEF Register, Rollback, Leaves, Publishes, Published, runtime
  <2>3. CASE Apply(w) \/ Evaluate(w) \/ Issue(w)
    BY <2>3 DEF Apply, Evaluate, Issue, Commit, Rollback
  <2>4. CASE SignVersion(w)
    BY <2>4 DEF SignVersion, StoreVersion, Commit
  <2> QED BY <1>4, <2>1, <2>2, <2>3, <2>4 DEF WorkerStep
<1> QED BY <1>1, <1>2, <1>3, <1>4 DEF Next, Step

LEMMA SettlesKeeps == ShapeInv /\ ApprovalInv /\ Settles => ApprovalInv'
<1> SUFFICES ASSUME ShapeInv, ApprovalInv, Settles PROVE ApprovalInv'
  OBVIOUS
<1>1. \A c \in Changes : BoundElsewhere(content, c) => BoundElsewhere(content', c)
  BY DocumentsType DEF Settles, BoundElsewhere, ShapeInv, TablesOK, VersionOf, PolicyVersions
<1>2. \A a \in approvals \cup pending : a.action \in Changes
  BY DEF ShapeInv, TablesOK, Approval
<1>3. UNCHANGED <<governed, GovernedChanges>>
  BY DEF Settles, GovernedChanges
<1>4. \A a \in approvals' :
          a.action \in GovernedChanges' \/ BoundElsewhere(content', a.action)
  BY <1>1, <1>2, <1>3 DEF Settles, ApprovalInv
<1>5. \A a \in pending' : BoundElsewhere(content', a.action)
  BY <1>1, <1>2 DEF Settles, ApprovalInv
<1>6. ASSUME NEW g \in governed'
      PROVE  /\ IsQuorum(g.signers)
             /\ RowsOf(g.document, g.signers) \subseteq approvals'
             /\ QuorumsMeet =>
                   \A a \in approvals' \cup pending' :
                       a.action = g.document => a.governor \in g.signers
  BY <1>3, <1>6 DEF Settles, ApprovalInv
<1> QED BY <1>4, <1>5, <1>6 DEF ApprovalInv, QuorumsMeet, IsQuorum, RowsOf

LEMMA LeavesKeeps ==
  ASSUME ShapeInv, ApprovalInv, NEW w \in Workers, Leaves(w)
  PROVE  ApprovalInv'
<1>1. ApprovalRows(w) = RowsOf(doc[w], signers[w]) /\ BoundElsewhere(content, doc[w])
  BY DEF ApprovalRows, RowsOf, Leaves, Rebound, BoundElsewhere
<1>2. UNCHANGED <<governed, GovernedChanges, content, approvals>>
  BY DEF Leaves, GovernedChanges
<1>3. \A a \in pending' : BoundElsewhere(content, a.action)
  BY <1>1 DEF Leaves, ApprovalInv, RowsOf
<1>4. ASSUME NEW g \in governed, QuorumsMeet
      PROVE  g.document # doc[w]
  <2>1. IsQuorum(signers[w]) /\ signers[w] \subseteq Governors
    BY DEF Leaves, ShapeInv, LocalsOK, WorkInv, Publishing
  <2>2. IsQuorum(g.signers) /\ g.signers \subseteq Governors
    BY DEF ApprovalInv, ShapeInv, TablesOK, Effect
  <2>3. PICK s \in g.signers : s \in signers[w]
    BY <1>4, <2>1, <2>2 DEF QuorumsMeet
  <2>4. [action |-> g.document, governor |-> s] \in approvals
    BY <2>3 DEF ApprovalInv, RowsOf
  <2>5. [action |-> doc[w], governor |-> s] \in ApprovalRows(w)
    BY <2>3 DEF ApprovalRows
  <2> QED BY <2>4, <2>5 DEF Leaves, Rebound
<1>5. ASSUME NEW g \in governed, QuorumsMeet, NEW a \in approvals \cup pending',
             a.action = g.document
      PROVE  a.governor \in g.signers
  <2>1. a \in approvals \cup pending
    BY <1>1, <1>4, <1>5 DEF Leaves, RowsOf
  <2> QED BY <1>5, <2>1 DEF ApprovalInv
<1>6. \A a \in approvals :
          a.action \in GovernedChanges \/ BoundElsewhere(content, a.action)
  BY DEF ApprovalInv
<1>7. \A g \in governed :
          IsQuorum(g.signers) /\ RowsOf(g.document, g.signers) \subseteq approvals
  BY DEF ApprovalInv
<1> QED BY <1>2, <1>3, <1>5, <1>6, <1>7 DEF ApprovalInv, QuorumsMeet, IsQuorum, RowsOf

LEMMA PublishesKeeps ==
  ASSUME ShapeInv, ApprovalInv, NEW w \in Workers, Publishes(w)
  PROVE  ApprovalInv'
<1> DEFINE c == doc[w]
           S == signers[w]
           new == [document |-> c, signers |-> S]
           rows == RowsOf(c, S)
<1>1. /\ c \in Changes /\ c.policy \in Policies /\ IsQuorum(S)
      /\ content \in [Policies -> Changes \cup {RuntimeCopy, NoDocument}]
  BY RowsAreApprovals DEF Publishes, Published, ShapeInv, TablesOK, WorkInv, Publishing
<1>2. /\ governed' = governed \cup {new} /\ approvals' = approvals \cup pending \cup rows
      /\ pending' = {} /\ content' = [content EXCEPT ![c.policy] = c]
  BY DEF Publishes, Published, ApprovalRows, RowsOf
<1>3. /\ rows \cap (approvals \cup pending) = {} /\ c \notin GovernedChanges
      /\ content[c.policy] \in {NoDocument, c}
  BY DEF Publishes, Published, Rebound, Duplicate, ApprovalRows, RowsOf
<1>4. new.document = c /\ new.signers = S
  OBVIOUS
<1>5. \A a \in rows : a.action = c /\ a.governor \in S
  BY DEF RowsOf
<1> HIDE DEF c, S, new, rows
<1>6. \A a \in approvals \cup pending : a.action \in Changes /\ a.action.policy \in Policies
  BY DocumentsType DEF ShapeInv, TablesOK, Approval, VersionOf, PolicyVersions
<1>7. \A a \in approvals \cup pending : a.action # c
  BY <1>3 DEF ApprovalInv, BoundElsewhere
<1>8. \A a \in approvals \cup pending :
          BoundElsewhere(content, a.action) => BoundElsewhere(content', a.action)
  <2> SUFFICES ASSUME NEW a \in approvals \cup pending, BoundElsewhere(content, a.action)
               PROVE  BoundElsewhere(content', a.action)
    OBVIOUS
  <2>1. CASE a.action.policy = c.policy
    <3>1. content'[a.action.policy] = c
      BY <1>1, <1>2, <2>1
    <3>2. c \notin {NoDocument, a.action}
      BY <1>1, <1>7, DocumentsType DEF Documents
    <3> QED BY <3>1, <3>2 DEF BoundElsewhere
  <2>2. CASE a.action.policy # c.policy
    BY <1>1, <1>2, <1>6, <2>2 DEF BoundElsewhere
  <2> QED BY <2>1, <2>2
<1>9. GovernedChanges' = GovernedChanges \cup {c}
  BY <1>2, <1>4 DEF GovernedChanges
<1>10. \A a \in approvals' :
          a.action \in GovernedChanges' \/ BoundElsewhere(content', a.action)
  BY <1>2, <1>5, <1>8, <1>9 DEF ApprovalInv
<1>11. ASSUME NEW g \in governed
       PROVE  /\ IsQuorum(g.signers)
              /\ RowsOf(g.document, g.signers) \subseteq approvals'
              /\ QuorumsMeet =>
                    \A a \in approvals' : a.action = g.document => a.governor \in g.signers
  <2>1. g.document # c
    BY <1>3 DEF GovernedChanges
  <2> QED BY <1>2, <1>5, <2>1 DEF ApprovalInv
<1>12. /\ IsQuorum(S) /\ RowsOf(c, S) \subseteq approvals'
       /\ \A a \in approvals' : a.action = c => a.governor \in S
  BY <1>1, <1>2, <1>5, <1>7 DEF rows
<1>13. ASSUME NEW g \in governed'
       PROVE  /\ IsQuorum(g.signers)
              /\ RowsOf(g.document, g.signers) \subseteq approvals'
              /\ QuorumsMeet =>
                    \A a \in approvals' \cup pending' :
                        a.action = g.document => a.governor \in g.signers
  BY <1>2, <1>4, <1>11, <1>12
<1>14. \A a \in pending' : BoundElsewhere(content', a.action)
  BY <1>2
<1> QED BY <1>10, <1>13, <1>14 DEF ApprovalInv, QuorumsMeet, IsQuorum, RowsOf

LEMMA ApprovalInit == Init => ApprovalInv
  BY DEF Init, ApprovalInv

\* A governed change has the approvals of its quorum on record and no others
\* where any two quorums share a governor, and approvals of a change that was
\* not published are there only if its digest is bound to other content.
THEOREM ChangesAreBacked == Spec => []ApprovalsBackChanges
<1>1. ApprovalInv => ApprovalsBackChanges
  <2> SUFFICES ASSUME ApprovalInv PROVE ApprovalsBackChanges
    OBVIOUS
  <2>1. ASSUME NEW g \in governed
        PROVE  /\ g.signers \subseteq ApproversOf(g.document)
               /\ QuorumsMeet => ApproversOf(g.document) \subseteq g.signers
    <3>1. \A s \in g.signers :
              [action |-> g.document, governor |-> s] \in approvals
      BY <2>1 DEF ApprovalInv, RowsOf
    <3>2. QuorumsMeet => ApproversOf(g.document) \subseteq g.signers
      BY <2>1 DEF ApprovalInv, ApproversOf
    <3>3. ASSUME NEW s \in g.signers
          PROVE  s \in ApproversOf(g.document)
      <4> DEFINE row == [action |-> g.document, governor |-> s]
      <4>1. row \in approvals /\ row.action = g.document /\ row.governor = s
        BY <3>1, <3>3
      <4> HIDE DEF row
      <4> QED BY <4>1 DEF ApproversOf
    <3> QED BY <3>2, <3>3
  <2> QED BY <2>1 DEF ApprovalInv, ApprovalsBackChanges, BoundElsewhere
<1>2. ShapeInv /\ ApprovalInv /\ [Next]_vars => ApprovalInv'
  BY TableMoves, SettlesKeeps, LeavesKeeps, PublishesKeeps
<1> QED BY <1>1, <1>2, ShapeInit, ShapeStep, ApprovalInit, PTL DEF Spec
===============================================================================
