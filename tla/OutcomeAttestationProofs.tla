----------------------- MODULE OutcomeAttestationProofs ------------------------
(***************************************************************************)
(* Outcomes, learning and lifecycle proofs of one execution, for any       *)
(* number of callers of the API, attestors, claims, documents and failures.*)
(***************************************************************************)
EXTENDS OutcomeAttestation, TLAPS

Checking == {"claim", "recordClaim", "recordAttestation"}
Governing == {"change", "recordAction"}
Building == {"receipt", "claims", "attestations", "verify", "verifyClaim", "history",
             "events"}

\* The claim agrees with the receipt it names, which has been on record.
Held(c) == c.receipt \in recorded /\ Agrees(c, c.receipt)

\* The event stands for an attestation on record that teaches it.
Learned(e) ==
    \E t \in attestations :
        /\ t.id = e.attestation
        /\ t.claim \in claims /\ t.claim.id = e.claim
        /\ t.type # SelfReport
        /\ t.claim.status \in Terminal /\ e.verdict = Verdict(t.claim)

InLedger(e) == \E k \in DOMAIN ledger : Same(ledger[k], e)

\* A row that has been settled stays settled.
RowOK ==
    /\ receipt \in Receipts \cup {Absent} /\ recorded \subseteq Receipts
    /\ receipt # Absent => receipt \in recorded
    /\ \A r \in recorded : r.status \in Settled => receipt.status \in Settled

TablesOK ==
    /\ RowOK
    /\ attestors \in [Attestors -> Rows \cup {Absent}]
    /\ actions \subseteq Documents
    /\ claims \subseteq Claims /\ attestations \subseteq Attestations
    /\ events \subseteq Events /\ ledger \in Seq(Events)
    /\ now \in 0..MaxTime /\ failures \in 0..MaxFailures

KeysOK ==
    /\ \A x, y \in claims : x.id = y.id => x = y
    /\ \A x, y \in attestations : x.id = y.id => x = y
    /\ \A e \in events : e.first

LocalsOK ==
    /\ pc \in [Threads -> {"idle", "event", "ledger", "snapshot"}
                            \cup Checking \cup Governing \cup Building]
    /\ work \in [Threads -> Attestations \cup Documents \cup {None}]
    /\ built \in [Threads -> Events \cup {None}]

ThreadOK(w) ==
    /\ pc[w] \in Checking => work[w] \in Attestations
    /\ pc[w] \in {"recordClaim", "recordAttestation"} => Held(work[w].claim)
    /\ pc[w] = "recordAttestation" => work[w].claim \in claims
    /\ pc[w] = "event" => work[w] \in attestations /\ Teaches(work[w])
    /\ pc[w] \in Governing => work[w] \in Documents
    /\ pc[w] = "change" /\ work[w].action # "REGISTER" =>
          attestors[work[w].attestor] # Absent
    /\ pc[w] = "ledger" => built[w] \in Events /\ Learned(built[w])
    /\ pc[w] = "snapshot" /\ built[w] # None => InLedger(built[w])
    /\ pc[w] \notin {"ledger", "snapshot"} => built[w] = None

\* What the tables say of one another.
RecordsOK ==
    /\ \A c \in claims : Held(c)
    /\ \A t \in attestations : t.claim \in claims
    /\ \A e \in events : Learned(e)
    /\ \A k \in DOMAIN ledger : Learned(ledger[k])

ObjectOK ==
    /\ outcome # None => outcome \in attestations
    /\ LearningIsLedgered

\* What the lifecycle object has read and verified by the time of each step.
GraphOK(g) ==
    /\ {"ledger", "since", "live"} \subseteq DOMAIN g
    /\ g.ledger \subseteq ToSet(ledger)
    /\ g.since \in Nat /\ g.since <= now
    /\ ActivePairs(attestors) \subseteq g.live

ClaimRead(g) == "claim" \in DOMAIN g /\ g.claim \in claims
AttestationRead(g) == "attestation" \in DOMAIN g /\ g.attestation \in attestations
AttestorLived(g) == <<g.attestation.attestor, g.attestation.key>> \in g.live
ActionRead(g) ==
    "action" \in DOMAIN g /\ g.action \in actions /\ g.since < g.action.ends

Evidence(step, g) ==
    /\ step \in Building => GraphOK(g)
    /\ step \in Building \ {"receipt"} => g.since <= AuthorizationEnds
    /\ step \in Building \ {"receipt", "claims"} => ClaimRead(g)
    /\ step \in {"verify", "verifyClaim", "history", "events"} => AttestationRead(g)
    /\ step \in {"verifyClaim", "history", "events"} => AttestorLived(g)
    /\ step = "events" => ActionRead(g)

\* A proof that is kept, without what has become of the receipt since.
ProofOK ==
    proof # None =>
        /\ proof.attestation \in attestations
        /\ proof.claim = proof.attestation.claim /\ proof.claim \in claims
        /\ proof.attestation.type # SelfReport
        /\ proof.event \in events \cap ToSet(ledger)
        /\ proof.event.attestation = proof.attestation.id
        /\ proof.claim.receipt \in recorded /\ proof.claim.receipt.status \in Settled
        /\ proof.action \in actions
        /\ proof.action.attestor = proof.attestation.attestor

Inv ==
    /\ TablesOK /\ KeysOK /\ LocalsOK /\ \A w \in Threads : ThreadOK(w)
    /\ RecordsOK /\ ObjectOK /\ Evidence(pc[Genesis], graph) /\ ProofOK

-------------------------------------------------------------------------------
(* What every step keeps                                                   *)

Kept ==
    /\ claims \subseteq claims' /\ attestations \subseteq attestations'
    /\ actions \subseteq actions' /\ events \subseteq events'
    /\ ToSet(ledger) \subseteq ToSet(ledger')
    /\ recorded \subseteq recorded'
    /\ \A a \in Attestors : attestors[a] # Absent => attestors'[a] # Absent

Stays(w) == pc'[w] = pc[w] /\ work'[w] = work[w] /\ built'[w] = built[w]

LEMMA LearnedKept ==
  ASSUME Kept, NEW e, Learned(e)
  PROVE  Learned(e)'
  BY DEF Kept, Learned

LEMMA InLedgerKept ==
  ASSUME Kept, NEW e, InLedger(e)
  PROVE  InLedger(e)'
<1>1. PICK k \in DOMAIN ledger : Same(ledger[k], e)
  BY DEF InLedger
<1>2. PICK j \in DOMAIN ledger' : ledger'[j] = ledger[k]
  BY DEF Kept, ToSet
<1> QED BY <1>1, <1>2 DEF InLedger, Same

LEMMA HeldKept ==
  ASSUME Kept, NEW c, Held(c)
  PROVE  Held(c)'
  BY DEF Kept, Held, Agrees

LEMMA StaysOK ==
  ASSUME NEW w \in Threads, ThreadOK(w), Kept, Stays(w)
  PROVE  ThreadOK(w)'
<1> DEFINE x == work[w]
           e == built[w]
<1>1. work'[w] = x /\ built'[w] = e /\ pc'[w] = pc[w]
  BY DEF Stays
<1>2. pc[w] \in {"recordClaim", "recordAttestation"} => Held(x.claim)
  BY DEF ThreadOK
<1>3. pc[w] = "ledger" => Learned(e)
  BY DEF ThreadOK
<1>4. pc[w] = "snapshot" /\ e # None => InLedger(e)
  BY DEF ThreadOK
<1>5. pc[w] = "change" /\ x.action # "REGISTER" => attestors'[x.attestor] # Absent
  BY DocumentsType DEF ThreadOK, Governing, IsDocument, Kept
<1>6. /\ pc[w] \in Checking => x \in Attestations
      /\ pc[w] = "recordAttestation" => x.claim \in claims'
      /\ pc[w] = "event" => x \in attestations' /\ Teaches(x)
      /\ pc[w] \in Governing => x \in Documents
      /\ pc[w] = "ledger" => e \in Events
      /\ pc[w] \notin {"ledger", "snapshot"} => e = None
  BY DEF ThreadOK, Kept
<1> HIDE DEF x, e
<1>7. pc[w] \in {"recordClaim", "recordAttestation"} => Held(work[w].claim)'
  <2>1. \A c : Held(c) => Held(c)'
    BY HeldKept
  <2> QED BY <1>1, <1>2, <2>1 DEF Held
<1>8. pc[w] = "ledger" => Learned(built[w])'
  <2>1. \A y : Learned(y) => Learned(y)'
    BY LearnedKept
  <2> QED BY <1>1, <1>3, <2>1 DEF Learned
<1>9. pc[w] = "snapshot" /\ e # None => InLedger(built[w])'
  <2>1. \A y : InLedger(y) => InLedger(y)'
    BY InLedgerKept
  <2> QED BY <1>1, <1>4, <2>1 DEF InLedger
<1> QED BY <1>1, <1>5, <1>6, <1>7, <1>8, <1>9 DEF ThreadOK

LEMMA RowsPresent ==
  ASSUME NEW r \in Rows
  PROVE  r # Absent
  BY DEF Rows, Absent

LEMMA EnactedRow ==
  ASSUME NEW d \in Documents, NEW r \in Rows \cup {Absent},
         r = Absent => d.action = "REGISTER"
  PROVE  Enacted(d, r) \in Rows
<1>1. IsDocument(d)
  BY DocumentsType
<1>2. CASE d.action \in {"REGISTER", "ROTATE"}
  <2>1. Enacted(d, r) = [status |-> "ACTIVE", key |-> d.key, type |-> d.type, term |-> d.term]
    BY <1>2 DEF Enacted
  <2> QED BY <1>1, <1>2, <2>1 DEF Rows, IsDocument
<1>3. CASE d.action \in {"ACTIVATE", "REVOKE", "EXPIRE"}
  <2>1. r \in Rows
    BY <1>3
  <2>2. PICK x \in {"ACTIVE", "REVOKED", "EXPIRED"} : Enacted(d, r) = [r EXCEPT !.status = x]
    BY <1>3 DEF Enacted
  <2> QED BY <2>1, <2>2 DEF Rows
<1> QED BY <1>1, <1>2, <1>3 DEF IsDocument

LEMMA ChangeEnacts ==
  ASSUME Inv, NEW w \in Threads, Change(w)
  PROVE  attestors' \in [Attestors -> Rows \cup {Absent}] /\ Kept
<1>1. attestors \in [Attestors -> Rows \cup {Absent}]
  BY DEF Inv, TablesOK
<1>2. /\ pc[w] = "change"
      /\ UNCHANGED <<receipt, recorded, actions, claims, attestations, events, ledger>>
  BY DEF Change, execution, outcomes
<1>3. CASE UNCHANGED attestors
  BY <1>1, <1>2, <1>3 DEF Kept
<1>4. CASE attestors' = [attestors EXCEPT ![work[w].attestor] =
                           Enacted(work[w], attestors[work[w].attestor])]
  <2> DEFINE d == work[w]
  <2>1. d \in Documents /\ (d.action # "REGISTER" => attestors[d.attestor] # Absent)
    BY <1>2 DEF Inv, ThreadOK, Governing
  <2>2. d.attestor \in Attestors
    BY <2>1, DocumentsType DEF IsDocument
  <2>3. Enacted(d, attestors[d.attestor]) \in Rows
    BY <1>1, <2>1, <2>2, EnactedRow
  <2> HIDE DEF d
  <2>4. attestors' \in [Attestors -> Rows \cup {Absent}]
    BY <1>1, <1>4, <2>3 DEF d
  <2>5. \A a \in Attestors : attestors[a] # Absent => attestors'[a] # Absent
    BY <1>1, <1>4, <2>3, RowsPresent DEF d
  <2> QED BY <1>2, <2>4, <2>5 DEF Kept
<1> QED BY <1>3, <1>4 DEF Change

LEMMA SettleKept ==
  ASSUME NEW r \in Receipts, Settle(r)
  PROVE  Kept
  BY DEF Settle, Kept, execution, registry, outcomes

LEMMA LedgerKept ==
  ASSUME ledger \in Seq(Events), NEW e \in Events,
         ledger' = ledger \/ ledger' = Append(ledger, e)
  PROVE  ledger' \in Seq(Events) /\ ToSet(ledger) \subseteq ToSet(ledger')
<1>1. CASE ledger' = ledger
  BY <1>1
<1>2. CASE ledger' = Append(ledger, e)
  BY <1>2 DEF ToSet
<1> QED BY <1>1, <1>2

LEMMA AppendKept ==
  ASSUME Inv, NEW w \in Threads, AppendLedger(w)
  PROVE  ledger' \in Seq(Events) /\ Kept
<1>1. built[w] \in Events
  BY DEF Inv, ThreadOK, AppendLedger
<1>2. ledger' = ledger \/ ledger' = Append(ledger, built[w])
  BY DEF AppendLedger
<1>3. ledger \in Seq(Events)
  BY DEF Inv, TablesOK
<1> QED BY <1>1, <1>2, <1>3, LedgerKept DEF AppendLedger, Kept, execution, registry

\* Steps that leave the tables alone, and the other commits.
ReadStep ==
    \/ \E w \in Callers : GovernAttestor(w) \/ AttestOutcome(w)
    \/ Observe
    \/ \E w \in Threads : CheckClaim(w) \/ Fail(w)
    \/ Learn \/ Snapshot
    \/ Prove \/ ReadReceipt \/ ReadClaims \/ ReadAttestations
    \/ VerifyAttestor \/ VerifyClaim \/ ReadHistory \/ Seal
    \/ Tick

LEMMA ReadStepReads ==
  ASSUME ReadStep
  PROVE  UNCHANGED <<receipt, recorded, attestors, actions, claims, attestations, events,
                     ledger>>
  BY DEF ReadStep, GovernAttestor, Apply, AttestOutcome, Attest, Observe, CheckClaim,
         Fail, Learn, Snapshot, Prove, ReadReceipt, ReadClaims, ReadAttestations,
         VerifyAttestor, VerifyClaim, ReadHistory, Seal, Tick, execution, registry,
         outcomes

LEMMA NextSteps ==
  ASSUME Next
  PROVE  \/ ReadStep
         \/ \E w \in Callers : Change(w) \/ RecordAction(w)
         \/ \E w \in Threads : \/ RecordClaim(w) \/ RecordAttestation(w)
                               \/ RecordEvent(w) \/ AppendLedger(w)
         \/ \E r \in Receipts : Settle(r)
  BY DEF Next, ReadStep

LEMMA StepKept ==
  ASSUME Inv, Next
  PROVE  Kept
<1>1. CASE ReadStep
  BY <1>1, ReadStepReads DEF Kept
<1>2. ASSUME NEW w \in Callers, Change(w) \/ RecordAction(w) PROVE Kept
  <2>1. CASE Change(w)
    BY <2>1, ChangeEnacts DEF Threads
  <2>2. CASE RecordAction(w)
    BY <2>2 DEF RecordAction, execution, outcomes, Kept
  <2> QED BY <1>2, <2>1, <2>2
<1>3. ASSUME NEW w \in Threads, RecordClaim(w) \/ RecordAttestation(w)
      PROVE  Kept
  BY <1>3 DEF RecordClaim, RecordAttestation, execution, registry, Kept
<1>4. ASSUME NEW w \in Threads, RecordEvent(w) PROVE Kept
  BY <1>4 DEF RecordEvent, execution, registry, Kept
<1>5. ASSUME NEW w \in Threads, AppendLedger(w) PROVE Kept
  BY <1>5, AppendKept
<1>6. ASSUME NEW r \in Receipts, Settle(r) PROVE Kept
  BY <1>6, SettleKept
<1> QED BY <1>1, <1>2, <1>3, <1>4, <1>5, <1>6, NextSteps

-------------------------------------------------------------------------------
(* Types                                                                   *)

LEMMA AbsentStatus == Absent.status \notin Settled
  BY DEF Absent, Settled

\* Without a reorganization the row keeps every final status it has held.
LEMMA StatusStands ==
  ASSUME RowOK, ~Reorged, NEW r \in recorded, r.status \in Settled
  PROVE  receipt.status = r.status
  BY AbsentStatus DEF RowOK, Reorged, Settled

LEMMA EventTyped ==
  ASSUME NEW t \in Attestations, t.claim.status \in Terminal
  PROVE  Event(t) \in Events
<1>1. t.claim \in Claims
  BY DEF Claims
<1> QED BY <1>1 DEF Event, Events, Verdict

LEMMA InitTypes ==
  ASSUME Init
  PROVE  TablesOK /\ KeysOK /\ LocalsOK /\ \A w \in Threads : ThreadOK(w)
<1>1. attestors \in [Attestors -> Rows \cup {Absent}]
  <2>1. \A a \in DOMAIN Bootstrapped : Bootstrapped[a] \in Rows
    BY BootstrappedType DEF IsRow, Rows
  <2> QED BY <2>1 DEF Init
<1>2. TablesOK
  BY <1>1, BoundType DEF Init, TablesOK, RowOK
<1>3. KeysOK
  BY DEF Init, KeysOK
<1>4. LocalsOK
  BY DEF Init, LocalsOK
<1>5. \A w \in Threads : ThreadOK(w)
  BY DEF Init, ThreadOK, Checking, Governing
<1> QED BY <1>2, <1>3, <1>4, <1>5

LEMMA SettleRow ==
  ASSUME RowOK, NEW r \in Receipts, Settle(r)
  PROVE  RowOK'
<1>1. receipt' = r /\ recorded' = recorded \cup {r}
  BY DEF Settle
<1>2. CASE receipt = Absent
  <2>1. \A q \in recorded : q.status \notin Settled
    BY <1>2, AbsentStatus DEF RowOK
  <2> QED BY <1>1, <2>1 DEF RowOK
<1>3. CASE receipt # Absent
  <2>1. r.status \in Settled
    BY <1>3 DEF Settle
  <2> QED BY <1>1, <2>1 DEF RowOK
<1> QED BY <1>2, <1>3

LEMMA TablesStep ==
  ASSUME Inv, Next
  PROVE  TablesOK'
<1>0. UNCHANGED <<receipt, recorded>> => RowOK'
  BY DEF Inv, TablesOK, RowOK
<1> USE DEF Inv, TablesOK
<1>1. CASE ReadStep
  <2>1. now' \in 0..MaxTime /\ failures' \in 0..MaxFailures
    BY <1>1, BoundType
       DEF ReadStep, GovernAttestor, Apply, AttestOutcome, Attest, Observe, CheckClaim,
           Fail, Learn, Snapshot, Prove, ReadReceipt, ReadClaims, ReadAttestations,
           VerifyAttestor, VerifyClaim, ReadHistory, Seal, Tick
  <2> QED BY <1>0, <1>1, <2>1, ReadStepReads
<1>2. ASSUME NEW w \in Callers, Change(w) PROVE TablesOK'
  BY <1>0, <1>2, ChangeEnacts DEF Threads, Change, execution, outcomes
<1>3. ASSUME NEW w \in Callers, RecordAction(w) PROVE TablesOK'
  <2>1. work[w] \in Documents
    BY <1>3 DEF Threads, RecordAction, ThreadOK, Governing
  <2> QED BY <1>0, <1>3, <2>1 DEF RecordAction, execution, outcomes
<1>4. ASSUME NEW w \in Threads, RecordClaim(w) PROVE TablesOK'
  <2>1. work[w].claim \in Claims
    BY <1>4 DEF RecordClaim, ThreadOK, Checking, Claims
  <2> QED BY <1>0, <1>4, <2>1 DEF RecordClaim, execution, registry
<1>5. ASSUME NEW w \in Threads, RecordAttestation(w) PROVE TablesOK'
  <2>1. work[w] \in Attestations
    BY <1>5 DEF RecordAttestation, ThreadOK, Checking
  <2> QED BY <1>0, <1>5, <2>1 DEF RecordAttestation, execution, registry
<1>6. ASSUME NEW w \in Threads, RecordEvent(w) PROVE TablesOK'
  <2>1. Event(work[w]) \in Events
    BY <1>6, EventTyped DEF RecordEvent, ThreadOK, Teaches
  <2> QED BY <1>0, <1>6, <2>1 DEF RecordEvent, execution, registry
<1>7. ASSUME NEW w \in Threads, AppendLedger(w) PROVE TablesOK'
  BY <1>0, <1>7, AppendKept DEF AppendLedger, execution, registry
<1>8. ASSUME NEW r \in Receipts, Settle(r) PROVE TablesOK'
  BY <1>8, SettleRow DEF Settle, registry, outcomes
<1> QED BY <1>1, <1>2, <1>3, <1>4, <1>5, <1>6, <1>7, <1>8, NextSteps

LEMMA KeysStep ==
  ASSUME Inv, Next
  PROVE  KeysOK'
<1> USE DEF Inv, KeysOK
<1>1. CASE UNCHANGED <<claims, attestations, events>>
  BY <1>1
<1>2. ASSUME NEW w \in Threads, RecordClaim(w) PROVE KeysOK'
  BY <1>2 DEF RecordClaim, Clashes
<1>3. ASSUME NEW w \in Threads, RecordAttestation(w) PROVE KeysOK'
  BY <1>3 DEF RecordAttestation, Clashes
<1>4. ASSUME NEW w \in Threads, RecordEvent(w) PROVE KeysOK'
  BY <1>4 DEF RecordEvent
<1>5. CASE ReadStep
  BY <1>1, <1>5, ReadStepReads
<1>6. ASSUME NEW w \in Threads, Change(w) \/ RecordAction(w) \/ AppendLedger(w)
      PROVE  KeysOK'
  BY <1>1, <1>6 DEF Change, RecordAction, AppendLedger, outcomes
<1>7. ASSUME NEW r \in Receipts, Settle(r) PROVE KeysOK'
  BY <1>1, <1>7 DEF Settle, outcomes
<1> QED BY <1>2, <1>3, <1>4, <1>5, <1>6, <1>7, NextSteps DEF Threads

-------------------------------------------------------------------------------
(* Threads                                                                 *)

\* The steps of a thread, by how they move it.
CallerStep(w) ==
    \/ GovernAttestor(w) \/ Change(w) \/ RecordAction(w) \/ AttestOutcome(w)

CommonStep(w) ==
    \/ CheckClaim(w) \/ RecordClaim(w) \/ RecordAttestation(w)
    \/ RecordEvent(w) \/ AppendLedger(w) \/ Fail(w)

BuildStep ==
    \/ ReadReceipt \/ ReadClaims \/ ReadAttestations \/ VerifyAttestor \/ VerifyClaim
    \/ ReadHistory \/ Seal

GenesisStep == Observe \/ Learn \/ Snapshot \/ Prove \/ BuildStep

LEMMA ByThread ==
  ASSUME Next
  PROVE  \/ \E w \in Callers : CallerStep(w)
         \/ \E w \in Threads : CommonStep(w)
         \/ GenesisStep
         \/ Tick \/ \E r \in Receipts : Settle(r)
  BY DEF Next, CallerStep, CommonStep, GenesisStep, BuildStep

\* Where a step leaves the thread that takes it.
Moved(w) ==
    \/ Return(w)
    \/ \E step \in {"event", "ledger", "snapshot"} \cup Checking \cup Governing
                     \cup Building :
          /\ Goto(w, step)
          /\ \/ work' = work
             \/ \E x \in Attestations \cup Documents \cup {None} : work' = [work EXCEPT ![w] = x]
          /\ \/ built' = built
             \/ \E e \in Events : built' = [built EXCEPT ![w] = e]

LEMMA MovedLocals ==
  ASSUME LocalsOK, NEW w \in Threads, Moved(w)
  PROVE  LocalsOK' /\ \A v \in Threads \ {w} : Stays(v)
<1>1. CASE Return(w)
  BY <1>1 DEF Return, Goto, LocalsOK, Stays
<1>2. CASE ~Return(w)
  <2>1. PICK step \in {"event", "ledger", "snapshot"} \cup Checking \cup Governing
                         \cup Building : Goto(w, step)
    BY <1>2 DEF Moved
  <2>2. PICK x \in Attestations \cup Documents \cup {None} :
          work' = work \/ work' = [work EXCEPT ![w] = x]
    BY <1>2 DEF Moved
  <2>3. PICK e \in Events \cup {None} : built' = built \/ built' = [built EXCEPT ![w] = e]
    BY <1>2 DEF Moved
  <2>4. LocalsOK'
    BY <2>1, <2>2, <2>3 DEF LocalsOK, Goto
  <2>5. \A v \in Threads \ {w} : Stays(v)
    BY <2>1, <2>2, <2>3 DEF LocalsOK, Goto, Stays
  <2> QED BY <2>4, <2>5
<1> QED BY <1>1, <1>2

LEMMA CallerMoved ==
  ASSUME Inv, NEW w \in Callers, CallerStep(w)
  PROVE  Moved(w)
  BY DEF CallerStep, GovernAttestor, Apply, Change, RecordAction, AttestOutcome, Attest,
         Begin, Continue, Moved, Checking, Governing

LEMMA CommonMoved ==
  ASSUME Inv, NEW w \in Threads, CommonStep(w)
  PROVE  Moved(w)
<1>1. CASE RecordEvent(w)
  <2>1. Event(work[w]) \in Events
    BY <1>1, EventTyped DEF RecordEvent, Inv, ThreadOK, Teaches, TablesOK
  <2> QED BY <1>1, <2>1 DEF RecordEvent, Moved
<1>2. CASE AppendLedger(w)
  BY <1>2 DEF AppendLedger, Continue, Moved
<1>3. CASE CheckClaim(w) \/ RecordClaim(w) \/ Fail(w)
  BY <1>3 DEF CheckClaim, RecordClaim, Fail, Continue, Moved, Checking
<1>4. CASE RecordAttestation(w)
  BY <1>4 DEF RecordAttestation, Continue, Moved
<1> QED BY <1>1, <1>2, <1>3, <1>4 DEF CommonStep

LEMMA GenesisMoved ==
  ASSUME Inv, GenesisStep
  PROVE  Moved(Genesis)
<1>1. CASE Observe
  BY <1>1 DEF Observe, Attest, Begin, Moved, Checking
<1>2. CASE Learn
  BY <1>2 DEF Learn, Begin, Moved, Inv, ObjectOK, TablesOK
<1>3. CASE Snapshot
  BY <1>3 DEF Snapshot, Moved
<1>4. CASE Prove
  BY <1>4 DEF Prove, Begin, Moved, Building
<1>5. CASE BuildStep
  BY <1>5 DEF BuildStep, ReadReceipt, ReadClaims, ReadAttestations, VerifyAttestor,
              VerifyClaim, ReadHistory, Seal, Refuse, Continue, Moved, Building
<1> QED BY <1>1, <1>2, <1>3, <1>4, <1>5 DEF GenesisStep

\* What a thread that moves knows at its next step.
LEMMA ReturnOK ==
  ASSUME LocalsOK, NEW w \in Threads, Return(w)
  PROVE  ThreadOK(w)'
  BY DEF LocalsOK, Return, Goto, ThreadOK, Checking, Governing

LEMMA IdleOK ==
  ASSUME Inv, NEW w \in Threads, pc[w] \notin {"ledger", "snapshot"}
  PROVE  built[w] = None
  BY DEF Inv, ThreadOK

LEMMA AttestOK ==
  ASSUME Inv, NEW w \in Threads, NEW t \in Attestations, Attest(w, t)
  PROVE  ThreadOK(w)'
<1>1. pc[w] = "idle" /\ pc'[w] = "claim" /\ work'[w] = t /\ built'[w] = built[w]
  BY DEF Inv, LocalsOK, Attest, Begin, Goto
<1>2. built[w] = None
  BY <1>1, IdleOK
<1> QED BY <1>1, <1>2 DEF ThreadOK, Checking, Governing

LEMMA CallerOK ==
  ASSUME Inv, NEW w \in Callers, CallerStep(w)
  PROVE  ThreadOK(w)'
<1> USE DEF Threads
<1>1. LocalsOK
  BY DEF Inv
<1>2. CASE AttestOutcome(w)
  BY <1>2, AttestOK DEF AttestOutcome
<1>3. ASSUME NEW d \in Documents, Apply(w, d) PROVE ThreadOK(w)'
  <2>1. /\ pc[w] = "idle" /\ pc'[w] = "change" /\ work'[w] = d /\ built'[w] = built[w]
        /\ attestors' = attestors /\ (d.action # "REGISTER" => attestors[d.attestor] # Absent)
    BY <1>1, <1>3 DEF LocalsOK, Apply, Begin, Goto, registry
  <2>2. built[w] = None
    BY <2>1, IdleOK
  <2> QED BY <2>1, <2>2 DEF ThreadOK, Checking, Governing
<1>4. CASE Change(w)
  <2>1. CASE Continue(w, "recordAction")
    <3>1. /\ pc[w] = "change" /\ pc'[w] = "recordAction" /\ work'[w] = work[w]
          /\ built'[w] = built[w]
      BY <1>1, <1>4, <2>1 DEF LocalsOK, Change, Continue, Goto
    <3>2. built[w] = None /\ work[w] \in Documents
      BY <3>1, IdleOK DEF Inv, ThreadOK, Governing
    <3> QED BY <3>1, <3>2 DEF ThreadOK, Checking, Governing
  <2> QED BY <1>1, <1>4, <2>1, ReturnOK DEF Change
<1>5. CASE RecordAction(w)
  BY <1>1, <1>5, ReturnOK DEF RecordAction
<1> QED BY <1>2, <1>3, <1>4, <1>5 DEF CallerStep, GovernAttestor

LEMMA CommonOK ==
  ASSUME Inv, NEW w \in Threads, CommonStep(w)
  PROVE  ThreadOK(w)'
<1>1. LocalsOK /\ (Return(w) => ThreadOK(w)')
  BY ReturnOK DEF Inv
<1>2. ASSUME NEW step \in {"recordClaim", "recordAttestation", "event", "snapshot"},
             Continue(w, step)
      PROVE  pc'[w] = step /\ work'[w] = work[w] /\ built'[w] = built[w]
  BY <1>1, <1>2 DEF LocalsOK, Continue, Goto
<1>3. CASE CheckClaim(w)
  <2>1. CASE ClaimHolds(work[w]) /\ Continue(w, "recordClaim")
    <3>1. pc[w] = "claim" /\ recorded' = recorded /\ built[w] = None
      BY <1>3, IdleOK DEF CheckClaim, execution
    <3>2. work[w] \in Attestations
      BY <3>1 DEF Inv, ThreadOK, Checking
    <3>3. Held(work[w].claim)
      <4>1. receipt # Absent /\ work[w].claim.receipt = receipt
        BY <2>1 DEF ClaimHolds, OnRecord
      <4>2. receipt \in recorded
        BY <4>1 DEF Inv, TablesOK, RowOK
      <4> QED BY <2>1, <4>1, <4>2 DEF ClaimHolds, Held, Agrees
    <3>4. pc'[w] = "recordClaim" /\ work'[w] = work[w] /\ built'[w] = built[w]
      BY <1>2, <2>1
    <3> QED BY <3>1, <3>2, <3>3, <3>4 DEF ThreadOK, Checking, Governing, Held, Agrees
  <2> QED BY <1>1, <1>3, <2>1 DEF CheckClaim
<1>4. CASE RecordClaim(w)
  <2>1. CASE Continue(w, "recordAttestation") /\ claims' = claims \cup {work[w].claim}
    <3>1. pc[w] = "recordClaim" /\ recorded' = recorded /\ built[w] = None
      BY <1>4, IdleOK DEF RecordClaim, execution
    <3>2. work[w] \in Attestations /\ Held(work[w].claim)
      BY <3>1 DEF Inv, ThreadOK, Checking
    <3>3. pc'[w] = "recordAttestation" /\ work'[w] = work[w] /\ built'[w] = built[w]
      BY <1>2, <2>1
    <3> QED BY <2>1, <3>1, <3>2, <3>3 DEF ThreadOK, Checking, Governing, Held, Agrees
  <2> QED BY <1>1, <1>4, <2>1 DEF RecordClaim
<1>5. CASE RecordAttestation(w)
  <2>1. CASE /\ Continue(w, "event") /\ Teaches(work[w])
             /\ attestations' = attestations \cup {work[w]}
    <3>1. built[w] = None
      BY <1>5, IdleOK DEF RecordAttestation
    <3>2. pc'[w] = "event" /\ work'[w] = work[w] /\ built'[w] = built[w]
      BY <1>2, <2>1
    <3> QED BY <2>1, <3>1, <3>2 DEF ThreadOK, Checking, Governing
  <2> QED BY <1>1, <1>5, <2>1 DEF RecordAttestation
<1>6. CASE RecordEvent(w)
  <2> DEFINE t == work[w]
             e == Event(t)
  <2>1. /\ pc[w] = "event" /\ pc'[w] = "ledger" /\ built'[w] = e
        /\ UNCHANGED <<attestations, claims>>
    BY <1>1, <1>6 DEF LocalsOK, RecordEvent, Goto
  <2>2. t \in attestations /\ Teaches(t) /\ t \in Attestations /\ t.claim \in claims
    BY <2>1 DEF Inv, ThreadOK, TablesOK, RecordsOK
  <2>3. e \in Events
    BY <2>2, EventTyped DEF Teaches
  <2>4. e.attestation = t.id /\ e.claim = t.claim.id /\ e.verdict = Verdict(t.claim)
    BY DEF Event
  <2>5. Learned(e)
    BY <2>2, <2>4 DEF Learned, Teaches
  <2> HIDE DEF t, e
  <2>6. Learned(built[w])'
    BY <2>1, <2>5 DEF Learned
  <2> QED BY <2>1, <2>3, <2>6 DEF ThreadOK, Checking, Governing
<1>7. CASE AppendLedger(w)
  <2>1. CASE Continue(w, "snapshot")
    <3> DEFINE e == built[w]
    <3>1. ledger \in Seq(Events) /\ e \in Events
      BY <1>7 DEF Inv, TablesOK, ThreadOK, AppendLedger
    <3>2. \/ ledger' = ledger /\ \E k \in DOMAIN ledger : Same(ledger[k], e)
          \/ ledger' = Append(ledger, e)
      BY <1>7 DEF AppendLedger
    <3>3. pc'[w] = "snapshot" /\ built'[w] = e
      BY <1>2, <2>1
    <3> HIDE DEF e
    <3>4. \E k \in DOMAIN ledger' : Same(ledger'[k], e)
      <4>1. CASE ledger' = Append(ledger, e)
        <5>1. Len(ledger) + 1 \in DOMAIN ledger' /\ ledger'[Len(ledger) + 1] = e
          BY <3>1, <4>1
        <5> QED BY <5>1 DEF Same
      <4> QED BY <3>2, <4>1
    <3>5. InLedger(built[w])'
      BY <3>3, <3>4 DEF InLedger
    <3> QED BY <3>3, <3>5 DEF ThreadOK, Checking, Governing
  <2> QED BY <1>1, <1>7, <2>1 DEF AppendLedger
<1>8. CASE Fail(w)
  BY <1>1, <1>8 DEF Fail
<1> QED BY <1>3, <1>4, <1>5, <1>6, <1>7, <1>8 DEF CommonStep

LEMMA GenesisOK ==
  ASSUME Inv, GenesisStep
  PROVE  ThreadOK(Genesis)'
<1> DEFINE w == Genesis
<1>1. LocalsOK /\ w \in Threads /\ (Return(w) => ThreadOK(w)')
  BY ReturnOK DEF Inv, Threads
<1>2. CASE Observe
  BY <1>1, <1>2, AttestOK DEF Observe
<1>3. CASE Learn
  <2>1. /\ pc[w] = "idle" /\ work'[w] = outcome /\ built'[w] = built[w]
        /\ pc'[w] = IF Teaches(outcome) THEN "event" ELSE "snapshot"
        /\ attestations' = attestations
    BY <1>1, <1>3 DEF LocalsOK, Learn, Begin, Goto, outcomes
  <2>2. built[w] = None
    BY <1>1, <2>1, IdleOK
  <2>3. outcome \in attestations
    BY <1>3 DEF Learn, Inv, ObjectOK
  <2> QED BY <2>1, <2>2, <2>3 DEF ThreadOK, Checking, Governing
<1>4. CASE Snapshot
  BY <1>1, <1>4 DEF Snapshot
<1>5. CASE Prove
  <2>1. pc[w] = "idle" /\ pc'[w] = "receipt" /\ built'[w] = built[w]
    BY <1>1, <1>5 DEF LocalsOK, Prove, Begin, Goto
  <2>2. built[w] = None
    BY <1>1, <2>1, IdleOK
  <2> QED BY <2>1, <2>2 DEF ThreadOK, Checking, Governing
<1>6. CASE BuildStep
  <2>1. CASE Return(w)
    BY <1>1, <2>1
  <2>2. CASE ~Return(w)
    <3>1. pc[w] \in Building /\ pc'[w] \in Building /\ built'[w] = built[w]
      BY <1>1, <1>6, <2>2
         DEF BuildStep, ReadReceipt, ReadClaims, ReadAttestations, VerifyAttestor,
             VerifyClaim, ReadHistory, Seal, Refuse, Continue, Goto, LocalsOK, Building
    <3>2. built[w] = None
      BY <1>1, <3>1, IdleOK DEF Building
    <3> QED BY <3>1, <3>2 DEF ThreadOK, Checking, Governing, Building
  <2> QED BY <2>1, <2>2
<1> QED BY <1>2, <1>3, <1>4, <1>5, <1>6 DEF GenesisStep

LEMMA ThreadsStep ==
  ASSUME Inv, Next
  PROVE  LocalsOK' /\ \A w \in Threads : ThreadOK(w)'
<1>1. LocalsOK /\ Kept /\ Genesis \in Threads /\ Callers \subseteq Threads
  BY StepKept DEF Inv, Threads
<1>2. ASSUME NEW w \in Threads, Moved(w), ThreadOK(w)'
      PROVE  LocalsOK' /\ \A v \in Threads : ThreadOK(v)'
  <2>1. LocalsOK' /\ \A v \in Threads \ {w} : Stays(v)
    BY <1>1, <1>2, MovedLocals
  <2>2. \A v \in Threads \ {w} : ThreadOK(v)'
    BY <1>1, <2>1, StaysOK DEF Inv
  <2> QED BY <1>2, <2>1, <2>2
<1>3. ASSUME NEW w \in Callers, CallerStep(w)
      PROVE  LocalsOK' /\ \A v \in Threads : ThreadOK(v)'
  BY <1>1, <1>2, <1>3, CallerMoved, CallerOK
<1>4. ASSUME NEW w \in Threads, CommonStep(w)
      PROVE  LocalsOK' /\ \A v \in Threads : ThreadOK(v)'
  BY <1>2, <1>4, CommonMoved, CommonOK
<1>5. CASE GenesisStep
  BY <1>1, <1>2, <1>5, GenesisMoved, GenesisOK
<1>6. CASE Tick \/ \E r \in Receipts : Settle(r)
  <2>1. UNCHANGED <<pc, work, built>>
    BY <1>6 DEF Tick, Settle, locals
  <2>2. \A v \in Threads : Stays(v)
    BY <2>1 DEF Stays
  <2> QED BY <1>1, <2>1, <2>2, StaysOK DEF Inv, LocalsOK
<1> QED BY <1>3, <1>4, <1>5, <1>6, ByThread

-------------------------------------------------------------------------------
(* Tables, learning and proofs                                             *)

LEMMA RecordsStep ==
  ASSUME Inv, Next
  PROVE  RecordsOK'
<1>1. Kept /\ RecordsOK
  BY StepKept DEF Inv
<1>2. \A c : Held(c) => Held(c)'
  BY <1>1, HeldKept
<1>3. \A e : Learned(e) => Learned(e)'
  BY <1>1, LearnedKept
<1>4. \A c \in claims' : Held(c)'
  <2>1. CASE claims' = claims
    BY <1>1, <1>2, <2>1 DEF RecordsOK
  <2>2. ASSUME NEW w \in Threads, RecordClaim(w) PROVE \A c \in claims' : Held(c)'
    <3> DEFINE c == work[w].claim
    <3>1. Held(c)
      BY <2>2 DEF RecordClaim, Inv, ThreadOK
    <3>2. claims' = claims \/ claims' = claims \cup {c}
      BY <2>2 DEF RecordClaim
    <3> HIDE DEF c
    <3> QED BY <1>1, <1>2, <3>1, <3>2 DEF RecordsOK
  <2>3. \A w \in Threads :
          Change(w) \/ RecordAction(w) \/ RecordAttestation(w) \/ RecordEvent(w)
          \/ AppendLedger(w) => claims' = claims
    BY DEF Change, RecordAction, RecordAttestation, RecordEvent, AppendLedger, outcomes
  <2>4. \A r \in Receipts : Settle(r) => claims' = claims
    BY DEF Settle, outcomes
  <2> QED BY <2>1, <2>2, <2>3, <2>4, NextSteps, ReadStepReads DEF Threads
<1>5. \A t \in attestations' : t.claim \in claims'
  <2>1. \A t \in attestations : t.claim \in claims'
    BY <1>1 DEF RecordsOK, Kept
  <2>2. ASSUME NEW w \in Threads, RecordAttestation(w)
        PROVE  \A t \in attestations' : t.claim \in claims'
    <3>1. work[w].claim \in claims
      BY <2>2 DEF RecordAttestation, Inv, ThreadOK
    <3> QED BY <1>1, <2>1, <2>2, <3>1 DEF RecordAttestation, Kept
  <2>3. \A w \in Threads :
          Change(w) \/ RecordAction(w) \/ RecordClaim(w) \/ RecordEvent(w)
          \/ AppendLedger(w) => attestations' = attestations
    BY DEF Change, RecordAction, RecordClaim, RecordEvent, AppendLedger, outcomes
  <2>4. \A r \in Receipts : Settle(r) => attestations' = attestations
    BY DEF Settle, outcomes
  <2> QED BY <2>1, <2>2, <2>3, <2>4, NextSteps, ReadStepReads DEF Threads
<1>6. \A e \in events' : Learned(e)'
  <2>1. \A e \in events : Learned(e)'
    BY <1>1, <1>3 DEF RecordsOK
  <2>2. ASSUME NEW w \in Threads, RecordEvent(w)
        PROVE  \A e \in events' : Learned(e)'
    <3> DEFINE t == work[w]
               e == Event(t)
    <3>1. t \in attestations /\ Teaches(t) /\ t.claim \in claims
      BY <2>2 DEF RecordEvent, Inv, ThreadOK, RecordsOK
    <3>2. e.attestation = t.id /\ e.claim = t.claim.id /\ e.verdict = Verdict(t.claim)
      BY DEF Event
    <3>3. Learned(e)
      BY <3>1, <3>2 DEF Learned, Teaches
    <3>4. events' = events \/ events' = events \cup {e}
      BY <2>2 DEF RecordEvent
    <3> HIDE DEF t, e
    <3>5. \A f \in events' : f \in events \/ f = e
      BY <3>4
    <3>6. \A f \in events' : Learned(f)
      BY <1>1, <3>3, <3>5 DEF RecordsOK
    <3> QED BY <1>3, <3>6
  <2>3. \A w \in Threads :
          Change(w) \/ RecordAction(w) \/ RecordClaim(w) \/ RecordAttestation(w)
          \/ AppendLedger(w) => events' = events
    BY DEF Change, RecordAction, RecordClaim, RecordAttestation, AppendLedger, outcomes
  <2>4. \A r \in Receipts : Settle(r) => events' = events
    BY DEF Settle, outcomes
  <2> QED BY <2>1, <2>2, <2>3, <2>4, NextSteps, ReadStepReads DEF Threads
<1>7. \A k \in DOMAIN ledger' : Learned(ledger[k])'
  <2>1. CASE ledger' = ledger
    BY <1>1, <1>3, <2>1 DEF RecordsOK, Learned
  <2>2. ASSUME NEW w \in Threads, AppendLedger(w)
        PROVE  \A k \in DOMAIN ledger' : Learned(ledger[k])'
    <3> DEFINE e == built[w]
    <3>1. ledger \in Seq(Events) /\ e \in Events /\ Learned(e)
      BY <2>2 DEF Inv, TablesOK, ThreadOK, AppendLedger
    <3>2. ledger' = ledger \/ ledger' = Append(ledger, e)
      BY <2>2 DEF AppendLedger
    <3> HIDE DEF e
    <3>3. \A k \in DOMAIN ledger' : ledger'[k] = e \/ \E j \in DOMAIN ledger : ledger'[k] = ledger[j]
      BY <3>1, <3>2
    <3>4. \A f : f = e \/ (\E j \in DOMAIN ledger : f = ledger[j]) => Learned(f)'
      BY <1>1, <1>3, <3>1 DEF RecordsOK
    <3> QED BY <3>3, <3>4 DEF Learned
  <2>3. \A w \in Threads :
          Change(w) \/ RecordAction(w) \/ RecordClaim(w) \/ RecordAttestation(w)
          \/ RecordEvent(w) => ledger' = ledger
    BY DEF Change, RecordAction, RecordClaim, RecordAttestation, RecordEvent, outcomes
  <2>4. \A r \in Receipts : Settle(r) => ledger' = ledger
    BY DEF Settle, outcomes
  <2> QED BY <2>1, <2>2, <2>3, <2>4, NextSteps, ReadStepReads DEF Threads
<1> QED BY <1>4, <1>5, <1>6, <1>7 DEF RecordsOK

LEMMA ObjectStep ==
  ASSUME Inv, Next
  PROVE  ObjectOK'
<1>1. Kept /\ ObjectOK
  BY StepKept DEF Inv
<1>2. outcome' # None => outcome' \in attestations'
  <2>1. CASE outcome' = outcome
    BY <1>1, <2>1 DEF ObjectOK, Kept
  <2>2. ASSUME NEW w \in Threads, RecordAttestation(w), outcome' # outcome
        PROVE  outcome' \in attestations'
    BY <2>2 DEF RecordAttestation
  <2>3. outcome' = outcome \/ \E w \in Threads : RecordAttestation(w)
    BY DEF Next, GovernAttestor, Apply, Change, RecordAction, AttestOutcome, Attest,
           Observe, CheckClaim, RecordClaim, RecordEvent, AppendLedger, Fail, Learn,
           Snapshot, Prove, ReadReceipt, ReadClaims, ReadAttestations, VerifyAttestor,
           VerifyClaim, ReadHistory, Seal, Tick, Settle, object
  <2> QED BY <2>1, <2>2, <2>3
<1>3. LearningIsLedgered'
  <2>1. \A e : InLedger(e) => InLedger(e)'
    BY <1>1, InLedgerKept
  <2>2. CASE learning' = learning
    BY <1>1, <2>1, <2>2 DEF ObjectOK, LearningIsLedgered, InLedger
  <2>3. CASE Snapshot
    <3> DEFINE e == built[Genesis]
    <3>1. learning'.event = e
      BY <2>3 DEF Snapshot
    <3>2. e # None => InLedger(e)
      BY <2>3 DEF Snapshot, Inv, ThreadOK, Threads
    <3> HIDE DEF e
    <3> QED BY <2>1, <3>1, <3>2 DEF LearningIsLedgered, InLedger
  <2>4. learning' = learning \/ Snapshot
    BY DEF Next, GovernAttestor, Apply, Change, RecordAction, AttestOutcome, Attest,
           Observe, CheckClaim, RecordClaim, RecordAttestation, RecordEvent, AppendLedger,
           Fail, Learn, Prove, ReadReceipt, ReadClaims, ReadAttestations, VerifyAttestor,
           VerifyClaim, ReadHistory, Seal, Tick, Settle, object
  <2> QED BY <2>2, <2>3, <2>4
<1> QED BY <1>2, <1>3 DEF ObjectOK

\* What is sealed is grounded, and stays so.
LEMMA SealGrounded ==
  ASSUME Inv, Seal, proof' # proof
  PROVE  /\ ProofOK'
         /\ <<proof'.attestation.attestor, proof'.attestation.key>> \in graph.live
         /\ graph.since <= AuthorizationEnds /\ graph.since < proof'.action.ends
<1> DEFINE g == graph
           kept == {e \in EventsOf(g.claim) :
                      /\ EventsOf(g.claim) = {e}
                      /\ ClaimBinds(g) /\ AttestationBinds(g)
                      /\ LearningBinds(g, e) /\ EdgesBind(e)
                      /\ GovernedLineage(g)}
           e == CHOOSE e \in kept : TRUE
<1>1. /\ pc[Genesis] = "events"
      /\ UNCHANGED <<receipt, recorded, actions, claims, attestations, events, ledger>>
      /\ proof' = IF kept = {} THEN proof
                  ELSE [id |-> "proof", claim |-> g.claim, attestation |-> g.attestation,
                        action |-> g.action, event |-> e]
  BY DEF Seal, execution, registry, outcomes
<1>2. /\ GraphOK(g) /\ g.since <= AuthorizationEnds /\ ClaimRead(g) /\ AttestationRead(g)
      /\ AttestorLived(g) /\ ActionRead(g)
  BY <1>1 DEF Inv, Evidence, Building
<1>3. e \in kept
  BY <1>1
<1>4. /\ e \in events /\ AttestationBinds(g) /\ LearningBinds(g, e) /\ GovernedLineage(g)
  BY <1>3 DEF EventsOf
<1>5. /\ proof'.claim = g.claim /\ proof'.attestation = g.attestation
      /\ proof'.action = g.action /\ proof'.event = e
  BY <1>1
<1> HIDE DEF e, kept
<1>6. e \in ToSet(ledger)
  BY <1>2, <1>4 DEF LearningBinds, GraphOK
<1>7. e.attestation = g.attestation.id /\ g.claim.status \in Terminal
  BY <1>4 DEF LearningBinds
<1>8. g.attestation.type # SelfReport
  <2>1. PICK t \in attestations : t.id = e.attestation /\ t.type # SelfReport
    BY <1>4 DEF Inv, RecordsOK, Learned
  <2>2. t = g.attestation
    BY <1>2, <1>7, <2>1 DEF Inv, KeysOK, AttestationRead
  <2> QED BY <2>1, <2>2
<1>9. /\ g.attestation.claim = g.claim
      /\ g.claim.receipt \in recorded /\ g.claim.receipt.status \in Settled
  BY <1>2, <1>4, <1>7
     DEF AttestationBinds, Inv, RecordsOK, ClaimRead, Held, Agrees, Terminal, Settled
<1>10. ProofOK'
  BY <1>1, <1>2, <1>4, <1>5, <1>6, <1>7, <1>8, <1>9
     DEF ProofOK, ClaimRead, AttestationRead, ActionRead, GovernedLineage
<1> QED BY <1>2, <1>5, <1>10 DEF AttestorLived, ActionRead

LEMMA SealOnly ==
  ASSUME Next, ~Seal
  PROVE  proof' = proof
  BY DEF Next, GovernAttestor, Apply, Change, RecordAction, AttestOutcome, Attest, Observe,
         CheckClaim, RecordClaim, RecordAttestation, RecordEvent, AppendLedger, Fail, Learn,
         Snapshot, Prove, ReadReceipt, ReadClaims, ReadAttestations, VerifyAttestor,
         VerifyClaim, ReadHistory, Tick, Settle, object

LEMMA ProofStep ==
  ASSUME Inv, Next
  PROVE  ProofOK'
<1>1. Kept
  BY StepKept
<1>2. CASE proof' # proof
  BY <1>2, SealOnly, SealGrounded
<1>3. CASE proof' = proof
  BY <1>1, <1>3 DEF Inv, ProofOK, Kept
<1> QED BY <1>2, <1>3

-------------------------------------------------------------------------------
(* The evidence of a proof under construction                              *)

\* The graph keeps what it has, and what was active while it is built.
GraphKept ==
    /\ DOMAIN graph' = DOMAIN graph
    /\ \A x \in DOMAIN graph \ {"live"} : graph'[x] = graph[x]
    /\ "live" \in DOMAIN graph =>
          /\ graph.live \subseteq graph'.live
          /\ ActivePairs(attestors) \subseteq graph.live =>
                ActivePairs(attestors') \subseteq graph'.live

LEMMA EvidenceKept ==
  ASSUME Inv, TablesOK', Kept, GraphKept, pc'[Genesis] = pc[Genesis], now <= now'
  PROVE  Evidence(pc[Genesis], graph)'
<1>1. Evidence(pc[Genesis], graph) /\ now \in Nat /\ now' \in Nat
  BY BoundType DEF Inv, TablesOK
<1>2. /\ "since" \in DOMAIN graph => graph'.since = graph.since
      /\ "ledger" \in DOMAIN graph => graph'.ledger = graph.ledger
      /\ "claim" \in DOMAIN graph => graph'.claim = graph.claim
      /\ "attestation" \in DOMAIN graph => graph'.attestation = graph.attestation
      /\ "action" \in DOMAIN graph => graph'.action = graph.action
      /\ DOMAIN graph' = DOMAIN graph
      /\ "live" \in DOMAIN graph => graph.live \subseteq graph'.live
  BY DEF GraphKept
<1>3. GraphOK(graph) => GraphOK(graph)' /\ graph'.since = graph.since
  <2> SUFFICES ASSUME GraphOK(graph) PROVE GraphOK(graph)' /\ graph'.since = graph.since
    OBVIOUS
  <2>1. ActivePairs(attestors') \subseteq graph'.live
    BY DEF GraphKept, GraphOK
  <2>2. ActivePairs(attestors)' \subseteq graph'.live
    BY <2>1 DEF ActivePairs
  <2>3. /\ {"ledger", "since", "live"} \subseteq DOMAIN graph'
        /\ graph'.ledger \subseteq ToSet(ledger')
        /\ graph'.since = graph.since /\ graph'.since \in Nat /\ graph'.since <= now'
    BY <1>1, <1>2 DEF GraphOK, Kept
  <2>4. ToSet(ledger)' = ToSet(ledger')
    BY DEF ToSet
  <2> QED BY <2>2, <2>3, <2>4 DEF GraphOK
<1>4. ClaimRead(graph) => ClaimRead(graph)'
  BY <1>2 DEF ClaimRead, Kept
<1>5. AttestationRead(graph) => AttestationRead(graph)'
  BY <1>2 DEF AttestationRead, Kept
<1>6. GraphOK(graph) /\ AttestationRead(graph) /\ AttestorLived(graph) => AttestorLived(graph)'
  BY <1>2 DEF GraphOK, AttestationRead, AttestorLived
<1>7. GraphOK(graph) /\ ActionRead(graph) => ActionRead(graph)'
  BY <1>2 DEF GraphOK, ActionRead, Kept
<1> QED BY <1>1, <1>3, <1>4, <1>5, <1>6, <1>7 DEF Evidence, Building

\* Reading a node leaves the others.
LEMMA ReadFields ==
  ASSUME NEW name, NEW value, Read(name, value), name \notin {"ledger", "since", "live"}
  PROVE  /\ DOMAIN graph' = DOMAIN graph \cup {name} /\ graph'[name] = value
         /\ \A x \in DOMAIN graph \ {name} : graph'[x] = graph[x]
  BY DEF Read

LEMMA ReadKeeps ==
  ASSUME Inv, TablesOK', Kept, UNCHANGED attestors, now' = now, GraphOK(graph),
         NEW name, NEW value, Read(name, value), name \notin {"ledger", "since", "live"}
  PROVE  /\ GraphOK(graph)' /\ graph'.since = graph.since /\ graph'.live = graph.live
         /\ name # "claim" /\ ClaimRead(graph) => ClaimRead(graph)'
         /\ name # "attestation" /\ AttestationRead(graph) =>
               AttestationRead(graph)' /\ graph'.attestation = graph.attestation
<1>1. /\ DOMAIN graph' = DOMAIN graph \cup {name} /\ graph'[name] = value
      /\ \A x \in DOMAIN graph \ {name} : graph'[x] = graph[x]
  BY ReadFields
<1>2. graph'.since = graph.since /\ graph'.live = graph.live /\ graph'.ledger = graph.ledger
  BY <1>1 DEF GraphOK
<1>3. ActivePairs(attestors)' = ActivePairs(attestors)
  BY DEF ActivePairs
<1>4. ToSet(ledger)' = ToSet(ledger')
  BY DEF ToSet
<1>5. GraphOK(graph)'
  BY <1>1, <1>2, <1>3, <1>4 DEF GraphOK, Kept
<1>6. name # "claim" /\ ClaimRead(graph) => ClaimRead(graph)'
  BY <1>1 DEF ClaimRead, Kept
<1>7. name # "attestation" /\ AttestationRead(graph) =>
        AttestationRead(graph)' /\ graph'.attestation = graph.attestation
  BY <1>1 DEF AttestationRead, Kept
<1> QED BY <1>2, <1>5, <1>6, <1>7

\* Away from the steps of a build there is nothing to know.
LEMMA NotBuilding ==
  ASSUME pc'[Genesis] \notin Building
  PROVE  Evidence(pc[Genesis], graph)'
  BY DEF Evidence, Building

LEMMA ProveEvidence ==
  ASSUME Inv, Prove
  PROVE  Evidence(pc[Genesis], graph)'
<1>1. pc'[Genesis] = "receipt" /\ now' = now /\ attestors' = attestors /\ ledger' = ledger
  BY DEF Inv, LocalsOK, Prove, Begin, Goto, Threads, registry, outcomes
<1>2. graph' = [id |-> "graph", ledger |-> LedgerEntries, since |-> now,
                live |-> ActivePairs(attestors)]
  BY DEF Prove
<1>3. ActivePairs(attestors)' = ActivePairs(attestors) /\ ToSet(ledger)' = ToSet(ledger)
  BY <1>1 DEF ActivePairs, ToSet
<1>4. now \in Nat
  BY BoundType DEF Inv, TablesOK
<1>5. GraphOK(graph)'
  BY <1>1, <1>2, <1>3, <1>4 DEF GraphOK, LedgerEntries
<1> QED BY <1>1, <1>5 DEF Evidence, Building

LEMMA BuildEvidence ==
  ASSUME Inv, TablesOK', Kept, BuildStep
  PROVE  Evidence(pc[Genesis], graph)'
<1> DEFINE tables == <<now, receipt, recorded, attestors, actions, claims, attestations,
                       events, ledger>>
<1>1. LocalsOK /\ Genesis \in Threads /\ Evidence(pc[Genesis], graph)
  BY DEF Inv, Threads
<1>2. UNCHANGED tables
  BY DEF BuildStep, ReadReceipt, ReadClaims, ReadAttestations, VerifyAttestor, VerifyClaim,
         ReadHistory, Seal, execution, registry, outcomes
<1>3. CASE Return(Genesis)
  <2>1. pc'[Genesis] = "idle"
    BY <1>1, <1>3 DEF LocalsOK, Return, Goto
  <2> QED BY <2>1, NotBuilding DEF Building
<1>4. ASSUME NEW step \in Building, Continue(Genesis, step)
      PROVE  pc'[Genesis] = step
  BY <1>1, <1>4 DEF LocalsOK, Continue, Goto
<1>5. pc[Genesis] \in Building => GraphOK(graph)
  BY <1>1 DEF Evidence
<1>6. CASE ReadReceipt /\ ~Return(Genesis)
  <2>1. /\ pc[Genesis] = "receipt" /\ AuthorizationVerifies /\ Read("receipt", receipt)
        /\ pc'[Genesis] = "claims"
    BY <1>4, <1>6 DEF ReadReceipt, Refuse, Building
  <2>2. GraphOK(graph)
    BY <1>5, <2>1 DEF Building
  <2>3. GraphOK(graph)' /\ graph'.since = graph.since
    BY <1>2, <2>1, <2>2, ReadKeeps
  <2>4. graph'.since <= AuthorizationEnds
    BY <2>1, <2>2, <2>3, BoundType DEF AuthorizationVerifies, GraphOK, Inv, TablesOK
  <2> QED BY <2>1, <2>3, <2>4 DEF Evidence, Building
<1>7. CASE ReadClaims /\ ~Return(Genesis)
  <2>1. /\ pc[Genesis] = "claims" /\ pc'[Genesis] = "attestations"
        /\ \E c \in claims : Read("claim", c)
    BY <1>4, <1>7 DEF ReadClaims, Refuse, Building
  <2>2. PICK c \in claims : Read("claim", c)
    BY <2>1
  <2>3. GraphOK(graph) /\ graph.since <= AuthorizationEnds
    BY <1>1, <2>1 DEF Evidence, Building
  <2>4. GraphOK(graph)' /\ graph'.since = graph.since
    BY <1>2, <2>2, <2>3, ReadKeeps
  <2>5. ClaimRead(graph)'
    BY <1>2, <2>2, ReadFields DEF ClaimRead
  <2> QED BY <2>1, <2>3, <2>4, <2>5 DEF Evidence, Building
<1>8. CASE ReadAttestations /\ ~Return(Genesis)
  <2>1. /\ pc[Genesis] = "attestations" /\ pc'[Genesis] = "verify"
        /\ \E t \in attestations : Read("attestation", t)
    BY <1>4, <1>8 DEF ReadAttestations, AttestationsOf, Refuse, Building
  <2>2. PICK t \in attestations : Read("attestation", t)
    BY <2>1
  <2>3. GraphOK(graph) /\ graph.since <= AuthorizationEnds /\ ClaimRead(graph)
    BY <1>1, <2>1 DEF Evidence, Building
  <2>4. GraphOK(graph)' /\ graph'.since = graph.since /\ ClaimRead(graph)'
    BY <1>2, <2>2, <2>3, ReadKeeps
  <2>5. AttestationRead(graph)'
    BY <1>2, <2>2, ReadFields DEF AttestationRead
  <2> QED BY <2>1, <2>3, <2>4, <2>5 DEF Evidence, Building
<1>9. ASSUME UNCHANGED graph
      PROVE  /\ GraphOK(graph) => GraphOK(graph)'
             /\ ClaimRead(graph) => ClaimRead(graph)'
             /\ AttestationRead(graph) => AttestationRead(graph)'
             /\ AttestorLived(graph) => AttestorLived(graph)'
  <2>1. ActivePairs(attestors)' = ActivePairs(attestors) /\ ToSet(ledger)' = ToSet(ledger)
    BY <1>2 DEF ActivePairs, ToSet
  <2>2. GraphOK(graph) => GraphOK(graph)'
    BY <1>2, <1>9, <2>1 DEF GraphOK
  <2>3. /\ ClaimRead(graph) => ClaimRead(graph)'
        /\ AttestationRead(graph) => AttestationRead(graph)'
        /\ AttestorLived(graph) => AttestorLived(graph)'
    BY <1>2, <1>9 DEF ClaimRead, AttestationRead, AttestorLived
  <2> QED BY <2>2, <2>3
<1>10. CASE VerifyAttestor /\ ~Return(Genesis)
  <2>1. /\ pc[Genesis] = "verify" /\ pc'[Genesis] = "verifyClaim" /\ UNCHANGED graph
        /\ Vouches(graph.attestation)
    BY <1>4, <1>10 DEF VerifyAttestor, Refuse, Building
  <2>2. /\ GraphOK(graph) /\ graph.since <= AuthorizationEnds /\ ClaimRead(graph)
        /\ AttestationRead(graph)
    BY <1>1, <2>1 DEF Evidence, Building
  <2>3. AttestorLived(graph)
    <3>1. attestors[graph.attestation.attestor].status = "ACTIVE"
          /\ attestors[graph.attestation.attestor].key = graph.attestation.key
      BY <2>1 DEF Vouches
    <3>2. graph.attestation.attestor \in Attestors
      BY <2>2, AttestationsType DEF AttestationRead, Inv, TablesOK, IsAttestation
    <3>3. <<graph.attestation.attestor, graph.attestation.key>> \in ActivePairs(attestors)
      BY <3>1, <3>2 DEF ActivePairs
    <3> QED BY <2>2, <3>3 DEF AttestorLived, GraphOK
  <2> QED BY <1>9, <2>1, <2>2, <2>3 DEF Evidence, Building
<1>11. CASE VerifyClaim /\ ~Return(Genesis)
  <2>1. /\ pc[Genesis] = "verifyClaim" /\ pc'[Genesis] = "history" /\ UNCHANGED graph
    BY <1>4, <1>11 DEF VerifyClaim, Refuse, Building
  <2>2. /\ GraphOK(graph) /\ graph.since <= AuthorizationEnds /\ ClaimRead(graph)
        /\ AttestationRead(graph) /\ AttestorLived(graph)
    BY <1>1, <2>1 DEF Evidence, Building
  <2> QED BY <1>9, <2>1, <2>2 DEF Evidence, Building
<1>12. CASE ReadHistory /\ ~Return(Genesis)
  <2>1. /\ pc[Genesis] = "history" /\ pc'[Genesis] = "events"
        /\ \E d \in actions : GovernanceVerifies(d) /\ Read("action", d)
    BY <1>4, <1>12 DEF ReadHistory, HistoryOf, Refuse, Building
  <2>2. PICK d \in actions : GovernanceVerifies(d) /\ Read("action", d)
    BY <2>1
  <2>3. /\ GraphOK(graph) /\ graph.since <= AuthorizationEnds /\ ClaimRead(graph)
        /\ AttestationRead(graph) /\ AttestorLived(graph)
    BY <1>1, <2>1 DEF Evidence, Building
  <2>4. /\ GraphOK(graph)' /\ graph'.since = graph.since /\ graph'.live = graph.live
        /\ ClaimRead(graph)' /\ AttestationRead(graph)'
        /\ graph'.attestation = graph.attestation
    BY <1>2, <2>2, <2>3, ReadKeeps
  <2>5. AttestorLived(graph)'
    BY <1>2, <2>3, <2>4 DEF AttestorLived
  <2>6. ActionRead(graph)'
    <3>1. "action" \in DOMAIN graph' /\ graph'.action = d
      BY <2>2, ReadFields
    <3>2. now < d.ends /\ d.ends \in Nat
      BY <2>2, DocumentsType
         DEF GovernanceVerifies, Approved, Inv, TablesOK, IsDocument
    <3>3. graph.since < d.ends
      BY <2>3, <3>2, BoundType DEF GraphOK, Inv, TablesOK
    <3> QED BY <1>2, <2>4, <3>1, <3>3 DEF ActionRead
  <2> QED BY <2>1, <2>3, <2>4, <2>5, <2>6 DEF Evidence, Building
<1>13. CASE Seal
  BY <1>3, <1>13 DEF Seal, Refuse
<1> QED BY <1>3, <1>6, <1>7, <1>8, <1>10, <1>11, <1>12, <1>13 DEF BuildStep

LEMMA ChangeEvidence ==
  ASSUME Inv, TablesOK', Kept, NEW w \in Callers, Change(w)
  PROVE  Evidence(pc[Genesis], graph)'
<1>1. Genesis # w /\ w \in Threads /\ Genesis \in Threads
  BY ThreadsType DEF Threads
<1>2. pc'[Genesis] = pc[Genesis]
  <2>1. Moved(w)
    BY CallerMoved DEF CallerStep
  <2> QED BY <1>1, <2>1, MovedLocals DEF Inv, Stays
<1>3. now' = now /\ now \in Nat
  BY BoundType DEF Change, Inv, TablesOK
<1>4. GraphKept
  <2>1. CASE attestors' = attestors /\ graph' = graph
    <3>1. ActivePairs(attestors') = ActivePairs(attestors)
      BY <2>1
    <3> QED BY <2>1, <3>1 DEF GraphKept
  <2>2. CASE graph = None /\ graph' = None
    BY <2>2 DEF GraphKept, None
  <2>3. CASE graph' = [graph EXCEPT !.live = @ \cup ActivePairs(attestors')]
    BY <2>3 DEF GraphKept
  <2> QED BY <2>1, <2>2, <2>3 DEF Change
<1> QED BY <1>2, <1>3, <1>4, EvidenceKept

LEMMA EvidenceStep ==
  ASSUME Inv, Next
  PROVE  Evidence(pc[Genesis], graph)'
<1>1. TablesOK' /\ Kept /\ LocalsOK /\ Genesis \in Threads /\ Genesis \notin Callers
  BY TablesStep, StepKept, ThreadsType DEF Inv, Threads
<1>2. now \in Nat /\ now' \in Nat
  BY <1>1, BoundType DEF Inv, TablesOK
<1>3. ASSUME UNCHANGED <<attestors, graph>> PROVE GraphKept
  BY <1>3 DEF GraphKept
<1>4. ASSUME NEW w \in Callers, CallerStep(w) PROVE Evidence(pc[Genesis], graph)'
  <2>1. CASE Change(w)
    BY <1>1, <2>1, ChangeEvidence
  <2>2. CASE ~Change(w)
    <3>1. UNCHANGED <<attestors, graph, now>>
      BY <1>4, <2>2 DEF CallerStep, GovernAttestor, Apply, RecordAction, AttestOutcome,
                        Attest, registry, object
    <3>2. pc'[Genesis] = pc[Genesis]
      BY <1>1, <1>4, CallerMoved, MovedLocals DEF Stays, Threads
    <3> QED BY <1>1, <1>2, <1>3, <3>1, <3>2, EvidenceKept
  <2> QED BY <2>1, <2>2
<1>5. ASSUME NEW w \in Threads, CommonStep(w) PROVE Evidence(pc[Genesis], graph)'
  <2>1. CASE w = Genesis
    <3>1. Moved(w) /\ pc'[w] \notin Building
      <4>1. \/ Return(w) \/ Goto(w, "ledger")
            \/ \E step \in {"recordClaim", "recordAttestation", "event", "snapshot"} :
                  Continue(w, step)
        BY <1>5 DEF CommonStep, CheckClaim, RecordClaim, RecordAttestation, RecordEvent,
                    AppendLedger, Fail
      <4> QED BY <1>1, <1>5, <4>1, CommonMoved
              DEF Return, Continue, Goto, LocalsOK, Building
    <3> QED BY <2>1, <3>1, NotBuilding
  <2>2. CASE w # Genesis
    <3>1. UNCHANGED <<attestors, graph, now>>
      BY <1>5, <2>2 DEF CommonStep, CheckClaim, RecordClaim, RecordAttestation, RecordEvent,
                        AppendLedger, Fail, registry, object
    <3>2. pc'[Genesis] = pc[Genesis]
      BY <1>1, <1>5, <2>2, CommonMoved, MovedLocals DEF Stays
    <3> QED BY <1>1, <1>2, <1>3, <3>1, <3>2, EvidenceKept
  <2> QED BY <2>1, <2>2
<1>6. CASE GenesisStep
  <2>1. CASE Observe \/ Learn \/ Snapshot
    <3>1. pc'[Genesis] \notin Building
      BY <1>1, <2>1 DEF Observe, Attest, Learn, Snapshot, Begin, Return, Goto, LocalsOK,
                        Building
    <3> QED BY <3>1, NotBuilding
  <2> QED BY <1>1, <1>6, <2>1, ProveEvidence, BuildEvidence DEF GenesisStep
<1>7. CASE Tick \/ \E r \in Receipts : Settle(r)
  <2>1. UNCHANGED <<attestors, graph, pc>> /\ now <= now'
    BY <1>2, <1>7 DEF Tick, Settle, registry, object, locals
  <2> QED BY <1>1, <1>3, <2>1, EvidenceKept
<1> QED BY <1>4, <1>5, <1>6, <1>7, ByThread

LEMMA InitInv == Init => Inv
<1> SUFFICES ASSUME Init PROVE Inv
  OBVIOUS
<1>1. TablesOK /\ KeysOK /\ LocalsOK /\ \A w \in Threads : ThreadOK(w)
  BY InitTypes
<1>2. RecordsOK
  BY DEF Init, RecordsOK
<1>3. ObjectOK
  BY DEF Init, ObjectOK, LearningIsLedgered
<1>4. Evidence(pc[Genesis], graph)
  BY DEF Init, Evidence, Building, Threads
<1>5. ProofOK
  BY DEF Init, ProofOK
<1> QED BY <1>1, <1>2, <1>3, <1>4, <1>5 DEF Inv

\* Without a step everything stays.
LEMMA StutterInv ==
  ASSUME Inv, UNCHANGED vars
  PROVE  Inv'
<1>1. UNCHANGED <<now, receipt, recorded, attestors, actions, claims, attestations, events,
                  ledger, pc, work, built, outcome, learning, graph, proof, failures>>
  BY DEF vars, execution, registry, outcomes, locals, object
<1>2. Kept /\ GraphKept /\ \A w \in Threads : Stays(w)
  BY <1>1 DEF Kept, GraphKept, Stays
<1>3. TablesOK' /\ KeysOK' /\ LocalsOK'
  BY <1>1 DEF Inv, TablesOK, RowOK, KeysOK, LocalsOK
<1>4. \A w \in Threads : ThreadOK(w)'
  BY <1>2, StaysOK DEF Inv
<1>5. RecordsOK'
  BY <1>1 DEF Inv, RecordsOK, Held, Learned
<1>6. ObjectOK'
  BY <1>1 DEF Inv, ObjectOK, LearningIsLedgered
<1>7. Evidence(pc[Genesis], graph)'
  <2>1. now \in Nat
    BY BoundType DEF Inv, TablesOK
  <2> QED BY <1>1, <1>2, <1>3, <2>1, EvidenceKept
<1>8. ProofOK'
  BY <1>1 DEF Inv, ProofOK, ToSet
<1> QED BY <1>3, <1>4, <1>5, <1>6, <1>7, <1>8 DEF Inv

LEMMA StepInv == Inv /\ [Next]_vars => Inv'
<1>1. ASSUME Inv, Next PROVE Inv'
  BY <1>1, TablesStep, KeysStep, ThreadsStep, RecordsStep, ObjectStep, EvidenceStep,
     ProofStep DEF Inv
<1> QED BY <1>1, StutterInv

LEMMA SpecInv == Spec => []Inv
  BY InitInv, StepInv, PTL DEF Spec

-------------------------------------------------------------------------------
(* The properties of the run                                               *)

\* Every table holds rows of its kind, under unique ids (storage.py).
THEOREM TypeCorrect == Spec => []TypeOK
<1>1. Inv => TypeOK
  <2>1. Inv => outcome \in Attestations \cup {None}
    BY DEF Inv, TablesOK, ObjectOK
  <2> QED BY <2>1 DEF Inv, TablesOK, RowOK, KeysOK, LocalsOK, TypeOK
<1> QED BY <1>1, SpecInv, PTL

\* A recorded outcome agrees with the receipt it names, which has been on record
\* (outcome.py, _verify_claim), whatever happens between the check and the commit,
\* and with the receipt on record until that has been both final statuses.
THEOREM ClaimsAlwaysMatch == Spec => []ClaimsMatchReceipts
<1>1. Inv => ClaimsMatchReceipts
  <2> SUFFICES ASSUME Inv, NEW c \in claims
               PROVE  /\ c.receipt \in recorded /\ Agrees(c, c.receipt)
                      /\ Reorged \/ Agrees(c, receipt)
    BY DEF ClaimsMatchReceipts
  <2>1. c.receipt \in recorded /\ Agrees(c, c.receipt)
    BY DEF Inv, RecordsOK, Held
  <2>2. CASE ~Reorged /\ c.status \in Terminal
    <3>1. c.receipt.status \in Settled
      BY <2>1, <2>2 DEF Agrees, Terminal, Settled
    <3>2. receipt.status = c.receipt.status
      BY <2>1, <2>2, <3>1, StatusStands DEF Inv, TablesOK
    <3> QED BY <2>1, <3>2 DEF Agrees
  <2>3. CASE c.status \notin Terminal
    BY <2>1, <2>3 DEF Agrees, Terminal
  <2> QED BY <2>1, <2>2, <2>3
<1> QED BY <1>1, SpecInv, PTL

\* Authority learns from independent attestations on record and from nothing
\* else (outcome.py, verify_and_record; genesis_lifecycle.py, learn).
THEOREM LearnedAlwaysAttested == Spec => []LearnedFromAttested
<1>1. Inv => LearnedFromAttested
  BY DEF Inv, RecordsOK, Learned, LearnedFromAttested, ToSet
<1> QED BY <1>1, SpecInv, PTL

\* One execution is learned both as a success and as a failure only when its
\* receipt has been both (outcome.py, _verify_claim).
THEOREM AlwaysOneVerdict == Spec => []OneVerdict
<1>1. Inv => OneVerdict
  <2> SUFFICES ASSUME Inv, ~Reorged PROVE OneVerdict
    BY DEF OneVerdict
  <2>1. \A e \in events \cup ToSet(ledger) : Learned(e)
    BY DEF Inv, RecordsOK, ToSet
  <2>2. ASSUME NEW t \in attestations, t.claim \in claims, t.claim.status \in Terminal
        PROVE  Verdict(t.claim) = IF receipt.status = "CONFIRMED"
                                  THEN "EXECUTION_CONFIRMED" ELSE "EXECUTION_FAILED"
    <3>1. Held(t.claim) /\ t.claim.receipt.status \in Settled
      BY <2>2 DEF Inv, RecordsOK, Held, Agrees, Terminal, Settled
    <3>2. receipt.status = t.claim.receipt.status
      BY <3>1, StatusStands DEF Inv, TablesOK, Held
    <3> QED BY <2>2, <3>1, <3>2 DEF Held, Agrees, Terminal, Verdict
  <2>3. \A e \in events \cup ToSet(ledger) :
          e.verdict = IF receipt.status = "CONFIRMED" THEN "EXECUTION_CONFIRMED"
                                                      ELSE "EXECUTION_FAILED"
    BY <2>1, <2>2 DEF Learned
  <2> QED BY <2>3 DEF OneVerdict
<1> QED BY <1>1, SpecInv, PTL

\* An event that learn reports is in the ledger (genesis_lifecycle.py, learn).
THEOREM LearningAlwaysLedgered == Spec => []LearningIsLedgered
<1>1. Inv => LearningIsLedgered
  BY DEF Inv, ObjectOK
<1> QED BY <1>1, SpecInv, PTL

\* A lifecycle proof that is kept is about evidence on record, and about a final
\* receipt whose status stands until the other replaces it
\* (proof_validators/authority_lifecycle.py, validate).
THEOREM ProofsAlwaysGrounded == Spec => []ProofIsGrounded
<1>1. Inv => ProofIsGrounded
  <2> SUFFICES ASSUME Inv, proof # None PROVE ProofIsGrounded
    BY DEF ProofIsGrounded
  <2>1. ProofOK
    BY DEF Inv
  <2>2. Reorged \/ receipt.status = proof.claim.receipt.status
    BY <2>1, StatusStands DEF Inv, TablesOK, ProofOK
  <2> QED BY <2>1, <2>2 DEF ProofOK, ProofIsGrounded
<1> QED BY <1>1, SpecInv, PTL

\* A proof is kept only while the attestor, its approvals and the authorization
\* are alive (outcome.py, verify_existing; evidence.py, build).
THEOREM ProofsNeedLiveEvidence == Spec => ProofNeedsLiveEvidence
<1> DEFINE Live == /\ <<proof'.attestation.attestor, proof'.attestation.key>> \in graph.live
                   /\ graph.since <= AuthorizationEnds
                   /\ graph.since < proof'.action.ends
<1>1. Inv /\ [Next]_vars => [proof' # proof => Live]_vars
  <2> SUFFICES ASSUME Inv, Next, proof' # proof PROVE Live
    OBVIOUS
  <2> QED BY SealOnly, SealGrounded
<1> QED BY <1>1, SpecInv, PTL DEF Spec, ProofNeedsLiveEvidence
===============================================================================
