-------------------------- MODULE OutcomeAttestation --------------------------
(***************************************************************************)
(* core/outcome.py, core/attestor.py, core/genesis_lifecycle.py, the claim *)
(* part of core/evidence.py and the authority_lifecycle proof profile, for *)
(* one authorization.  Callers of the API record attested outcomes and     *)
(* apply governance actions to the attestors; the lifecycle object of the  *)
(* authorization observes an outcome, learns from it and proves it.  Every *)
(* commit and every read that matters later is a step of its own.          *)
(***************************************************************************)
EXTENDS Naturals, Sequences, FiniteSets, SequencesExt

CONSTANTS
    Callers, Genesis,   \* threads of the API, and the lifecycle object
    Attestors,          \* attestor ids
    Attestations,       \* what may be presented: id, claim, attestor, type, key
    Documents,          \* approved governance actions: id, action, attestor, ...
    Bootstrapped,       \* the attestors configured at startup: id -> row
    Receipts,           \* execution receipts: status and copy
    AuthorizationEnds,  \* expires_at of the execution authorization
    MaxTime,            \* bound on the clock
    MaxFailures         \* bound on calls that end between two commits

Absent == [status |-> "ABSENT"]
None == [id |-> "none"]

Claims == {t.claim : t \in Attestations}
Threads == Callers \cup {Genesis}
Terminal == {"SUCCEEDED", "FAILED"}
Settled == {"CONFIRMED", "FAILED"}
SelfReport == "EXECUTOR_SELF_REPORT"
Never == 0           \* no expiry

\* What the builders of claims, attestations, documents and rows admit.
ClaimStatuses == Terminal \cup {"UNKNOWN"}
IsClaim(c) ==
    /\ c.status \in ClaimStatuses
    /\ c.receipt \in Receipts
    /\ c.effect \in ClaimStatuses \cup {"NONE"}
IsAttestation(t) ==
    /\ IsClaim(t.claim) /\ t.attestor \in Attestors
    /\ t.type \in {SelfReport, "EXTERNAL_VERIFIER", "CHAIN_VERIFIER"}
AttestorTypes == {"EXECUTOR", "EXTERNAL_VERIFIER", "CHAIN_VERIFIER"}
IsDocument(d) ==
    /\ d.action \in {"REGISTER", "ACTIVATE", "ROTATE", "REVOKE", "EXPIRE"}
    /\ d.attestor \in Attestors
    /\ d.action \in {"REGISTER", "ROTATE"} => d.type \in AttestorTypes
    /\ d.ends \in Nat \ {0} /\ d.term \in Nat
IsRow(row) ==
    row \in [status : {"ACTIVE"}, key : {row.key}, type : AttestorTypes, term : {Never}]

ASSUME ThreadsType == Genesis \notin Callers
ASSUME AttestationsType == \A t \in Attestations : IsAttestation(t)
ASSUME DocumentsType == \A d \in Documents : IsDocument(d)
ASSUME BootstrappedType ==
    /\ DOMAIN Bootstrapped \subseteq Attestors
    /\ \A a \in DOMAIN Bootstrapped : IsRow(Bootstrapped[a])
ASSUME ReceiptsType ==
    \A r \in Receipts : r.status \in {"SUBMITTED"} \cup Settled /\ r.copy \in Nat
ASSUME BoundType == MaxFailures \in Nat /\ MaxTime \in Nat /\ AuthorizationEnds \in Nat

VARIABLES
    now,           \* the clock
    receipt,       \* the row of execution_receipts
    recorded,      \* history: every receipt that row has held
    attestors,     \* table outcome_attestors
    actions,       \* table attestor_governance_actions
    claims,        \* table execution_outcome_claims
    attestations,  \* table outcome_attestations
    events,        \* table authority_events
    ledger,        \* table authority_ledger
    pc,            \* thread -> next step
    work,          \* thread -> the attestation or document it works on
    built,         \* thread -> the authority event it has built
    outcome,       \* the lifecycle object: the attestation it observed
    learning,      \* the lifecycle object: head and event of its snapshot
    graph,         \* the lifecycle object: the evidence read so far; history:
                   \* when the build began, which <<attestor, key>> were active
    proof,         \* the lifecycle object: the manifest it keeps
    failures

execution == <<receipt, recorded>>
outcomes == <<claims, attestations, events, ledger>>
registry == <<attestors, actions>>
object == <<outcome, learning, graph, proof>>
locals == <<pc, work, built>>
vars == <<now, execution, registry, outcomes, locals, object, failures>>

Init ==
    /\ now = 0
    /\ receipt = Absent /\ recorded = {}
    /\ attestors = [a \in Attestors |->
                      IF a \in DOMAIN Bootstrapped THEN Bootstrapped[a] ELSE Absent]
    /\ actions = {} /\ claims = {} /\ attestations = {}
    /\ events = {} /\ ledger = <<>>
    /\ pc = [w \in Threads |-> "idle"]
    /\ work = [w \in Threads |-> None]
    /\ built = [w \in Threads |-> None]
    /\ outcome = None /\ learning = None /\ graph = None /\ proof = None
    /\ failures = 0

Goto(w, step) == pc' = [pc EXCEPT ![w] = step]
Return(w) ==
    /\ Goto(w, "idle")
    /\ work' = [work EXCEPT ![w] = None]
    /\ built' = [built EXCEPT ![w] = None]
Begin(w, x, step) ==
    /\ pc[w] = "idle"
    /\ Goto(w, step)
    /\ work' = [work EXCEPT ![w] = x]
    /\ UNCHANGED built
Continue(w, step) == Goto(w, step) /\ UNCHANGED <<work, built>>

-------------------------------------------------------------------------------
(* AttestorAuthorityService.apply                                          *)

Active(a) == attestors[a].status = "ACTIVE"
ActivePairs(table) ==
    {<<a, table[a].key>> : a \in {x \in Attestors : table[x].status = "ACTIVE"}}

\* verify_governance_quorum on an approved document, now: it holds until the
\* document expires, for any number of calls.
Approved(d) == now < d.ends

\* A refused document changes nothing.
Apply(w, d) ==
    /\ Approved(d)
    /\ (d.action = "REGISTER") <=> (attestors[d.attestor] = Absent)
    /\ Begin(w, d, "change")
    /\ UNCHANGED <<now, execution, registry, outcomes, object, failures>>

GovernAttestor(w) == \E d \in Documents : Apply(w, d)

\* The keys of the registry are UNIQUE, as its ids are.
KeyIsFree(d) == \A a \in Attestors \ {d.attestor} :
                    attestors[a] # Absent => attestors[a].key # d.key

Enacted(d, row) ==
    CASE d.action \in {"REGISTER", "ROTATE"} ->
           [status |-> "ACTIVE", key |-> d.key, type |-> d.type, term |-> d.term]
      [] d.action = "ACTIVATE" -> [row EXCEPT !.status = "ACTIVE"]
      [] d.action = "REVOKE" -> [row EXCEPT !.status = "REVOKED"]
      [] d.action = "EXPIRE" -> [row EXCEPT !.status = "EXPIRED"]

Enactable(d) ==
    CASE d.action = "REGISTER" -> attestors[d.attestor] = Absent /\ KeyIsFree(d)
      [] d.action = "ROTATE" -> KeyIsFree(d)
      [] d.action = "REVOKE" -> Active(d.attestor)
      [] OTHER -> TRUE

Change(w) ==
    LET d == work[w] IN
    /\ pc[w] = "change"
    /\ \/ /\ Enactable(d)
          /\ attestors' = [attestors EXCEPT ![d.attestor] = Enacted(d, @)]
          /\ graph' = IF graph = None THEN None
                      ELSE [graph EXCEPT !.live = @ \cup ActivePairs(attestors')]
          /\ Continue(w, "recordAction")
       \/ /\ ~Enactable(d)
          /\ Return(w)
          /\ UNCHANGED <<attestors, graph>>
    /\ UNCHANGED <<now, execution, actions, outcomes, outcome, learning, proof, failures>>

\* A document that is on record already raises: its change stays in place.
RecordAction(w) ==
    /\ pc[w] = "recordAction"
    /\ actions' = actions \cup {work[w]}
    /\ Return(w)
    /\ UNCHANGED <<now, execution, attestors, outcomes, object, failures>>

-------------------------------------------------------------------------------
(* OutcomeAttestationService                                               *)

AttestationType(row) ==
    IF row.type = "EXECUTOR" THEN SelfReport ELSE row.type

\* The attestor as registered now stands behind the attestation.
Vouches(t) ==
    LET row == attestors[t.attestor] IN
    /\ row.status = "ACTIVE"
    /\ t.type = AttestationType(row)
    /\ t.key = row.key

\* execution_receipt_by_authorization finds a row.
OnRecord == receipt # Absent

\* Mutant: the fingerprint of the receipt is compared and its status is not.
ClaimNames(t) == OnRecord /\ t.claim.receipt = receipt

\* _verify_claim, against the receipt as it is now.
ClaimHolds(t) ==
    /\ OnRecord
    /\ t.claim.receipt = receipt
    /\ t.claim.status = "SUCCEEDED" => receipt.status = "CONFIRMED"
    /\ t.claim.status = "FAILED" => receipt.status = "FAILED"
    /\ t.type = SelfReport => t.claim.executor = t.attestor
    /\ t.type = "CHAIN_VERIFIER" => t.claim.evidence = "CHAIN_RECEIPT"

InTerm(row) == row.term = Never \/ now < row.term

\* verify_and_record, up to the claim.
Attest(w, t) ==
    /\ Vouches(t) /\ InTerm(attestors[t.attestor])
    /\ Begin(w, t, "claim")
    /\ UNCHANGED <<now, execution, registry, outcomes, object, failures>>

AttestOutcome(w) == \E t \in Attestations : Attest(w, t)

\* The lifecycle object holds the receipt of its execution.
Observe == OnRecord /\ \E t \in Attestations : Attest(Genesis, t)

CheckClaim(w) ==
    /\ pc[w] = "claim"
    /\ \/ ClaimHolds(work[w]) /\ Continue(w, "recordClaim")
       \/ ~ClaimHolds(work[w]) /\ Return(w)
    /\ UNCHANGED <<now, execution, registry, outcomes, object, failures>>

\* An id of the table is bound to other content.
Clashes(x, table) == \E y \in table : y.id = x.id /\ y # x

\* Mutant: the claim is inserted without a look at its id.
InsertClaim(w) ==
    /\ pc[w] = "recordClaim"
    /\ claims' = claims \cup {work[w].claim}
    /\ Continue(w, "recordAttestation")
    /\ UNCHANGED <<now, execution, registry, attestations, events, ledger, object, failures>>

RecordClaim(w) ==
    LET c == work[w].claim IN
    /\ pc[w] = "recordClaim"
    /\ \/ /\ ~Clashes(c, claims)
          /\ claims' = claims \cup {c}
          /\ Continue(w, "recordAttestation")
       \/ Clashes(c, claims) /\ Return(w) /\ UNCHANGED claims
    /\ UNCHANGED <<now, execution, registry, attestations, events, ledger, object, failures>>

\* Mutant: the word of the executor teaches, too.
Settles(t) == t.claim.status \in Terminal

\* What authority learns from.
Teaches(t) == t.claim.status \in Terminal /\ t.type # SelfReport

\* The API goes on to the authority event; observe keeps the outcome instead.
RecordAttestation(w) ==
    LET t == work[w] IN
    /\ pc[w] = "recordAttestation"
    /\ IF Clashes(t, attestations)
       THEN Return(w) /\ UNCHANGED <<attestations, outcome>>
       ELSE /\ attestations' = attestations \cup {t}
            /\ outcome' = IF w = Genesis THEN t ELSE outcome
            /\ IF w # Genesis /\ Teaches(t) THEN Continue(w, "event") ELSE Return(w)
    /\ UNCHANGED <<now, execution, registry, claims, events, ledger, learning, graph,
                   proof, failures>>

Verdict(c) == IF c.status = "SUCCEEDED" THEN "EXECUTION_CONFIRMED"
              ELSE "EXECUTION_FAILED"

\* The id of an event is the hash of agent, capability, verdict and claim.
Same(e, f) == e.claim = f.claim /\ e.verdict = f.verdict

\* Time and metadata differ from call to call: an event built when its row is
\* there already is another than the row ("first").
Event(t) ==
    [claim |-> t.claim.id, verdict |-> Verdict(t.claim), attestation |-> t.id,
     first |-> \A e \in events : ~(e.claim = t.claim.id /\ e.verdict = Verdict(t.claim))]

\* DynamicAuthorityService.record_event: the row, which is idempotent.
RecordEvent(w) ==
    LET e == Event(work[w]) IN
    /\ pc[w] = "event"
    /\ events' = IF e.first THEN events \cup {e} ELSE events
    /\ built' = [built EXCEPT ![w] = e]
    /\ Goto(w, "ledger")
    /\ UNCHANGED <<now, execution, registry, claims, attestations, ledger, work, object,
                   failures>>

\* Mutant: an event whose row was there is not appended.
AppendFirst(w) ==
    LET e == built[w] IN
    /\ pc[w] = "ledger"
    /\ ledger' = IF e.first THEN Append(ledger, e) ELSE ledger
    /\ IF w = Genesis THEN Continue(w, "snapshot") ELSE Return(w)
    /\ UNCHANGED <<now, execution, registry, claims, attestations, events, object, failures>>

\* and the ledger, which keeps the entry it has for the id.
AppendLedger(w) ==
    LET e == built[w] IN
    /\ pc[w] = "ledger"
    /\ ledger' = IF \E k \in DOMAIN ledger : Same(ledger[k], e)
                 THEN ledger ELSE Append(ledger, e)
    /\ IF w = Genesis THEN Continue(w, "snapshot") ELSE Return(w)
    /\ UNCHANGED <<now, execution, registry, claims, attestations, events, object, failures>>

-------------------------------------------------------------------------------
(* GenesisLifecycle.learn and prove                                        *)

Learn ==
    /\ outcome # None
    /\ Begin(Genesis, outcome, IF Teaches(outcome) THEN "event" ELSE "snapshot")
    /\ UNCHANGED <<now, execution, registry, outcomes, object, failures>>

Snapshot ==
    /\ pc[Genesis] = "snapshot"
    /\ learning' = [id |-> "learned", event |-> built[Genesis],
                    head |-> IF ledger = <<>> THEN None ELSE Last(ledger)]
    /\ Return(Genesis)
    /\ UNCHANGED <<now, execution, registry, outcomes, outcome, graph, proof, failures>>

\* The chain of the ledger is verified as it is read (module DynamicAuthority).
LedgerEntries == ToSet(ledger)

\* EvidenceGraph.build: what it reads, in its order.  Evidence that does not
\* verify, or a count other than one, makes the lifecycle profile refuse the
\* graph; the build ends there.
Prove ==
    /\ outcome # None /\ learning # None
    /\ Begin(Genesis, None, "receipt")
    /\ graph' = [id |-> "graph", ledger |-> LedgerEntries, since |-> now,
                 live |-> ActivePairs(attestors)]
    /\ UNCHANGED <<now, execution, registry, outcomes, outcome, learning, proof, failures>>

Read(name, value) ==
    graph' = [x \in DOMAIN graph \cup {name} |-> IF x = name THEN value ELSE graph[x]]

Refuse == Return(Genesis) /\ graph' = None

\* verify_execution_authorization compares with the clock, not with the time of
\* the execution.
AuthorizationVerifies == now <= AuthorizationEnds

ReadReceipt ==
    /\ pc[Genesis] = "receipt"
    /\ \/ AuthorizationVerifies /\ Read("receipt", receipt) /\ Continue(Genesis, "claims")
       \/ ~AuthorizationVerifies /\ Refuse
    /\ UNCHANGED <<now, execution, registry, outcomes, outcome, learning, proof, failures>>

ReadClaims ==
    /\ pc[Genesis] = "claims"
    /\ \/ \E c \in claims :
             claims = {c} /\ Read("claim", c) /\ Continue(Genesis, "attestations")
       \/ Cardinality(claims) # 1 /\ Refuse
    /\ UNCHANGED <<now, execution, registry, outcomes, outcome, learning, proof, failures>>

AttestationsOf(c) == {t \in attestations : t.claim.id = c.id}

ReadAttestations ==
    LET found == AttestationsOf(graph.claim) IN
    /\ pc[Genesis] = "attestations"
    /\ \/ \E t \in found :
             found = {t} /\ Read("attestation", t) /\ Continue(Genesis, "verify")
       \/ Cardinality(found) # 1 /\ Refuse
    /\ UNCHANGED <<now, execution, registry, outcomes, outcome, learning, proof, failures>>

\* verify_existing: the attestor, then the claim, both as they are now.
VerifyAttestor ==
    /\ pc[Genesis] = "verify"
    /\ \/ Vouches(graph.attestation) /\ Continue(Genesis, "verifyClaim") /\ UNCHANGED graph
       \/ ~Vouches(graph.attestation) /\ Refuse
    /\ UNCHANGED <<now, execution, registry, outcomes, outcome, learning, proof, failures>>

VerifyClaim ==
    /\ pc[Genesis] = "verifyClaim"
    /\ \/ ClaimHolds(graph.attestation) /\ Continue(Genesis, "history") /\ UNCHANGED graph
       \/ ~ClaimHolds(graph.attestation) /\ Refuse
    /\ UNCHANGED <<now, execution, registry, outcomes, outcome, learning, proof, failures>>

HistoryOf(a) == {d \in actions : d.attestor = a}

\* Mutant: what was approved once stays approved.
ReadHistoryAsRecorded ==
    LET found == HistoryOf(graph.attestation.attestor) IN
    /\ pc[Genesis] = "history"
    /\ \/ \E d \in found :
             found = {d} /\ Read("action", d) /\ Continue(Genesis, "events")
       \/ Cardinality(found) # 1 /\ Refuse
    /\ UNCHANGED <<now, execution, registry, outcomes, outcome, learning, proof, failures>>

\* The quorum behind a governance node is verified again, as of now.
GovernanceVerifies(d) == Approved(d)

\* The profile wants exactly one governance_action node, and that it verifies.
ReadHistory ==
    LET found == HistoryOf(graph.attestation.attestor) IN
    /\ pc[Genesis] = "history"
    /\ \/ \E d \in found :
             /\ found = {d} /\ GovernanceVerifies(d)
             /\ Read("action", d) /\ Continue(Genesis, "events")
       \/ ~(\E d \in found : found = {d} /\ GovernanceVerifies(d)) /\ Refuse
    /\ UNCHANGED <<now, execution, registry, outcomes, outcome, learning, proof, failures>>

\* validate_observed_effect_binding: a claim without an observed effect proves
\* nothing.  The status of the effect is not compared with that of the claim.
ObservedEffectBinds(c) == c.effect # "NONE"

\* Mutant: the event is looked up by its id and not compared.
LearningBindsById(g, e) ==
    /\ g.claim.status \in Terminal
    /\ e.verdict = Verdict(g.claim)
    /\ e.attestation = g.attestation.id
    /\ \E f \in g.ledger : Same(e, f)
    /\ learning.head # None /\ Same(learning.head, e)

\* validate_authority_learning_binding: the one event of the claim agrees with
\* claim and attestation, stands in the ledger as it stands in its table, and
\* is the head of the snapshot.
LearningBinds(g, e) ==
    /\ g.claim.status \in Terminal
    /\ e.verdict = Verdict(g.claim)
    /\ e.attestation = g.attestation.id
    /\ \E f \in g.ledger : Same(e, f)
    /\ \A f \in g.ledger : Same(e, f) => e = f
    /\ learning.head = e

\* The claim names the receipt that was read.
ClaimBinds(g) == g.claim.receipt = g.receipt /\ ObservedEffectBinds(g.claim)

\* The attestation is of that claim, and by the attestor that was read.
AttestationBinds(g) == g.attestation.claim = g.claim

\* The attestor derives from the governance action that was read.
GovernedLineage(g) == g.action.attestor = g.attestation.attestor

\* The edges from the event to the snapshot name nodes of the graph.
EdgesBind(e) == learning.event # None /\ Same(learning.event, e)

EventsOf(c) == {e \in events : e.claim = c.id}

\* The last read, then validate of the profile on exactly one node of a type.
Seal ==
    LET found == EventsOf(graph.claim)
        kept == {e \in found :
                   /\ found = {e}
                   /\ ClaimBinds(graph) /\ AttestationBinds(graph)
                   /\ LearningBinds(graph, e) /\ EdgesBind(e)
                   /\ GovernedLineage(graph)}
    IN
    /\ pc[Genesis] = "events"
    /\ proof' = IF kept = {} THEN proof
                ELSE [id |-> "proof", claim |-> graph.claim,
                      attestation |-> graph.attestation, action |-> graph.action,
                      event |-> CHOOSE e \in kept : TRUE]
    /\ Refuse
    /\ UNCHANGED <<now, execution, registry, outcomes, outcome, learning, failures>>

-------------------------------------------------------------------------------
(* Environment                                                             *)

\* The router records the receipt of the execution once.  A confirmation signs a
\* new one in its place, and asks of the copy its caller holds, never of the row,
\* that it is SUBMITTED: where a submission was recorded, a confirmation may
\* follow on any other, with the other status too.
Settle(r) ==
    /\ receipt = Absent => r.status \in {"SUBMITTED", "FAILED"} /\ r.copy = 0
    /\ receipt # Absent => r.status \in Settled /\ r.copy = receipt.copy + 1
    /\ receipt.status \in Settled => receipt.copy > 0
    /\ receipt' = r /\ recorded' = recorded \cup {r}
    /\ UNCHANGED <<now, registry, outcomes, locals, object, failures>>

Tick ==
    /\ now < MaxTime
    /\ now' = now + 1
    /\ UNCHANGED <<execution, registry, outcomes, locals, object, failures>>

\* An error or a crash ends a call between two of its steps.
Fail(w) ==
    /\ pc[w] # "idle" /\ failures < MaxFailures
    /\ failures' = failures + 1
    /\ Return(w)
    /\ graph' = IF w = Genesis THEN None ELSE graph
    /\ UNCHANGED <<now, execution, registry, outcomes, outcome, learning, proof>>

Next ==
    \/ \E w \in Callers : \/ GovernAttestor(w) \/ Change(w) \/ RecordAction(w)
                          \/ AttestOutcome(w)
    \/ Observe
    \/ \E w \in Threads : \/ CheckClaim(w) \/ RecordClaim(w) \/ RecordAttestation(w)
                          \/ RecordEvent(w) \/ AppendLedger(w) \/ Fail(w)
    \/ Learn \/ Snapshot
    \/ Prove \/ ReadReceipt \/ ReadClaims \/ ReadAttestations
    \/ VerifyAttestor \/ VerifyClaim \/ ReadHistory \/ Seal
    \/ Tick
    \/ \E r \in Receipts : Settle(r)

Spec == Init /\ [][Next]_vars

-------------------------------------------------------------------------------
(* Properties                                                              *)

Rows == [status : {"ACTIVE", "REVOKED", "EXPIRED"},
         key : {d.key : d \in Documents} \cup {Bootstrapped[a].key : a \in DOMAIN Bootstrapped},
         type : AttestorTypes,
         term : {Never} \cup {d.term : d \in Documents}]
Events == [claim : {c.id : c \in Claims}, attestation : {t.id : t \in Attestations},
           verdict : {"EXECUTION_CONFIRMED", "EXECUTION_FAILED"}, first : BOOLEAN]

\* Every table holds rows of its kind, an id is bound to one content, a row of
\* the events table is the first event of its id.
TypeOK ==
    /\ receipt \in Receipts \cup {Absent} /\ recorded \subseteq Receipts
    /\ attestors \in [Attestors -> Rows \cup {Absent}]
    /\ actions \subseteq Documents
    /\ claims \subseteq Claims /\ attestations \subseteq Attestations
    /\ \A x, y \in claims : x.id = y.id => x = y
    /\ \A x, y \in attestations : x.id = y.id => x = y
    /\ events \subseteq Events /\ ledger \in Seq(Events)
    /\ \A e \in events : e.first
    /\ built \in [Threads -> Events \cup {None}]
    /\ outcome \in Attestations \cup {None}
    /\ now \in 0..MaxTime /\ failures \in 0..MaxFailures

Agrees(c, r) ==
    /\ c.status = "SUCCEEDED" => r.status = "CONFIRMED"
    /\ c.status = "FAILED" => r.status = "FAILED"

\* A chain reorganization, or a stale confirmation, has put one final status in
\* the place of the other: the row is overwritten, what was said of it stays.
Reorged == \E r, s \in recorded : r.status = "CONFIRMED" /\ s.status = "FAILED"

\* A recorded outcome agrees with the receipt it names, and that receipt has been
\* on record, whatever was signed again between the check of a claim and its
\* commit.  It agrees with the receipt on record too, unless a final status has
\* been replaced by the other.
ClaimsMatchReceipts ==
    \A c \in claims :
        /\ c.receipt \in recorded /\ Agrees(c, c.receipt)
        /\ Reorged \/ Agrees(c, receipt)

\* Authority learns from independent attestations on record and from nothing
\* else: each event, in either table, names one, of the claim it is about,
\* with the verdict of that claim.  No self-report teaches.
LearnedFromAttested ==
    \A e \in events \cup ToSet(ledger) :
        \E t \in attestations :
            /\ t.id = e.attestation
            /\ t.claim \in claims /\ t.claim.id = e.claim
            /\ t.type # SelfReport
            /\ t.claim.status \in Terminal /\ e.verdict = Verdict(t.claim)

\* One execution is learned both as a success and as a failure only when its
\* receipt has been both, however many claims about it were attested.
OneVerdict ==
    \A e, f \in events \cup ToSet(ledger) : e.verdict = f.verdict \/ Reorged

\* When learn answers with an event, the ledger has that event: also when the
\* row was there already, left by a call that ended before its append.
LearningIsLedgered ==
    learning # None /\ learning.event # None =>
        \E k \in DOMAIN ledger : Same(ledger[k], learning.event)

\* A lifecycle proof that is kept is about evidence on record: claim,
\* attestation and event as stored, the ledger entry that is that event, a final
\* receipt that was on record and whose status still stands unless the other
\* has replaced it, and a recorded governance action of the attestor.
ProofIsGrounded ==
    proof # None =>
        /\ proof.attestation \in attestations
        /\ proof.claim = proof.attestation.claim /\ proof.claim \in claims
        /\ proof.attestation.type # SelfReport
        /\ proof.event \in events \cap ToSet(ledger)
        /\ proof.event.attestation = proof.attestation.id
        /\ proof.claim.receipt \in {r \in recorded : r.status \in Settled}
        /\ Reorged \/ receipt.status = proof.claim.receipt.status
        /\ proof.action \in actions
        /\ proof.action.attestor = proof.attestation.attestor

\* A proof is kept only while what it rests on is alive: the attestor was active
\* with the key of the attestation at some moment of the build, and neither the
\* authorization nor the approvals of the attestor had expired when it began.
\* What was revoked, rotated or has expired before proves nothing any more.
ProofNeedsLiveEvidence ==
    [][proof' # proof =>
          /\ <<proof'.attestation.attestor, proof'.attestation.key>> \in graph.live
          /\ graph.since <= AuthorizationEnds
          /\ graph.since < proof'.action.ends]_vars
===============================================================================
