# Verigate in TLA+

Verigate decides whether an agent may perform an action, turns an ALLOW into a
signed one-time execution authorization, guards the execution, records receipts
and outcomes, and lets verified outcomes move the agent's authority up or down.
This directory holds the TLA+ models of that system, the TLC configurations that
check them and the TLAPS proofs about them. Paths such as `core/storage.py` are
relative to the source tree; `PROJECT.json` maps every definition to the lines it
was translated from.

How to run, inside this directory (each configuration of section 4 the same way):

    tlc -workers 2 -config ExecutionRouter.cfg MCExecutionRouter.tla
    tlc -workers 2 -config OutcomeAttestation.cfg MCOutcomeAttestation.tla
    tlapm ExecutionRouterProofs.tla

| Module | Models | Proofs |
|---|---|---|
| `ExecutionRouter`, `OneTimeExecution` | the execution boundary and what it promises | `ExecutionRouterProofs` |
| `DynamicAuthority`, `AuthorityHistory` | authority events, ledger, snapshots, resets, replay, and the history they promise | `DynamicAuthorityProofs` |
| `PolicyGovernance`, `QuorumGate` | publication, freeze and rollback of policies, the strict runtime, and what a quorum promises | `PolicyGovernanceProofs` |
| `CapabilityAuthority` | identities, capabilities, delegation, the walk of a chain | `CapabilityAuthorityProofs` |
| `GuardrailEngine`, `IntentPlan` | evaluation, issuing, persistence; the assessment of plans | `GuardrailEngineProofs`, `IntentPlanProofs`, `FiniteSums` |
| `OutcomeAttestation` | outcome claims, attestors, learning, lifecycle proofs | `OutcomeAttestationProofs` |

## 1. Where the concurrency comes from

FastAPI runs the synchronous handlers of `api/main.py` on a thread pool. All
threads of a process share one `Storage`: one SQLite connection behind one
re-entrant lock that each storage method takes for itself. Several processes may
open the same database (WAL mode, 30 s busy timeout; the threat model names a
multi-process test). Services (`core/*.py`, `enforcement/*.py`) call several
storage methods in a row and hold no lock in between.

So the unit of atomicity of every model is **one storage call**, and everything a
service does between two storage calls interleaves with everything any other
thread or process does. A model's *worker* is a thread or a process in the middle
of one service method; its local variables (what it read so far) are the
variables of the module indexed by worker. A worker may die between any two
steps; what it left in the tables stays.

## 2. Inventory

| Component | State it keeps | Operations | What is hard about it | What makes it correct |
|---|---|---|---|---|
| Execution router (`enforcement/router.py`, `monitor.py`) | tables `execution_nonces`, `execution_receipts` | `consume`, `execute`, `execute_with_receipt`, `confirm_execution_receipt` | races on one nonce, crash between consumption, broadcast and receipt, lost answers of the broadcaster, confirmations from stale receipts | one side effect per intent; receipts never claim more than happened; expiry and terminal receipts are final |
| Adapters (`enforcement/local.py`, `evm.py`, `solana.py`, `tool.py`) | none (they call the router's storage) | `validate`, `execute_after_consume`, `execute_bound_after_consume` | refusing after the nonce is gone | a refusal never executes and still leaves a receipt |
| External state (`core/external_state.py`, `enforcement/external_state*.py`, `adapters/cmc`) | bindings inside authorizations | `verify` before consumption, on-chain guard | drift between the check and the effect | no effect past a refused check; the state at the effect is outside the program |
| Dynamic authority (`core/authority_state.py`) | `authority_events`, `authority_ledger`, `authority_states` | `record_event`, `snapshot`, `assert_action`, `explain` | a snapshot is five storage calls; event and ledger entry are two commits; the saved state is an unconditional upsert | the ledger is a chain; no action is authorized past incidents on record; suspension lasts until a reset |
| Governance reset (`core/governance.py`) | `authority_resets`, `governance_approvals` | `reset`, `multiparty_governance_reset`, quorum verification | validation and registration are separate calls; documents may be issued in the future | epochs advance one by one and only in answer to an incident |
| Replay (`core/authority_replay.py`) | none | `replay_authority_decision` | recomputes from tables what the snapshot read at several moments | an authorization replays, now and after later events |
| Policy governance (`core/policy_version.py`) | `policy_versions`, `governed_policy_changes`, `governance_approvals`, `policy_controls`, `policy_control_actions` | publish, freeze, rollback, the strict runtime | concurrent publications, controls without compare-and-swap, an open transaction after a refusal | every change continues a governed one; controls come from approved actions; a strict runtime issues for an enforceable policy only |
| Engine and authorization (`core/engine.py`, `authorization.py`, `rules.py`) | `audit_log`, `authorization_artifacts` | `evaluate`, `evaluate_action`, `authorize*`, `_persist_authorization` | limits that depend on the log, retries with one intent id, three checks that must imply one ceiling | spend and rate limits; one authorization per intent; a signature belongs to its decision |
| Identity, capabilities, delegation (`core/authority.py`, `capabilities.py`, `identity.py`) | `identities`, `capabilities`, `authority_edges`, `capability_delegations` | register, delegate, revoke, `assert_authority` | delegation against a revocation of an ancestor; the chain is walked by many calls | nothing is authorized through a revoked ancestor; scopes only shrink |
| Outcomes and attestors (`core/outcome.py`, `attestor.py`) | `execution_outcome_claims`, `outcome_attestations`, `outcome_attestors`, `attestor_governance_actions` | attest, register, activate, rotate, revoke, expire | four commits per attestation; the attestor is changed before its action is recorded; the receipt moves meanwhile | outcomes agree with receipts; authority learns from independent attestations only, and one verdict |
| Effective authority, money (`core/effective_authority.py`, `money.py`, `models.py`) | none | intersection of ceilings, scaling, amounts | empty lists that mean "unrestricted", letter case | what was authorized can be executed; a ceiling never allows more than either side |
| Genesis lifecycle (`core/genesis_lifecycle.py`) | a stage and its artifacts, in memory | identify ... learn, prove | the tables move while a proof is built from them | a proof that is kept is about evidence on record |
| Evidence, proofs, offline verification | graph snapshots | what the graph reads and what a profile validates | reads at different moments | as for the lifecycle |
| API, tenancy, integrations, CLI, demos | per-tenant storages in memory | wiring | check-then-create of a tenant's storage | one lock per database |

`PROJECT.json` lists the same components with what is and is not modelled, and the
hazards of the code, each at the line where it bites and with the properties that
watch it, or a note why none does.

The components meet as follows: the engine asks identity, capability and dynamic
authority for permission and issues an authorization that carries the snapshot of
that authority; the router consumes the authorization and writes a receipt; an
attestor confirms the outcome against the receipt; the attested outcome becomes an
authority event; the event changes the next snapshot. A governance reset is the
only way back from a suspension. Replay and the proof tools check afterwards that
an authorization followed from the history it names.

## 3. Modules

### ExecutionRouter, OneTimeExecution

`OneTimeExecution` is what the execution boundary promises: an intent is granted
to one authorization, its side effect is invoked at most once and only after the
grant, and evidence of a submission is published only for that authorization.

`ExecutionRouter` is the code. One action per step of a method:

| Action | Code |
|---|---|
| `Execute`, `ExecuteWithReceipt`, `Confirm` | a call enters `execute`/`consume`, `execute_with_receipt`, `confirm_execution_receipt` |
| `Lookup` | the existing receipt of the authorization, returned as it is |
| `Verify` | signature, validity window, adapter, adapter validation, execution path |
| `CheckState` | the live external state check, which is slow and may refuse |
| `Consume` | `INSERT INTO execution_nonces`, the primary key decides |
| `Refuse`, `Broadcast` | the adapter refuses or calls the broadcaster; the transaction and the answer can be lost independently |
| `Record` | `INSERT INTO execution_receipts`, unique per authorization |
| `Monitor`, `Update` | the network's answer for the caller's copy of a receipt, then an unconditional `UPDATE` |
| `Expire`, `Include`, `Reorg`, `Crash` | clock, network and process |

`Fail` is the difference between the methods: `execute` and `consume` hand an
exception to their caller, `execute_with_receipt` turns it into a FAILED receipt.
For `consume` and for a direct `execute` the side effect is performed by the
caller or the adapter right after the nonce is consumed; it is the same
`Broadcast` step without a receipt.

`nonces`, `receipts` are the tables; `network` is what really became of each
authorization's transaction; `broadcasts` counts invocations of the side effect.
The last two exist only in the model, so that receipts can be compared with facts.
A receipt is its status, whether it names a transaction, and `content`, which stands
for the rest of what is signed: a confirmation signs its own time and the network's
data, so two confirmations of one copy write different bytes (`Answered`).

### DynamicAuthority, AuthorityHistory

`AuthorityHistory` is what the tables promise whoever replays them: a history of
evidence and a history of epochs, both of which only grow, by one row behind the
last one (`Record`, `OpenEpoch`), and authorizations that are bound to a row which
stays (`Bind`). `DynamicAuthority` implements it with
`bound <- {g.head : g \in grants}`; events without a ledger entry, documents that
were checked and not registered, and everything a worker has read are its own
affair.

One agent and one capability: every table involved is keyed by that pair, and
nothing relates two pairs.

| Action | Code |
|---|---|
| `BeginRecord`, `RecordEvent` | `record_event` builds the event with its time, then inserts it; evidence on record keeps its first time |
| `ReadHead`, `Append` | `append_authority_ledger`: the lookup and the insert. Threads of one process exclude each other here, processes do not; the unique constraints do |
| `BeginSnapshot`, `Clock`, `Boundary`, `ReadEvents`, `ReadPrevious`, `ReadLedgerHead`, `Save` | `snapshot`, one action per storage call, then what its caller does with it |
| `Mint` | the engine binds the snapshot into an authorization |
| `BeginReset`, `CheckEpoch`, `CheckIncidents`, `Register` | `AuthorityGovernanceService.reset` and `multiparty_governance_reset`; both run a snapshot in the middle and another one, as of `issued_at`, at the end |
| `Tick`, `Crash` | clock; death of a worker, or a storage call that raises |

`Verdict` and `Earned` are the rule table of `snapshot`. `Committed`,
`ReplayedSince`, `ReplayedTally` and `Reproducible` are the recomputation of
`replay_authority_decision`; `Verifies` is its call of
`verify_execution_authorization`, which compares the expiry of the authorization
(`until`, `Lifetime` after it is issued) with the present clock and refuses a
multiplier above one (a state in `OverOne`); `Replays` is both.
`known` is a history variable: the incidents on record when `assert_action` began.

Abstractions: an event is its evidence reference and its kind; a hash is the event
it commits to; a document that fails its own verification (signature, quorum,
inactive capability or identity) changes nothing and is left out; the amount rules
of `assert_action` are a refusal that may happen; there is one authority policy
(the code evaluates a reset's snapshots with the default policy, listed as a
hazard).

### PolicyGovernance, QuorumGate

`QuorumGate` is the promise: a governed document takes effect at most once, with
the approvals of enough distinct governors, enough of them in the required role.
`PolicyGovernance` implements it with `effects <- governed \cup taken`.

| Action | Code |
|---|---|
| `BeginPublish`, `CheckPublished`, `CheckLineage`, `Register` | `GovernedPolicyVersionRegistry.publish`: the quorum, "already published", the latest governed version, `register_governed_policy_change` |
| `BeginControl`, `CheckAction`, `CheckCurrent`, `CheckActive`, `CheckTarget`, `Apply` | `GovernedPolicyControlService.apply`: one read for each check, then `apply_policy_control`, an insert and an unconditional upsert |
| `BeginAuthorize`, `Evaluate`, `SignVersion`, `CheckGoverned`, `CheckControl`, `Issue` | the strict runtime: `signed_policy_version` stores its own artifact, then `_assert_governed_policy_control` makes two reads |
| `Restart` | the process ends, its open transaction with it, and may start with another policy |

All threads share one connection. `pending` is what one of them has inserted and
not committed: `register_governed_policy_change` raises a plain `ValueError` after
inserting the approvals, so they are committed by whoever commits next, or rolled
back by a call whose transaction fails, `evaluate_action` included. `live` is a
history variable: the policy was enforceable at some instant of this request.

Abstractions: a policy is its digest; a document that fails its own verification
changes nothing and is left out; documents do not expire, which only adds
behaviours.

### CapabilityAuthority

| Action | Code |
|---|---|
| `RegisterIdentity`, `RevokeIdentity`, `RegisterCapability`, `RevokeCapability` | the registries, one storage call each |
| `BeginDelegate`, `CheckDelegator`, `CheckRecipient`, `RegisterDelegated` | `CapabilityDelegationService.delegate`; the last is one transaction that looks at the parent again, and at nothing else |
| `BeginRevoke`, `RevokeDelegated`, `RevokeEdge` | `revoke`: two commits |
| `WalkCapability`, `WalkOwner` | `effective_active`, hop by hop: `capability`, `capability_is_active`, `identity_is_active` |
| `BeginAuthorize`, `CheckIdentity`, `CheckPermit`, `Issue` | the control-plane path: identity, `assert_authority` with a first walk, `AuthorizationService.issue` with a second one |
| `Tick`, `Crash` | clock; a worker dies |

`at` and `then` are where a walk is and what follows it; `intact` is a history
variable: nothing in the chain was revoked or expired when the walk began. `Chain`
is the smallest closed set of parents, so no bound on its length is needed.

Abstractions: identities do not expire; `aggregate_limits` and `conditions`, which
nothing evaluates, are left out; context constraints are sets of values; the
`visited` set and `max_depth` of the walk are left out (a parent is registered
before its child, so there is no cycle, and the depth is bounded at delegation);
`issue` reads the clock once.

### GuardrailEngine, IntentPlan

One agent, because the log is read by agent. An asset may come in several
spellings (`Upper` gives the one in which the rules look up the caps), and a request
may have no amount or no asset.

| Action | Code |
|---|---|
| `Begin` | a handler of `api/main.py` makes the intent: a fresh id for `check`, `authorize` and `authorize/capability`, the client's for the others |
| `Evaluate` | `evaluate` and `evaluate_action`: rules over the log and the row, in one `BEGIN IMMEDIATE` |
| `Issue` | capability, dynamic authority, assessment, identity, then the two kinds of artifact |
| `Record`, `Sign` | `record_authorization_artifacts` and `update_signature`, two commits |
| `Abandon` | a refusal of any check, or a dead caller, between two steps |
| `MinutePasses`, `DayPasses` | the oldest row of a window leaves it |

`Refuses`, `OffList`, `NeedsConfirmation`, `OverCap` and `RateExceeded` are the
rules; `Permits` is `Capability.permits`; `Effective` is `effective_authority`;
`Admits` is what the execution boundary admits: a multiplier of at most one
(`verify_execution_authorization`) and `verify_effective_action`. Each of them reads
assets as the code does: the rules and the policy's caps in upper case, the log, a
capability's limits and the signed ceiling as spelled. The lists on action type,
purpose, target, network and asset are one rule with a value per field; the letter
case is in (`Lower`, `Caseless`), and so is that a payment is held to the payees,
networks and assets of the policy and not to what it says of actions.

`IntentPlan` has the builder, `validate` and `assess` of intent graphs as
operators. `Assess` recurses as the code does, through a function of the set
`visiting` that the code passes along, so that a cycle ends the recursion;
`EligibleByReference` is the reference definition, through least closed sets. The
ceiling is compared only where the action has an amount and the capability a limit
for its asset, and suspension is a test of its own, as in the code. The engine uses
it for a plan of one action (`Assessed`).

Abstractions: whether capability and policy version are in force belongs to the
modules above, here issuing may refuse; amounts are exact naturals (the code uses
`Decimal`; an invalid amount is always blocked); context constraints,
provenance, execution graphs and destinations are left out or stand as fields, as
are blanks around a purpose; edges of a plan are a set.

### OutcomeAttestation

One authorization. `Callers` are threads of the API, `Genesis` is the lifecycle
object of the authorization.

| Action | Code |
|---|---|
| `GovernAttestor`, `Change`, `RecordAction` | `AttestorAuthorityService.apply`: the change of the attestor first, the record of the action last |
| `AttestOutcome`, `Observe`, `CheckClaim`, `RecordClaim`, `RecordAttestation` | `verify_and_record`: the attestor, the receipt, two commits |
| `RecordEvent`, `AppendLedger` | `record_event`: two more commits |
| `Learn`, `Snapshot` | `GenesisLifecycle.learn` |
| `Prove`, `ReadReceipt`, `ReadClaims`, `ReadAttestations`, `VerifyAttestor`, `VerifyClaim`, `ReadHistory`, `Seal` | `EvidenceGraph.build` in the order of its reads, then the `authority_lifecycle` profile |
| `Settle` | the router records the receipt, and a confirmation of a SUBMITTED copy replaces whatever the row holds by a final status, signed again |
| `Tick`, `Fail` | clock; a call ends between two steps |

A receipt is its status and which copy it is, because a late confirmation signs it
again, possibly with the other final status (the trace of `router_reorg`).
`recorded` is a history variable: every receipt the row has held. `Reorged` says that
these include a CONFIRMED and a FAILED one, which is when two verdicts are possible.
The content of an event is whether it was built when its id was new
(`first`): time and metadata differ from call to call. `graph` is what a build has
read so far, with the history of which attestor keys were active meanwhile.

Abstractions: signatures and quorums are preconditions of an attestation or a
document; an approved document may come any number of times until it expires; only
the lifecycle profile; what that profile asks of counters and times is left out;
a build ends at the first evidence that does not verify, where the code goes on and
the profile refuses the whole.

### MC modules

The MC modules give constants their values and define the symmetry sets. All
instances are symmetric in the workers where there are two of them;
`MCDynamicAuthority` also in the two incidents, which have the same kind, and
`MCPolicyGovernance` in the two governors without a role. The liveness run and
the run with an action property and one caller use no symmetry.

## 4. Runs

| Run | Instance | What it shows |
|---|---|---|
| `router` | 2 authorizations of 1 intent, 3 workers, 1 crash, 2 contents of a confirmation, final answers | `OneBroadcastPerIntent`, `ReceiptsTruthful`, `ExpiryIsFinal`, `SettledReceiptIsFinal`, `TerminalStatusIsFinal`, `ImplementsOneTime` |
| `router_liveness` | the same with 2 fair workers and reorganisations | `ConsumptionLeavesReceipt` |
| `router_lost_submission` | 2 workers, no crash | counterexample to `SubmissionIsRecorded` |
| `router_reorg` | 2 workers, reorganisations | counterexample to `TerminalStatusIsFinal` |
| `authority` | 2 incidents, 2 processes, clock to 3, window 1, 2 epochs, 1 crash | `EpochsAdvance`, `EpochNeedsIncident`, `GrantsHeedIncidents`, `ImplementsHistory` |
| `authority_replay` | 2 incidents and a success, 1 worker, clock to 5, window 2, lifetime 2, 2 epochs | `GrantsReplay`, `LaterEventsKeepReplay` |
| `authority_concurrent_replay` | 1 incident, 1 success, 2 workers | counterexample to `GrantsReplay` |
| `authority_suspension` | 2 incidents, 1 worker, window 1, clock to 5 | counterexample to `SuspensionNeedsReset` |
| `policy` | 3 governors, 2 of 3 with one officer; a first version, two rivals, a freeze and a rollback; 2 workers, 1 restart | `LineageIsGrounded`, `ApprovalsBackChanges`, `ControlIsGoverned`, `IssuesOnlyEnforceable`, `ImplementsQuorumGate` |
| `capabilities` | a chain of 3 capabilities and a child that drops its limit, 2 identities, 2 workers, clock to 1 | `DelegationNarrows`, `RevocationIsHeeded`, `AuthorizationsAreConfined`, `EdgesFollowCapabilities` |
| `engine` | 5 requests over the five paths, two under one id, two spellings of one asset, multipliers 0, 1/2, 1 and 3/2, 2 workers, 3 rows; all plans of 3 nodes, up to the order of the nodes | `WithinLimits`, `SignaturesBelong`, `OneAuthorizationPerIntent`, `AuthorizedIsExecutable`, `CeilingConfines`, `PlansAreAssessed` |
| `outcomes` | 1 caller and the lifecycle object, 2 attestors, 4 documents, 5 attestations, 5 receipts (SUBMITTED, FAILED without a transaction, two copies of CONFIRMED, FAILED after a reorganisation), 1 failure, clock to 2 | `ClaimsMatchReceipts`, `LearnedFromAttested`, `OneVerdict`, `LearningIsLedgered`, `ProofIsGrounded`, `ProofNeedsLiveEvidence` |

Bounds and why they suffice. Router: two workers race for the nonce and a third one
confirms, retries or holds an old receipt; two authorizations are what it takes for
one intent to be authorized twice; two contents are what it takes for a confirmation
to replace another one's bytes; one crash separates any two steps of any worker, and
the crashed worker's work can be retried by the others. Authority: two processes are
what a race needs, two incidents and a clock to 3 are what a second epoch needs, and
with a window of 1 the first incident leaves the window inside the run. The run
without interleavings has a longer clock, in which an incident and every
authorization expire, a reset moves the start of the history and successes are
earned after it. `MaxGrants` bounds how many authorizations are remembered, not how
many are issued: which one is remembered is a free choice. It is 0 where no property
speaks of a remembered authorization, so `authority` checks `ImplementsHistory` for
ledger and epochs under every race and a crash; that what an authorization is bound
to is on record is part of `GrantsReplay` in `authority_replay`. `LedgerIsChain` has
no run of its own: it holds of every history (a row is added behind the last one and
commits to it), and it is proved. Counters bounded in guards: `crashes <
MaxCrashes`, `now < MaxTime`; epochs that governors ask for are at most `MaxEpoch`.
No run disables deadlock checking.

Policy: two threads are a race, two rivals for one version are a fork, three
governors are the least with two different quorums, which meet in the officer; a
restart forgets the open transaction and the cache. Capabilities: a chain of three
has an ancestor that is not the parent, a clock to 1 with expiry at 2 and a lifetime
of 2 makes an authorization too late; a child without a limit is what
`_limits_subset` must refuse. Engine: three rows are what it takes for a limit to be
exceeded by two racing calls after a first one, and for an intent id to have two
unsigned rows; a second spelling is what separates the rules, the log and the
ceiling, and a multiplier of 3/2 what separates issuing from the boundary; a plan of
three nodes has every shape of dependency, cycles included (no rule depends on the
order of the nodes, so one plan of each shape is enough). Outcomes: one caller and
the lifecycle object race for the same claim and event; a second copy of CONFIRMED
is a receipt that is signed again, FAILED with a copy one that was confirmed before,
and an attestation of each admits either verdict; a clock to 2 has an instant before
and after each expiry; one failure separates any two commits. What these instances
leave open (more callers, longer chains, other policies and multipliers) is what the
proofs are for. Bounds in guards: `restarts < MaxRestarts`, `Len(audit) < MaxRows`,
`failures < MaxFailures`, `now < MaxTime`, approvals in a request at most
`MaxApprovals`.

Fairness. `FairSpec` asks weak fairness of each worker's next step only: threads
are scheduled and RPC calls have timeouts. Nobody is obliged to call, the network
is not obliged to include anything, and the clock need not advance.

## 5. What the violated runs show

1. `router_lost_submission`. Two `execute_with_receipt` calls race on one
   authorization. The loser of the nonce turns "already consumed" into a FAILED
   receipt, and if it is faster than the winner's broadcast, the winner's SUBMITTED
   receipt hits the unique constraint: `record_execution_receipt` raises, the
   transaction reference is lost, and the stored receipt says FAILED although the
   effect happened once. `OneBroadcastPerIntent` still holds.
2. `router_reorg`. `confirm_execution_receipt` checks the status of the copy it was
   given and `update_execution_receipt` updates whatever row is there. Two monitors
   that started from the same SUBMITTED copy overwrite each other, which is visible
   once the network's answer changes between them. With final answers
   `TerminalStatusIsFinal` holds, since both write the same status, and with any
   answers a terminal receipt is settled byte for byte once the confirmations of its
   SUBMITTED copy have ended (`SettledReceiptIsFinal`).
3. `authority_concurrent_replay`. An event is committed before its ledger entry. A
   snapshot in between counts it but is bound to a ledger head that does not
   contain it; the authorization can never be replayed.
4. `authority_suspension`. The saved SUSPENDED state is honoured only while the
   scope has never been reset. After the first reset a second suspension ends by
   itself when its incident leaves the window, without a signed action.

Met while modelling, without a run of their own:

- A confirmation of a stale copy replaces a terminal row by other bytes even if the
  network's answer is the same, since it signs its own time and data and the
  `UPDATE` (`core/storage.py:622`) looks at nothing but the authorization.
  `tests/test_confirmation_router.py:156` compares the whole receipt and calls a
  terminal one idempotent, which holds for a copy that is terminal itself. Claims
  and proofs name the receipt by its digest: those of the replaced bytes stay, and
  what `ClaimsMatchReceipts` and `ProofIsGrounded` can say is that the receipt they
  name was on record.
- After a reorganisation the row may go from CONFIRMED to FAILED, and a claim of each
  status can be attested and learned from, one against each receipt. `OneVerdict`
  says that nothing else leads there.
- The replay, too, verifies the authorization without a verification time
  (`core/authority_replay.py:46`), so that nothing replays once it has expired, at
  most 300 s after it was issued. `docs/verigate-authority-proof-v1.md:35` asks for
  the recorded execution time. `GrantsReplay` and `LaterEventsKeepReplay` therefore
  speak of authorizations that still verify; `SoloGrantsReproducible` proves that
  nothing else ends a replay.
- A multiplier above one is signed for a capability without an identity and refused
  by the boundary (`attest/receipt.py:323`); a capability with one is assessed, and
  nothing is issued if its limit applies. `AuthorizedIsExecutable` says both.
- Every spelling of an asset has the whole daily cap: the rules look the cap up in
  upper case, `spent_today` sums over the spelling of the request
  (`core/storage.py:501`), and the API takes the asset as it comes. `WithinLimits`
  claims the cap for each spelling.
- The signed ceiling reads the policy's cap by the spelling of the capability
  (`core/effective_authority.py:101`): a limit for `usdc` is signed without the
  policy's cap for `USDC`. A cap that the policy itself does not spell in upper case
  is read there and never by the rules, so a request may be allowed that the boundary
  refuses. `CeilingConfines` and `AuthorizedIsExecutable` say what holds.
- A reset may be issued up to 60 s ahead. A snapshot takes the latest reset
  whatever its time, replay the latest one issued by the evaluation, so an
  authorization in between does not replay (`core/authority_replay.py:102`):
  `GrantsReplay` fails in `authority_replay` with `Skew = 1`, already with one
  incident, one epoch and a clock to 3. `SoloGrantsReplay` (section 6) therefore asks
  for `Skew = 0`.
- `AuthorizedIsExecutable` and `CeilingConfines` speak of lists only for requests
  that are spelled as the lists are (`Spelled`), and fail without it. The rules
  compare without case, skip a missing network or asset and never hold a payment to
  `allowed_targets`; `_intersect` and the boundary compare as spelled. So an allowed
  action may be refused at execution; and where capability and policy name the same
  thing differently the intersection is empty, which the boundary reads as no
  restriction.
- `core/evidence.py:416` verifies the authorization against the present clock as
  well (the offline verifier uses the recorded execution time), and a governance
  node needs its quorum to be alive: a lifecycle proof can only be made while both
  last.
- The API and the lifecycle object record an event under one id with different
  content. If row and ledger entry come from different calls, no lifecycle proof of
  that outcome can be kept any more.
- Replaying an ACTIVATE document revives a revoked attestor until it expires, and
  the history does not show it.
- A rollback whose checks were made before a freeze may be applied after it and
  undoes it: both are approved, and an action names the active policy it expects but
  not whether it is frozen.
- The lineage of governed policies can fork: two publications may validate against
  the same parent. Two disjoint quorums for one change can both be on record;
  `ApprovalsBackChanges` says "no others" only where quorums meet.
- A strict runtime stores its own artifact before it checks governance; publishing
  that digest is refused from then on, with the approvals left uncommitted.
- A retry of an intent id leaves two unsigned rows, neither of which is ever signed.
- `CapabilityRegistry.revoke` leaves the edge of a delegated capability ACTIVE, and
  HOLDS edges are never revoked: `EdgesFollowCapabilities` claims one direction.

## 6. Proofs

`ExecutionRouterProofs` proves, for every number of workers, authorizations,
intents and crashes:

- `TypeCorrect`: `Spec => []TypeOK`. Its induction is split into the shape of the
  locals of a worker (`LocalsOK`: which receipt it may hold at which step) and of
  the shared tables (`SharedOK`).
- `OneTimeExecutionHolds`: `Spec => []OneBroadcastPerIntent`. "At most one
  broadcast" is not inductive: the invariant `OneTimeInv` adds that a worker at
  `broadcast` holds the nonce, that no two workers do for one nonce, and that its
  intent has not been broadcast.
- `ReceiptsAreTruthful`, under the assumption that final answers stay final
  (`~AllowReorg`): `EvidenceInv` adds that every receipt a worker *holds* is
  justified by the tables and the network, since it is written later.
- `RouterImplementsOneTime`: `Spec => ImplementsOneTime`; each action maps to
  `Grant`, `Invoke`, `Publish` or a stutter.
- `ExpiryStaysFinal`: `Spec => ExpiryIsFinal`. The only step into the part behind
  the expiry check is `Verify`, whatever the other workers do meanwhile.
- `TerminalStatusStays`, again with `~AllowReorg`: `CopyInv` adds that the copy a
  confirmation works on names a transaction only if the row does. Two workers that
  write an answer for one transaction then write the same status (`AnswersAgree`),
  which is why the unconditional `UPDATE` changes no more than the bytes on a
  network with final answers, and why `router_reorg` has a counterexample without
  them.
- `SettledReceiptsStay`: `Spec => SettledReceiptIsFinal`, whatever the network does.
  `ConfirmingSteps` is the reason: only `Monitor` with a SUBMITTED copy leads to the
  write, and a confirmation that begins once the row is terminal copies the row.

`DynamicAuthorityProofs` proves, for every number of processes and crashes, every
finite set of evidence of any kinds, every window, threshold, skew and clock:

- `TypeCorrect`: `Spec => []TypeOK`. The proof has one lemma per phase of the
  methods (`RecordLocals`, `SnapshotLocals`, `DecisionLocals`, `CallLocals`) that
  says what a step does to the locals, and one (`TableSteps`) that says that the
  tables only grow: no event, row or reset is ever changed or removed. `Computed`
  says what a worker has computed by the step it is at. Everything below uses
  these.
- `LedgerAlwaysChain`: `Spec => []LedgerIsChain`. A worker between `ReadHead` and
  `Append` holds a head that may be old, but that is still a row (`HoldsLink`);
  the unique constraints do the rest.
- `EpochsAlwaysAdvance`: `Spec => []EpochsAdvance`. `EpochInv` adds that no epoch
  below a registered one is missing and that a document past `CheckEpoch` still
  extends a registered reset. If others were faster, its epoch is taken, so the
  unique constraint on the epoch alone keeps the order of the *timestamps*.
- `EpochsAlwaysNeedIncident`: `Spec => []EpochNeedsIncident`. `IncidentInv` follows
  the incident through the reset: the history of its snapshot starts at or after
  the reset it answers to (`base`, `since`), its SUSPENDED verdict comes from an
  incident in that history, or from a saved suspension while there was no reset,
  and `CheckIncidents` bounds the incident's time by the document's.
- `GrantsAlwaysHeedIncidents`: `Spec => []GrantsHeedIncidents`. `HeedInv` adds that
  the counters of a snapshot cover the incidents known at its start, a fact about
  cardinalities of subsets.
- `LaterEventsAlwaysKeepReplay`: `Spec => LaterEventsKeepReplay`, an action
  property: until it expires, an authorization that replays keeps replaying. No
  sequence number is missing (`NoRowMissing`), so a new row lies beyond every head
  and no committed prefix changes (`CommittedStays`).
- `TablesImplementHistory`: `Spec => ImplementsHistory`. `Append` maps to `Record`,
  `Register` to `OpenEpoch`, `Mint` to `Bind`, everything else to a stutter. That a
  row lands behind the *last* one follows from `ChainInv` and `NoRowMissing`: a
  worker that read an old head finds its sequence number taken. `HeadInv` adds that
  the head a worker holds when it mints is on record, and stays so.
- `SoloGrantsReplay`: `Spec => []GrantsReplay`, and `SoloGrantsReproducible`, that
  every authorization is `Reproducible` for good, expired or not, under `Solo`: one
  process, no crash between two of its storage calls, no reset dated ahead of the
  clock; any evidence, window, thresholds and number of epochs. Each hypothesis is
  needed: two processes are `authority_concurrent_replay`, a skew is the first of
  the disagreements at the end of section 5, and a crash between the two commits of
  `record_event` leaves an event that a snapshot counts and no ledger prefix holds.
  "It replays" is not inductive, because a reset that is registered later could
  change where the history of an earlier authorization starts. `SoloInv` says why
  none does. Between calls the ledger holds every event, with its time (`Tabled`,
  `Ledgered`); what a snapshot has read so far is what the tables still say (`Own`);
  and for each authorization, as long as no incident is as late as it is, the
  incidents of its history are too few to suspend and nothing is saved as SUSPENDED
  before the first reset (`Outlived`). A reset dated back before an authorization
  would have to cover all incidents, and then none of them suspends the scope, which
  is what a reset requires. TLC checked `SoloInv` on the instance of
  `authority_replay`, and with two critical events needed and two authorizations
  remembered.

`PolicyGovernanceProofs`, for all governors, documents, configurations, workers and
restarts. `ShapeInv` is the types with what each step works on (`WorkInv`).

- `LineageGrounded`: `LineageInv` adds that a worker about to register holds a
  change that is grounded in the changes on record; that stays true because changes
  are never removed.
- `ControlGoverned`: `ControlInv` says what each check found and that it stays
  found, up to the outcome of the action about to be applied.
- `IssuedEnforceable`: `IssueInv` carries the governed change from the first read
  to the second; `live` is set by the state in which the second one is made.
- `QuorumGateImplemented`: `Spec => ImplementsQuorumGate`; the effect of `Register`
  and `Apply` is the one step of the gate, all else is a stutter.
- `ChangesAreBacked`: `ApprovalInv` adds that every *pending* row is of a change
  whose digest is bound elsewhere, so that whoever commits it does no harm.

`CapabilityAuthorityProofs`, for chains of any length.

- `DelegationIsNarrow`: `NarrowInv` is about one link; a lemma on closed sets takes
  it to the whole chain without induction: the set of capabilities that are known
  and no narrower is closed under parents.
- `RevocationHeeded`: `Heeds` says that a walk which began over something gone
  still has something gone ahead of it, since nothing that is gone comes back.
- `EdgesFollow`: `EdgeInv` adds that a worker at `unlink` has revoked the capability.
- `AuthorizationsConfined`: `ConfinedInv` for the capability itself; the links
  narrow in expiry and scope.

`GuardrailEngineProofs`, for every policy, set of requests and multipliers, any
number of workers and any log. `Inv` adds to the properties that a decision in hand
is of its own row, unsigned, that no two workers have the same row in hand
(`RowsApart`), and that an accepted row passed the rules. `SignsOwnRow` is the
lemma that matters: if one unsigned row of the id is left, it is the worker's own.
`SignaturesAlwaysBelong`, `OneAuthorization`, `AuthorizedAlwaysExecutable` and
`CeilingAlwaysConfines` follow; the last two are facts about `Effective` for any
lists and numbers.

- `AlwaysWithinLimits`: `Spec => []WithinLimits`. `Limited` is the rate and the
  daily spend as cardinalities: the sum of amounts over a set of rows is the number
  of pairs of a row and one of its units (`FiniteSums`), so a row that is logged
  adds its amount, a row that leaves the window takes its own away, and a row that
  is merely signed changes nothing. The step that logs has read the window in the
  same transaction, which is the whole reason why no race exceeds a limit.

`IntentPlanProofs` proves what the recursion of `assess` computes, for plans of any
number of nodes with any dependencies. A recursive function is *a* function that
satisfies its equation; the reference definition satisfies it too, and by induction
over the nodes that are not being visited there is no other.

- `PlansAlwaysAssessed`: `Spec => []PlansAreAssessed`: an action is eligible exactly
  if it and everything it needs is within the authority and on no cycle, a plan that
  `validate` refuses is never eligible as a whole, and a multiplier above one blocks
  every action with an amount that the capability limits.
- `OneActionAssessed`: the plan of one action that the engine builds for a bound
  capability refuses exactly what the capability or the dynamic authority refuses,
  and a multiplier above one where an amount meets a limit.

`FiniteSums` has the two tools of these proofs: induction over the subsets of a
finite set, from the library's theorem that they are well-founded under inclusion,
with the property given as a set, and counted sums.

`OutcomeAttestationProofs`, for any number of callers, attestors, claims, documents
and failures. `Inv` has the types, the keys, what each thread has found
(`ThreadOK`), what the tables say of one another (`RecordsOK`), and for a build what
has been read and verified by each step (`Evidence`). The tables and the history of
receipts only grow (`Kept`), and that carries a check to its commit: a claim agreed
with a receipt that was on record (`Held`), and still does. What the receipt on
record says now follows only while one final status has not replaced the other:
`RowOK` says that a row that was final once stays final, and `StatusStands` that,
unless `Reorged`, it then has every final status it ever had. `ClaimsAlwaysMatch`,
`LearnedAlwaysAttested`, `AlwaysOneVerdict`, `LearningAlwaysLedgered`,
`ProofsAlwaysGrounded` and the action property `ProofsNeedLiveEvidence` are read off
it.

Every module also has its `TypeCorrect`.

Assumptions. Router: `NonceOf` is a function into the nonces, `NoAuthorization` is
not an authorization, the bounds have their types. Authority: the kinds, bounds
and thresholds have their types, the evidence is finite, the marker for "no event"
is not evidence, and a suspension needs at least one critical event
(`AuthorityPolicy` says 1 and does not validate it; with 0 every scope would be
suspended from the start and a reset would need no incident). Policy: the quorum
can be met, which `GovernancePolicy.validate` asks for, and documents are what
their constructors make. Capabilities, engine, outcomes: definitions, requests,
documents and attestations are what their builders admit, numbers are naturals,
and a plan has finitely many nodes and edges between them (`PlansType`, which
`EmptyBuilt`, `AddNodeBuilt` and `LinkBuilt` prove of whatever the builders make).
All of them are evaluated by TLC in the runs.

Only model-checked: liveness (`ConsumptionLeavesReceipt`: fairness is out of the
prover's reach) and the four counterexamples. `~AllowReorg` and `Solo` are hypotheses
of the theorems that need them and of no others; what happens without them is what
the counterexamples show.

## 7. Not modelled

Pure input and output (HTTP schemas, authentication, CLI, scripts, demos),
cryptography (signatures and hashes are taken as sound, and equal exactly when
their content is), wire formats of chains, clients of partner services, and the
recomputation of digests in offline tools, which have no state of their own. SQLite
is taken at its word: a commit survives, a unique constraint holds. What the
external state is when an effect happens is outside the program, and so is the
on-chain guard. Of the proof tools only the lifecycle profile and the reads it
rests on are modelled. `PROJECT.json` gives the reason for each component left out.

Five hazards are listed without a property that covers them. What the external
state is at the effect is outside the program. A reset is evaluated with the default
`AuthorityPolicy` whatever the engine was given, and nothing in the repository says
which one it should be. The other three are in the models and what the code allows:
a stale snapshot overwrites a saved suspension, a stale rollback undoes a freeze, a
replayed ACTIVATE revives an attestor. A tenant's storage is checked for and then
created: two connections are two processes to the models, which they cover, but
which of two in-memory databases a request sees is a matter of set-up.

## 8. Plan

Done: every module of section 3, its run, and its invariants proved. What would add
most next:

1. Abstract specifications of attested learning (`OutcomeAttestation`) and of
   confined delegation (`CapabilityAuthority`), next to the history, the gate and the
   one-time execution, with their refinements proved.
2. A composition of engine, router, outcomes and authority through their shared
   tables: authority is only earned by effects that happened. The parts meet today
   in what each takes as given of the others (`Settle`, `Mint`, the refusals of
   `Issue`), and the state of the whole is too large for an instance in which each
   hazard of a part still happens.
3. Expiry of identities and context constraints of ceilings.
4. The other proof profiles, as validations of the graph that is read already.
