---------------------------- MODULE GuardrailEngine ----------------------------
(***************************************************************************)
(* core/engine.py, core/rules.py, core/effective_authority.py and the rest *)
(* of core/authorization.py over the audit log and the authorization       *)
(* artifacts of core/storage.py, for one agent (the log is read by agent,  *)
(* so others do not interact).  Limits are kept per asset, and an asset    *)
(* may be spelled in several ways.  A request is evaluated and logged in   *)
(* one transaction, issued, and persisted in two further commits; requests *)
(* run concurrently, die half-way and come again with the same intent id.  *)
(* Whether the capability and the policy version are in force belongs to   *)
(* other modules: here issuing may be refused.                             *)
(***************************************************************************)
EXTENDS Naturals, Sequences, FiniteSets, FiniteSetsExt

CONSTANTS
    Intents,            \* what agents ask for: id, a value per field, maybe an amount
    Requests,           \* a path of the API, an intent and a capability
    Fields,             \* action_type, purpose, target, network and asset
    Optional,           \* the fields that policy skips when an action has none
    Caseless,           \* the fields that nobody compares by case: purpose
    Lower,              \* spelling of a value -> the one in lower case
    Upper,              \* spelling of an asset -> the one in upper case
    Policy,             \* the policy of the engine
    Multipliers, Scale, \* dynamic authority: multiplier / Scale
    Plans,              \* graphs of actions, for the assessment of plans
    Workers,
    MaxRows             \* bound on the audit log

Paths == {"check", "authorize", "capability", "identity", "action"}

\* These paths make a new intent id for every call.
Fresh == {"check", "authorize", "capability"}

ASSUME PolicyType ==
    \* asset -> limit, for the assets that have one, as the policy spells them
    /\ \A caps \in {Policy.txCap, Policy.dailyCap, Policy.newPayeeCap, Policy.threshold} :
          \A a \in DOMAIN caps : caps[a] \in Nat
    /\ Policy.rate \in Nat          \* 0 disables the rate limit
    /\ DOMAIN Policy.allowed \subseteq Fields
    /\ \A f \in DOMAIN Policy.allowed : Policy.allowed[f] \subseteq DOMAIN Lower
    \* allowed_payees and blocked_payees; where a list is absent, no restriction
    /\ DOMAIN Policy.payees \subseteq {"target"} /\ DOMAIN Policy.blocked \subseteq {"target"}
    /\ \A f \in DOMAIN Policy.payees : Policy.payees[f] \subseteq DOMAIN Lower
    /\ \A f \in DOMAIN Policy.blocked : Policy.blocked[f] \subseteq DOMAIN Lower
ASSUME RequestsType ==
    \A r \in Requests :
        /\ r.path \in Paths /\ r.intent \in Intents
        /\ DOMAIN r.intent.value \subseteq Fields
        /\ "target" \in DOMAIN r.intent.value
        /\ r.path # "action" =>              \* a PaymentIntent
              /\ {"network", "asset"} \subseteq DOMAIN r.intent.value
              /\ "amount" \in DOMAIN r.intent
        /\ \A a \in DOMAIN r.capability.limits : r.capability.limits[a] \in Nat
        /\ r.capability.bound \in BOOLEAN
        /\ \A f \in DOMAIN r.intent.value : r.intent.value[f] \in DOMAIN Lower
        /\ DOMAIN r.capability.allowed = Fields
        /\ \A f \in Fields : r.capability.allowed[f] \subseteq DOMAIN Lower
ASSUME IntentsType ==
    \A i \in Intents :
        /\ "amount" \in DOMAIN i => i.amount \in Nat
        /\ "asset" \in DOMAIN i.value => i.value["asset"] \in DOMAIN Upper
ASSUME NumbersType ==
    /\ Multipliers \subseteq Nat /\ Scale \in Nat \ {0} /\ MaxRows \in Nat
\* Plans are what AddNode and Link make of the empty graph.
ASSUME PlansType ==
    \A g \in Plans :
        /\ IsFiniteSet(DOMAIN g.nodes)
        /\ \A e \in g.edges : {e.source, e.target} \subseteq DOMAIN g.nodes

VARIABLES
    audit,       \* table audit_log, in the order of created_at
    minute,      \* how many of its rows are older than 60 seconds
    day,         \* how many of its rows are older than 24 hours
    artifacts,   \* table authorization_artifacts
    pc,          \* worker -> next step
    request,     \* worker -> what it was asked for
    row,         \* worker -> the audit row of its decision
    ceiling      \* worker -> the effective authority it issues, if any

locals == <<pc, request, row, ceiling>>
vars == <<audit, minute, day, artifacts, pc, request, row, ceiling>>

NoRequest == [path |-> "none"]
NoCeiling == [multiplier |-> 0]
Decisions == {"ALLOW", "WARN", "BLOCK"}

TypeOK ==
    /\ Len(audit) <= MaxRows
    /\ \A k \in DOMAIN audit :
          /\ audit[k].request \in Requests
          /\ audit[k].decision \in Decisions
          /\ audit[k].signature \in 0..Len(audit)
    /\ day \in 0..minute /\ minute \in 0..Len(audit)
    /\ \A x \in artifacts :
          /\ x.request \in Requests /\ x.row \in DOMAIN audit
          /\ x.ceiling.multiplier \in Multipliers \cup {0}
    /\ pc \in [Workers -> {"idle", "evaluate", "issue", "record", "sign"}]
    /\ request \in [Workers -> Requests \cup {NoRequest}]
    /\ row \in [Workers -> 0..Len(audit)]

Init ==
    /\ audit = <<>> /\ minute = 0 /\ day = 0
    /\ artifacts = {}
    /\ pc = [w \in Workers |-> "idle"]
    /\ request = [w \in Workers |-> NoRequest]
    /\ row = [w \in Workers |-> 0]
    /\ ceiling = [w \in Workers |-> NoCeiling]

-------------------------------------------------------------------------------
(* Rules                                                                   *)

Fold(values) == {Lower[v] : v \in values}

\* A payment is held to the payees, networks and assets of the policy, an
\* action to all that the policy says of actions, which has no payees.
AllowedFor(r) ==
    IF r.path = "action" THEN Policy.allowed
    ELSE [f \in DOMAIN Policy.payees \cup (DOMAIN Policy.allowed \cap {"network", "asset"}) |->
            IF f \in DOMAIN Policy.payees THEN Policy.payees[f] ELSE Policy.allowed[f]]

\* The rules compare without case: a value that is outside what is allowed, or
\* missing where one is asked for ...
OffList(f, r) ==
    /\ f \in DOMAIN AllowedFor(r)
    /\ IF f \in DOMAIN r.intent.value
       THEN Lower[r.intent.value[f]] \notin Fold(AllowedFor(r)[f])
       ELSE f \notin Optional

\* ... or that is blocked.
Refuses(f, r) ==
    \/ /\ f \in DOMAIN Policy.blocked
       /\ f \in DOMAIN r.intent.value /\ Lower[r.intent.value[f]] \in Fold(Policy.blocked[f])
    \/ OffList(f, r)

HasAmount(i) == "amount" \in DOMAIN i
HasAsset(i) == "asset" \in DOMAIN i.value
Asset(i) == i.value["asset"]

\* The policy's caps are looked up by asset.upper(); where there is none, no
\* amount exceeds it.
Exceeds(i, amount, caps) ==
    LET key == Upper[Asset(i)] IN key \in DOMAIN caps /\ amount > caps[key]

\* check_per_tx_cap and check_generic_amount_cap.
OverCap(i) == HasAmount(i) /\ HasAsset(i) /\ Exceeds(i, i.amount, Policy.txCap)

\* check_new_payee_cap, check_daily_cap and check_confirmation_threshold; what
\* was spent is looked up by the asset as it is spelled.
Target(i) == i.value["target"]
Seen(i) ==
    \E k \in DOMAIN audit :
        /\ audit[k].decision # "BLOCK"
        /\ Target(audit[k].request.intent) = Target(i)
        /\ audit[k].request.intent.id # i.id
Amount(k) ==
    LET i == audit[k].request.intent IN IF HasAmount(i) THEN i.amount ELSE 0
InAsset(k, asset) ==
    LET i == audit[k].request.intent IN HasAsset(i) /\ Asset(i) = asset
Spent(asset) ==
    MapThenSumSet(Amount,
        {k \in DOMAIN audit : k > day /\ audit[k].decision # "BLOCK" /\ InAsset(k, asset)})
NeedsConfirmation(i) ==
    \/ ~Seen(i) /\ Exceeds(i, i.amount, Policy.newPayeeCap)
    \/ Exceeds(i, Spent(Asset(i)) + i.amount, Policy.dailyCap)
    \/ Exceeds(i, i.amount, Policy.threshold)

\* check_rate_limit over calls_last_minute: every row counts.
RateExceeded == Policy.rate # 0 /\ Len(audit) - minute >= Policy.rate

\* Payments are also held to the spending rules; generic actions are not.
Decision(r) ==
    IF \/ \E f \in Fields : Refuses(f, r)
       \/ OverCap(r.intent)
       \/ RateExceeded
    THEN "BLOCK"
    ELSE IF r.path # "action" /\ NeedsConfirmation(r.intent) THEN "WARN" ELSE "ALLOW"

\* How a capability and a ceiling compare a field: as it is spelled, a purpose
\* apart; an empty list does not restrict.
Within(list, f, i) ==
    list # {} =>
        /\ f \in DOMAIN i.value
        /\ \/ i.value[f] \in list
           \/ f \in Caseless /\ Lower[i.value[f]] \in Fold(list)

\* The limit of a capability or a ceiling for the asset as it is spelled.
HasLimit(c, i) == HasAsset(i) /\ Asset(i) \in DOMAIN c.limits
Limit(c, i) == c.limits[Asset(i)]
WithinLimit(c, i) == HasLimit(c, i) => HasAmount(i) /\ i.amount <= Limit(c, i)

\* Capability.permits, on the fields and the limit.
Permits(c, i) ==
    /\ \A f \in Fields : Within(c.allowed[f], f, i)
    /\ WithinLimit(c, i)

\* Dynamic authority: nothing when SUSPENDED, else what its policy has for the
\* state.
Snapshots ==
    {[suspended |-> TRUE, multiplier |-> 0]} \cup
    {[suspended |-> FALSE, multiplier |-> m] : m \in Multipliers}

\* DynamicAuthorityService.assert_action.
Asserts(s, c, i) ==
    /\ ~s.suspended
    /\ HasAmount(i) /\ HasLimit(c, i) => i.amount * Scale <= Limit(c, i) * s.multiplier

\* _genesis_assessment: a capability that is bound to an identity is assessed
\* as a plan of the one action.
Planning == INSTANCE IntentPlan

Authority(c, s) ==
    [agent |-> c.agent, capability |-> c.id,
     suspended |-> s.suspended, multiplier |-> s.multiplier]

Assessed(c, i, s) ==
    LET action == [agent |-> c.agent, requested |-> "", intent |-> i]
        plan == Planning!AddAction(Planning!Empty, i.id, action)
    IN  c.bound => i.id \in Planning!Assess(plan, Authority(c, s), c)

\* Mutant: the lists of the policy replace those of the capability.
PolicyLists(c, f) ==
    IF f \in DOMAIN Policy.allowed THEN Policy.allowed[f] ELSE c.allowed[f]

\* _intersect: no restriction is None for a policy and () for a capability,
\* and reads as {} in the ceiling.
Intersect(c, f) ==
    IF f \notin DOMAIN Policy.allowed THEN c.allowed[f]
    ELSE IF c.allowed[f] = {} THEN Policy.allowed[f]
    ELSE c.allowed[f] \cap Policy.allowed[f]

\* effective_authority: the cap of the policy joins in where the capability
\* spells the asset as the policy does.
Effective(c, m) ==
    [allowed |-> [f \in Fields |-> Intersect(c, f)],
     limits |-> [a \in DOMAIN c.limits |->
                   Min({c.limits[a], (c.limits[a] * m) \div Scale} \cup
                       {Policy.txCap[b] : b \in DOMAIN Policy.txCap \cap {a}})],
     multiplier |-> m]

\* verify_execution_authorization with verify_effective_action, at the
\* execution boundary.
Admits(x, i) ==
    /\ x.multiplier <= Scale
    /\ \A f \in Fields : Within(x.allowed[f], f, i)
    /\ WithinLimit(x, i)

-------------------------------------------------------------------------------
Goto(w, step) == pc' = [pc EXCEPT ![w] = step]

Return(w) ==
    /\ pc' = [pc EXCEPT ![w] = "idle"]
    /\ request' = [request EXCEPT ![w] = NoRequest]
    /\ row' = [row EXCEPT ![w] = 0]
    /\ ceiling' = [ceiling EXCEPT ![w] = NoCeiling]

\* A new intent id belongs to no row and to no other request.
Unused(r) ==
    /\ \A k \in DOMAIN audit : audit[k].request.intent.id # r.intent.id
    /\ \A w \in Workers :
          request[w] # NoRequest => request[w].intent.id # r.intent.id

Begin(w, r) ==
    /\ pc[w] = "idle"
    /\ r.path \in Fresh => Unused(r)
    /\ request' = [request EXCEPT ![w] = r]
    /\ Goto(w, "evaluate")
    /\ UNCHANGED <<audit, minute, day, artifacts, row, ceiling>>

Logged(w) ==
    Append(audit, [request |-> request[w], decision |-> Decision(request[w]),
                   signature |-> 0])

AfterEvaluate(w) == IF request[w].path = "check" THEN "sign" ELSE "issue"

\* Mutant: the log is read before the transaction that writes it.
EvaluateThenLog(w) ==
    /\ pc[w] = "evaluate" /\ Len(audit) < MaxRows
    /\ \/ /\ ceiling[w] = NoCeiling
          /\ ceiling' = [ceiling EXCEPT ![w] = [multiplier |-> 1, log |-> Logged(w)]]
          /\ UNCHANGED <<audit, row, pc>>
       \/ /\ ceiling[w] # NoCeiling
          /\ audit' = Append(audit, ceiling[w].log[Len(ceiling[w].log)])
          /\ row' = [row EXCEPT ![w] = Len(audit) + 1]
          /\ ceiling' = [ceiling EXCEPT ![w] = NoCeiling]
          /\ Goto(w, AfterEvaluate(w))
    /\ UNCHANGED <<minute, day, artifacts, request>>

\* evaluate and evaluate_action: the state that the rules read, the decision
\* and its row, in one transaction.
Evaluate(w) ==
    /\ pc[w] = "evaluate" /\ Len(audit) < MaxRows
    /\ audit' = Logged(w)
    /\ row' = [row EXCEPT ![w] = Len(audit) + 1]
    /\ Goto(w, AfterEvaluate(w))
    /\ UNCHANGED <<minute, day, artifacts, request, ceiling>>

\* issue_decision_receipt signs the decision and grants nothing;
\* issue_execution_authorization signs a ceiling, for an ALLOW only.
IssueReceipt == UNCHANGED ceiling

IssueAuthorization(w, x) ==
    /\ audit[row[w]].decision = "ALLOW"
    /\ ceiling' = [ceiling EXCEPT ![w] = x]

\* Mutant: the limit of the capability is not scaled by the multiplier.
IssueUnscaled(w) ==
    /\ pc[w] = "issue"
    /\ Goto(w, "record")
    /\ \/ /\ request[w].path = "authorize" \/ audit[row[w]].decision # "ALLOW"
          /\ IssueReceipt
       \/ /\ request[w].path # "authorize"
          /\ Permits(request[w].capability, request[w].intent)
          /\ \E s \in Snapshots :
                /\ s.multiplier # 0
                /\ IssueAuthorization(w, Effective(request[w].capability, s.multiplier))
    /\ UNCHANGED <<audit, minute, day, artifacts, request, row>>

\* A decision that is not ALLOW, and the legacy path, get a decision receipt.
\* Execution authority needs a capability that permits the action, dynamic
\* authority that asserts it, an assessment that agrees, a multiplier above zero
\* (above one is not refused) and an identity if the capability is bound to one.
Issue(w) ==
    /\ pc[w] = "issue"
    /\ Goto(w, "record")
    /\ \/ /\ request[w].path = "authorize" \/ audit[row[w]].decision # "ALLOW"
          /\ IssueReceipt
       \/ /\ request[w].path # "authorize"
          /\ Permits(request[w].capability, request[w].intent)
          /\ request[w].path = "capability" => ~request[w].capability.bound
          /\ \E s \in Snapshots :
                /\ Asserts(s, request[w].capability, request[w].intent)
                /\ Assessed(request[w].capability, request[w].intent, s)
                /\ s.multiplier # 0
                /\ IssueAuthorization(w, Effective(request[w].capability, s.multiplier))
    /\ UNCHANGED <<audit, minute, day, artifacts, request, row>>

\* Mutant: the table does not notice that the intent has artifacts.
RecordAgain(w) ==
    /\ pc[w] = "record"
    /\ artifacts' = artifacts \cup
         {[request |-> request[w], row |-> row[w], ceiling |-> ceiling[w]]}
    /\ Goto(w, "sign")
    /\ UNCHANGED <<audit, minute, day, request, row, ceiling>>

\* record_authorization_artifacts: one row for each intent id.
Record(w) ==
    /\ pc[w] = "record"
    /\ IF \E x \in artifacts : x.request.intent.id = request[w].intent.id
       THEN Return(w) /\ UNCHANGED artifacts
       ELSE /\ artifacts' = artifacts \cup
                 {[request |-> request[w], row |-> row[w], ceiling |-> ceiling[w]]}
            /\ Goto(w, "sign")
            /\ UNCHANGED <<request, row, ceiling>>
    /\ UNCHANGED <<audit, minute, day>>

Unsigned(id) ==
    {k \in DOMAIN audit : audit[k].request.intent.id = id /\ audit[k].signature = 0}

\* Mutant: of several unsigned rows the last one is signed.
SignLast(w) ==
    /\ pc[w] = "sign"
    /\ LET rows == Unsigned(request[w].intent.id) IN
       audit' = IF rows # {}
                THEN [audit EXCEPT ![Max(rows)].signature = row[w]]
                ELSE audit
    /\ Return(w)
    /\ UNCHANGED <<minute, day, artifacts>>

\* update_signature: UPDATE ... WHERE intent_id = ? AND signature IS NULL must
\* change one row, or it is rolled back and raises.
Sign(w) ==
    /\ pc[w] = "sign"
    /\ LET rows == Unsigned(request[w].intent.id) IN
       audit' = IF Cardinality(rows) = 1
                THEN [k \in DOMAIN audit |->
                        IF k \in rows THEN [audit[k] EXCEPT !.signature = row[w]]
                                      ELSE audit[k]]
                ELSE audit
    /\ Return(w)
    /\ UNCHANGED <<minute, day, artifacts>>

\* The call ends here: a check without a signature, a refusal of the identity,
\* the capability, the policy version or the dynamic authority, a dead process.
Abandon(w) ==
    /\ pc[w] # "idle"
    /\ Return(w)
    /\ UNCHANGED <<audit, minute, day, artifacts>>

\* The oldest row of a window leaves it.
MinutePasses ==
    /\ minute < Len(audit)
    /\ minute' = minute + 1
    /\ UNCHANGED <<audit, day, artifacts, locals>>

\* Mutant: the two windows move on their own.
DayPassesAlone ==
    /\ day < Len(audit)
    /\ day' = day + 1
    /\ UNCHANGED <<audit, minute, artifacts, locals>>

DayPasses ==
    /\ day < minute
    /\ day' = day + 1
    /\ UNCHANGED <<audit, minute, artifacts, locals>>

Next ==
    \/ MinutePasses \/ DayPasses
    \/ \E w \in Workers :
          \/ \E r \in Requests : Begin(w, r)
          \/ Evaluate(w) \/ Issue(w) \/ Record(w) \/ Sign(w) \/ Abandon(w)

Spec == Init /\ [][Next]_vars

-------------------------------------------------------------------------------
(* Properties                                                              *)

Accepted(from) == {k \in DOMAIN audit : k > from /\ audit[k].decision # "BLOCK"}
AllowedPayments(asset) ==
    {k \in DOMAIN audit :
        /\ k > day /\ audit[k].decision = "ALLOW" /\ audit[k].request.path # "action"
        /\ InAsset(k, asset)}

\* However requests interleave, no more than the limit are accepted within a
\* minute, and the payments that are allowed within 24 hours in one spelling of
\* an asset stay within the daily cap of that asset (engine.py, evaluate:
\* "Evaluate and persist one payment atomically").  Each spelling has the whole
\* cap: spent_today compares the asset as it is written.
WithinLimits ==
    /\ Policy.rate # 0 => Cardinality(Accepted(minute)) <= Policy.rate
    /\ \A asset \in DOMAIN Upper : Upper[asset] \in DOMAIN Policy.dailyCap =>
          MapThenSumSet(Amount, AllowedPayments(asset)) <= Policy.dailyCap[Upper[asset]]

\* A signature in the audit log belongs to the decision of its own row, also
\* when calls with the same intent id race or are repeated, and except for
\* checks its artifacts were recorded first (storage.py, update_signature).
SignaturesBelong ==
    \A k \in DOMAIN audit : audit[k].signature # 0 =>
        /\ audit[k].signature = k
        /\ audit[k].request.path # "check" =>
              \E x \in artifacts : x.row = k

\* An intent id gets artifacts once, from an evaluation of that very request,
\* and executable ones only from an evaluation that allowed it: a retry never
\* turns one decision into a second authorization.
OneAuthorizationPerIntent ==
    /\ \A x, y \in artifacts :
          x.request.intent.id = y.request.intent.id => x = y
    /\ \A x \in artifacts :
          /\ audit[x.row].request = x.request
          /\ x.ceiling # NoCeiling => audit[x.row].decision = "ALLOW"

Executable == {x \in artifacts : x.ceiling # NoCeiling}

\* A cap that the policy has under this spelling of the asset is one that the
\* rules find: they look for the upper-case spelling only.
Keyed(i) == HasAsset(i) /\ Asset(i) \in DOMAIN Policy.txCap => Upper[Asset(i)] = Asset(i)

\* The request names every field that the policy restricts, as the policy and
\* the capability spell it.  The code does not ask for it: the rules ignore case,
\* skip a missing network or asset and hold a payment to the list of payees but
\* not to that of targets; _intersect and the boundary do otherwise.
Spelled(r) ==
    /\ \A f \in DOMAIN Policy.allowed :
          f \in DOMAIN r.intent.value /\ r.intent.value[f] \in Policy.allowed[f]
    /\ \A f \in Fields :
          r.capability.allowed[f] # {} => r.intent.value[f] \in r.capability.allowed[f]

SpelledExecutable == {x \in Executable : Spelled(x.request)}

\* What is authorized can be executed: the three checks on an amount (policy,
\* capability, dynamic authority) agree with the limit that is signed unless the
\* policy spells its cap as no rule reads it, and if the request is spelled as
\* the lists are and the multiplier is at most one the boundary admits it.  A
\* capability that is bound never gets more than one past its assessment for an
\* amount that it limits; others do, and the boundary refuses what was signed
\* (receipt.py: "execution authority multiplier out of range").
AuthorizedIsExecutable ==
    /\ \A x \in Executable :
          Keyed(x.request.intent) => WithinLimit(x.ceiling, x.request.intent)
    /\ \A x \in SpelledExecutable :
          Keyed(x.request.intent) /\ x.ceiling.multiplier <= Scale =>
              Admits(x.ceiling, x.request.intent)
    /\ \A x \in Executable :
          LET c == x.request.capability IN
          c.bound /\ HasLimit(c, x.request.intent) => x.ceiling.multiplier <= Scale

\* The signed ceiling confines: an amount that it admits at the execution
\* boundary, in an asset that the capability limits, is within that limit and
\* within a cap that the policy has under the same spelling of the asset; and if
\* the request was spelled as the lists are, the capability permits what is
\* admitted and the policy does not refuse it (effective_authority.py: "a
\* deterministic, non-expandable authority snapshot"), although an empty
\* intersection would admit everything.
CeilingConfines ==
    /\ \A x \in Executable, i \in Intents : Admits(x.ceiling, i) =>
          /\ WithinLimit(x.request.capability, i)
          /\ HasLimit(x.request.capability, i) /\ Asset(i) \in DOMAIN Policy.txCap =>
                i.amount <= Policy.txCap[Asset(i)]
    /\ \A x \in SpelledExecutable, i \in Intents : Admits(x.ceiling, i) =>
          /\ Permits(x.request.capability, i)
          /\ \A f \in DOMAIN Policy.allowed :
                f \in DOMAIN i.value /\ Lower[i.value[f]] \in Fold(Policy.allowed[f])

Truthful(g, c, s) ==
    LET eligible == Planning!Assess(g, Authority(c, s), c) IN
    /\ eligible = Planning!EligibleByReference(g, Authority(c, s), c)
    /\ ~Planning!Valid(g) => eligible # DOMAIN g.nodes
    /\ s.suspended => eligible = {}
    /\ s.multiplier > Scale =>
          \A n \in eligible : LET i == g.nodes[n].action.intent IN
              ~(HasAmount(i) /\ HasLimit(c, i))

AllPlansTruthful ==
    \A g \in Plans, c \in {r.capability : r \in Requests}, s \in Snapshots :
        Truthful(g, c, s)

\* The assessment of a plan tells the truth about all of it: an action is
\* eligible exactly if it and everything it needs, through however many
\* dependencies, are within the authority and free of cycles, and this whether
\* or not the plan was validated first (authority_intent_graph.py: "assess()
\* must not assume every caller ran validate() first").  Nothing is eligible
\* under a suspended authority, and above a multiplier of one only what has no
\* amount or no limit.  A plan is assessed before any of its actions is
\* evaluated; no table takes part.
PlansAreAssessed == audit = <<>> => AllPlansTruthful
===============================================================================
