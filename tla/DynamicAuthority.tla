---------------------------- MODULE DynamicAuthority ----------------------------
(***************************************************************************)
(* core/authority_state.py with core/governance.py's authority reset and   *)
(* core/authority_replay.py, for one agent and one capability.             *)
(* Evidence is recorded (authority_events, then authority_ledger), every   *)
(* snapshot computes the authority state from several reads and saves it,  *)
(* assert_action turns a snapshot into an authorization, and a signed      *)
(* reset opens a new epoch.  Each storage call is atomic; the services     *)
(* hold no lock across calls, so their steps interleave.  Workers are      *)
(* processes on one database: threads of one process also exclude each     *)
(* other inside append_authority_ledger.                                   *)
(***************************************************************************)
EXTENDS Naturals, FiniteSets

CONSTANTS
    Evidence,            \* evidence references, one event each
    KindOf,              \* evidence -> "success", "adverse" or "critical"
    NoEvidence,          \* no event; also the ledger's genesis hash
    Workers,
    Window,              \* window_seconds
    ProbationSuccesses, StandardSuccesses, LimitedAdverse, SuspensionCritical,
    Lifetime,            \* how long an authorization is executable
    OverOne,             \* states whose multiplier the policy sets above one
    Skew,                \* how far in the future a reset may be issued
    MaxTime,             \* bound on the clock
    MaxEpoch,            \* bound on the epochs that governors ask for
    MaxGrants,           \* bound: how many authorizations are remembered
    MaxCrashes           \* bound: how many workers may die

ASSUME KindOfType == KindOf \in [Evidence -> {"success", "adverse", "critical"}]
ASSUME NoEvidenceIsNone == NoEvidence \notin Evidence
ASSUME BoundsType ==
    /\ Window \in Nat /\ Lifetime \in Nat \ {0} /\ Skew \in Nat /\ MaxTime \in Nat \ {0}
    /\ MaxEpoch \in Nat /\ MaxGrants \in Nat /\ MaxCrashes \in Nat
ASSUME ThresholdsType ==
    /\ ProbationSuccesses \in Nat /\ StandardSuccesses \in Nat
    /\ LimitedAdverse \in Nat
    /\ SuspensionCritical \in Nat \ {0}
ASSUME EvidenceFinite == IsFiniteSet(Evidence)

VARIABLES
    now,      \* the clock
    events,   \* table authority_events: evidence -> occurred_at, 0 when absent
    ledger,   \* table authority_ledger
    saved,    \* table authority_states: the state of the last snapshot saved
    resets,   \* table authority_resets
    grants,   \* snapshots bound into authorizations
    crashes,  \* how many workers died
    pc, op,   \* worker -> next step, service method
    item,     \* worker -> the evidence it records
    at,       \* worker -> occurred_at, or the snapshot's evaluated_at
    doc,      \* worker -> epoch and issued_at of the reset it applies
    base,     \* worker -> epoch of the reset its snapshot is based on
    since,    \* worker -> history_start_at
    tally,    \* worker -> successes, adverse_events, critical_events
    verdict,  \* worker -> the state computed by its snapshot
    link,     \* worker -> sequence and event of the ledger head it read
    known     \* history: critical events on record when assert_action began

tables == <<events, ledger, saved, resets>>
reading == <<base, since, tally, verdict, link, known>>
locals == <<pc, op, item, at, doc, base, since, tally, verdict, link, known>>
world == <<now, grants, crashes>>
vars == <<now, events, ledger, saved, resets, grants, crashes, pc, op, item, at,
          doc, base, since, tally, verdict, link, known>>

States == {"PROBATION", "LIMITED", "STANDARD", "ELEVATED", "SUSPENDED"}
Times == 0 .. (MaxTime + Skew)
Tally == [successes : Nat, adverse : Nat, critical : Nat]
Row == [sequence : Nat \ {0}, event : Evidence, prev : Evidence \cup {NoEvidence},
        at : Times]
Reset == [epoch : Nat \ {0}, at : Times]
Link == [sequence : Nat, event : Evidence \cup {NoEvidence}]
Grant == [at : Times, since : Times, tally : Tally, verdict : States,
          head : Evidence \cup {NoEvidence}, until : Nat]

NoTally == [successes |-> 0, adverse |-> 0, critical |-> 0]
NoDoc == [epoch |-> 0, at |-> 0]
Genesis == [sequence |-> 0, event |-> NoEvidence]

Steps == {"idle", "event", "append", "insert", "epoch", "clock", "boundary",
          "events", "previous", "head", "save", "grant", "incidents", "register"}

TypeOK ==
    /\ now \in 1..MaxTime
    /\ events \in [Evidence -> Times]
    /\ ledger \subseteq Row
    /\ saved \in States \cup {"NONE"}
    /\ resets \subseteq Reset
    /\ grants \subseteq Grant
    /\ crashes \in 0..MaxCrashes
    /\ pc \in [Workers -> Steps]
    /\ op \in [Workers -> {"none", "record", "snapshot", "assert", "reset", "refresh"}]
    /\ item \in [Workers -> Evidence \cup {NoEvidence}]
    /\ at \in [Workers -> Times]
    /\ doc \in [Workers -> [epoch : Nat, at : Times]]
    /\ base \in [Workers -> Nat]
    /\ since \in [Workers -> Times]
    /\ tally \in [Workers -> Tally]
    /\ verdict \in [Workers -> States \cup {"NONE"}]
    /\ link \in [Workers -> Link]
    /\ known \in [Workers -> SUBSET Evidence]

Init ==
    /\ now = 1
    /\ events = [e \in Evidence |-> 0]
    /\ ledger = {}
    /\ saved = "NONE"
    /\ resets = {}
    /\ grants = {}
    /\ crashes = 0
    /\ pc = [w \in Workers |-> "idle"]
    /\ op = [w \in Workers |-> "none"]
    /\ item = [w \in Workers |-> NoEvidence]
    /\ at = [w \in Workers |-> 0]
    /\ doc = [w \in Workers |-> NoDoc]
    /\ base = [w \in Workers |-> 0]
    /\ since = [w \in Workers |-> 0]
    /\ tally = [w \in Workers |-> NoTally]
    /\ verdict = [w \in Workers |-> "NONE"]
    /\ link = [w \in Workers |-> Genesis]
    /\ known = [w \in Workers |-> {}]

-------------------------------------------------------------------------------
(* Rules shared by snapshot, reset and replay.                             *)

Later(s, t) == IF s > t THEN s ELSE t

\* now - window_seconds; nothing happened before time 1.
Ago(t) == IF t > Window THEN t - Window ELSE 0

OfKind(E, kind) == {e \in E : KindOf[e] = kind}

\* A critical event also counts as an adverse one.
TallyOf(E) ==
    [successes |-> Cardinality(OfKind(E, "success")),
     adverse |-> Cardinality({e \in E : KindOf[e] # "success"}),
     critical |-> Cardinality(OfKind(E, "critical"))]

Recorded == {e \in Evidence : events[e] # 0}

LatestResets == {r \in resets : \A s \in resets : s.epoch <= r.epoch}

LedgerHeads == {r \in ledger : \A s \in ledger : s.sequence <= r.sequence}

\* The state that verified history earns while nothing suspends it.
Earned(t) ==
    IF t.adverse >= LimitedAdverse THEN "LIMITED"
    ELSE IF t.adverse > 1 THEN "PROBATION"
    ELSE IF t.successes >= StandardSuccesses THEN "ELEVATED"
    ELSE IF t.successes >= ProbationSuccesses THEN "STANDARD"
    ELSE "PROBATION"

\* Mutant: one critical event too many is tolerated.
LenientVerdict(t, previous, epoch) ==
    IF (previous = "SUSPENDED" /\ epoch = 0) \/ t.critical > SuspensionCritical
    THEN "SUSPENDED"
    ELSE Earned(t)

\* The state of a snapshot, from its counters, the state saved before it and
\* whether the scope was ever reset (epoch > 0).
Verdict(t, previous, epoch) ==
    IF (previous = "SUSPENDED" /\ epoch = 0) \/ t.critical >= SuspensionCritical
    THEN "SUSPENDED"
    ELSE Earned(t)

Goto(w, step) == pc' = [pc EXCEPT ![w] = step]

\* The method returns or raises: its locals are gone.
Return(w) ==
    /\ Goto(w, "idle")
    /\ op' = [op EXCEPT ![w] = "none"]
    /\ item' = [item EXCEPT ![w] = NoEvidence]
    /\ at' = [at EXCEPT ![w] = 0]
    /\ doc' = [doc EXCEPT ![w] = NoDoc]
    /\ base' = [base EXCEPT ![w] = 0]
    /\ since' = [since EXCEPT ![w] = 0]
    /\ tally' = [tally EXCEPT ![w] = NoTally]
    /\ verdict' = [verdict EXCEPT ![w] = "NONE"]
    /\ link' = [link EXCEPT ![w] = Genesis]
    /\ known' = [known EXCEPT ![w] = {}]

-------------------------------------------------------------------------------
(* record_event                                                            *)

\* The event is built, with its time, before it is stored.
BeginRecord(w, e) ==
    /\ pc[w] = "idle"
    /\ op' = [op EXCEPT ![w] = "record"]
    /\ item' = [item EXCEPT ![w] = e]
    /\ at' = [at EXCEPT ![w] = now]
    /\ Goto(w, "event")
    /\ UNCHANGED <<tables, world, doc, reading>>

\* INSERT; evidence already on record keeps its first time.
RecordEvent(w) ==
    /\ pc[w] = "event"
    /\ events' = IF events[item[w]] = 0
                 THEN [events EXCEPT ![item[w]] = at[w]]
                 ELSE events
    /\ Goto(w, "append")
    /\ UNCHANGED <<ledger, saved, resets, world, op, item, at, doc, reading>>

\* append_authority_ledger, first half: an event already in the chain is left
\* alone, otherwise the head is read.
ReadHead(w) ==
    /\ pc[w] = "append"
    /\ \/ /\ \E r \in ledger : r.event = item[w]
          /\ Return(w)
       \/ /\ \A r \in ledger : r.event # item[w]
          /\ \/ ledger = {} /\ link' = [link EXCEPT ![w] = Genesis]
             \/ \E r \in LedgerHeads :
                   link' = [link EXCEPT ![w] =
                              [sequence |-> r.sequence, event |-> r.event]]
          /\ Goto(w, "insert")
          /\ UNCHANGED <<op, item, at, doc, base, since, tally, verdict, known>>
    /\ UNCHANGED <<tables, world>>

\* Mutant: the chain is numbered from zero.
NewRowFromZero(w) ==
    [sequence |-> link[w].sequence, event |-> item[w],
     prev |-> link[w].event, at |-> at[w]]

NewRow(w) ==
    [sequence |-> link[w].sequence + 1, event |-> item[w],
     prev |-> link[w].event, at |-> at[w]]

\* Mutant: no UNIQUE constraint over the sequence.
AppendUnchecked(w) ==
    /\ pc[w] = "insert"
    /\ ledger' = ledger \cup {NewRow(w)}
    /\ Return(w)
    /\ UNCHANGED <<events, saved, resets, world>>

\* append_authority_ledger, second half: INSERT under UNIQUE(sequence) and
\* UNIQUE(event_id).  Another process may have been faster: then it raises.
Append(w) ==
    /\ pc[w] = "insert"
    /\ ledger' = IF \E r \in ledger : \/ r.sequence = NewRow(w).sequence
                                      \/ r.event = item[w]
                 THEN ledger
                 ELSE ledger \cup {NewRow(w)}
    /\ Return(w)
    /\ UNCHANGED <<events, saved, resets, world>>

-------------------------------------------------------------------------------
(* snapshot, called by assert_action, by a reset (before and after it is    *)
(* registered) and on its own (lifecycle, explain)                          *)

BeginSnapshot(w, method) ==
    /\ pc[w] = "idle"
    /\ op' = [op EXCEPT ![w] = method]
    /\ Goto(w, "clock")
    /\ UNCHANGED <<tables, world, item, at, doc, reading>>

Clock(w) ==
    /\ pc[w] = "clock"
    /\ at' = [at EXCEPT ![w] = now]
    /\ known' = [known EXCEPT ![w] =
                   IF op[w] = "assert" THEN OfKind(Recorded, "critical") ELSE {}]
    /\ Goto(w, "boundary")
    /\ UNCHANGED <<tables, world, op, item, doc, base, since, tally, verdict, link>>

\* Mutant: the history no longer starts at the latest reset.
BoundaryOfWindow(w) ==
    /\ pc[w] = "boundary"
    /\ base' = [base EXCEPT ![w] = IF resets = {} THEN 0 ELSE 1]
    /\ since' = [since EXCEPT ![w] = Ago(at[w])]
    /\ Goto(w, "events")
    /\ UNCHANGED <<tables, world, op, item, at, doc, tally, verdict, link, known>>

\* latest_authority_reset and history_start.
Boundary(w) ==
    /\ pc[w] = "boundary"
    /\ \/ /\ resets = {}
          /\ base' = [base EXCEPT ![w] = 0]
          /\ since' = [since EXCEPT ![w] = Ago(at[w])]
       \/ \E r \in LatestResets :
             /\ base' = [base EXCEPT ![w] = r.epoch]
             /\ since' = [since EXCEPT ![w] = Later(Ago(at[w]), r.at)]
    /\ Goto(w, "events")
    /\ UNCHANGED <<tables, world, op, item, at, doc, tally, verdict, link, known>>

\* Everything on record since history_start, whatever its time.
ReadEvents(w) ==
    /\ pc[w] = "events"
    /\ tally' = [tally EXCEPT ![w] =
                   TallyOf({e \in Recorded : events[e] >= since[w]})]
    /\ Goto(w, "previous")
    /\ UNCHANGED <<tables, world, op, item, at, doc, base, since, verdict, link, known>>

ReadPrevious(w) ==
    /\ pc[w] = "previous"
    /\ verdict' = [verdict EXCEPT ![w] = Verdict(tally[w], saved, base[w])]
    /\ Goto(w, "head")
    /\ UNCHANGED <<tables, world, op, item, at, doc, base, since, tally, link, known>>

ReadLedgerHead(w) ==
    /\ pc[w] = "head"
    /\ \/ ledger = {} /\ link' = [link EXCEPT ![w] = Genesis]
       \/ \E r \in LedgerHeads :
             link' = [link EXCEPT ![w] =
                        [sequence |-> r.sequence, event |-> r.event]]
    /\ Goto(w, "save")
    /\ UNCHANGED <<tables, world, op, item, at, doc, base, since, tally, verdict, known>>

Proceed(w, step) ==
    /\ Goto(w, step)
    /\ UNCHANGED <<op, item, at, doc, reading>>

\* set_authority_state: an unconditional upsert.
SetState(w) == saved' = verdict[w]

\* Mutant: a reset no longer asks for a suspended state.
SaveAndProceed(w) ==
    /\ pc[w] = "save"
    /\ SetState(w)
    /\ \/ op[w] \in {"snapshot", "refresh"} /\ Return(w)
       \/ op[w] = "assert" /\ verdict[w] # "SUSPENDED" /\ Proceed(w, "grant")
       \/ op[w] = "assert" /\ Return(w)
       \/ op[w] = "reset" /\ Proceed(w, "incidents")
    /\ UNCHANGED <<events, ledger, resets, world>>

\* The state is saved whatever it is; then the caller goes on with the
\* snapshot.  assert_action refuses SUSPENDED, and other states when
\* the action is too large for them; a reset refuses anything but SUSPENDED.
Save(w) ==
    /\ pc[w] = "save"
    /\ SetState(w)
    /\ \/ op[w] \in {"snapshot", "refresh"} /\ Return(w)
       \/ op[w] = "assert" /\ verdict[w] # "SUSPENDED" /\ Proceed(w, "grant")
       \/ op[w] = "assert" /\ Return(w)
       \/ op[w] = "reset" /\ verdict[w] = "SUSPENDED" /\ Proceed(w, "incidents")
       \/ op[w] = "reset" /\ verdict[w] # "SUSPENDED" /\ Return(w)
    /\ UNCHANGED <<events, ledger, resets, world>>

\* The engine binds the snapshot into a signed authorization, unless one of
\* its later checks fails.  Only MaxGrants of them are remembered.
Mint(w) ==
    /\ pc[w] = "grant"
    /\ \/ UNCHANGED grants
       \/ /\ Cardinality(grants) < MaxGrants
          /\ grants' = grants \cup
                {[at |-> at[w], since |-> since[w], tally |-> tally[w],
                  verdict |-> verdict[w], head |-> link[w].event,
                  until |-> now + Lifetime]}
    /\ Return(w)
    /\ UNCHANGED <<tables, now, crashes>>

-------------------------------------------------------------------------------
(* AuthorityGovernanceService.reset and multiparty_governance_reset         *)

\* verify_authority_reset: a document may be issued a little ahead of the clock.
InTime(issued) == issued <= now + Skew

\* A signed (or quorum-approved) document reaches the service.  Documents
\* that fail their own verification, or whose capability or identity is not
\* active, change nothing and are left out.
BeginReset(w, epoch, issued) ==
    /\ pc[w] = "idle"
    /\ InTime(issued)
    /\ op' = [op EXCEPT ![w] = "reset"]
    /\ doc' = [doc EXCEPT ![w] = [epoch |-> epoch, at |-> issued]]
    /\ Goto(w, "epoch")
    /\ UNCHANGED <<tables, world, item, at, reading>>

\* The next epoch, with a newer timestamp than the latest reset.
NextEpoch(d) ==
    \/ resets = {} /\ d.epoch = 1
    \/ \E r \in LatestResets : d.epoch = r.epoch + 1 /\ d.at > r.at

CheckEpoch(w) ==
    /\ pc[w] = "epoch"
    /\ \/ NextEpoch(doc[w]) /\ Proceed(w, "clock")
       \/ ~NextEpoch(doc[w]) /\ Return(w)
    /\ UNCHANGED <<tables, world>>

\* "governance reset must be issued after the latest critical incident"
CheckIncidents(w) ==
    LET covered == \A e \in OfKind(Recorded, "critical") : events[e] < doc[w].at
    IN  /\ pc[w] = "incidents"
        /\ \/ covered /\ Proceed(w, "register")
           \/ ~covered /\ Return(w)
        /\ UNCHANGED <<tables, world>>

\* Mutant: no UNIQUE constraint over the epoch.
RegisterUnchecked(w) ==
    /\ pc[w] = "register"
    /\ resets' = resets \cup {doc[w]}
    /\ Return(w)
    /\ UNCHANGED <<events, ledger, saved, world>>

\* INSERT under UNIQUE(epoch): a concurrent reset may have been faster.  Then
\* the snapshot is taken again, as of issued_at.
Register(w) ==
    /\ pc[w] = "register"
    /\ \/ /\ \E r \in resets : r.epoch = doc[w].epoch
          /\ Return(w)
          /\ UNCHANGED resets
       \/ /\ \A r \in resets : r.epoch # doc[w].epoch
          /\ resets' = resets \cup {doc[w]}
          /\ op' = [op EXCEPT ![w] = "refresh"]
          /\ at' = [at EXCEPT ![w] = doc[w].at]
          /\ Goto(w, "boundary")
          /\ UNCHANGED <<item, doc, reading>>
    /\ UNCHANGED <<events, ledger, saved, world>>

-------------------------------------------------------------------------------
Tick ==
    /\ now < MaxTime
    /\ now' = now + 1
    /\ UNCHANGED <<tables, locals, grants, crashes>>

\* The worker dies, or its storage call raises: only the tables remember.
Crash(w) ==
    /\ pc[w] # "idle"
    /\ crashes < MaxCrashes
    /\ crashes' = crashes + 1
    /\ Return(w)
    /\ UNCHANGED <<tables, now, grants>>

WorkerStep(w) ==
    \/ RecordEvent(w) \/ ReadHead(w) \/ Append(w)
    \/ Clock(w) \/ Boundary(w) \/ ReadEvents(w) \/ ReadPrevious(w)
    \/ ReadLedgerHead(w) \/ Save(w) \/ Mint(w)
    \/ CheckEpoch(w) \/ CheckIncidents(w) \/ Register(w)

Call(w) ==
    \/ \E e \in Evidence : BeginRecord(w, e)
    \/ \E method \in {"snapshot", "assert"} : BeginSnapshot(w, method)
    \/ \E epoch \in 1..MaxEpoch, issued \in 1..(MaxTime + Skew) :
          BeginReset(w, epoch, issued)

Next ==
    \/ Tick
    \/ \E w \in Workers : WorkerStep(w) \/ Crash(w) \/ Call(w)

Spec == Init /\ [][Next]_vars

-------------------------------------------------------------------------------
(* Replay of an authorization, core/authority_replay.py                     *)

\* Mutant: the whole live ledger instead of the committed prefix.
CommittedLive(g) == IF g.head = NoEvidence THEN {} ELSE ledger

\* The ledger rows up to the head that the authorization is bound to.
Committed(g) ==
    {r \in ledger : \E h \in ledger :
        h.event = g.head /\ r.sequence <= h.sequence}

\* history_start as replay derives it: from the resets that were issued by
\* the time of the evaluation.
ReplayedSince(g) ==
    LET starts == {Ago(g.at)} \cup {r.at : r \in {s \in resets : s.at <= g.at}}
    IN  CHOOSE t \in starts : \A u \in starts : u <= t

ReplayedTally(g) ==
    TallyOf({r.event : r \in {s \in Committed(g) :
                                 g.since <= s.at /\ s.at <= g.at}})

\* What the signed snapshot says follows from its policy, the committed prefix
\* and the resets.
Reproducible(g) ==
    /\ g.head = NoEvidence \/ \E h \in ledger : h.event = g.head
    /\ g.since = ReplayedSince(g)
    /\ g.tally = ReplayedTally(g)
    /\ g.verdict = "SUSPENDED" => g.tally.critical >= SuspensionCritical

\* verify_execution_authorization, which the replay calls without a
\* verification time: the present clock decides, not the one of the execution.
Verifies(g) == now <= g.until /\ g.verdict \notin OverOne

\* replay_authority_decision accepts the authorization (the ledger itself
\* always verifies, see LedgerIsChain).
Replays(g) == Verifies(g) /\ Reproducible(g)

-------------------------------------------------------------------------------
(* Properties                                                              *)

\* The authority ledger is one hash chain over distinct events, however many
\* processes append at once: sequence numbers are unique and without gaps and
\* every row commits to the row before it (verify_authority_ledger).
LedgerIsChain ==
    /\ \A r, s \in ledger :
          r.sequence = s.sequence \/ r.event = s.event => r = s
    /\ \A r \in ledger :
          IF r.sequence = 1
          THEN r.prev = NoEvidence
          ELSE \E s \in ledger :
                  s.sequence + 1 = r.sequence /\ r.prev = s.event

\* Ledger, epochs and the heads of authorizations implement the append-only
\* history: rows are added at the end, once and for good, however processes
\* race and die between the read of the end and the insertion.
History == INSTANCE AuthorityHistory WITH bound <- {g.head : g \in grants}

ImplementsHistory == History!Spec

\* Epochs are opened one after the other and with increasing timestamps, even
\* when several resets are validated against the same latest one.
EpochsAdvance ==
    /\ \A r, s \in resets :
          /\ r.epoch = s.epoch => r = s
          /\ r.epoch < s.epoch => r.at < s.at
    /\ \A r \in resets :
          r.epoch = 1 \/ \E s \in resets : s.epoch + 1 = r.epoch

\* Governance opens an epoch only in answer to an incident that the epoch
\* before it does not cover (a reset requires the suspended state): there is
\* a critical event between the two resets.
EpochNeedsIncident ==
    \A r \in resets : \E e \in OfKind(Recorded, "critical") :
        /\ events[e] < r.at
        /\ \A s \in resets : s.epoch + 1 = r.epoch => s.at <= events[e]

\* No action is authorized past the incidents that were on record when its
\* evaluation began: too few of them lie behind the start of the history that
\* the snapshot used, whatever was saved or reset in between.
GrantsHeedIncidents ==
    \A w \in Workers :
        pc[w] = "grant" =>
            Cardinality({e \in known[w] : events[e] >= since[w]})
                < SuspensionCritical

\* "later ledger events MUST NOT invalidate the historical proof"
\* (docs/verigate-authority-proof-v1.md): as long as no reset is registered,
\* an authorization that replays keeps replaying until it expires.  Then every
\* replay is refused, whatever its history.
LaterEventsKeepReplay ==
    [][\A g \in grants :
          Replays(g) /\ resets' = resets /\ Verifies(g)' => Replays(g)']_vars

\* "the pre-execution authority snapshot MUST be reproducible from the signed
\* authority policy and the committed historical ledger prefix"
\* (docs/verigate-authority-proof-v1.md): no authorization that still verifies
\* is refused by its replay.
GrantsReplay == \A g \in grants : Verifies(g) => Replays(g)

\* SUSPENDED is left only after a reset issued later than every incident on
\* record (README.md: "SUSPENDED authority can only enter a new epoch through
\* a signed governance action").
SuspensionNeedsReset ==
    [][saved = "SUSPENDED" /\ saved' # "SUSPENDED" =>
          \E r \in resets : \A e \in OfKind(Recorded, "critical") :
              events[e] < r.at]_vars
===============================================================================
