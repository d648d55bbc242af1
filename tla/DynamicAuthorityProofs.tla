------------------------- MODULE DynamicAuthorityProofs -------------------------
(***************************************************************************)
(* Ledger, epochs and grants, for every number of processes and crashes,   *)
(* every finite set of evidence, every window, threshold and clock skew.   *)
(***************************************************************************)
EXTENDS DynamicAuthority, FiniteSetTheorems, TLAPS

\* Type correctness in two halves, and what a worker has computed by a step.
LocalsOK ==
    /\ pc \in [Workers -> Steps]
    /\ op \in [Workers -> {"none", "record", "snapshot", "assert", "reset", "refresh"}]
    /\ item \in [Workers -> Evidence \cup {NoEvidence}]
    /\ at \in [Workers -> Times]
    /\ doc \in [Workers -> [epoch : Nat, at : Times]]
    /\ base \in [Workers -> Nat]
    /\ since \in [Workers -> Times]
    /\ tally \in [Workers -> Tally]
    /\ verdict \in [Workers -> States \cup {"NONE"}]
    /\ link \in [Workers -> Link]
    /\ known \in [Workers -> SUBSET Evidence]

TablesOK ==
    /\ now \in 1..MaxTime
    /\ events \in [Evidence -> Times]
    /\ ledger \subseteq Row
    /\ saved \in States \cup {"NONE"}
    /\ resets \subseteq Reset
    /\ grants \subseteq Grant
    /\ crashes \in 0..MaxCrashes

Computed(w) ==
    /\ pc[w] \in {"event", "append", "insert"} => item[w] \in Evidence
    /\ pc[w] \in {"head", "save", "grant"} => verdict[w] \in States
    /\ pc[w] \in {"epoch", "incidents", "register"} => op[w] = "reset"
    /\ op[w] \in {"reset", "refresh"} => doc[w] \in Reset

TypeInv == LocalsOK /\ TablesOK /\ \A w \in Workers : Computed(w)

\* A step of w leaves the locals of the others alone ...
Others(w) ==
    \A v \in Workers \ {w} :
        /\ pc'[v] = pc[v] /\ op'[v] = op[v] /\ item'[v] = item[v]
        /\ at'[v] = at[v] /\ doc'[v] = doc[v] /\ base'[v] = base[v]
        /\ since'[v] = since[v] /\ tally'[v] = tally[v]
        /\ verdict'[v] = verdict[v] /\ link'[v] = link[v]
        /\ known'[v] = known[v]

\* ... and the tables only grow.
Growth ==
    /\ \A e \in Recorded : e \in Recorded' /\ events'[e] = events[e]
    /\ ledger \subseteq ledger'
    /\ resets \subseteq resets'

-------------------------------------------------------------------------------
(* What the rules return.                                                  *)

LEMMA TimesFacts ==
  ASSUME NEW s \in Times, NEW t \in Times
  PROVE  /\ Ago(t) \in Times
         /\ Later(s, t) \in Times
         /\ Later(s, t) >= s /\ Later(s, t) >= t
  BY BoundsType DEF Times, Ago, Later

\* Counters are numbers, and the critical counter grows with the events.
LEMMA TallyFacts ==
  ASSUME NEW E \in SUBSET Evidence
  PROVE  /\ TallyOf(E) \in Tally
         /\ TallyOf(E).critical = Cardinality(OfKind(E, "critical"))
         /\ IsFiniteSet(OfKind(E, "critical"))
<1>1. /\ IsFiniteSet(OfKind(E, "critical"))
      /\ IsFiniteSet(OfKind(E, "success"))
      /\ IsFiniteSet({e \in E : KindOf[e] # "success"})
  BY EvidenceFinite, FS_Subset DEF OfKind
<1>2. /\ Cardinality(OfKind(E, "critical")) \in Nat
      /\ Cardinality(OfKind(E, "success")) \in Nat
      /\ Cardinality({e \in E : KindOf[e] # "success"}) \in Nat
  BY <1>1, FS_CardinalityType
<1> QED BY <1>1, <1>2 DEF TallyOf, Tally

LEMMA VerdictFacts ==
  ASSUME NEW t \in Tally, NEW previous, NEW epoch \in Nat
  PROVE  /\ Verdict(t, previous, epoch) \in States
         /\ Verdict(t, previous, epoch) # "SUSPENDED" =>
               t.critical < SuspensionCritical
         /\ Verdict(t, previous, epoch) = "SUSPENDED" =>
               \/ previous = "SUSPENDED" /\ epoch = 0
               \/ t.critical >= SuspensionCritical
<1>1. Earned(t) \in States \ {"SUSPENDED"}
  BY DEF Earned, States
<1>2. t.critical \in Nat
  BY DEF Tally
<1> QED BY <1>1, <1>2, ThresholdsType DEF Verdict, States

-------------------------------------------------------------------------------
(* Type correctness.                                                       *)

\* Numbers and times are numbers.
LEMMA NumberFacts ==
  ASSUME TypeInv
  PROVE  /\ now \in Nat \ {0} /\ \A e \in Evidence : events[e] \in Nat
         /\ \A r \in ledger : r.sequence \in Nat \ {0} /\ r.event \in Evidence /\ r.at \in Nat
         /\ \A r \in resets : r.epoch \in Nat \ {0} /\ r.at \in Nat
         /\ \A g \in grants : g.at \in Nat /\ g.since \in Nat
         /\ \A w \in Workers : at[w] \in Nat /\ since[w] \in Nat /\ doc[w].at \in Nat
  BY BoundsType DEF TypeInv, TablesOK, LocalsOK, Times, Row, Reset, Grant

LEMMA InitTypes == Init => TypeInv
<1> SUFFICES ASSUME Init PROVE TypeInv
  OBVIOUS
<1>1. LocalsOK
  BY BoundsType DEF Init, LocalsOK, Steps, Times, Tally, Link, NoTally, NoDoc, Genesis
<1>2. TablesOK
  BY BoundsType DEF Init, TablesOK, Times
<1>3. \A w \in Workers : Computed(w)
  BY DEF Init, Computed
<1> QED BY <1>1, <1>2, <1>3 DEF TypeInv

LEMMA ReturnLocals ==
  ASSUME LocalsOK, NEW w \in Workers, Return(w)
  PROVE  /\ LocalsOK' /\ Others(w) /\ Computed(w)'
         /\ pc'[w] = "idle" /\ op'[w] = "none" /\ known'[w] = {}
<1>1. LocalsOK'
  BY BoundsType DEF LocalsOK, Return, Goto, Steps, Times, Tally, Link, NoTally, NoDoc, Genesis
<1>2. Others(w) /\ pc'[w] = "idle" /\ op'[w] = "none" /\ known'[w] = {}
  BY DEF LocalsOK, Return, Goto, Others
<1> QED BY <1>1, <1>2 DEF Computed

LEMMA ProceedLocals ==
  ASSUME LocalsOK, NEW w \in Workers, NEW s \in Steps, Proceed(w, s)
  PROVE  /\ LocalsOK' /\ Others(w)
         /\ pc'[w] = s
         /\ UNCHANGED <<op, item, at, doc, reading>>
  BY DEF LocalsOK, Proceed, Goto, Others, reading

\* What an action does to the locals.
LocalStep(w) == LocalsOK' /\ Others(w) /\ Computed(w)'

LEMMA RecordLocals ==
  ASSUME TypeInv, NEW w \in Workers,
         RecordEvent(w) \/ ReadHead(w) \/ Append(w)
  PROVE  LocalStep(w)
<1> LocalsOK /\ TablesOK /\ Computed(w)
  BY DEF TypeInv
<1>1. CASE RecordEvent(w)
  <2>1. LocalsOK'
    BY <1>1 DEF LocalsOK, RecordEvent, Goto, Steps, reading
  <2>2. Others(w) /\ Computed(w)'
    BY <1>1 DEF LocalsOK, RecordEvent, Goto, Others, Computed, reading
  <2> QED BY <2>1, <2>2 DEF LocalStep
<1>2. CASE ReadHead(w) /\ pc'[w] = "idle"
  BY <1>2, ReturnLocals DEF ReadHead, LocalStep, LocalsOK, Goto
<1>3. CASE ReadHead(w) /\ pc'[w] # "idle"
  <2>1. \E l \in Link : link' = [link EXCEPT ![w] = l]
    BY <1>3, ReturnLocals DEF ReadHead, LedgerHeads, TablesOK, Row, Link, Genesis
  <2>2. /\ Goto(w, "insert") /\ pc[w] = "append"
        /\ UNCHANGED <<op, item, at, doc, base, since, tally, verdict, known>>
    BY <1>3, ReturnLocals DEF ReadHead
  <2>3. LocalsOK'
    BY <2>1, <2>2 DEF LocalsOK, Goto, Steps
  <2>4. Others(w) /\ Computed(w)'
    BY <2>1, <2>2 DEF LocalsOK, Goto, Others, Computed
  <2> QED BY <2>3, <2>4 DEF LocalStep
<1>4. CASE Append(w)
  BY <1>4, ReturnLocals DEF Append, LocalStep
<1> QED BY <1>1, <1>2, <1>3, <1>4

LEMMA SnapshotLocals ==
  ASSUME TypeInv, NEW w \in Workers,
         \/ Clock(w) \/ Boundary(w) \/ ReadEvents(w) \/ ReadPrevious(w)
         \/ ReadLedgerHead(w)
  PROVE  LocalStep(w)
<1> LocalsOK /\ TablesOK /\ Computed(w)
  BY DEF TypeInv
<1>1. CASE Clock(w)
  <2>1. now \in Times
    BY BoundsType DEF TablesOK, Times
  <2>2. OfKind(Recorded, "critical") \in SUBSET Evidence
    BY DEF OfKind, Recorded
  <2>3. LocalsOK'
    BY <1>1, <2>1, <2>2 DEF LocalsOK, Clock, Goto, Steps
  <2>4. Others(w) /\ Computed(w)'
    BY <1>1 DEF LocalsOK, Clock, Goto, Others, Computed
  <2> QED BY <2>3, <2>4 DEF LocalStep
<1>2. CASE Boundary(w)
  <2>1. \E b \in Nat, t \in Times :
           base' = [base EXCEPT ![w] = b] /\ since' = [since EXCEPT ![w] = t]
    <3>1. at[w] \in Times /\ Ago(at[w]) \in Times
      BY TimesFacts DEF LocalsOK
    <3>2. \A r \in LatestResets :
             r.epoch \in Nat /\ Later(Ago(at[w]), r.at) \in Times
      BY <3>1, TimesFacts DEF LatestResets, TablesOK, Reset
    <3> QED BY <1>2, <3>1, <3>2 DEF Boundary
  <2>2. LocalsOK'
    BY <1>2, <2>1 DEF LocalsOK, Boundary, Goto, Steps
  <2>3. Others(w) /\ Computed(w)'
    BY <1>2, <2>1 DEF LocalsOK, Boundary, Goto, Others, Computed
  <2> QED BY <2>2, <2>3 DEF LocalStep
<1>3. CASE ReadEvents(w)
  <2> DEFINE E == {e \in Recorded : events[e] >= since[w]}
  <2>1. E \in SUBSET Evidence
    BY DEF Recorded
  <2>2. TallyOf(E) \in Tally
    BY <2>1, TallyFacts
  <2>3. tally' = [tally EXCEPT ![w] = TallyOf(E)]
    BY <1>3 DEF ReadEvents
  <2> HIDE DEF E
  <2>4. LocalsOK'
    BY <1>3, <2>2, <2>3 DEF LocalsOK, ReadEvents, Goto, Steps
  <2>5. Others(w) /\ Computed(w)'
    BY <1>3, <2>3 DEF LocalsOK, ReadEvents, Goto, Others, Computed
  <2> QED BY <2>4, <2>5 DEF LocalStep
<1>4. CASE ReadPrevious(w)
  <2>1. Verdict(tally[w], saved, base[w]) \in States
    BY VerdictFacts DEF LocalsOK
  <2>2. LocalsOK'
    BY <1>4, <2>1 DEF LocalsOK, ReadPrevious, Goto, Steps
  <2>3. Others(w) /\ Computed(w)'
    BY <1>4, <2>1 DEF LocalsOK, ReadPrevious, Goto, Others, Computed
  <2> QED BY <2>2, <2>3 DEF LocalStep
<1>5. CASE ReadLedgerHead(w)
  <2>1. \E l \in Link : link' = [link EXCEPT ![w] = l]
    BY <1>5 DEF ReadLedgerHead, LedgerHeads, TablesOK, Row, Link, Genesis
  <2>2. LocalsOK'
    BY <1>5, <2>1 DEF LocalsOK, ReadLedgerHead, Goto, Steps
  <2>3. Others(w) /\ Computed(w)'
    BY <1>5, <2>1 DEF LocalsOK, ReadLedgerHead, Goto, Others, Computed
  <2> QED BY <2>2, <2>3 DEF LocalStep
<1> QED BY <1>1, <1>2, <1>3, <1>4, <1>5

LEMMA DecisionLocals ==
  ASSUME TypeInv, NEW w \in Workers,
         \/ Save(w) \/ Mint(w) \/ CheckEpoch(w) \/ CheckIncidents(w)
         \/ Register(w) \/ Crash(w)
  PROVE  LocalStep(w)
<1> LocalsOK /\ Computed(w)
  BY DEF TypeInv
<1>1. CASE Return(w)
  BY <1>1, ReturnLocals DEF LocalStep
<1> DEFINE Continues ==
             \/ op[w] = "assert" /\ pc[w] = "save" /\ Proceed(w, "grant")
             \/ op[w] = "reset" /\ Proceed(w, "incidents")
             \/ op[w] = "reset" /\ Proceed(w, "clock")
             \/ op[w] = "reset" /\ Proceed(w, "register")
<1>2. CASE Continues
  <2>1. PICK s \in {"grant", "incidents", "clock", "register"} :
          Proceed(w, s) /\ (s = "grant" => pc[w] = "save") /\ (s # "grant" => op[w] = "reset")
    BY <1>2
  <2>2. LocalsOK' /\ Others(w) /\ pc'[w] = s /\ UNCHANGED <<op, item, at, doc, reading>>
    BY <2>1, ProceedLocals DEF Steps
  <2>3. Computed(w)'
    BY <2>1, <2>2 DEF Computed, reading
  <2> QED BY <2>2, <2>3 DEF LocalStep
<1>3. CASE Register(w) /\ ~Return(w)
  <2>1. /\ pc[w] = "register" /\ op[w] = "reset" /\ doc[w] \in Reset
        /\ doc[w].at \in Times
        /\ op' = [op EXCEPT ![w] = "refresh"]
        /\ at' = [at EXCEPT ![w] = doc[w].at]
        /\ Goto(w, "boundary")
        /\ UNCHANGED <<item, doc, reading>>
    BY <1>3 DEF Register, Computed, Reset
  <2>2. LocalsOK'
    BY <2>1 DEF LocalsOK, Goto, Steps, reading
  <2>3. Others(w) /\ Computed(w)'
    BY <2>1 DEF LocalsOK, Goto, Others, Computed, reading
  <2> QED BY <2>2, <2>3 DEF LocalStep
<1>4. Return(w) \/ Continues \/ Register(w)
  BY DEF Save, SetState, Mint, CheckEpoch, CheckIncidents, Crash, Computed
<1> QED BY <1>1, <1>2, <1>3, <1>4

LEMMA CallLocals ==
  ASSUME TypeInv, NEW w \in Workers, Call(w)
  PROVE  LocalStep(w)
<1> LocalsOK /\ TablesOK /\ Computed(w)
  BY DEF TypeInv
<1>1. CASE \E e \in Evidence : BeginRecord(w, e)
  <2>1. PICK e \in Evidence : BeginRecord(w, e)
    BY <1>1
  <2>2. now \in Times
    BY BoundsType DEF TablesOK, Times
  <2>3. LocalsOK'
    BY <2>1, <2>2 DEF LocalsOK, BeginRecord, Goto, Steps, reading
  <2>4. Others(w) /\ Computed(w)'
    BY <2>1 DEF LocalsOK, BeginRecord, Goto, Others, Computed, reading
  <2> QED BY <2>3, <2>4 DEF LocalStep
<1>2. CASE \E method \in {"snapshot", "assert"} : BeginSnapshot(w, method)
  <2>1. PICK method \in {"snapshot", "assert"} : BeginSnapshot(w, method)
    BY <1>2
  <2>2. LocalsOK'
    BY <2>1 DEF LocalsOK, BeginSnapshot, Goto, Steps, reading
  <2>3. Others(w) /\ Computed(w)'
    BY <2>1 DEF LocalsOK, BeginSnapshot, Goto, Others, Computed, reading
  <2> QED BY <2>2, <2>3 DEF LocalStep
<1>3. CASE \E epoch \in 1..MaxEpoch, issued \in 1..(MaxTime + Skew) :
              BeginReset(w, epoch, issued)
  <2>1. PICK epoch \in 1..MaxEpoch, issued \in 1..(MaxTime + Skew) :
              BeginReset(w, epoch, issued)
    BY <1>3
  <2>2. [epoch |-> epoch, at |-> issued] \in Reset
    BY BoundsType DEF Reset, Times
  <2>3. PICK d \in Reset : doc' = [doc EXCEPT ![w] = d]
    BY <2>1, <2>2 DEF BeginReset, InTime
  <2>4. d \in [epoch : Nat, at : Times]
    BY DEF Reset
  <2>5. LocalsOK'
    BY <2>1, <2>3, <2>4 DEF LocalsOK, BeginReset, InTime, Goto, Steps, reading
  <2>6. Others(w) /\ Computed(w)'
    BY <2>1, <2>3 DEF LocalsOK, BeginReset, InTime, Goto, Others, Computed, reading
  <2> QED BY <2>5, <2>6 DEF LocalStep
<1> QED BY <1>1, <1>2, <1>3 DEF Call

\* The two writes that add a row, and the state they add it in.
LEMMA TableSteps ==
  ASSUME TypeInv, NEW w \in Workers, WorkerStep(w) \/ Crash(w) \/ Call(w)
  PROVE  TablesOK' /\ Growth
<1> LocalsOK /\ TablesOK /\ Computed(w)
  BY DEF TypeInv
<1>1. CASE RecordEvent(w)
  <2>1. item[w] \in Evidence /\ at[w] \in Times
    BY <1>1 DEF RecordEvent, Computed, LocalsOK
  <2> QED BY <1>1, <2>1 DEF RecordEvent, TablesOK, Growth, Recorded, world
<1>2. CASE Append(w)
  <2>1. /\ item[w] \in Evidence /\ at[w] \in Times
        /\ link[w].sequence \in Nat /\ link[w].event \in Evidence \cup {NoEvidence}
    BY <1>2 DEF Append, Computed, LocalsOK, Link
  <2>2. NewRow(w) \in Row
    BY <2>1 DEF NewRow, Row
  <2>3. ledger' \in {ledger, ledger \cup {NewRow(w)}}
    BY <1>2 DEF Append
  <2> QED BY <1>2, <2>2, <2>3 DEF Append, TablesOK, Growth, Recorded, world
<1>3. CASE Save(w)
  BY <1>3 DEF Save, SetState, Computed, TablesOK, Growth, Recorded, world
<1>4. CASE Mint(w)
  <2>1. [at |-> at[w], since |-> since[w], tally |-> tally[w],
         verdict |-> verdict[w], head |-> link[w].event,
         until |-> now + Lifetime] \in Grant
    BY <1>4, BoundsType DEF Mint, TablesOK, Computed, LocalsOK, Link, Grant
  <2> QED BY <1>4, <2>1 DEF Mint, TablesOK, Growth, Recorded, tables
<1>5. CASE Register(w)
  <2>1. doc[w] \in Reset
    BY <1>5 DEF Register, Computed
  <2> QED BY <1>5, <2>1 DEF Register, TablesOK, Growth, Recorded, world
<1>6. CASE Crash(w)
  BY <1>6, BoundsType DEF Crash, TablesOK, Growth, Recorded, tables
<1>7. CASE UNCHANGED <<tables, world>>
  BY <1>7 DEF TablesOK, Growth, Recorded, tables, world
<1>8. \/ RecordEvent(w) \/ Append(w) \/ Save(w) \/ Mint(w) \/ Register(w) \/ Crash(w)
      \/ UNCHANGED <<tables, world>>
  BY DEF WorkerStep, Call, ReadHead, Clock, Boundary, ReadEvents, ReadPrevious,
         ReadLedgerHead, CheckEpoch, CheckIncidents, BeginRecord, BeginSnapshot,
         BeginReset, InTime
<1> QED BY <1>1, <1>2, <1>3, <1>4, <1>5, <1>6, <1>7, <1>8

LEMMA LocalSteps ==
  ASSUME TypeInv, NEW w \in Workers, WorkerStep(w) \/ Crash(w) \/ Call(w)
  PROVE  LocalStep(w)
  BY RecordLocals, SnapshotLocals, DecisionLocals, CallLocals DEF WorkerStep

\* Ticks and stutters touch neither the tables nor the locals.
LEMMA QuietSteps ==
  ASSUME TypeInv, Tick \/ UNCHANGED vars
  PROVE  /\ UNCHANGED <<events, ledger, saved, resets, grants, crashes>>
         /\ UNCHANGED locals
         /\ now' \in 1..MaxTime
  BY BoundsType DEF Tick, vars, tables, locals, TypeInv, TablesOK

LEMMA TypeInvStep == TypeInv /\ [Next]_vars => TypeInv'
<1> SUFFICES ASSUME TypeInv, [Next]_vars PROVE TypeInv'
  OBVIOUS
<1>1. CASE Tick \/ UNCHANGED vars
  BY <1>1, QuietSteps DEF TypeInv, LocalsOK, TablesOK, Computed, locals
<1>2. ASSUME NEW w \in Workers, WorkerStep(w) \/ Crash(w) \/ Call(w)
      PROVE  TypeInv'
  <2>1. TablesOK' /\ LocalStep(w)
    BY <1>2, TableSteps, LocalSteps
  <2>2. \A v \in Workers \ {w} : Computed(v)'
    BY <2>1 DEF TypeInv, LocalStep, Others, Computed
  <2> QED BY <2>1, <2>2 DEF TypeInv, LocalStep
<1> QED BY <1>1, <1>2 DEF Next

\* Every reachable state is well typed: every verdict comes from a tally, every
\* row of the ledger carries an event, and every registered reset names an
\* epoch, wherever a worker is interrupted.
THEOREM TypeCorrect == Spec => []TypeOK
<1>1. Spec => []TypeInv
  BY InitTypes, TypeInvStep, PTL DEF Spec
<1>2. TypeInv => TypeOK
  BY DEF TypeInv, LocalsOK, TablesOK, TypeOK
<1> QED BY <1>1, <1>2, PTL

-------------------------------------------------------------------------------
(* The ledger.  A worker about to insert holds the head it read: still a    *)
(* row of the ledger, though perhaps no longer the last one.               *)

HoldsLink(w) ==
    pc[w] = "insert" =>
        \/ link[w] = Genesis
        \/ \E r \in ledger :
              link[w].sequence = r.sequence /\ link[w].event = r.event

ChainInv == LedgerIsChain /\ \A w \in Workers : HoldsLink(w)

LEMMA AppendKeepsChain ==
  ASSUME TypeInv, ChainInv, NEW w \in Workers, Append(w)
  PROVE  LedgerIsChain'
<1>1. CASE ledger' = ledger
  BY <1>1 DEF ChainInv, LedgerIsChain
<1>2. CASE ledger' # ledger
  <2>1. /\ ledger' = ledger \cup {NewRow(w)}
        /\ \A r \in ledger : r.sequence # NewRow(w).sequence /\ r.event # NewRow(w).event
    BY <1>2 DEF Append, NewRow
  <2>2. /\ NewRow(w).sequence = link[w].sequence + 1
        /\ NewRow(w).prev = link[w].event
    BY DEF NewRow
  <2>3. \/ link[w].sequence = 0 /\ link[w].event = NoEvidence
        \/ \E r \in ledger :
              link[w].sequence = r.sequence /\ link[w].event = r.event
    BY DEF Append, ChainInv, HoldsLink, Genesis
  <2>4. \A r \in ledger : r.sequence \in Nat \ {0}
    BY DEF TypeInv, TablesOK, Row
  <2> QED BY <2>1, <2>2, <2>3, <2>4 DEF ChainInv, LedgerIsChain
<1> QED BY <1>1, <1>2

LEMMA ChainStep == TypeInv /\ ChainInv /\ [Next]_vars => ChainInv'
<1> SUFFICES ASSUME TypeInv, ChainInv, [Next]_vars PROVE ChainInv'
  OBVIOUS
<1>1. CASE Tick \/ UNCHANGED vars
  BY <1>1, QuietSteps DEF ChainInv, LedgerIsChain, HoldsLink, locals
<1>2. ASSUME NEW w \in Workers, WorkerStep(w) \/ Crash(w) \/ Call(w)
      PROVE  ChainInv'
  <2>1. LocalStep(w) /\ Growth
    BY <1>2, TableSteps, LocalSteps
  <2>2. LedgerIsChain'
    <3>1. CASE Append(w)
      BY <3>1, AppendKeepsChain
    <3>2. CASE ~Append(w)
      <4>1. ledger' = ledger
        BY <1>2, <3>2
        DEF WorkerStep, Call, RecordEvent, ReadHead, Clock, Boundary, ReadEvents,
            ReadPrevious, ReadLedgerHead, Save, SetState, Mint, CheckEpoch, CheckIncidents,
            Register, Crash, BeginRecord, BeginSnapshot, BeginReset, InTime, tables
      <4> QED BY <4>1 DEF ChainInv, LedgerIsChain
    <3> QED BY <3>1, <3>2
  <2>3. HoldsLink(w)'
    <3>1. SUFFICES ASSUME pc'[w] = "insert" PROVE HoldsLink(w)'
      BY DEF HoldsLink
    <3>2. ReadHead(w)
      BY <1>2, <3>1, ReturnLocals
      DEF WorkerStep, Call, RecordEvent, Append, Clock, Boundary, ReadEvents,
          ReadPrevious, ReadLedgerHead, Save, SetState, Mint, CheckEpoch, CheckIncidents,
          Register, Crash, BeginRecord, BeginSnapshot, BeginReset, InTime, Goto, Proceed,
          TypeInv, LocalsOK
    <3>3. \/ link'[w] = Genesis
          \/ \E r \in ledger : link'[w] = [sequence |-> r.sequence, event |-> r.event]
      BY <3>1, <3>2, ReturnLocals DEF ReadHead, LedgerHeads, TypeInv, LocalsOK
    <3>4. CASE link'[w] = Genesis
      BY <3>4 DEF HoldsLink
    <3>5. ASSUME NEW r \in ledger,
                 link'[w] = [sequence |-> r.sequence, event |-> r.event]
          PROVE  HoldsLink(w)'
      <4>1. r \in ledger' /\ link'[w].sequence = r.sequence /\ link'[w].event = r.event
        BY <2>1, <3>5 DEF Growth
      <4> QED BY <4>1 DEF HoldsLink
    <3> QED BY <3>3, <3>4, <3>5
  <2>4. \A v \in Workers \ {w} : HoldsLink(v)'
    BY <2>1 DEF LocalStep, Others, Growth, ChainInv, HoldsLink
  <2> QED BY <2>2, <2>3, <2>4 DEF ChainInv
<1> QED BY <1>1, <1>2 DEF Next

\* verify_authority_ledger succeeds in every reachable state: however many
\* processes append at once, and wherever they stop, the two UNIQUE
\* constraints keep the ledger one chain without gaps over distinct events.
THEOREM LedgerAlwaysChain == Spec => []LedgerIsChain
<1>1. Init => ChainInv
  BY DEF Init, ChainInv, LedgerIsChain, HoldsLink
<1>2. Spec => []ChainInv
  BY <1>1, InitTypes, TypeInvStep, ChainStep, PTL DEF Spec
<1>3. ChainInv => LedgerIsChain
  BY DEF ChainInv
<1> QED BY <1>2, <1>3, PTL

-------------------------------------------------------------------------------
(* Epochs.  A reset that passed CheckEpoch still extends some registered   *)
(* reset, and no epoch below a registered one is missing: so the epoch it  *)
(* registers under UNIQUE(epoch) can only be the next one.                 *)

NoEpochMissing ==
    \A s \in resets : \A j \in 1..s.epoch : \E r \in resets : r.epoch = j

ExtendsEpoch(w) ==
    op[w] = "reset" /\ pc[w] # "epoch" =>
        \/ doc[w].epoch = 1
        \/ \E s \in resets : s.epoch + 1 = doc[w].epoch /\ s.at < doc[w].at

EpochInv ==
    /\ EpochsAdvance /\ NoEpochMissing
    /\ \A w \in Workers : ExtendsEpoch(w)

LEMMA RegisterNext ==
  ASSUME TypeInv, EpochInv, NEW w \in Workers, Register(w), resets' # resets
  PROVE  /\ resets' = resets \cup {doc[w]} /\ doc[w] \in Reset
         /\ \/ doc[w].epoch = 1 /\ resets = {}
            \/ \E s \in resets : s.epoch + 1 = doc[w].epoch /\ s.at < doc[w].at
         /\ \A r \in resets : r.epoch < doc[w].epoch /\ r.at < doc[w].at
<1>1. /\ pc[w] = "register" /\ op[w] = "reset" /\ doc[w] \in Reset
      /\ resets' = resets \cup {doc[w]}
      /\ \A r \in resets : r.epoch # doc[w].epoch
  BY DEF Register, TypeInv, Computed
<1>2. /\ doc[w].epoch \in Nat \ {0} /\ doc[w].at \in Nat
      /\ \A r \in resets : r.epoch \in Nat \ {0} /\ r.at \in Nat
  BY <1>1, BoundsType DEF TypeInv, TablesOK, Reset, Times
<1>3. \A r \in resets : r.epoch < doc[w].epoch
  <2>1. SUFFICES ASSUME NEW r \in resets, r.epoch > doc[w].epoch PROVE FALSE
    BY <1>1, <1>2
  <2>2. doc[w].epoch \in 1..r.epoch
    BY <1>2, <2>1
  <2> QED BY <1>1, <2>2 DEF EpochInv, NoEpochMissing
<1>4. CASE doc[w].epoch = 1
  <2>1. resets = {}
    BY <1>2, <1>3, <1>4
  <2> QED BY <1>1, <1>4, <2>1
<1>5. CASE doc[w].epoch # 1
  <2>1. PICK s \in resets : s.epoch + 1 = doc[w].epoch /\ s.at < doc[w].at
    BY <1>1, <1>5 DEF EpochInv, ExtendsEpoch
  <2>2. ASSUME NEW r \in resets PROVE r.at < doc[w].at
    <3>1. r.epoch < s.epoch \/ r.epoch = s.epoch
      BY <1>2, <1>3, <2>1
    <3>2. r.at <= s.at
      BY <1>2, <3>1 DEF EpochInv, EpochsAdvance
    <3> QED BY <1>2, <2>1, <3>2
  <2> QED BY <1>1, <1>3, <2>1, <2>2
<1> QED BY <1>4, <1>5

LEMMA RegisterKeepsEpochs ==
  ASSUME TypeInv, EpochInv, NEW w \in Workers, Register(w)
  PROVE  EpochsAdvance' /\ NoEpochMissing'
<1>1. CASE resets' = resets
  BY <1>1 DEF EpochInv, EpochsAdvance, NoEpochMissing
<1>2. CASE resets' # resets
  <2>1. /\ resets' = resets \cup {doc[w]} /\ doc[w] \in Reset
        /\ \/ doc[w].epoch = 1 /\ resets = {}
           \/ \E s \in resets : s.epoch + 1 = doc[w].epoch /\ s.at < doc[w].at
        /\ \A r \in resets : r.epoch < doc[w].epoch /\ r.at < doc[w].at
    BY <1>2, RegisterNext
  <2>2. /\ doc[w].epoch \in Nat \ {0} /\ doc[w].at \in Nat
        /\ \A r \in resets : r.epoch \in Nat \ {0} /\ r.at \in Nat
    BY <2>1, BoundsType DEF TypeInv, TablesOK, Reset, Times
  <2>3. EpochsAdvance'
    BY <2>1, <2>2 DEF EpochInv, EpochsAdvance
  <2>4. \A j \in 1..doc[w].epoch : \E r \in resets' : r.epoch = j
    <3>1. SUFFICES ASSUME NEW j \in 1..doc[w].epoch, j # doc[w].epoch
                   PROVE  \E r \in resets : r.epoch = j
      BY <2>1
    <3>2. PICK s \in resets : s.epoch + 1 = doc[w].epoch
      BY <2>1, <3>1
    <3>3. j \in 1..s.epoch
      BY <2>2, <3>1, <3>2
    <3> QED BY <3>3 DEF EpochInv, NoEpochMissing
  <2>5. NoEpochMissing'
    BY <2>1, <2>4 DEF EpochInv, NoEpochMissing
  <2> QED BY <2>3, <2>5
<1> QED BY <1>1, <1>2

\* Between CheckEpoch and Register the document does not change.
LEMMA ResetContinues ==
  ASSUME TypeInv, NEW w \in Workers, WorkerStep(w) \/ Crash(w) \/ Call(w),
         op'[w] = "reset", pc'[w] # "epoch"
  PROVE  /\ op[w] = "reset" /\ doc'[w] = doc[w]
         /\ pc[w] # "epoch" \/ NextEpoch(doc[w])
<1> LocalsOK
  BY DEF TypeInv
<1>1. ~Return(w)
  BY ReturnLocals
<1>2. CASE RecordEvent(w) \/ ReadHead(w)
  BY <1>1, <1>2 DEF RecordEvent, ReadHead
<1>3. ~Append(w) /\ ~Mint(w) /\ ~Crash(w)
  BY <1>1 DEF Append, Mint, Crash
<1>4. ~Call(w)
  BY DEF Call, BeginRecord, BeginSnapshot, BeginReset, InTime, Goto, LocalsOK
<1>5. ~Register(w)
  BY <1>1 DEF Register, LocalsOK
<1>6. CASE Clock(w) \/ Boundary(w) \/ ReadEvents(w) \/ ReadPrevious(w) \/ ReadLedgerHead(w)
  BY <1>6 DEF Clock, Boundary, ReadEvents, ReadPrevious, ReadLedgerHead
<1>7. CASE Save(w) \/ CheckEpoch(w) \/ CheckIncidents(w)
  BY <1>1, <1>7 DEF Save, SetState, CheckEpoch, CheckIncidents, Proceed
<1> QED BY <1>2, <1>3, <1>4, <1>5, <1>6, <1>7 DEF WorkerStep

LEMMA EpochStep == TypeInv /\ EpochInv /\ [Next]_vars => EpochInv'
<1> SUFFICES ASSUME TypeInv, EpochInv, [Next]_vars PROVE EpochInv'
  OBVIOUS
<1>1. CASE Tick \/ UNCHANGED vars
  BY <1>1, QuietSteps
  DEF EpochInv, EpochsAdvance, NoEpochMissing, ExtendsEpoch, locals
<1>2. ASSUME NEW w \in Workers, WorkerStep(w) \/ Crash(w) \/ Call(w)
      PROVE  EpochInv'
  <2>1. LocalStep(w) /\ resets \subseteq resets'
    BY <1>2, TableSteps, LocalSteps DEF Growth
  <2>2. EpochsAdvance' /\ NoEpochMissing'
    <3>1. CASE Register(w)
      BY <3>1, RegisterKeepsEpochs
    <3>2. CASE ~Register(w)
      <4>1. resets' = resets
        BY <1>2, <3>2
        DEF WorkerStep, Call, RecordEvent, ReadHead, Append, Clock, Boundary,
            ReadEvents, ReadPrevious, ReadLedgerHead, Save, SetState, Mint, CheckEpoch,
            CheckIncidents, Crash, BeginRecord, BeginSnapshot, BeginReset, InTime, tables
      <4> QED BY <4>1 DEF EpochInv, EpochsAdvance, NoEpochMissing
    <3> QED BY <3>1, <3>2
  <2>3. ExtendsEpoch(w)'
    <3>1. SUFFICES ASSUME op'[w] = "reset", pc'[w] # "epoch"
                   PROVE  ExtendsEpoch(w)'
      BY DEF ExtendsEpoch
    <3>2. /\ op[w] = "reset" /\ doc'[w] = doc[w]
          /\ pc[w] # "epoch" \/ NextEpoch(doc[w])
      BY <1>2, <3>1, ResetContinues
    <3>3. /\ doc[w].at \in Nat
          /\ \A s \in resets : s.at \in Nat
      BY BoundsType DEF TypeInv, LocalsOK, TablesOK, Reset, Times
    <3>4. \/ doc[w].epoch = 1
          \/ \E s \in resets : s.epoch + 1 = doc[w].epoch /\ s.at < doc[w].at
      BY <3>2, <3>3 DEF EpochInv, ExtendsEpoch, NextEpoch, LatestResets
    <3> QED BY <2>1, <3>2, <3>4 DEF ExtendsEpoch
  <2>4. \A v \in Workers \ {w} : ExtendsEpoch(v)'
    BY <2>1 DEF LocalStep, Others, EpochInv, ExtendsEpoch
  <2> QED BY <2>2, <2>3, <2>4 DEF EpochInv
<1> QED BY <1>1, <1>2 DEF Next

LEMMA InitEpochs == Init => EpochInv
  BY DEF Init, EpochInv, EpochsAdvance, NoEpochMissing, ExtendsEpoch

\* Two resets validated against the same latest epoch cannot both be
\* registered, and epochs are opened in the order of their timestamps.
THEOREM EpochsAlwaysAdvance == Spec => []EpochsAdvance
<1>1. Spec => []EpochInv
  BY InitEpochs, InitTypes, TypeInvStep, EpochStep, PTL DEF Spec
<1>2. EpochInv => EpochsAdvance
  BY DEF EpochInv
<1> QED BY <1>1, <1>2, PTL

-------------------------------------------------------------------------------
(* Grants.  The counters of a snapshot cover the incidents that were on     *)
(* record when its evaluation began and that its history reaches back to.  *)

Heeded(w) == {e \in known[w] : events[e] >= since[w]}

Heeds(w) ==
    /\ known[w] \subseteq OfKind(Recorded, "critical")
    /\ pc[w] \in {"previous", "head", "save", "grant"} =>
          Cardinality(Heeded(w)) <= tally[w].critical
    /\ pc[w] \in {"head", "save", "grant"} /\ verdict[w] # "SUSPENDED" =>
          tally[w].critical < SuspensionCritical
    /\ pc[w] = "grant" => verdict[w] # "SUSPENDED"

HeedInv == \A w \in Workers : Heeds(w)

LEMMA KnownGrows ==
  ASSUME TypeInv, Growth, NEW K, K \subseteq OfKind(Recorded, "critical")
  PROVE  K \subseteq OfKind(Recorded, "critical")'
  BY DEF Growth, OfKind

\* Reading the events counts every known incident in the history.
LEMMA ReadEventsHeeds ==
  ASSUME TypeInv, HeedInv, NEW w \in Workers, ReadEvents(w)
  PROVE  Cardinality(Heeded(w))' <= tally'[w].critical
<1> DEFINE E == {e \in Recorded : events[e] >= since[w]}
<1>1. E \in SUBSET Evidence
  BY DEF Recorded
<1>2. /\ TallyOf(E).critical = Cardinality(OfKind(E, "critical"))
      /\ IsFiniteSet(OfKind(E, "critical"))
  BY <1>1, TallyFacts
<1>3. tally'[w] = TallyOf(E)
  BY DEF ReadEvents, TypeInv, LocalsOK
<1>4. Heeded(w) \subseteq OfKind(E, "critical")
  BY DEF HeedInv, Heeds, Heeded, OfKind
<1>5. Heeded(w)' = Heeded(w)
  BY DEF ReadEvents, Heeded, tables
<1> QED BY <1>2, <1>3, <1>4, <1>5, FS_Subset

LEMMA HeedOwnStep ==
  ASSUME TypeInv, HeedInv, NEW w \in Workers,
         WorkerStep(w) \/ Crash(w) \/ Call(w)
  PROVE  Heeds(w)'
<1> LocalsOK /\ TablesOK
  BY DEF TypeInv
<1>1. Growth /\ LocalStep(w)
  BY TableSteps, LocalSteps
<1>2. known'[w] \subseteq OfKind(Recorded, "critical")'
  <2>1. known'[w] \subseteq OfKind(Recorded, "critical")
    <3>1. known'[w] \in {known[w], {}, OfKind(Recorded, "critical")}
      BY ReturnLocals
      DEF WorkerStep, Call, RecordEvent, ReadHead, Append, Clock, Boundary,
          ReadEvents, ReadPrevious, ReadLedgerHead, Save, SetState, Mint, CheckEpoch,
          CheckIncidents, Register, Crash, BeginRecord, BeginSnapshot,
          BeginReset, InTime, Proceed, reading, LocalsOK
    <3> QED BY <3>1 DEF HeedInv, Heeds
  <2> QED BY <1>1, <2>1, KnownGrows
<1>3. CASE ReadEvents(w)
  <2>1. pc'[w] = "previous"
    BY <1>3 DEF ReadEvents, Goto, LocalsOK
  <2> QED BY <1>2, <1>3, <2>1, ReadEventsHeeds DEF Heeds
<1>4. CASE ReadPrevious(w)
  <2>1. /\ pc[w] = "previous" /\ pc'[w] = "head" /\ UNCHANGED <<tally, known, since, events>>
        /\ verdict'[w] = Verdict(tally[w], saved, base[w])
    BY <1>4 DEF ReadPrevious, Goto, LocalsOK, tables
  <2>2. Cardinality(Heeded(w))' <= tally'[w].critical
    BY <2>1 DEF HeedInv, Heeds, Heeded
  <2>3. verdict'[w] # "SUSPENDED" => tally[w].critical < SuspensionCritical
    BY <2>1, VerdictFacts DEF LocalsOK
  <2> QED BY <1>2, <2>1, <2>2, <2>3 DEF Heeds
<1>5. CASE ReadLedgerHead(w) \/ (Save(w) /\ ~Return(w) /\ op[w] = "assert")
  <2>1. /\ pc[w] \in {"head", "save"}
        /\ pc'[w] \in {"save", "grant"}
        /\ pc'[w] = "grant" => verdict[w] # "SUSPENDED"
        /\ UNCHANGED <<tally, known, since, events, verdict>>
    BY <1>5 DEF ReadLedgerHead, Save, SetState, Proceed, Goto, LocalsOK, tables, reading
  <2>2. Heeded(w)' = Heeded(w)
    BY <2>1 DEF Heeded
  <2> QED BY <1>2, <2>1, <2>2 DEF HeedInv, Heeds
<1>6. CASE pc'[w] \notin {"previous", "head", "save", "grant"}
  BY <1>2, <1>6 DEF Heeds
<1>7. CASE Save(w) /\ (Return(w) \/ op[w] # "assert")
  <2>1. pc'[w] \in {"idle", "incidents"}
    BY <1>7, ReturnLocals DEF Save, SetState, Proceed, Goto, LocalsOK
  <2> QED BY <1>6, <2>1
<1>8. pc'[w] \in {"previous", "head", "save", "grant"} =>
         ReadEvents(w) \/ ReadPrevious(w) \/ ReadLedgerHead(w) \/ Save(w)
  BY ReturnLocals
  DEF WorkerStep, Call, RecordEvent, ReadHead, Append, Clock, Boundary, Mint,
      CheckEpoch, CheckIncidents, Register, Crash, BeginRecord, BeginSnapshot,
      BeginReset, InTime, Proceed, Goto, LocalsOK
<1> QED BY <1>3, <1>4, <1>5, <1>6, <1>7, <1>8

LEMMA HeedStep == TypeInv /\ HeedInv /\ [Next]_vars => HeedInv'
<1> SUFFICES ASSUME TypeInv, HeedInv, [Next]_vars PROVE HeedInv'
  OBVIOUS
<1>1. CASE Tick \/ UNCHANGED vars
  BY <1>1, QuietSteps DEF HeedInv, Heeds, Heeded, OfKind, Recorded, locals
<1>2. ASSUME NEW w \in Workers, WorkerStep(w) \/ Crash(w) \/ Call(w)
      PROVE  HeedInv'
  <2>1. LocalStep(w) /\ Growth
    BY <1>2, TableSteps, LocalSteps
  <2>2. ASSUME NEW v \in Workers \ {w} PROVE Heeds(v)'
    <3>1. /\ pc'[v] = pc[v] /\ since'[v] = since[v] /\ tally'[v] = tally[v]
          /\ verdict'[v] = verdict[v] /\ known'[v] = known[v]
      BY <2>1 DEF LocalStep, Others
    <3>2. known'[v] \subseteq OfKind(Recorded, "critical")'
      BY <2>1, <3>1, KnownGrows DEF HeedInv, Heeds
    <3>3. Heeded(v)' = Heeded(v)
      BY <2>1, <3>1 DEF HeedInv, Heeds, Heeded, Growth, OfKind
    <3> QED BY <3>1, <3>2, <3>3 DEF HeedInv, Heeds
  <2> QED BY <1>2, <2>2, HeedOwnStep DEF HeedInv
<1> QED BY <1>1, <1>2 DEF Next

\* An authorization is never minted past incidents that were on record when
\* its evaluation began, whatever other workers record, save or reset between
\* the reads of the snapshot.
THEOREM GrantsAlwaysHeedIncidents == Spec => []GrantsHeedIncidents
<1>1. Init => HeedInv
  BY DEF Init, HeedInv, Heeds
<1>2. Spec => [](TypeInv /\ HeedInv)
  BY <1>1, InitTypes, TypeInvStep, HeedStep, PTL DEF Spec
<1>3. TypeInv /\ HeedInv => GrantsHeedIncidents
  <2>1. SUFFICES ASSUME TypeInv, HeedInv, NEW w \in Workers, pc[w] = "grant"
                 PROVE  Cardinality(Heeded(w)) < SuspensionCritical
    BY DEF GrantsHeedIncidents, Heeded
  <2>2. /\ Cardinality(Heeded(w)) <= tally[w].critical
        /\ tally[w].critical < SuspensionCritical
    BY <2>1 DEF HeedInv, Heeds
  <2>3. IsFiniteSet(Heeded(w))
    <3>1. Heeded(w) \subseteq Evidence
      BY <2>1 DEF TypeInv, LocalsOK, Heeded
    <3> QED BY <3>1, EvidenceFinite, FS_Subset
  <2>4. Cardinality(Heeded(w)) \in Nat
    BY <2>3, FS_CardinalityType
  <2>5. tally[w].critical \in Nat
    BY <2>1 DEF TypeInv, LocalsOK, Tally
  <2> QED BY <2>2, <2>4, <2>5, ThresholdsType
<1> QED BY <1>2, <1>3, PTL

-------------------------------------------------------------------------------
(* Incidents.  The suspended verdict on which a reset rests comes from an   *)
(* incident of the history that begins at the last epoch before it.        *)

Critical == OfKind(Recorded, "critical")

Grounds(w, e) == e \in Critical /\ (base[w] # 0 => events[e] >= since[w])

Based == {"events", "previous", "head", "save", "incidents", "register"}

Grounded(w) ==
    /\ pc[w] \in Based /\ base[w] # 0 =>
          \E r \in resets : r.epoch = base[w] /\ r.at <= since[w]
    /\ pc[w] \in Based /\ op[w] = "reset" => doc[w].epoch <= base[w] + 1
    /\ pc[w] = "previous" /\ tally[w].critical >= SuspensionCritical =>
          \E e \in Critical : events[e] >= since[w]
    /\ pc[w] \in {"head", "save"} /\ verdict[w] = "SUSPENDED" =>
          \E e \in Critical : Grounds(w, e)
    /\ pc[w] = "incidents" => \E e \in Critical : Grounds(w, e)
    /\ pc[w] = "register" =>
          \E e \in Critical : Grounds(w, e) /\ events[e] < doc[w].at

IncidentInv ==
    /\ EpochNeedsIncident
    /\ saved = "SUSPENDED" => Critical # {}
    /\ \A w \in Workers : Grounded(w)

\* An incident on record stays on record, with its time.
LEMMA CriticalGrows ==
  ASSUME Growth, NEW e \in Critical
  PROVE  e \in Critical' /\ events'[e] = events[e]
  BY DEF Growth, Critical, OfKind

LEMMA GroundsStay ==
  ASSUME Growth, NEW w \in Workers, NEW e \in Critical, Grounds(w, e),
         base'[w] = base[w], since'[w] = since[w]
  PROVE  Grounds(w, e)' /\ e \in Critical' /\ events'[e] = events[e]
  BY CriticalGrows DEF Grounds

\* A worker that keeps its locals keeps its grounds: so do the others.
LEMMA GroundedStays ==
  ASSUME TypeInv, Growth, NEW v \in Workers, Grounded(v),
         pc'[v] = pc[v], op'[v] = op[v], doc'[v] = doc[v], base'[v] = base[v],
         since'[v] = since[v], tally'[v] = tally[v], verdict'[v] = verdict[v]
  PROVE  Grounded(v)'
<1>1. ASSUME NEW e \in Critical PROVE e \in Critical' /\ events'[e] = events[e]
  BY CriticalGrows
<1>2. ASSUME NEW e \in Critical, Grounds(v, e) PROVE Grounds(v, e)'
  BY <1>2, GroundsStay
<1>3. \A r \in resets : r \in resets'
  BY DEF Growth
<1> QED BY <1>1, <1>2, <1>3 DEF Grounded

LEMMA BoundaryGrounded ==
  ASSUME TypeInv, EpochInv, NEW w \in Workers, Boundary(w)
  PROVE  Grounded(w)'
<1> LocalsOK
  BY DEF TypeInv
<1>1. /\ pc[w] = "boundary" /\ pc'[w] = "events"
      /\ UNCHANGED <<op, doc, resets>>
  BY DEF Boundary, Goto, LocalsOK, tables
<1>2. /\ doc[w].epoch \in Nat
      /\ \A r \in resets : r.epoch \in Nat \ {0} /\ r.at \in Times
  BY DEF LocalsOK, TypeInv, TablesOK, Reset
<1>3. op[w] = "reset" =>
         doc[w].epoch = 1 \/ \E s \in resets : s.epoch + 1 = doc[w].epoch
  BY <1>1 DEF EpochInv, ExtendsEpoch
<1>4. CASE base' = [base EXCEPT ![w] = 0] /\ resets = {}
  <2>1. base'[w] = 0
    BY <1>4 DEF LocalsOK
  <2> QED BY <1>1, <1>2, <1>3, <1>4, <2>1 DEF Grounded
<1>5. ASSUME NEW r \in LatestResets,
             base' = [base EXCEPT ![w] = r.epoch],
             since' = [since EXCEPT ![w] = Later(Ago(at[w]), r.at)]
      PROVE  Grounded(w)'
  <2>1. /\ r \in resets /\ \A s \in resets : s.epoch <= r.epoch
        /\ base'[w] = r.epoch /\ since'[w] = Later(Ago(at[w]), r.at)
    BY <1>5 DEF LocalsOK, LatestResets
  <2>2. since'[w] >= r.at /\ since'[w] \in Times
    <3>1. at[w] \in Times /\ Ago(at[w]) \in Times /\ r.at \in Times
      BY <1>2, <2>1, TimesFacts DEF LocalsOK
    <3> QED BY <2>1, <3>1, TimesFacts
  <2>3. r.at <= since'[w]
    BY <1>2, <2>1, <2>2, BoundsType DEF Times
  <2>4. op[w] = "reset" => doc[w].epoch <= r.epoch + 1
    BY <1>2, <1>3, <2>1
  <2> QED BY <1>1, <2>1, <2>3, <2>4 DEF Grounded
<1> QED BY <1>4, <1>5 DEF Boundary

LEMMA ReadEventsGrounded ==
  ASSUME TypeInv, NEW w \in Workers, Grounded(w), ReadEvents(w)
  PROVE  Grounded(w)'
<1> DEFINE E == {e \in Recorded : events[e] >= since[w]}
<1>1. /\ pc[w] = "events" /\ pc'[w] = "previous" /\ tally'[w] = TallyOf(E)
      /\ UNCHANGED <<op, doc, resets, base, since, events>>
  BY DEF ReadEvents, Goto, TypeInv, LocalsOK, tables
<1>2. TallyOf(E).critical = Cardinality(OfKind(E, "critical"))
  <2>1. E \in SUBSET Evidence
    BY DEF Recorded
  <2> QED BY <2>1, TallyFacts
<1>3. TallyOf(E).critical >= SuspensionCritical => OfKind(E, "critical") # {}
  <2>1. SUFFICES ASSUME OfKind(E, "critical") = {}
                 PROVE  ~(TallyOf(E).critical >= SuspensionCritical)
    OBVIOUS
  <2>2. TallyOf(E).critical = 0
    BY <1>2, <2>1, FS_EmptySet
  <2> QED BY <2>2, ThresholdsType
<1>4. \A e \in OfKind(E, "critical") : e \in Critical /\ events[e] >= since[w]
  BY DEF OfKind, Critical
<1>5. Critical' = Critical
  BY <1>1 DEF Critical, OfKind, Recorded
<1> HIDE DEF E
<1> QED BY <1>1, <1>3, <1>4, <1>5 DEF Grounded, Based

LEMMA ReadPreviousGrounded ==
  ASSUME TypeInv, IncidentInv, NEW w \in Workers, ReadPrevious(w)
  PROVE  Grounded(w)'
<1>1. /\ pc[w] = "previous" /\ pc'[w] = "head"
      /\ verdict'[w] = Verdict(tally[w], saved, base[w])
      /\ UNCHANGED <<op, doc, resets, base, since, events>>
  BY DEF ReadPrevious, Goto, TypeInv, LocalsOK, tables
<1>2. verdict'[w] = "SUSPENDED" =>
         \/ saved = "SUSPENDED" /\ base[w] = 0
         \/ tally[w].critical >= SuspensionCritical
  BY <1>1, VerdictFacts DEF TypeInv, LocalsOK
<1>3. verdict'[w] = "SUSPENDED" => \E e \in Critical : Grounds(w, e)
  BY <1>1, <1>2 DEF IncidentInv, Grounded, Grounds
<1>4. Critical' = Critical
  BY <1>1 DEF Critical, OfKind, Recorded
<1>5. \A e : Grounds(w, e)' <=> Grounds(w, e)
  BY <1>1, <1>4 DEF Grounds
<1> QED BY <1>1, <1>3, <1>4, <1>5 DEF IncidentInv, Grounded, Based

\* The head of the ledger is read, the state saved, the incidents compared.
LEMMA DecideGrounded ==
  ASSUME TypeInv, NEW w \in Workers, Grounded(w),
         ReadLedgerHead(w) \/ ((Save(w) \/ CheckIncidents(w)) /\ ~Return(w))
  PROVE  Grounded(w)'
<1>1. UNCHANGED <<op, doc, resets, base, since, events, verdict>>
  BY DEF ReadLedgerHead, Save, SetState, CheckIncidents, Proceed, tables, reading
<1>2. /\ pc[w] \in Based
      /\ \/ pc[w] = "head" /\ pc'[w] = "save"
         \/ pc[w] = "save" /\ pc'[w] = "grant"
         \/ pc[w] = "save" /\ pc'[w] = "incidents" /\ verdict[w] = "SUSPENDED"
         \/ /\ pc[w] = "incidents" /\ pc'[w] = "register"
            /\ \A e \in Critical : events[e] < doc[w].at
  BY DEF ReadLedgerHead, Save, SetState, CheckIncidents, Proceed, Goto, TypeInv, LocalsOK,
         Based, Critical
<1>3. Critical' = Critical
  BY <1>1 DEF Critical, OfKind, Recorded
<1>4. \A e : Grounds(w, e)' <=> Grounds(w, e)
  BY <1>1, <1>3 DEF Grounds
<1> QED BY <1>1, <1>2, <1>3, <1>4 DEF Grounded, Based

LEMMA GroundedOwnStep ==
  ASSUME TypeInv, EpochInv, IncidentInv, NEW w \in Workers,
         WorkerStep(w) \/ Crash(w) \/ Call(w)
  PROVE  Grounded(w)'
<1>1. CASE pc'[w] \notin Based
  BY <1>1 DEF Grounded, Based
<1> DEFINE Decides == \/ Boundary(w) \/ ReadEvents(w) \/ ReadPrevious(w)
                      \/ ReadLedgerHead(w)
                      \/ (Save(w) \/ CheckIncidents(w)) /\ ~Return(w)
<1>2. CASE Decides
  <2>1. Grounded(w)
    BY DEF IncidentInv
  <2>2. CASE Boundary(w)
    BY <2>2, BoundaryGrounded
  <2>3. CASE ReadEvents(w)
    BY <2>1, <2>3, ReadEventsGrounded
  <2>4. CASE ReadPrevious(w)
    BY <2>4, ReadPreviousGrounded
  <2>5. CASE ReadLedgerHead(w) \/ ((Save(w) \/ CheckIncidents(w)) /\ ~Return(w))
    BY <2>1, <2>5, DecideGrounded
  <2> QED BY <1>2, <2>2, <2>3, <2>4, <2>5
<1>3. pc'[w] \in Based => Decides
  BY ReturnLocals
  DEF WorkerStep, Call, RecordEvent, ReadHead, Append, Clock, Save, SetState, Mint,
      CheckEpoch, CheckIncidents, Register, Crash, BeginRecord, BeginSnapshot,
      BeginReset, InTime, Proceed, Goto, TypeInv, LocalsOK, Based
<1> QED BY <1>1, <1>2, <1>3

LEMMA RegisterNeedsIncident ==
  ASSUME TypeInv, EpochInv, IncidentInv, NEW w \in Workers, Register(w)
  PROVE  EpochNeedsIncident'
<1>1. UNCHANGED events /\ Critical' = Critical
  BY DEF Register, Critical, OfKind, Recorded
<1>2. CASE resets' = resets
  BY <1>1, <1>2 DEF IncidentInv, EpochNeedsIncident, Critical
<1>3. CASE resets' # resets
  <2>1. /\ resets' = resets \cup {doc[w]} /\ doc[w] \in Reset
        /\ \A r \in resets : r.epoch < doc[w].epoch /\ r.at < doc[w].at
    BY <1>3, RegisterNext
  <2>2. PICK e \in Critical : Grounds(w, e) /\ events[e] < doc[w].at
    BY DEF IncidentInv, Grounded, Register
  <2>3. /\ doc[w].epoch \in Nat \ {0} /\ base[w] \in Nat /\ since[w] \in Nat
        /\ events[e] \in Nat
        /\ \A r \in resets : r.epoch \in Nat \ {0} /\ r.at \in Nat
    BY <2>1, BoundsType
    DEF TypeInv, LocalsOK, TablesOK, Reset, Times, Critical, OfKind, Recorded
  <2>4. /\ doc[w].epoch <= base[w] + 1
        /\ base[w] # 0 => \E r \in resets : r.epoch = base[w] /\ r.at <= since[w]
    BY DEF IncidentInv, Grounded, Register, TypeInv, Computed, Based
  <2>5. ASSUME NEW s \in resets, s.epoch + 1 = doc[w].epoch
        PROVE  s.at <= events[e]
    <3>1. base[w] # 0 /\ s.epoch <= base[w]
      BY <2>3, <2>4, <2>5
    <3>2. PICK r \in resets : r.epoch = base[w] /\ r.at <= since[w]
      BY <2>4, <3>1
    <3>3. s.at <= r.at
      BY <2>3, <3>1, <3>2 DEF EpochInv, EpochsAdvance
    <3>4. since[w] <= events[e]
      BY <2>2, <2>3, <3>1 DEF Grounds
    <3> QED BY <2>3, <3>2, <3>3, <3>4
  <2>6. ASSUME NEW r \in resets'
        PROVE  \E i \in Critical : /\ events[i] < r.at
                                   /\ \A s \in resets' : s.epoch + 1 = r.epoch =>
                                                            s.at <= events[i]
    <3>1. CASE r = doc[w]
      BY <2>1, <2>2, <2>3, <2>5, <3>1
    <3>2. CASE r \in resets
      <4>1. doc[w].epoch + 1 # r.epoch
        BY <2>1, <2>3, <3>2
      <4> QED BY <2>1, <3>2, <4>1 DEF IncidentInv, EpochNeedsIncident, Critical
    <3> QED BY <2>1, <3>1, <3>2
  <2> QED BY <1>1, <2>6 DEF EpochNeedsIncident, Critical
<1> QED BY <1>2, <1>3

LEMMA IncidentStep == TypeInv /\ EpochInv /\ IncidentInv /\ [Next]_vars => IncidentInv'
<1> SUFFICES ASSUME TypeInv, EpochInv, IncidentInv, [Next]_vars PROVE IncidentInv'
  OBVIOUS
<1>1. CASE Tick \/ UNCHANGED vars
  BY <1>1, QuietSteps
  DEF IncidentInv, EpochNeedsIncident, Grounded, Grounds, Critical, OfKind,
      Recorded, locals
<1>2. ASSUME NEW w \in Workers, WorkerStep(w) \/ Crash(w) \/ Call(w)
      PROVE  IncidentInv'
  <2>1. LocalStep(w) /\ Growth
    BY <1>2, TableSteps, LocalSteps
  <2>2. EpochNeedsIncident'
    <3>1. CASE Register(w)
      BY <3>1, RegisterNeedsIncident
    <3>2. CASE ~Register(w)
      <4>1. resets' = resets
        BY <1>2, <3>2
        DEF WorkerStep, Call, RecordEvent, ReadHead, Append, Clock, Boundary,
            ReadEvents, ReadPrevious, ReadLedgerHead, Save, SetState, Mint, CheckEpoch,
            CheckIncidents, Crash, BeginRecord, BeginSnapshot, BeginReset, InTime, tables
      <4>2. \A e \in Critical : e \in Critical' /\ events'[e] = events[e]
        BY <2>1, CriticalGrows
      <4> QED BY <4>1, <4>2 DEF IncidentInv, EpochNeedsIncident, Critical
    <3> QED BY <3>1, <3>2
  <2>3. saved' = "SUSPENDED" => Critical' # {}
    <3>1. Critical # {} => Critical' # {}
      BY <2>1, CriticalGrows
    <3>2. saved' = saved \/ (pc[w] = "save" /\ saved' = verdict[w])
      BY <1>2
      DEF WorkerStep, Call, RecordEvent, ReadHead, Append, Clock, Boundary,
          ReadEvents, ReadPrevious, ReadLedgerHead, Save, SetState, Mint, CheckEpoch,
          CheckIncidents, Register, Crash, BeginRecord, BeginSnapshot,
          BeginReset, InTime, tables
    <3> QED BY <3>1, <3>2 DEF IncidentInv, Grounded
  <2>4. ASSUME NEW v \in Workers \ {w} PROVE Grounded(v)'
    <3>1. Grounded(v) /\ v \in Workers
      BY DEF IncidentInv
    <3>2. /\ pc'[v] = pc[v] /\ op'[v] = op[v] /\ doc'[v] = doc[v]
          /\ base'[v] = base[v] /\ since'[v] = since[v]
          /\ tally'[v] = tally[v] /\ verdict'[v] = verdict[v]
      BY <2>1 DEF LocalStep, Others
    <3> QED BY <2>1, <3>1, <3>2, GroundedStays
  <2> QED BY <1>2, <2>2, <2>3, <2>4, GroundedOwnStep DEF IncidentInv
<1> QED BY <1>1, <1>2 DEF Next

\* Governance cannot open an epoch on the strength of an incident that an
\* earlier epoch already covers, even when other resets and snapshots of the
\* scope run between the checks of a reset and its registration.
THEOREM EpochsAlwaysNeedIncident == Spec => []EpochNeedsIncident
<1>1. Init => IncidentInv
  BY DEF Init, IncidentInv, EpochNeedsIncident, Grounded, Based
<1>2. Spec => []IncidentInv
  BY <1>1, InitTypes, InitEpochs, TypeInvStep, EpochStep, IncidentStep, PTL DEF Spec
<1>3. IncidentInv => EpochNeedsIncident
  BY DEF IncidentInv
<1> QED BY <1>2, <1>3, PTL

-------------------------------------------------------------------------------
(* Replay.  No sequence number below a row of the ledger is missing, so a   *)
(* row appended later lies beyond the head an authorization is bound to.   *)

NoRowMissing ==
    \A s \in ledger : \A j \in 1..s.sequence : \E r \in ledger : r.sequence = j

LEMMA AppendExtends ==
  ASSUME TypeInv, ChainInv, NoRowMissing, NEW w \in Workers,
         WorkerStep(w) \/ Crash(w) \/ Call(w), ledger' # ledger
  PROVE  /\ ledger' = ledger \cup {NewRow(w)} /\ NewRow(w) \in Row
         /\ \A r \in ledger : r.event # NewRow(w).event
         /\ \A r \in ledger : r.sequence < NewRow(w).sequence
         /\ \A j \in 1..NewRow(w).sequence :
               j = NewRow(w).sequence \/ \E r \in ledger : r.sequence = j
<1>1. Append(w)
  BY DEF WorkerStep, Call, RecordEvent, ReadHead, Clock, Boundary, ReadEvents,
         ReadPrevious, ReadLedgerHead, Save, SetState, Mint, CheckEpoch, CheckIncidents,
         Register, Crash, BeginRecord, BeginSnapshot, BeginReset, InTime, tables
<1>2. /\ ledger' = ledger \cup {NewRow(w)}
      /\ \A r \in ledger : r.sequence # NewRow(w).sequence /\ r.event # NewRow(w).event
  BY <1>1 DEF Append, NewRow
<1>3. /\ NewRow(w) \in Row
      /\ NewRow(w).sequence = link[w].sequence + 1
      /\ link[w].sequence \in Nat
  BY <1>1 DEF Append, NewRow, Row, TypeInv, Computed, LocalsOK, Link
<1>4. \A j \in 1..link[w].sequence : \E r \in ledger : r.sequence = j
  <2>1. link[w].sequence = 0 \/ \E r \in ledger : link[w].sequence = r.sequence
    BY <1>1 DEF Append, ChainInv, HoldsLink, Genesis
  <2> QED BY <2>1 DEF NoRowMissing
<1>5. \A r \in ledger : r.sequence \in Nat \ {0}
  BY DEF TypeInv, TablesOK, Row
<1>6. ASSUME NEW r \in ledger PROVE r.sequence < NewRow(w).sequence
  <2>1. SUFFICES ASSUME r.sequence > NewRow(w).sequence PROVE FALSE
    BY <1>2, <1>3, <1>5
  <2>2. NewRow(w).sequence \in 1..r.sequence
    BY <1>3, <1>5, <2>1
  <2> QED BY <1>2, <2>2 DEF NoRowMissing
<1>7. ASSUME NEW j \in 1..NewRow(w).sequence, j # NewRow(w).sequence
      PROVE  \E r \in ledger : r.sequence = j
  <2>1. j \in 1..link[w].sequence
    BY <1>3, <1>7
  <2> QED BY <1>4, <2>1
<1> QED BY <1>2, <1>3, <1>6, <1>7

LEMMA RowsStep == TypeInv /\ ChainInv /\ NoRowMissing /\ [Next]_vars => NoRowMissing'
<1> SUFFICES ASSUME TypeInv, ChainInv, NoRowMissing, [Next]_vars, ledger' # ledger
             PROVE  NoRowMissing'
  BY DEF NoRowMissing
<1>1. PICK w \in Workers : WorkerStep(w) \/ Crash(w) \/ Call(w)
  BY QuietSteps DEF Next
<1>2. /\ ledger' = ledger \cup {NewRow(w)}
      /\ \A j \in 1..NewRow(w).sequence :
            j = NewRow(w).sequence \/ \E r \in ledger : r.sequence = j
  BY <1>1, AppendExtends
<1> QED BY <1>2 DEF NoRowMissing

\* The prefix an authorization is bound to never changes.
LEMMA CommittedStays ==
  ASSUME TypeInv, ChainInv, NoRowMissing, [Next]_vars,
         NEW g, g.head = NoEvidence \/ \E h \in ledger : h.event = g.head
  PROVE  Committed(g)' = Committed(g)
<1>1. CASE ledger' = ledger
  BY <1>1 DEF Committed
<1>2. CASE ledger' # ledger
  <2>1. PICK w \in Workers : WorkerStep(w) \/ Crash(w) \/ Call(w)
    BY <1>2, QuietSteps DEF Next
  <2>2. /\ ledger' = ledger \cup {NewRow(w)} /\ NewRow(w) \in Row
        /\ \A r \in ledger : r.event # NewRow(w).event
        /\ \A r \in ledger : r.sequence < NewRow(w).sequence
    BY <1>2, <2>1, AppendExtends
  <2>3. /\ NewRow(w).sequence \in Nat /\ NewRow(w).event \in Evidence
        /\ \A r \in ledger : r.sequence \in Nat
    BY <2>2 DEF Row, TypeInv, TablesOK
  <2>4. g.head # NewRow(w).event
    BY <2>2, <2>3, NoEvidenceIsNone
  <2>5. \A h \in ledger : ~(NewRow(w).sequence <= h.sequence)
    BY <2>2, <2>3
  <2> QED BY <2>2, <2>4, <2>5 DEF Committed
<1> QED BY <1>1, <1>2

\* What is reproducible stays so while no reset is registered, for all time.
LEMMA ReplayKept ==
  ASSUME TypeInv, ChainInv, NoRowMissing, [Next]_vars, NEW g, Reproducible(g),
         resets' = resets
  PROVE  Reproducible(g)'
<1>1. Committed(g)' = Committed(g)
  BY CommittedStays DEF Reproducible
<1>2. /\ ReplayedTally(g)' = ReplayedTally(g)
      /\ ReplayedSince(g)' = ReplayedSince(g)
  BY <1>1 DEF ReplayedTally, ReplayedSince
<1>3. ledger \subseteq ledger'
  BY QuietSteps, TableSteps DEF Next, Growth
<1> QED BY <1>1, <1>2, <1>3 DEF Reproducible

\* Whatever is recorded, saved or appended after an authorization was minted,
\* it replays until it expires as long as no reset is registered: its counters
\* are recomputed from a committed prefix of the ledger that no later event can
\* enter, and only the clock of the replay can refuse it.
THEOREM LaterEventsAlwaysKeepReplay == Spec => LaterEventsKeepReplay
<1> DEFINE Rows == TypeInv /\ ChainInv /\ NoRowMissing
           Kept == \A g \in grants :
                      Replays(g) /\ resets' = resets /\ Verifies(g)' => Replays(g)'
<1>1. Init => Rows
  BY InitTypes DEF Init, ChainInv, LedgerIsChain, HoldsLink, NoRowMissing
<1>2. Rows /\ [Next]_vars => Rows'
  BY TypeInvStep, ChainStep, RowsStep
<1>3. Rows /\ [Next]_vars => Kept
  <2>1. SUFFICES ASSUME Rows, [Next]_vars, NEW g \in grants, Reproducible(g),
                        resets' = resets
                 PROVE  Reproducible(g)'
    BY DEF Replays
  <2> QED BY <2>1, ReplayKept
<1> HIDE DEF Rows, Kept
<1>4. Spec => [][Kept]_vars
  BY <1>1, <1>2, <1>3, PTL DEF Spec
<1> QED BY <1>4 DEF LaterEventsKeepReplay, Kept

-------------------------------------------------------------------------------
(* History.  The tables refine the append-only history of AuthorityHistory: *)
(* what a worker inserts extends the last row or epoch of the moment of the *)
(* insertion, although it read the end long before.                        *)

\* The head that a snapshot read is a row of the ledger for good.
Anchored(w) ==
    pc[w] \in {"save", "grant"} =>
        link[w].event = NoEvidence \/ \E r \in ledger : r.event = link[w].event

HeadInv == \A w \in Workers : Anchored(w)

LEMMA HeadStep == TypeInv /\ HeadInv /\ [Next]_vars => HeadInv'
<1> SUFFICES ASSUME TypeInv, HeadInv, [Next]_vars PROVE HeadInv'
  OBVIOUS
<1>1. CASE Tick \/ UNCHANGED vars
  BY <1>1, QuietSteps DEF HeadInv, Anchored, locals
<1>2. ASSUME NEW w \in Workers, WorkerStep(w) \/ Crash(w) \/ Call(w)
      PROVE  HeadInv'
  <2>1. LocalStep(w) /\ ledger \subseteq ledger'
    BY <1>2, TableSteps, LocalSteps DEF Growth
  <2>2. Anchored(w)'
    <3>1. CASE ReadLedgerHead(w)
      <4>1. \/ link'[w] = Genesis
            \/ \E r \in ledger : link'[w] = [sequence |-> r.sequence, event |-> r.event]
        BY <3>1 DEF ReadLedgerHead, LedgerHeads, TypeInv, LocalsOK
      <4>2. link'[w].event = NoEvidence \/ \E r \in ledger : r.event = link'[w].event
        <5>1. CASE link'[w] = Genesis
          BY <5>1 DEF Genesis
        <5>2. ASSUME NEW r \in ledger,
                     link'[w] = [sequence |-> r.sequence, event |-> r.event]
              PROVE  r.event = link'[w].event
          BY <5>2
        <5> QED BY <4>1, <5>1, <5>2
      <4> QED BY <2>1, <4>2 DEF Anchored
    <3>2. CASE ~ReadLedgerHead(w) /\ pc'[w] \in {"save", "grant"}
      <4>1. pc[w] = "save" /\ link'[w] = link[w]
        BY <1>2, <3>2, ReturnLocals
        DEF WorkerStep, Call, RecordEvent, ReadHead, Append, Clock, Boundary,
            ReadEvents, ReadPrevious, Save, SetState, Mint, CheckEpoch, CheckIncidents,
            Register, Crash, BeginRecord, BeginSnapshot, BeginReset, InTime, Proceed, Goto,
            reading, TypeInv, LocalsOK
      <4> QED BY <2>1, <4>1 DEF HeadInv, Anchored
    <3> QED BY <3>1, <3>2 DEF Anchored
  <2>3. \A v \in Workers \ {w} : Anchored(v)'
    BY <2>1 DEF LocalStep, Others, HeadInv, Anchored
  <2> QED BY <2>2, <2>3 DEF HeadInv
<1> QED BY <1>1, <1>2 DEF Next

Heads == {g.head : g \in grants}

LEMMA AppendRecords ==
  ASSUME TypeInv, ChainInv, NoRowMissing, NEW w \in Workers, Append(w),
         ledger' # ledger
  PROVE  History!Record(item[w], at[w])
<1>1. /\ ledger' = ledger \cup {NewRow(w)} /\ NewRow(w) \in Row
      /\ \A r \in ledger : r.event # NewRow(w).event
      /\ \A r \in ledger : r.sequence < NewRow(w).sequence
  BY AppendExtends DEF WorkerStep
<1>2. /\ NewRow(w) = [sequence |-> link[w].sequence + 1, event |-> item[w],
                      prev |-> link[w].event, at |-> at[w]]
      /\ UNCHANGED <<resets, Heads>>
  BY DEF Append, NewRow, Heads, world
<1>3. link[w].sequence \in Nat /\ \A r \in ledger : r.sequence \in Nat \ {0}
  BY NumberFacts DEF TypeInv, LocalsOK, Link
<1>4. CASE link[w] = Genesis
  <2>1. link[w].sequence = 0 /\ link[w].event = NoEvidence
    BY <1>4 DEF Genesis
  <2>2. ledger = {}
    BY <1>1, <1>2, <1>3, <2>1
  <2>3. NewRow(w) = [sequence |-> 1, event |-> item[w], prev |-> NoEvidence, at |-> at[w]]
    BY <1>2, <2>1
  <2> QED BY <1>1, <1>2, <2>2, <2>3 DEF History!Record, History!Add, Heads
<1>5. CASE \E last \in ledger : link[w].sequence = last.sequence /\ link[w].event = last.event
  <2>1. PICK last \in ledger : link[w].sequence = last.sequence /\ link[w].event = last.event
    BY <1>5
  <2>2. \A r \in ledger : r.sequence <= last.sequence
    BY <1>1, <1>2, <1>3, <2>1
  <2>3. NewRow(w) = [sequence |-> last.sequence + 1, event |-> item[w],
                     prev |-> last.event, at |-> at[w]]
    BY <1>2, <2>1
  <2>4. \A r \in ledger : r.event # item[w]
    BY <1>1, <1>2
  <2> QED BY <1>1, <1>2, <2>1, <2>2, <2>3, <2>4 DEF History!Record, History!Add, Heads
<1> QED BY <1>4, <1>5 DEF Append, ChainInv, HoldsLink

LEMMA RegisterOpens ==
  ASSUME TypeInv, EpochInv, NEW w \in Workers, Register(w), resets' # resets
  PROVE  History!OpenEpoch(doc[w].at) /\ doc[w].at \in Times
<1>1. /\ resets' = resets \cup {doc[w]} /\ doc[w] \in Reset
      /\ \/ doc[w].epoch = 1 /\ resets = {}
         \/ \E s \in resets : s.epoch + 1 = doc[w].epoch /\ s.at < doc[w].at
      /\ \A r \in resets : r.epoch < doc[w].epoch /\ r.at < doc[w].at
  BY RegisterNext
<1>2. UNCHANGED <<ledger, Heads>>
  BY DEF Register, Heads, world
<1>3. /\ doc[w] = [epoch |-> doc[w].epoch, at |-> doc[w].at]
      /\ doc[w].epoch \in Nat /\ doc[w].at \in Times
  BY <1>1 DEF Reset
<1>4. CASE doc[w].epoch = 1 /\ resets = {}
  BY <1>1, <1>2, <1>3, <1>4 DEF History!OpenEpoch, Heads
<1>5. CASE \E s \in resets : s.epoch + 1 = doc[w].epoch
  <2>1. PICK last \in resets : last.epoch + 1 = doc[w].epoch
    BY <1>5
  <2>2. \A r \in resets : r.epoch <= last.epoch
    BY <1>1, <1>3, <2>1, NumberFacts
  <2> QED BY <1>1, <1>2, <1>3, <2>1, <2>2 DEF History!OpenEpoch, Heads
<1> QED BY <1>1, <1>3, <1>4, <1>5

LEMMA MintBinds ==
  ASSUME TypeInv, HeadInv, NEW w \in Workers, Mint(w), grants' # grants,
         NEW head, head = link[w].event
  PROVE  History!Bind(head) /\ head \in Evidence \cup {NoEvidence}
<1>1. /\ pc[w] = "grant" /\ UNCHANGED <<ledger, resets>>
      /\ grants' = grants \cup
            {[at |-> at[w], since |-> since[w], tally |-> tally[w],
              verdict |-> verdict[w], head |-> head, until |-> now + Lifetime]}
  BY DEF Mint, tables
<1>2. Heads' = Heads \cup {head}
  BY <1>1 DEF Heads
<1>3. head = NoEvidence \/ \E r \in ledger : r.event = head
  BY <1>1 DEF HeadInv, Anchored
<1>4. head \in Evidence \cup {NoEvidence}
  BY DEF TypeInv, LocalsOK, Link
<1> QED BY <1>1, <1>2, <1>3, <1>4 DEF History!Bind, Heads

LEMMA HistoryStep ==
  TypeInv /\ ChainInv /\ NoRowMissing /\ EpochInv /\ HeadInv /\ [Next]_vars
    => [History!Next]_(History!vars)
<1> SUFFICES ASSUME TypeInv, ChainInv, NoRowMissing, EpochInv, HeadInv, [Next]_vars
             PROVE  [History!Next]_(History!vars)
  OBVIOUS
<1>1. CASE Tick \/ UNCHANGED vars
  BY <1>1, QuietSteps DEF History!vars
<1>2. ASSUME NEW w \in Workers, WorkerStep(w) \/ Crash(w) \/ Call(w)
      PROVE  [History!Next]_(History!vars)
  <2>1. CASE Append(w) /\ ledger' # ledger
    <3>1. item[w] \in Evidence /\ at[w] \in Times
      BY <2>1 DEF Append, TypeInv, Computed, LocalsOK
    <3> QED BY <2>1, <3>1, AppendRecords DEF History!Next
  <2>2. CASE Register(w) /\ resets' # resets
    BY <2>2, RegisterOpens DEF History!Next
  <2>3. CASE Mint(w) /\ grants' # grants
    <3>1. PICK head : head = link[w].event
      OBVIOUS
    <3>2. History!Bind(head) /\ head \in Evidence \cup {NoEvidence}
      BY <2>3, <3>1, MintBinds
    <3> QED BY <3>2 DEF History!Next
  <2>4. \/ Append(w) /\ ledger' # ledger
        \/ Register(w) /\ resets' # resets
        \/ Mint(w) /\ grants' # grants
        \/ UNCHANGED <<ledger, resets, grants>>
    BY <1>2
    DEF WorkerStep, Call, RecordEvent, ReadHead, Append, Clock, Boundary, ReadEvents,
        ReadPrevious, ReadLedgerHead, Save, SetState, Mint, CheckEpoch, CheckIncidents,
        Register, Crash, BeginRecord, BeginSnapshot, BeginReset, InTime, tables, world
  <2> QED BY <2>1, <2>2, <2>3, <2>4 DEF History!vars
<1> QED BY <1>1, <1>2 DEF Next

\* For any number of processes and crashes the tables are append-only: rows
\* and epochs are added one by one behind the last of them, never changed and
\* never removed, and what an authorization is bound to stays on record.
THEOREM TablesImplementHistory == Spec => ImplementsHistory
<1> DEFINE Inv == TypeInv /\ ChainInv /\ NoRowMissing /\ EpochInv /\ HeadInv
<1>1. Init => Inv /\ History!Init
  BY InitTypes, InitEpochs
  DEF Init, ChainInv, LedgerIsChain, HoldsLink, NoRowMissing, HeadInv, Anchored,
      History!Init
<1>2. Inv /\ [Next]_vars => Inv'
  BY TypeInvStep, ChainStep, RowsStep, EpochStep, HeadStep
<1>3. Inv /\ [Next]_vars => [History!Next]_(History!vars)
  BY HistoryStep
<1> HIDE DEF Inv
<1> QED BY <1>1, <1>2, <1>3, PTL DEF Spec, ImplementsHistory, History!Spec

-------------------------------------------------------------------------------
(* One process.  When one process serves the agent, never dies between two  *)
(* storage calls and no reset is dated ahead of the clock, an authorization *)
(* always replays.  Two facts are needed of every moment: the ledger holds  *)
(* every event but the one being recorded, and no reset can still be dated  *)
(* back before an authorization, for the incidents that such a reset covers *)
(* suspend nothing.                                                         *)

Solo ==
    /\ \A v, w \in Workers : v = w
    /\ MaxCrashes = 0 /\ Skew = 0

UpTo(t) ==
    /\ \A g \in grants : g.at <= t
    /\ \A r \in resets : r.at <= t
    /\ \A e \in Recorded : events[e] <= t

Tabled ==
    /\ UpTo(now)
    /\ \A r \in ledger : r.event \in Recorded /\ r.at = events[r.event]

\* The times at which the history of an authorization may start.
Starts(g) == {Ago(g.at)} \cup {r.at : r \in {s \in resets : s.at <= g.at}}

StartsLast(g) == g.since \in Starts(g) /\ \A u \in Starts(g) : u <= g.since

\* The incidents since a time.
Incidents(t) == {e \in Critical : events[e] >= t}

\* While no incident is as late as the authorization, nothing suspends.
Outlived(g) ==
    (\A e \in Critical : events[e] < g.at) =>
        /\ Cardinality(Incidents(g.since)) < SuspensionCritical
        /\ resets = {} => saved # "SUSPENDED"

Answered == \A g \in grants : Reproducible(g) /\ StartsLast(g) /\ Outlived(g)

Ledgered == \A e \in Recorded : \E r \in ledger : r.event = e

Recording(w) ==
    /\ pc[w] = "event" => at[w] \in 1..now /\ \A g \in grants : g.at <= at[w]
    /\ pc[w] \notin {"append", "insert"} => Ledgered
    /\ pc[w] \in {"append", "insert"} =>
          /\ item[w] \in Recorded
          /\ \A e \in Recorded :
                \/ \E r \in ledger : r.event = e
                \/ e = item[w] /\ events[e] = at[w]
    /\ pc[w] = "insert" =>
          \A r \in ledger : r.event # item[w] /\ r.sequence <= link[w].sequence

Started(w) ==
    \/ resets = {} /\ base[w] = 0 /\ since[w] = Ago(at[w])
    \/ \E r \in LatestResets : base[w] = r.epoch /\ since[w] = Later(Ago(at[w]), r.at)

\* What a snapshot has computed is still what the tables say.
Snapped(w) ==
    /\ pc[w] \in Based \cup {"boundary", "grant"} => at[w] <= now /\ UpTo(at[w])
    /\ pc[w] \in Based \cup {"grant"} => Started(w)
    /\ pc[w] \in (Based \cup {"grant"}) \ {"events"} =>
          tally[w] = TallyOf({e \in Recorded : events[e] >= since[w]})
    /\ pc[w] \in {"head", "save", "incidents", "register"} /\ verdict[w] = "SUSPENDED" =>
          \/ saved = "SUSPENDED" /\ base[w] = 0
          \/ tally[w].critical >= SuspensionCritical

HeadRead(w) ==
    \/ ledger = {} /\ link[w] = Genesis
    \/ \E r \in LedgerHeads : link[w] = [sequence |-> r.sequence, event |-> r.event]

Decided(w) ==
    /\ pc[w] \in {"save", "grant"} => HeadRead(w)
    /\ pc[w] = "grant" => op[w] = "assert" /\ saved = verdict[w] /\ verdict[w] # "SUSPENDED"
    /\ pc[w] \in {"incidents", "register"} => verdict[w] = "SUSPENDED"
    /\ pc[w] = "register" => \A e \in Critical : events[e] < doc[w].at
    /\ op[w] \in {"reset", "refresh"} => doc[w].at <= now
    /\ op[w] = "refresh" => resets # {}

Own(w) == Recording(w) /\ (op[w] # "refresh" => Snapped(w)) /\ Decided(w)

SoloInv == Tabled /\ Answered /\ \A w \in Workers : Own(w)

\* Nothing of what a replay reads changes, and the clock does not go back.
Still == UNCHANGED <<events, ledger, saved, resets, grants>> /\ now <= now'

\* Tables that stay keep every answer.
LEMMA StillAnswered ==
  ASSUME TypeInv, TypeInv', Tabled, Answered, Still
  PROVE  Tabled' /\ Answered'
<1>1. Recorded' = Recorded /\ Critical' = Critical
  BY DEF Still, Recorded, Critical, OfKind
<1>2. Tabled'
  <2>1. now \in Nat /\ now' \in Nat
    BY NumberFacts, BoundsType DEF TypeInv, TablesOK
  <2>2. ASSUME NEW t \in Nat, t <= now PROVE t <= now'
    BY <2>1, <2>2 DEF Still
  <2>3. UpTo(now)'
    BY <1>1, <2>2, NumberFacts DEF Tabled, UpTo, Still, Recorded
  <2> QED BY <1>1, <2>3 DEF Tabled, Still
<1>3. ASSUME NEW g \in grants PROVE Reproducible(g)' /\ StartsLast(g)' /\ Outlived(g)'
  <2>1. Committed(g)' = Committed(g) /\ Starts(g)' = Starts(g)
    BY DEF Still, Committed, Starts
  <2>2. ReplayedTally(g)' = ReplayedTally(g) /\ ReplayedSince(g)' = ReplayedSince(g)
    BY <2>1 DEF Still, ReplayedTally, ReplayedSince
  <2>3. Reproducible(g)'
    BY <2>2 DEF Answered, Reproducible, Still
  <2>4. Incidents(g.since)' = Incidents(g.since)
    BY <1>1 DEF Incidents, Still
  <2> QED BY <1>1, <2>1, <2>3, <2>4 DEF Answered, StartsLast, Outlived, Still
<1> QED BY <1>2, <1>3 DEF Answered, Still

\* A call that ends leaves nothing half done.
LEMMA IdleOwn ==
  ASSUME NEW w \in Workers, pc'[w] = "idle", op'[w] = "none", Ledgered'
  PROVE  Own(w)'
  BY DEF Own, Recording, Snapped, Decided, Based

LEMMA StillLedgered ==
  ASSUME Still, Ledgered
  PROVE  Ledgered'
  BY DEF Still, Ledgered, Recorded

\* The actions that only read, and what they need of the other halves.
BeginsOrReads(w) ==
    \/ Call(w) \/ ReadHead(w) \/ Clock(w) \/ Boundary(w) \/ ReadEvents(w)
    \/ ReadPrevious(w) \/ ReadLedgerHead(w) \/ CheckEpoch(w) \/ CheckIncidents(w)

LEMMA ReadsAreStill ==
  ASSUME TypeInv, NEW w \in Workers, BeginsOrReads(w)
  PROVE  Still
<1>1. UNCHANGED <<tables, now, grants>>
  BY DEF BeginsOrReads, Call, BeginRecord, BeginSnapshot, BeginReset, InTime, ReadHead,
         Clock, Boundary, ReadEvents, ReadPrevious, ReadLedgerHead, CheckEpoch,
         CheckIncidents, world
<1> QED BY <1>1, NumberFacts DEF Still, tables

LEMMA CallOwn ==
  ASSUME Solo, TypeInv, SoloInv, NEW w \in Workers, Call(w)
  PROVE  Own(w)'
<1> LocalsOK /\ Own(w)
  BY DEF TypeInv, SoloInv
<1>1. Still
  BY ReadsAreStill DEF BeginsOrReads
<1>2. pc[w] = "idle" /\ now' = now
  BY DEF Call, BeginRecord, BeginSnapshot, BeginReset, InTime, world
<1>3. Ledgered'
  BY <1>1, <1>2, StillLedgered DEF Own, Recording
<1>4. CASE \E e \in Evidence : BeginRecord(w, e)
  <2>1. pc'[w] = "event" /\ op'[w] = "record" /\ at'[w] = now
    BY <1>4 DEF BeginRecord, Goto, LocalsOK
  <2>2. \A g \in grants' : g.at <= at'[w]
    BY <1>1, <2>1 DEF SoloInv, Tabled, UpTo, Still
  <2>3. at'[w] \in 1..now'
    BY <1>2, <2>1, NumberFacts
  <2>4. Recording(w)'
    BY <1>3, <2>1, <2>2, <2>3 DEF Recording
  <2> QED BY <2>1, <2>4 DEF Own, Snapped, Decided, Based
<1>5. CASE \E method \in {"snapshot", "assert"} : BeginSnapshot(w, method)
  <2>1. pc'[w] = "clock" /\ op'[w] \in {"snapshot", "assert"}
    BY <1>5 DEF BeginSnapshot, Goto, LocalsOK
  <2> QED BY <1>3, <2>1 DEF Own, Recording, Snapped, Decided, Based
<1>6. CASE \E epoch \in 1..MaxEpoch, issued \in 1..(MaxTime + Skew) :
              BeginReset(w, epoch, issued)
  <2>1. PICK epoch \in 1..MaxEpoch, issued \in 1..(MaxTime + Skew) :
              BeginReset(w, epoch, issued)
    BY <1>6
  <2>2. pc'[w] = "epoch" /\ op'[w] = "reset" /\ doc'[w].at = issued
    BY <2>1 DEF BeginReset, InTime, Goto, LocalsOK
  <2>3. issued <= now
    BY <2>1, NumberFacts, BoundsType DEF BeginReset, InTime, Solo
  <2> QED BY <1>2, <1>3, <2>2, <2>3 DEF Own, Recording, Snapped, Decided, Based
<1> QED BY <1>4, <1>5, <1>6 DEF Call

LEMMA ReadHeadOwn ==
  ASSUME TypeInv, SoloInv, NEW w \in Workers, ReadHead(w)
  PROVE  Own(w)'
<1> LocalsOK /\ Own(w)
  BY DEF TypeInv, SoloInv
<1>1. UNCHANGED <<events, ledger, now, resets>> /\ pc[w] = "append"
  BY DEF ReadHead, tables, world
<1>2. /\ item[w] \in Recorded
      /\ \A e \in Recorded :
            \/ \E r \in ledger : r.event = e
            \/ e = item[w] /\ events[e] = at[w]
  BY <1>1 DEF Own, Recording
<1>3. CASE Return(w) /\ \E r \in ledger : r.event = item[w]
  <2>1. Ledgered'
    BY <1>1, <1>2, <1>3 DEF Ledgered, Recorded
  <2> QED BY <1>3, <2>1, ReturnLocals, IdleOwn
<1>4. CASE ~(Return(w) /\ \E r \in ledger : r.event = item[w])
  <2>1. /\ pc'[w] = "insert" /\ UNCHANGED <<op, item, at, doc>>
        /\ \A r \in ledger : r.event # item[w]
        /\ \/ ledger = {} /\ link' = [link EXCEPT ![w] = Genesis]
           \/ \E r \in LedgerHeads :
                 link' = [link EXCEPT ![w] = [sequence |-> r.sequence, event |-> r.event]]
    BY <1>4 DEF ReadHead, Goto, LocalsOK
  <2>2. \A r \in ledger : r.sequence <= link'[w].sequence
    BY <2>1 DEF LedgerHeads, LocalsOK
  <2>3. Recording(w)'
    BY <1>1, <1>2, <2>1, <2>2 DEF Recording, Recorded
  <2>4. Decided(w)'
    BY <1>1, <2>1 DEF Own, Decided
  <2> QED BY <2>1, <2>3, <2>4 DEF Own, Snapped, Based
<1> QED BY <1>3, <1>4

\* The steps of a snapshot up to the verdict.
LEMMA SnapshotOwn ==
  ASSUME TypeInv, SoloInv, NEW w \in Workers,
         \/ Clock(w) \/ Boundary(w) \/ ReadEvents(w) \/ ReadPrevious(w)
         \/ ReadLedgerHead(w)
  PROVE  Own(w)'
<1> LocalsOK /\ Own(w)
  BY DEF TypeInv, SoloInv
<1>1. UNCHANGED <<events, ledger, resets, saved, grants, now, op, doc>>
  BY DEF Clock, Boundary, ReadEvents, ReadPrevious, ReadLedgerHead, tables, world
<1>2. Recorded' = Recorded /\ LatestResets' = LatestResets
  BY <1>1 DEF Recorded, LatestResets
<1>3. /\ pc[w] \in {"clock", "boundary", "events", "previous", "head"}
      /\ pc'[w] \in {"boundary", "events", "previous", "head", "save"}
  BY DEF Clock, Boundary, ReadEvents, ReadPrevious, ReadLedgerHead, Goto, LocalsOK
<1>4. Recording(w)'
  BY <1>1, <1>3 DEF Own, Recording, Ledgered, Recorded
<1>5. Decided(w)'
  <2>1. pc'[w] = "save" => HeadRead(w)'
    <3>1. SUFFICES ASSUME pc'[w] = "save" PROVE HeadRead(w)'
      OBVIOUS
    <3>2. ReadLedgerHead(w)
      BY <3>1 DEF Clock, Boundary, ReadEvents, ReadPrevious, Goto, LocalsOK
    <3>3. \/ ledger = {} /\ link'[w] = Genesis
          \/ \E r \in LedgerHeads : link'[w] = [sequence |-> r.sequence, event |-> r.event]
      BY <3>2 DEF ReadLedgerHead, LocalsOK
    <3> QED BY <1>1, <3>3 DEF HeadRead, LedgerHeads
  <2> QED BY <1>1, <1>3, <2>1 DEF Own, Decided
<1>6. ASSUME op[w] # "refresh" PROVE Snapped(w)'
  <2> Snapped(w)
    BY <1>6 DEF Own
  <2>1. CASE Clock(w)
    <3>1. pc'[w] = "boundary" /\ at'[w] = now
      BY <2>1 DEF Clock, Goto, LocalsOK
    <3>2. UpTo(at[w])' /\ at'[w] <= now'
      BY <1>1, <1>2, <3>1, NumberFacts DEF SoloInv, Tabled, UpTo
    <3> QED BY <3>1, <3>2 DEF Snapped, Based
  <2>2. CASE Boundary(w)
    <3>1. pc[w] = "boundary" /\ pc'[w] = "events" /\ at' = at
      BY <2>2 DEF Boundary, Goto, LocalsOK
    <3>2. at'[w] <= now' /\ UpTo(at[w])'
      BY <1>1, <1>2, <3>1 DEF UpTo, Snapped
    <3>3. Started(w)'
      BY <1>1, <1>2, <2>2, <3>1 DEF Boundary, Started, LocalsOK
    <3> QED BY <3>1, <3>2, <3>3 DEF Snapped, Based
  <2>3. CASE ReadEvents(w)
    <3>1. /\ pc[w] = "events" /\ pc'[w] = "previous" /\ UNCHANGED <<at, base, since>>
          /\ tally'[w] = TallyOf({e \in Recorded : events[e] >= since[w]})
      BY <2>3 DEF ReadEvents, Goto, LocalsOK
    <3>2. at'[w] <= now' /\ UpTo(at[w])'
      BY <1>1, <1>2, <3>1 DEF UpTo, Snapped, Based
    <3>3. Started(w)'
      BY <1>1, <1>2, <3>1 DEF Snapped, Started, Based
    <3>4. tally'[w] = TallyOf({e \in Recorded : events[e] >= since[w]})'
      BY <1>1, <1>2, <3>1 DEF TallyOf, OfKind
    <3> QED BY <3>1, <3>2, <3>3, <3>4 DEF Snapped, Based
  <2>4. CASE ReadPrevious(w) \/ ReadLedgerHead(w)
    <3>1. /\ pc[w] \in {"previous", "head"} /\ pc'[w] \in {"head", "save"}
          /\ UNCHANGED <<at, base, since, tally>>
      BY <2>4 DEF ReadPrevious, ReadLedgerHead, Goto, LocalsOK
    <3>2. at'[w] <= now' /\ UpTo(at[w])'
      BY <1>1, <1>2, <3>1 DEF UpTo, Snapped, Based
    <3>3. Started(w)'
      BY <1>1, <1>2, <3>1 DEF Snapped, Started, Based
    <3>4. tally'[w] = TallyOf({e \in Recorded : events[e] >= since[w]})'
      BY <1>1, <1>2, <3>1 DEF Snapped, Based, TallyOf, OfKind
    <3>5. verdict'[w] = "SUSPENDED" =>
             \/ saved' = "SUSPENDED" /\ base'[w] = 0
             \/ tally'[w].critical >= SuspensionCritical
      <4>1. CASE ReadPrevious(w)
        <5>1. verdict'[w] = Verdict(tally[w], saved, base[w])
          BY <4>1 DEF ReadPrevious, LocalsOK
        <5>2. tally[w] \in Tally /\ base[w] \in Nat
          BY DEF LocalsOK
        <5>3. Verdict(tally[w], saved, base[w]) = "SUSPENDED" =>
                 \/ saved = "SUSPENDED" /\ base[w] = 0
                 \/ tally[w].critical >= SuspensionCritical
          BY <5>2, VerdictFacts
        <5> QED BY <1>1, <3>1, <5>1, <5>3
      <4>2. CASE ReadLedgerHead(w)
        <5>1. pc[w] = "head" /\ verdict' = verdict
          BY <4>2 DEF ReadLedgerHead
        <5> QED BY <1>1, <3>1, <5>1 DEF Snapped
      <4> QED BY <2>4, <4>1, <4>2
    <3> QED BY <3>1, <3>2, <3>3, <3>4, <3>5 DEF Snapped, Based
  <2> QED BY <2>1, <2>2, <2>3, <2>4
<1> QED BY <1>1, <1>4, <1>5, <1>6 DEF Own

\* The checks of a reset before it is registered.
LEMMA CheckOwn ==
  ASSUME TypeInv, SoloInv, NEW w \in Workers, CheckEpoch(w) \/ CheckIncidents(w)
  PROVE  Own(w)'
<1> LocalsOK /\ Own(w)
  BY DEF TypeInv, SoloInv
<1>1. /\ pc[w] \in {"epoch", "incidents"}
      /\ UNCHANGED <<events, ledger, resets, saved, grants, now>>
  BY DEF CheckEpoch, CheckIncidents, tables, world
<1>2. Ledgered'
  BY <1>1 DEF Own, Recording, Ledgered, Recorded
<1>3. CASE Return(w)
  BY <1>2, <1>3, ReturnLocals, IdleOwn
<1>4. CASE CheckEpoch(w) /\ Proceed(w, "clock")
  <2>1. pc'[w] = "clock" /\ UNCHANGED <<op, doc>>
    BY <1>4 DEF Proceed, Goto, LocalsOK
  <2>2. Decided(w)'
    BY <1>1, <2>1 DEF Own, Decided
  <2> QED BY <1>2, <2>1, <2>2 DEF Own, Recording, Snapped, Based
<1>5. CASE /\ pc[w] = "incidents" /\ Proceed(w, "register")
           /\ \A e \in Critical : events[e] < doc[w].at
  <2>1. pc'[w] = "register" /\ UNCHANGED <<op, doc, at, base, since, tally, verdict>>
    BY <1>5 DEF Proceed, Goto, LocalsOK, reading
  <2>2. Critical' = Critical /\ Recorded' = Recorded /\ LatestResets' = LatestResets
    BY <1>1 DEF Critical, OfKind, Recorded, LatestResets
  <2>3. Decided(w)'
    BY <1>1, <1>5, <2>1, <2>2 DEF Own, Decided
  <2>4. ASSUME op[w] # "refresh" PROVE Snapped(w)'
    <3> Snapped(w)
      BY <2>4 DEF Own
    <3>1. at'[w] <= now' /\ UpTo(at[w])'
      BY <1>1, <1>5, <2>1, <2>2 DEF UpTo, Snapped, Based
    <3>2. Started(w)'
      BY <1>1, <1>5, <2>1, <2>2 DEF Started, Snapped, Based
    <3>3. tally'[w] = TallyOf({e \in Recorded : events[e] >= since[w]})'
      BY <1>1, <1>5, <2>1, <2>2 DEF Snapped, Based, TallyOf, OfKind
    <3> QED BY <1>1, <1>5, <2>1, <3>1, <3>2, <3>3 DEF Snapped, Based
  <2> QED BY <1>2, <2>1, <2>3, <2>4 DEF Own, Recording
<1> QED BY <1>3, <1>4, <1>5 DEF CheckEpoch, CheckIncidents, Critical

LEMMA ReadsOwn ==
  ASSUME Solo, TypeInv, SoloInv, NEW w \in Workers, BeginsOrReads(w)
  PROVE  Own(w)'
  BY CallOwn, ReadHeadOwn, SnapshotOwn, CheckOwn DEF BeginsOrReads

-------------------------------------------------------------------------------
\* record_event stores an event with the time at which the call began: no
\* authorization is later, for no other call ran in between.
LEMMA RecordEventSolo ==
  ASSUME TypeInv, TypeInv', SoloInv, NEW w \in Workers, RecordEvent(w)
  PROVE  Tabled' /\ Answered' /\ Own(w)'
<1> LocalsOK /\ Own(w) /\ Tabled /\ Answered /\ TablesOK
  BY DEF TypeInv, SoloInv
<1> item[w] \in Evidence
  BY DEF RecordEvent, TypeInv, Computed
<1>1. /\ pc[w] = "event" /\ pc'[w] = "append"
      /\ UNCHANGED <<ledger, saved, resets, grants, now, op, item, at, doc>>
      /\ events' = IF events[item[w]] = 0
                   THEN [events EXCEPT ![item[w]] = at[w]]
                   ELSE events
  BY DEF RecordEvent, Goto, LocalsOK, world
<1>2. /\ at[w] \in 1..now /\ \A g \in grants : g.at <= at[w]
      /\ \A e \in Recorded : \E r \in ledger : r.event = e
  BY <1>1 DEF Own, Recording, Ledgered
<1>3. /\ \A e \in Evidence : e # item[w] => events'[e] = events[e]
      /\ events'[item[w]] = IF events[item[w]] = 0 THEN at[w] ELSE events[item[w]]
  BY <1>1 DEF TablesOK
<1>4. /\ \A e \in Recorded : e \in Recorded' /\ events'[e] = events[e]
      /\ item[w] \in Recorded'
      /\ \A e \in Recorded' : e \in Recorded \/ (e = item[w] /\ events'[e] = at[w])
  BY <1>2, <1>3 DEF Recorded
<1>5. Tabled'
  <2>1. \A e \in Recorded' : events'[e] <= now
    BY <1>2, <1>4 DEF Tabled, UpTo
  <2> QED BY <1>1, <1>4, <2>1 DEF Tabled, UpTo
<1>6. Own(w)'
  <2>1. Recording(w)'
    BY <1>1, <1>2, <1>4 DEF Recording
  <2>2. Decided(w)'
    BY <1>1 DEF Own, Decided
  <2> QED BY <1>1, <2>1, <2>2 DEF Own, Snapped, Based
<1>7. ASSUME NEW g \in grants PROVE Reproducible(g)' /\ StartsLast(g)' /\ Outlived(g)'
  <2>1. Reproducible(g)
    BY DEF Answered
  <2>2. Committed(g)' = Committed(g) /\ Starts(g)' = Starts(g) /\ ReplayedSince(g)' = ReplayedSince(g)
    BY <1>1 DEF Committed, Starts, ReplayedSince
  <2>3. ReplayedTally(g)' = ReplayedTally(g)
    BY <2>2 DEF ReplayedTally
  <2>4. Reproducible(g)'
    BY <1>1, <2>1, <2>2, <2>3 DEF Reproducible
  <2>5. Outlived(g)'
    <3>1. SUFFICES ASSUME \A e \in Critical' : events'[e] < g.at
                   PROVE  /\ Cardinality(Incidents(g.since)') < SuspensionCritical
                          /\ resets' = {} => saved' # "SUSPENDED"
      BY DEF Outlived
    <3>2. Critical' = Critical
      <4>1. Critical \subseteq Critical'
        BY <1>4 DEF Critical, OfKind
      <4>2. ASSUME NEW e \in Critical', e \notin Critical PROVE FALSE
        <5>1. e = item[w] /\ events'[e] = at[w]
          BY <1>4, <4>2 DEF Critical, OfKind
        <5>2. at[w] < g.at /\ g.at <= at[w]
          BY <1>2, <3>1, <4>2, <5>1
        <5> QED BY <1>2, <5>2, NumberFacts
      <4> QED BY <4>1, <4>2
    <3>3. \A e \in Critical : events'[e] = events[e]
      BY <1>4 DEF Critical, OfKind
    <3>4. Incidents(g.since)' = Incidents(g.since)
      BY <3>2, <3>3 DEF Incidents
    <3>5. \A e \in Critical : events[e] < g.at
      BY <3>1, <3>2, <3>3
    <3> QED BY <1>1, <3>4, <3>5 DEF Answered, Outlived
  <2> QED BY <2>2, <2>4, <2>5 DEF Answered, StartsLast
<1> QED BY <1>1, <1>5, <1>6, <1>7 DEF Answered

\* With the head still the last row, the event in hand always gets its row.
LEMMA AppendSolo ==
  ASSUME TypeInv, TypeInv', ChainInv, NoRowMissing, SoloInv, [Next]_vars,
         NEW w \in Workers, Append(w)
  PROVE  Tabled' /\ Answered' /\ Own(w)'
<1> LocalsOK /\ Own(w) /\ Tabled /\ Answered /\ TablesOK
  BY DEF TypeInv, SoloInv
<1>1. /\ pc[w] = "insert" /\ Return(w)
      /\ UNCHANGED <<events, saved, resets, grants, now>>
  BY DEF Append, world
<1>2. /\ item[w] \in Recorded
      /\ \A e \in Recorded :
            \/ \E r \in ledger : r.event = e
            \/ e = item[w] /\ events[e] = at[w]
      /\ \A r \in ledger : r.event # item[w] /\ r.sequence <= link[w].sequence
  BY <1>1 DEF Own, Recording
<1>3. NewRow(w).sequence = link[w].sequence + 1 /\ NewRow(w).event = item[w] /\ NewRow(w).at = at[w]
  BY DEF NewRow
<1>4. link[w].sequence \in Nat
  BY DEF LocalsOK, Link
<1>5. \A r \in ledger : r.sequence # NewRow(w).sequence
  BY <1>2, <1>3, <1>4, NumberFacts
<1>6. ledger' = ledger \cup {NewRow(w)}
  BY <1>2, <1>5 DEF Append
<1>7. Recorded' = Recorded /\ Critical' = Critical
  BY <1>1 DEF Recorded, Critical, OfKind
<1>8. events[item[w]] = at[w]
  BY <1>2
<1>9. Tabled'
  BY <1>1, <1>2, <1>3, <1>6, <1>7, <1>8 DEF Tabled, UpTo
<1>10. Own(w)'
  <2>1. Ledgered'
    BY <1>2, <1>3, <1>6, <1>7 DEF Ledgered
  <2> QED BY <1>1, <2>1, ReturnLocals, IdleOwn
<1>11. ASSUME NEW g \in grants PROVE Reproducible(g)' /\ StartsLast(g)' /\ Outlived(g)'
  <2>1. Reproducible(g)'
    BY <1>1, ReplayKept DEF Answered
  <2>2. Starts(g)' = Starts(g) /\ Incidents(g.since)' = Incidents(g.since)
    BY <1>1, <1>7 DEF Starts, Incidents
  <2> QED BY <1>1, <1>7, <2>1, <2>2 DEF Answered, StartsLast, Outlived
<1> QED BY <1>1, <1>9, <1>10, <1>11 DEF Answered

-------------------------------------------------------------------------------
\* The history of the snapshot in hand starts no earlier than that of any
\* authorization, so it holds no incident that the other does not.
LEMMA StartedLater ==
  ASSUME TypeInv, EpochInv, NEW w \in Workers, Started(w), UpTo(at[w]),
         NEW g \in grants, StartsLast(g)
  PROVE  g.since <= since[w]
<1>1. g.at <= at[w] /\ at[w] \in Nat /\ g.at \in Nat
  BY NumberFacts DEF UpTo
<1>2. Ago(g.at) <= Ago(at[w]) /\ Ago(at[w]) \in Nat /\ Ago(g.at) \in Nat
  BY <1>1, BoundsType DEF Ago
<1>3. /\ Ago(at[w]) <= since[w]
      /\ \A r \in resets : r.at <= since[w]
  <2>1. CASE resets = {} /\ since[w] = Ago(at[w])
    BY <1>2, <2>1
  <2>2. CASE \E r \in LatestResets : since[w] = Later(Ago(at[w]), r.at)
    <3>1. PICK r \in LatestResets : since[w] = Later(Ago(at[w]), r.at)
      BY <2>2
    <3>2. r \in resets /\ \A s \in resets : s.epoch <= r.epoch
      BY DEF LatestResets
    <3>3. Ago(at[w]) <= since[w] /\ r.at <= since[w]
      BY <1>2, <3>1, <3>2, NumberFacts DEF Later
    <3>4. ASSUME NEW s \in resets PROVE s.at <= since[w]
      <4>1. s.at <= r.at
        BY <3>2, NumberFacts DEF EpochInv, EpochsAdvance
      <4> QED BY <3>2, <3>3, <4>1, NumberFacts
    <3> QED BY <3>3, <3>4
  <2> QED BY <2>1, <2>2 DEF Started
<1>4. g.since = Ago(g.at) \/ \E r \in resets : g.since = r.at
  BY DEF StartsLast, Starts
<1> QED BY <1>2, <1>3, <1>4, NumberFacts

LEMMA IncidentsCounted ==
  ASSUME TypeInv, NEW t \in Nat
  PROVE  /\ TallyOf({e \in Recorded : events[e] >= t}).critical = Cardinality(Incidents(t))
         /\ IsFiniteSet(Incidents(t)) /\ Cardinality(Incidents(t)) \in Nat
<1> DEFINE E == {e \in Recorded : events[e] >= t}
<1>1. E \in SUBSET Evidence
  BY DEF Recorded
<1>2. OfKind(E, "critical") = Incidents(t)
  BY DEF Incidents, Critical, OfKind
<1> HIDE DEF E
<1>3. /\ TallyOf(E).critical = Cardinality(Incidents(t))
      /\ IsFiniteSet(Incidents(t))
  BY <1>1, <1>2, TallyFacts
<1> QED BY <1>3, FS_CardinalityType DEF E

LEMMA FewerIncidents ==
  ASSUME TypeInv, NEW s \in Nat, NEW t \in Nat, s <= t
  PROVE  Cardinality(Incidents(t)) <= Cardinality(Incidents(s))
<1>1. Incidents(t) \subseteq Incidents(s)
  BY NumberFacts DEF Incidents, Critical, OfKind, Recorded
<1> QED BY <1>1, IncidentsCounted, FS_Subset

\* A suspended verdict is impossible while every incident is older than some
\* authorization.
LEMMA NoSuspension ==
  ASSUME TypeInv, EpochInv, SoloInv, NEW w \in Workers,
         pc[w] \in {"save", "incidents", "register"}, op[w] # "refresh",
         verdict[w] = "SUSPENDED", NEW g \in grants,
         \A e \in Critical : events[e] < g.at
  PROVE  FALSE
<1>1. Snapped(w) /\ Outlived(g) /\ StartsLast(g)
  BY DEF SoloInv, Own, Answered
<1>2. /\ UpTo(at[w]) /\ Started(w)
      /\ tally[w] = TallyOf({e \in Recorded : events[e] >= since[w]})
      /\ \/ saved = "SUSPENDED" /\ base[w] = 0
         \/ tally[w].critical >= SuspensionCritical
  BY <1>1 DEF Snapped, Based
<1>3. /\ Cardinality(Incidents(g.since)) < SuspensionCritical
      /\ resets = {} => saved # "SUSPENDED"
  BY <1>1 DEF Outlived
<1>4. CASE saved = "SUSPENDED" /\ base[w] = 0
  <2>1. resets = {}
    BY <1>2, <1>4, NumberFacts DEF Started, LatestResets
  <2> QED BY <1>3, <1>4, <2>1
<1>5. CASE tally[w].critical >= SuspensionCritical
  <2>1. g.since <= since[w] /\ g.since \in Nat /\ since[w] \in Nat
    BY <1>1, <1>2, StartedLater, NumberFacts
  <2>2. /\ tally[w].critical = Cardinality(Incidents(since[w]))
        /\ Cardinality(Incidents(since[w])) \in Nat
        /\ Cardinality(Incidents(g.since)) \in Nat
    BY <1>2, <2>1, IncidentsCounted
  <2>3. Cardinality(Incidents(since[w])) <= Cardinality(Incidents(g.since))
    BY <2>1, FewerIncidents
  <2> QED BY <1>3, <1>5, <2>2, <2>3, ThresholdsType
<1> QED BY <1>2, <1>4, <1>5

LEMMA SaveSolo ==
  ASSUME TypeInv, TypeInv', EpochInv, SoloInv, NEW w \in Workers, Save(w)
  PROVE  Tabled' /\ Answered' /\ Own(w)'
<1> LocalsOK /\ Own(w) /\ Tabled /\ Answered
  BY DEF TypeInv, SoloInv
<1>1. /\ pc[w] = "save" /\ saved' = verdict[w]
      /\ UNCHANGED <<events, ledger, resets, grants, now>>
  BY DEF Save, SetState, world
<1>2. Recorded' = Recorded /\ Critical' = Critical /\ LatestResets' = LatestResets
  BY <1>1 DEF Recorded, Critical, OfKind, LatestResets
<1>3. Tabled'
  BY <1>1, <1>2 DEF Tabled, UpTo
<1>4. Ledgered'
  BY <1>1, <1>2 DEF Own, Recording, Ledgered
<1>5. ASSUME NEW g \in grants PROVE Reproducible(g)' /\ StartsLast(g)' /\ Outlived(g)'
  <2>1. Committed(g)' = Committed(g) /\ Starts(g)' = Starts(g)
    BY <1>1 DEF Committed, Starts
  <2>2. ReplayedTally(g)' = ReplayedTally(g) /\ ReplayedSince(g)' = ReplayedSince(g)
    BY <1>1, <2>1 DEF ReplayedTally, ReplayedSince
  <2>3. Reproducible(g)'
    BY <1>1, <2>2 DEF Answered, Reproducible
  <2>4. Incidents(g.since)' = Incidents(g.since)
    BY <1>1, <1>2 DEF Incidents
  <2>5. ASSUME \A e \in Critical : events[e] < g.at, resets = {}
        PROVE  verdict[w] # "SUSPENDED"
    <3>1. op[w] # "refresh"
      BY <2>5 DEF Own, Decided
    <3> QED BY <1>1, <2>5, <3>1, NoSuspension
  <2>6. Outlived(g)'
    BY <1>1, <1>2, <2>4, <2>5 DEF Answered, Outlived
  <2> QED BY <2>1, <2>3, <2>6 DEF Answered, StartsLast
<1>6. ASSUME Return(w) PROVE Own(w)'
  BY <1>4, <1>6, ReturnLocals, IdleOwn
<1>7. ASSUME ~Return(w) PROVE Own(w)'
  <2>1. /\ UNCHANGED <<op, doc, at, base, since, tally, verdict, link>>
        /\ \/ pc'[w] = "grant" /\ op[w] = "assert" /\ verdict[w] # "SUSPENDED"
           \/ pc'[w] = "incidents" /\ op[w] = "reset" /\ verdict[w] = "SUSPENDED"
    BY <1>7 DEF Save, Proceed, Goto, LocalsOK, reading
  <2>2. Decided(w)'
    <3>1. HeadRead(w)'
      BY <1>1, <2>1 DEF Own, Decided, HeadRead, LedgerHeads
    <3> QED BY <1>1, <2>1, <3>1 DEF Own, Decided
  <2>3. Snapped(w)'
    <3> Snapped(w)
      BY <2>1 DEF Own
    <3>1. at'[w] <= now' /\ UpTo(at[w])'
      BY <1>1, <1>2, <2>1 DEF UpTo, Snapped, Based
    <3>2. Started(w)'
      BY <1>1, <1>2, <2>1 DEF Started, Snapped, Based
    <3>3. tally'[w] = TallyOf({e \in Recorded : events[e] >= since[w]})'
      BY <1>1, <1>2, <2>1 DEF Snapped, Based, TallyOf, OfKind
    <3>4. verdict[w] = "SUSPENDED" =>
             \/ saved' = "SUSPENDED" /\ base'[w] = 0
             \/ tally'[w].critical >= SuspensionCritical
      BY <1>1, <2>1 DEF Snapped
    <3> QED BY <2>1, <3>1, <3>2, <3>3, <3>4 DEF Snapped, Based
  <2> QED BY <1>4, <2>1, <2>2, <2>3 DEF Own, Recording
<1> QED BY <1>1, <1>3, <1>5, <1>6, <1>7 DEF Answered

-------------------------------------------------------------------------------
\* A snapshot that is bound into an authorization.
Minted(w) ==
    [at |-> at[w], since |-> since[w], tally |-> tally[w],
     verdict |-> verdict[w], head |-> link[w].event, until |-> now + Lifetime]

\* The latest epoch is the latest reset, and all resets are past.
LEMMA MintedStarts ==
  ASSUME TypeInv, EpochInv, NEW w \in Workers, Started(w), UpTo(at[w])
  PROVE  StartsLast(Minted(w)) /\ Minted(w).since = ReplayedSince(Minted(w))
<1> DEFINE g == Minted(w)
<1>1. g.at = at[w] /\ g.since = since[w]
  BY DEF Minted
<1>2. Ago(at[w]) \in Nat /\ at[w] \in Nat /\ since[w] \in Nat
  BY NumberFacts, BoundsType DEF Ago
<1>3. Starts(g) = {Ago(at[w])} \cup {r.at : r \in resets}
  BY <1>1 DEF Starts, UpTo
<1>4. StartsLast(g)
  <2>1. CASE resets = {} /\ since[w] = Ago(at[w])
    BY <1>1, <1>2, <1>3, <2>1 DEF StartsLast
  <2>2. CASE \E r \in LatestResets : since[w] = Later(Ago(at[w]), r.at)
    <3>1. PICK r \in LatestResets : since[w] = Later(Ago(at[w]), r.at)
      BY <2>2
    <3>2. r \in resets /\ \A s \in resets : s.epoch <= r.epoch
      BY DEF LatestResets
    <3>3. \A s \in resets : s.at <= r.at
      BY <3>2, NumberFacts DEF EpochInv, EpochsAdvance
    <3>4. /\ since[w] = Ago(at[w]) \/ since[w] = r.at
          /\ Ago(at[w]) <= since[w] /\ r.at <= since[w]
      BY <1>2, <3>1, <3>2, NumberFacts DEF Later
    <3>5. \A u \in Starts(g) : u <= since[w]
      BY <1>2, <1>3, <3>2, <3>3, <3>4, NumberFacts
    <3> QED BY <1>1, <1>3, <3>2, <3>4, <3>5 DEF StartsLast
  <2> QED BY <2>1, <2>2 DEF Started
<1>5. g.since = ReplayedSince(g)
  <2> DEFINE last == CHOOSE t \in Starts(g) : \A u \in Starts(g) : u <= t
  <2>1. last \in Starts(g) /\ \A u \in Starts(g) : u <= last
    BY <1>4 DEF StartsLast
  <2>2. last \in Nat
    BY <1>2, <1>3, <2>1, NumberFacts
  <2>3. last <= g.since /\ g.since <= last
    BY <1>4, <2>1 DEF StartsLast
  <2>4. last = g.since
    BY <1>1, <1>2, <2>2, <2>3
  <2> QED BY <2>4 DEF ReplayedSince, Starts
<1> QED BY <1>4, <1>5

\* The rows that a replay counts are the events that the snapshot counted.
LEMMA MintedTally ==
  ASSUME TypeInv, Tabled, Ledgered, NEW w \in Workers, UpTo(at[w]), HeadRead(w),
         tally[w] = TallyOf({e \in Recorded : events[e] >= since[w]})
  PROVE  /\ Minted(w).tally = ReplayedTally(Minted(w))
         /\ Minted(w).head = NoEvidence \/ \E h \in ledger : h.event = Minted(w).head
<1> DEFINE g == Minted(w)
           E == {e \in Recorded : events[e] >= since[w]}
           R == {s \in Committed(g) : g.since <= s.at /\ s.at <= g.at}
<1>1. g.at = at[w] /\ g.since = since[w] /\ g.tally = tally[w] /\ g.head = link[w].event
  BY DEF Minted
<1>2. Committed(g) = ledger
  <2>1. CASE ledger = {}
    BY <2>1 DEF Committed
  <2>2. ASSUME NEW h \in LedgerHeads, link[w] = [sequence |-> h.sequence, event |-> h.event]
        PROVE  Committed(g) = ledger
    <3>1. h \in ledger /\ h.event = g.head /\ \A s \in ledger : s.sequence <= h.sequence
      BY <1>1, <2>2 DEF LedgerHeads
    <3> QED BY <3>1 DEF Committed
  <2> QED BY <2>1, <2>2 DEF HeadRead
<1>3. g.head = NoEvidence \/ \E h \in ledger : h.event = g.head
  <2>1. link[w] = Genesis => link[w].event = NoEvidence
    BY DEF Genesis
  <2>2. ASSUME NEW h \in LedgerHeads, link[w] = [sequence |-> h.sequence, event |-> h.event]
        PROVE  h \in ledger /\ link[w].event = h.event
    BY <2>2 DEF LedgerHeads
  <2>3. link[w].event = NoEvidence \/ \E h \in ledger : link[w].event = h.event
    BY <2>1, <2>2 DEF HeadRead
  <2> HIDE DEF g
  <2> QED BY <1>1, <2>3
<1>4. \A r \in ledger : r.event \in Recorded /\ r.at = events[r.event]
  BY DEF Tabled
<1>5. {r.event : r \in R} \subseteq E
  <2>1. ASSUME NEW r \in R PROVE r.event \in E
    <3>1. r \in ledger /\ since[w] <= r.at
      BY <1>1, <1>2
    <3> QED BY <1>4, <3>1, NumberFacts
  <2> QED BY <2>1
<1>6. E \subseteq {r.event : r \in R}
  <2>1. ASSUME NEW e \in E PROVE \E r \in R : r.event = e
    <3>1. PICK r \in ledger : r.event = e
      BY DEF Ledgered
    <3>2. r.at = events[e] /\ events[e] <= at[w] /\ events[e] >= since[w]
      BY <1>4, <3>1 DEF UpTo
    <3>3. r \in R
      BY <1>1, <1>2, <3>1, <3>2, NumberFacts
    <3> QED BY <3>1, <3>3
  <2> QED BY <2>1
<1>7. ReplayedTally(g) = TallyOf({r.event : r \in R})
  BY DEF ReplayedTally
<1> HIDE DEF E, R, g
<1>8. {r.event : r \in R} = E
  BY <1>5, <1>6
<1> QED BY <1>1, <1>3, <1>7, <1>8 DEF E, g

LEMMA MintSolo ==
  ASSUME TypeInv, TypeInv', EpochInv, HeedInv, SoloInv, NEW w \in Workers, Mint(w)
  PROVE  Tabled' /\ Answered' /\ Own(w)'
<1> LocalsOK /\ Own(w) /\ Tabled /\ Answered
  BY DEF TypeInv, SoloInv
<1> DEFINE m == Minted(w)
<1>1. /\ pc[w] = "grant" /\ Return(w)
      /\ UNCHANGED <<events, ledger, resets, saved, now>>
      /\ grants' = grants \/ grants' = grants \cup {m}
  BY DEF Mint, Minted, tables
<1>2. /\ op[w] = "assert" /\ saved = verdict[w] /\ verdict[w] # "SUSPENDED"
      /\ HeadRead(w) /\ Ledgered
  BY <1>1 DEF Own, Decided, Recording
<1>3. /\ at[w] <= now /\ UpTo(at[w]) /\ Started(w)
      /\ tally[w] = TallyOf({e \in Recorded : events[e] >= since[w]})
  BY <1>1, <1>2 DEF Own, Snapped, Based
<1>4. Own(w)'
  <2>1. Ledgered'
    BY <1>1, <1>2 DEF Ledgered, Recorded
  <2> QED BY <1>1, <2>1, ReturnLocals, IdleOwn
<1>5. Tabled'
  <2>1. m.at = at[w]
    BY DEF Minted
  <2> HIDE DEF m
  <2>2. \A g \in grants' : g.at <= now
    BY <1>1, <1>3, <2>1 DEF Tabled, UpTo
  <2> QED BY <1>1, <2>2 DEF Tabled, UpTo, Recorded
<1>6. Reproducible(m) /\ StartsLast(m) /\ Outlived(m)
  <2>1. StartsLast(m) /\ m.since = ReplayedSince(m)
    BY <1>3, MintedStarts
  <2>2. /\ m.tally = ReplayedTally(m)
        /\ m.head = NoEvidence \/ \E h \in ledger : h.event = m.head
    BY <1>2, <1>3, MintedTally
  <2>3. m.verdict = verdict[w] /\ m.since = since[w]
    BY DEF Minted
  <2>4. Cardinality(Incidents(since[w])) < SuspensionCritical
    <3>1. tally[w].critical < SuspensionCritical
      BY <1>1, <1>2 DEF HeedInv, Heeds
    <3> QED BY <1>3, <3>1, IncidentsCounted, NumberFacts
  <2> HIDE DEF m
  <2>5. Reproducible(m)
    BY <1>2, <2>1, <2>2, <2>3 DEF Reproducible
  <2>6. Outlived(m)
    BY <1>2, <2>3, <2>4 DEF Outlived
  <2> QED BY <2>1, <2>5, <2>6
<1> HIDE DEF m
<1>7. ASSUME NEW g, Reproducible(g), StartsLast(g), Outlived(g)
      PROVE  Reproducible(g)' /\ StartsLast(g)' /\ Outlived(g)'
  <2>1. Committed(g)' = Committed(g) /\ Starts(g)' = Starts(g)
    BY <1>1 DEF Committed, Starts
  <2>2. ReplayedTally(g)' = ReplayedTally(g) /\ ReplayedSince(g)' = ReplayedSince(g)
    BY <1>1, <2>1 DEF ReplayedTally, ReplayedSince
  <2>3. Critical' = Critical
    BY <1>1 DEF Critical, OfKind, Recorded
  <2>4. Incidents(g.since)' = Incidents(g.since)
    BY <1>1, <2>3 DEF Incidents
  <2>5. Reproducible(g)'
    BY <1>1, <1>7, <2>2 DEF Reproducible
  <2>6. StartsLast(g)'
    BY <1>7, <2>1 DEF StartsLast
  <2> QED BY <1>1, <1>7, <2>3, <2>4, <2>5, <2>6 DEF Outlived
<1>8. Answered'
  <2>1. ASSUME NEW g \in grants' PROVE Reproducible(g) /\ StartsLast(g) /\ Outlived(g)
    BY <1>1, <1>6 DEF Answered
  <2> QED BY <1>7, <2>1 DEF Answered
<1> QED BY <1>4, <1>5, <1>8

\* A reset is dated after every authorization, whose history it leaves alone.
LEMMA RegisterSolo ==
  ASSUME TypeInv, TypeInv', EpochInv, SoloInv, NEW w \in Workers, Register(w)
  PROVE  Tabled' /\ Answered' /\ Own(w)'
<1> LocalsOK /\ Own(w) /\ Tabled /\ Answered
  BY DEF TypeInv, SoloInv
<1>1. pc[w] = "register" /\ UNCHANGED <<events, ledger, saved, grants, now>>
  BY DEF Register, world
<1>2. op[w] = "reset"
  BY <1>1 DEF TypeInv, Computed
<1>3. Ledgered'
  BY <1>1 DEF Own, Recording, Ledgered, Recorded
<1>4. CASE resets' = resets
  <2>1. Still
    BY <1>1, <1>4, NumberFacts DEF Still
  <2>2. Return(w)
    BY <1>4 DEF Register
  <2> QED BY <1>3, <2>1, <2>2, StillAnswered, ReturnLocals, IdleOwn
<1>5. CASE resets' # resets
  <2>1. /\ resets' = resets \cup {doc[w]}
        /\ op'[w] = "refresh" /\ pc'[w] = "boundary" /\ UNCHANGED doc
    BY <1>5 DEF Register, Goto, LocalsOK
  <2>2. doc[w].at <= now
    BY <1>2 DEF Own, Decided
  <2>3. Own(w)'
    BY <1>1, <1>3, <2>1, <2>2 DEF Own, Recording, Decided
  <2>4. Tabled'
    BY <1>1, <2>1, <2>2 DEF Tabled, UpTo, Recorded
  <2>5. ASSUME NEW g \in grants PROVE doc[w].at > g.at
    <3>1. SUFFICES ASSUME doc[w].at <= g.at PROVE FALSE
      BY NumberFacts
    <3>2. \A e \in Critical : events[e] < doc[w].at /\ verdict[w] = "SUSPENDED"
      BY <1>1 DEF Own, Decided
    <3>3. \A e \in Critical : events[e] < g.at
      BY <3>1, <3>2, NumberFacts DEF Critical, OfKind, Recorded
    <3>4. verdict[w] = "SUSPENDED"
      BY <1>1 DEF Own, Decided
    <3> QED BY <1>1, <1>2, <3>3, <3>4, NoSuspension
  <2>6. ASSUME NEW g \in grants PROVE Reproducible(g)' /\ StartsLast(g)' /\ Outlived(g)'
    <3>1. {s \in resets' : s.at <= g.at} = {s \in resets : s.at <= g.at}
      BY <2>1, <2>5, NumberFacts
    <3>2. Starts(g)' = Starts(g) /\ ReplayedSince(g)' = ReplayedSince(g)
      BY <3>1 DEF Starts, ReplayedSince
    <3>3. Committed(g)' = Committed(g)
      BY <1>1 DEF Committed
    <3>4. ReplayedTally(g)' = ReplayedTally(g)
      BY <3>3 DEF ReplayedTally
    <3>5. Critical' = Critical
      BY <1>1 DEF Critical, OfKind, Recorded
    <3>6. Incidents(g.since)' = Incidents(g.since)
      BY <1>1, <3>5 DEF Incidents
    <3>7. Reproducible(g)'
      BY <1>1, <3>2, <3>4 DEF Answered, Reproducible
    <3>8. Outlived(g)'
      BY <1>1, <2>1, <3>5, <3>6 DEF Answered, Outlived
    <3> QED BY <3>2, <3>7, <3>8 DEF Answered, StartsLast
  <2> QED BY <1>1, <2>3, <2>4, <2>6 DEF Answered
<1> QED BY <1>4, <1>5

LEMMA SoloStep ==
  ASSUME Solo
  PROVE  /\ TypeInv /\ ChainInv /\ NoRowMissing /\ EpochInv /\ HeedInv /\ SoloInv
         /\ [Next]_vars
         => SoloInv'
<1> SUFFICES ASSUME TypeInv, ChainInv, NoRowMissing, EpochInv, HeedInv, SoloInv,
                    [Next]_vars
             PROVE  SoloInv'
  OBVIOUS
<1>1. TypeInv'
  BY TypeInvStep
<1>2. CASE Tick \/ UNCHANGED vars
  <2>1. UNCHANGED <<events, ledger, saved, resets, grants, crashes>> /\ UNCHANGED locals
    BY <1>2, QuietSteps
  <2>2. now <= now'
    BY <1>2, NumberFacts DEF Tick, vars
  <2>3. Tabled' /\ Answered'
    BY <1>1, <2>1, <2>2, StillAnswered DEF SoloInv, Still
  <2>4. ASSUME NEW w \in Workers PROVE Own(w)'
    <3>1. Own(w) /\ now \in Nat /\ now' \in Nat /\ at[w] \in Nat /\ doc[w].at \in Nat
      BY <1>1, NumberFacts, BoundsType DEF SoloInv, TypeInv, TablesOK
    <3>2. /\ pc' = pc /\ op' = op /\ item' = item /\ at' = at /\ doc' = doc
          /\ base' = base /\ since' = since /\ tally' = tally /\ verdict' = verdict
          /\ link' = link
      BY <2>1 DEF locals
    <3>3. Recording(w)'
      BY <2>1, <2>2, <3>1, <3>2 DEF Own, Recording, Ledgered, Recorded
    <3>4. Decided(w)'
      BY <2>1, <2>2, <3>1, <3>2
      DEF Own, Decided, HeadRead, LedgerHeads, Critical, OfKind, Recorded
    <3>5. Snapped(w) => Snapped(w)'
      <4>1. tally'[w] = tally[w] /\ TallyOf({e \in Recorded : events[e] >= since[w]})'
                                      = TallyOf({e \in Recorded : events[e] >= since[w]})
        BY <2>1, <3>2 DEF TallyOf, OfKind, Recorded
      <4>2. Started(w)' <=> Started(w)
        BY <2>1, <3>2 DEF Started, LatestResets
      <4>3. UpTo(at[w])' <=> UpTo(at[w])
        BY <2>1, <3>2 DEF UpTo, Recorded
      <4>4. at[w] <= now => at'[w] <= now'
        BY <2>2, <3>1, <3>2
      <4> QED BY <2>1, <3>2, <4>1, <4>2, <4>3, <4>4 DEF Snapped
    <3> QED BY <3>1, <3>2, <3>3, <3>4, <3>5 DEF Own
  <2> QED BY <2>3, <2>4 DEF SoloInv
<1>3. ASSUME NEW w \in Workers, WorkerStep(w) \/ Crash(w) \/ Call(w)
      PROVE  SoloInv'
  <2>1. ~Crash(w)
    BY BoundsType DEF Crash, Solo, TypeInv, TablesOK
  <2>2. CASE BeginsOrReads(w)
    <3>1. Still
      BY <2>2, ReadsAreStill
    <3>2. Tabled' /\ Answered'
      BY <1>1, <3>1, StillAnswered DEF SoloInv
    <3>3. Own(w)'
      BY <2>2, ReadsOwn
    <3> QED BY <3>2, <3>3 DEF SoloInv, Solo
  <2>3. CASE RecordEvent(w)
    BY <1>1, <2>3, RecordEventSolo DEF SoloInv, Solo
  <2>4. CASE Append(w)
    BY <1>1, <2>4, AppendSolo DEF SoloInv, Solo
  <2>5. CASE Save(w)
    BY <1>1, <2>5, SaveSolo DEF SoloInv, Solo
  <2>6. CASE Mint(w)
    BY <1>1, <2>6, MintSolo DEF SoloInv, Solo
  <2>7. CASE Register(w)
    BY <1>1, <2>7, RegisterSolo DEF SoloInv, Solo
  <2> QED BY <1>3, <2>1, <2>2, <2>3, <2>4, <2>5, <2>6, <2>7 DEF WorkerStep, BeginsOrReads
<1> QED BY <1>2, <1>3 DEF Next

LEMMA InitSolo == Init => SoloInv
<1> SUFFICES ASSUME Init PROVE SoloInv
  OBVIOUS
<1>1. Recorded = {}
  BY DEF Init, Recorded
<1>2. Tabled /\ Answered
  BY <1>1 DEF Init, Tabled, UpTo, Answered
<1>3. ASSUME NEW w \in Workers PROVE Own(w)
  BY <1>1 DEF Init, Own, Recording, Ledgered, Snapped, Decided, Based
<1> QED BY <1>2, <1>3 DEF SoloInv

SoloHistoryInv == TypeInv /\ ChainInv /\ NoRowMissing /\ EpochInv /\ HeedInv /\ SoloInv

LEMMA SoloInvariant ==
  ASSUME Solo
  PROVE  Spec => []SoloHistoryInv
<1>1. Init => SoloHistoryInv
  BY InitTypes, InitEpochs, InitSolo
  DEF Init, ChainInv, LedgerIsChain, HoldsLink, NoRowMissing, HeedInv, Heeds, SoloHistoryInv
<1>2. SoloHistoryInv /\ [Next]_vars => SoloHistoryInv'
  BY TypeInvStep, ChainStep, RowsStep, EpochStep, HeedStep, SoloStep DEF SoloHistoryInv
<1> QED BY <1>1, <1>2, PTL DEF Spec

\* For one process, without crashes and without resets dated ahead of the
\* clock, "the pre-execution authority snapshot MUST be reproducible" holds
\* of every authorization for good, also of the expired ones that a verifier
\* with the time of the execution would look at: later evidence cannot enter
\* its prefix, a reset cannot be dated back before it.
THEOREM SoloGrantsReproducible ==
  ASSUME Solo
  PROVE  Spec => [](\A g \in grants : Reproducible(g))
<1>1. SoloHistoryInv => \A g \in grants : Reproducible(g)
  BY DEF SoloHistoryInv, SoloInv, Answered
<1> QED BY <1>1, SoloInvariant, PTL

\* Under the same conditions the replay, which compares with the present
\* clock, accepts every authorization that has not expired and whose
\* multiplier is not above one; nothing else can make it refuse.
THEOREM SoloGrantsReplay ==
  ASSUME Solo
  PROVE  Spec => []GrantsReplay
<1>1. SoloHistoryInv => GrantsReplay
  BY DEF SoloHistoryInv, SoloInv, Answered, GrantsReplay, Replays
<1> QED BY <1>1, SoloInvariant, PTL
===============================================================================
