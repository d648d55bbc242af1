------------------------- MODULE ExecutionRouterProofs -------------------------
(***************************************************************************)
(* One-time execution, for every set of authorizations, nonces and workers *)
(* and any number of crashes.                                              *)
(***************************************************************************)
EXTENDS ExecutionRouter, TLAPS

\* Type correctness in two halves: what the workers hold, what is shared.
LocalsOK ==
    /\ pc \in [Workers -> Steps]
    /\ op \in [Workers -> {"none", "execute", "receipt", "confirm"}]
    /\ task \in [Workers -> Authorizations \cup {NoAuthorization}]
    /\ held \in [Workers -> Receipt \cup {NoReceipt}]
    /\ \A w \in Workers : pc[w] = "idle" => held[w] = NoReceipt
    /\ \A w \in Workers : pc[w] # "idle" => task[w] \in Authorizations

SharedOK ==
    /\ expired \subseteq Authorizations
    /\ nonces \in [Nonces -> Authorizations \cup {NoAuthorization}]
    /\ receipts \in [Authorizations -> Receipt \cup {NoReceipt}]
    /\ broadcasts \in [Nonces -> Nat]
    /\ network \in [Authorizations -> {"none", "pending", "succeeded", "reverted"}]
    /\ crashes \in 0..MaxCrashes

ShapeInv == LocalsOK /\ SharedOK

\* What a step does to the locals of its worker: it goes on or it returns.
Advance(w) ==
    \/ \E r \in Receipt \cup {NoReceipt}, s \in Steps \ {"idle"} : Hold(w, r, s)
    \/ Return(w)

-------------------------------------------------------------------------------
LEMMA Receipts ==
  /\ Submitted \in Receipt
  /\ FailedReceipt \in Receipt
  /\ \A r \in Receipt, s \in Statuses, c \in Confirmations :
        Answered(r, s, c) \in Receipt
  /\ NoReceipt \notin Receipt
  BY DEF Receipt, Statuses, Submitted, FailedReceipt, NoReceipt, Answered

LEMMA FailAdvances ==
  ASSUME NEW w \in Workers, Fail(w)
  PROVE  Advance(w)
  BY Receipts DEF Fail, Advance, Steps

\* Every step of a method is taken by a busy worker and moves only its locals.
LEMMA WorkerAdvances ==
  ASSUME ShapeInv, NEW w \in Workers, WorkerStep(w) \/ Crash(w)
  PROVE  pc[w] # "idle" /\ Advance(w)
<1> USE FailAdvances, Receipts
<1>1. CASE Lookup(w)     BY <1>1 DEF Lookup, Advance, Steps
<1>2. CASE Verify(w)     BY <1>2 DEF Verify, Advance, Steps
<1>3. CASE CheckState(w) BY <1>3 DEF CheckState, Advance, Steps
<1>4. CASE Consume(w)    BY <1>4 DEF Consume, Advance, Steps
<1>5. CASE Refuse(w)     BY <1>5 DEF Refuse
<1>6. CASE Broadcast(w)  BY <1>6 DEF Broadcast, Advance, Steps
<1>7. CASE Record(w)     BY <1>7 DEF Record, Advance
<1>8. CASE Monitor(w)
  <2>1. ASSUME held[w].status = "SUBMITTED"
        PROVE  held[w] \in Receipt
    BY <2>1 DEF ShapeInv, LocalsOK, NoReceipt
  <2> QED BY <1>8, <2>1 DEF Monitor, Answer, Advance, Steps, Statuses
<1>9. CASE Update(w)     BY <1>9 DEF Update, Advance
<1>10. CASE Crash(w)     BY <1>10 DEF Crash, Advance
<1> QED
  BY <1>1, <1>2, <1>3, <1>4, <1>5, <1>6, <1>7, <1>8, <1>9, <1>10 DEF WorkerStep

LEMMA AdvanceLocals ==
  ASSUME LocalsOK, NEW w \in Workers, pc[w] # "idle", Advance(w)
  PROVE  LocalsOK'
<1>1. CASE Return(w)
  BY <1>1 DEF Return, Goto, LocalsOK, Steps
<1>2. ASSUME NEW r \in Receipt \cup {NoReceipt}, NEW s \in Steps \ {"idle"},
             Hold(w, r, s)
      PROVE  LocalsOK'
  BY <1>2 DEF Hold, Goto, LocalsOK
<1> QED BY <1>1, <1>2 DEF Advance

\* What a step of a method may do to the tables and the network.
LEMMA WorkerShared ==
  ASSUME ShapeInv, NEW w \in Workers, WorkerStep(w) \/ Crash(w)
  PROVE  SharedOK'
<1>0. /\ pc[w] # "idle"
      /\ task[w] \in Authorizations
      /\ held[w] \in Receipt \cup {NoReceipt}
      /\ NonceOf[task[w]] \in Nonces
      /\ SharedOK
  BY WorkerAdvances, NonceOfType DEF ShapeInv, LocalsOK
<1>1. CASE \/ Lookup(w) \/ Verify(w) \/ CheckState(w) \/ Refuse(w) \/ Monitor(w)
  BY <1>0, <1>1 DEF Lookup, Verify, CheckState, Refuse, Monitor, SharedOK, storage, environment
<1>2. CASE Consume(w)
  BY <1>0, <1>2 DEF Consume, SharedOK, environment
<1>3. CASE Broadcast(w)
  BY <1>0, <1>3 DEF Broadcast, SharedOK, storage
<1>4. CASE Record(w)
  BY <1>0, <1>4 DEF Record, SharedOK, environment
<1>5. CASE Update(w)
  BY <1>0, <1>5 DEF Update, SharedOK, environment
<1>6. CASE Crash(w)
  BY <1>0, <1>6, MaxCrashesType DEF Crash, SharedOK, storage
<1> QED BY <1>1, <1>2, <1>3, <1>4, <1>5, <1>6 DEF WorkerStep

LEMMA CallShape ==
  ASSUME ShapeInv, NEW w \in Workers, NEW a \in Authorizations, Call(w, a)
  PROVE  ShapeInv'
<1>1. PICK m \in {"execute", "receipt", "confirm"},
           r \in Receipt \cup {NoReceipt}, s \in Steps \ {"idle"} :
         Begin(w, m, a, r, s)
  BY DEF Call, Execute, ExecuteWithReceipt, Confirm, ShapeInv, SharedOK, Steps
<1>2. LocalsOK'  BY <1>1 DEF Begin, Goto, ShapeInv, LocalsOK
<1>3. SharedOK'  BY <1>1 DEF Begin, ShapeInv, SharedOK, storage, environment
<1> QED BY <1>2, <1>3 DEF ShapeInv

LEMMA EnvironmentShape ==
  ASSUME ShapeInv, NEW a \in Authorizations, Environment(a)
  PROVE  ShapeInv'
  BY DEF ShapeInv, LocalsOK, SharedOK, Environment, Expire, Include, Reorg,
         storage, locals

LEMMA ShapeInit == Init => ShapeInv
  BY MaxCrashesType
  DEF Init, ShapeInv, LocalsOK, SharedOK, Steps

LEMMA ShapeNext == ShapeInv /\ [Next]_vars => ShapeInv'
<1> SUFFICES ASSUME ShapeInv, [Next]_vars PROVE ShapeInv'  OBVIOUS
<1>1. CASE UNCHANGED vars
  BY <1>1 DEF vars, ShapeInv, LocalsOK, SharedOK
<1>2. ASSUME NEW w \in Workers, WorkerStep(w) \/ Crash(w) PROVE ShapeInv'
  BY <1>2, WorkerAdvances, AdvanceLocals, WorkerShared DEF ShapeInv
<1> QED BY <1>1, <1>2, CallShape, EnvironmentShape DEF Next

\* Type correctness: the tables, the workers' locals and the network always
\* hold values of their type.
THEOREM TypeCorrect == Spec => []TypeOK
<1>1. ShapeInv => TypeOK  BY DEF ShapeInv, LocalsOK, SharedOK, TypeOK
<1> QED BY <1>1, ShapeInit, ShapeNext, PTL DEF Spec

-------------------------------------------------------------------------------
(* One-time execution.  OneBroadcastPerIntent is not inductive: a worker   *)
(* that is about to broadcast must be the only one for its nonce, and the  *)
(* nonce must be its own and unspent.                                      *)

OneTimeInv ==
    /\ \A n \in Nonces : broadcasts[n] \in {0, 1}
    /\ \A n \in Nonces : broadcasts[n] = 1 => nonces[n] # NoAuthorization
    /\ \A w \in Workers :
          pc[w] = "broadcast" => /\ nonces[NonceOf[task[w]]] = task[w]
                                /\ broadcasts[NonceOf[task[w]]] = 0
    /\ \A v, w \in Workers :
          /\ pc[v] = "broadcast" /\ pc[w] = "broadcast"
          /\ NonceOf[task[v]] = NonceOf[task[w]]
          => v = w
    /\ \A a \in Authorizations :
          network[a] # "none" => /\ nonces[NonceOf[a]] = a
                                /\ broadcasts[NonceOf[a]] = 1

\* A step of w leaves the other workers' locals alone, and only the insert
\* into execution_nonces lets a worker reach the broadcaster.
LEMMA WorkerFrame ==
  ASSUME ShapeInv, NEW w \in Workers, WorkerStep(w) \/ Crash(w)
  PROVE  /\ \A v \in Workers : v # w => /\ pc'[v] = pc[v]
                                       /\ task'[v] = task[v]
                                       /\ held'[v] = held[v]
         /\ pc'[w] = "broadcast" => Consume(w)
         /\ pc'[w] # "idle" => task'[w] = task[w]
<1>0. Advance(w) /\ LocalsOK  BY WorkerAdvances DEF ShapeInv
<1>1. /\ \A v \in Workers : v # w => /\ pc'[v] = pc[v]
                                     /\ task'[v] = task[v]
                                     /\ held'[v] = held[v]
      /\ pc'[w] # "idle" => task'[w] = task[w]
  BY <1>0 DEF Advance, Hold, Return, Goto, LocalsOK
<1>2. ASSUME NEW s \in Steps, s # "broadcast",
             Return(w) \/ Fail(w) \/ \E r : Hold(w, r, s)
      PROVE  pc'[w] # "broadcast"
  BY <1>0, <1>2 DEF Return, Fail, Hold, Goto, LocalsOK, Steps
<1>3. pc'[w] = "broadcast" => Consume(w)
  BY <1>2 DEF WorkerStep, Crash, Lookup, Verify, CheckState, Refuse, Broadcast,
              Record, Monitor, Answer, Update, Steps
<1> QED BY <1>1, <1>3

LEMMA OneTimeWorker ==
  ASSUME ShapeInv, OneTimeInv, NEW w \in Workers, WorkerStep(w) \/ Crash(w)
  PROVE  OneTimeInv'
<1>0. /\ pc[w] # "idle" /\ task[w] \in Authorizations
      /\ NonceOf[task[w]] \in Nonces
      /\ \A v \in Workers : pc[v] = "broadcast" =>
            task[v] \in Authorizations /\ NonceOf[task[v]] \in Nonces
  BY WorkerAdvances, NonceOfType DEF ShapeInv, LocalsOK
<1>1. CASE Consume(w)
  <2>1. ASSUME nonces[NonceOf[task[w]]] = NoAuthorization,
               nonces' = [nonces EXCEPT ![NonceOf[task[w]]] = task[w]]
        PROVE  OneTimeInv'
    BY <1>0, <1>1, <2>1, WorkerFrame, NoAuthorizationIsNone, NonceOfType
    DEF Consume, OneTimeInv, environment, ShapeInv, SharedOK
  <2>2. ASSUME Fail(w), UNCHANGED nonces
        PROVE  OneTimeInv'
    <3>1. pc'[w] # "broadcast"
      BY <2>2 DEF Fail, Hold, Return, Goto, ShapeInv, LocalsOK
    <3> QED BY <1>0, <1>1, <2>2, <3>1, WorkerFrame
            DEF Consume, OneTimeInv, environment
  <2> QED BY <1>1, <2>1, <2>2 DEF Consume
<1>2. CASE Broadcast(w)
  <2>1. pc'[w] # "broadcast"
    BY <1>2, WorkerFrame DEF Broadcast, Consume
  <2> DEFINE a == task[w]
             n == NonceOf[a]
  <2>2. broadcasts' = [broadcasts EXCEPT ![n] = 1]
    <3>1. broadcasts[n] = 0  BY <1>2 DEF Broadcast, OneTimeInv
    <3>2. broadcasts' = [broadcasts EXCEPT ![n] = broadcasts[n] + 1]
      BY <1>2 DEF Broadcast
    <3>3. broadcasts[n] + 1 = 1  BY <3>1
    <3> QED BY <3>2, <3>3
  <2>3. /\ nonces' = nonces
        /\ nonces[n] = a
        /\ pc[w] = "broadcast"
        /\ network' \in {network, [network EXCEPT ![a] = "pending"]}
    BY <1>0, <1>2 DEF Broadcast, OneTimeInv, storage
  <2>4. /\ \A m \in Nonces : broadcasts'[m] = IF m = n THEN 1 ELSE broadcasts[m]
        /\ \A b \in Authorizations : b # a => network'[b] = network[b]
    BY <1>0, <2>2, <2>3 DEF ShapeInv, SharedOK
  <2>5. ASSUME NEW v \in Workers, pc'[v] = "broadcast"
        PROVE  v # w /\ pc[v] = "broadcast" /\ task'[v] = task[v]
               /\ NonceOf[task[v]] # n
    BY <2>1, <2>3, <2>5, WorkerFrame DEF OneTimeInv
  <2>6. \A m \in Nonces : broadcasts'[m] \in {0, 1}
                         /\ (broadcasts'[m] = 1 => nonces'[m] # NoAuthorization)
    BY <1>0, <2>3, <2>4, NoAuthorizationIsNone DEF OneTimeInv
  <2>7. \A v \in Workers : pc'[v] = "broadcast" =>
           /\ nonces'[NonceOf[task'[v]]] = task'[v]
           /\ broadcasts'[NonceOf[task'[v]]] = 0
    BY <1>0, <2>3, <2>4, <2>5 DEF OneTimeInv
  <2>8. \A u, v \in Workers :
           /\ pc'[u] = "broadcast" /\ pc'[v] = "broadcast"
           /\ NonceOf[task'[u]] = NonceOf[task'[v]]
           => u = v
    BY <2>5 DEF OneTimeInv
  <2>9. \A b \in Authorizations :
           network'[b] # "none" => /\ nonces'[NonceOf[b]] = b
                                  /\ broadcasts'[NonceOf[b]] = 1
    BY <1>0, <2>3, <2>4, NonceOfType DEF OneTimeInv
  <2> HIDE DEF a, n
  <2> QED BY <2>6, <2>7, <2>8, <2>9 DEF OneTimeInv
<1>3. CASE ~Consume(w) /\ ~Broadcast(w)
  <2>1. UNCHANGED <<nonces, broadcasts, network>>
    BY <1>3 DEF WorkerStep, Crash, Lookup, Verify, CheckState, Refuse, Record,
                Monitor, Update, storage, environment
  <2> QED BY <1>0, <1>3, <2>1, WorkerFrame DEF OneTimeInv
<1> QED BY <1>1, <1>2, <1>3

LEMMA OneTimeNext == ShapeInv /\ OneTimeInv /\ [Next]_vars => OneTimeInv'
<1> SUFFICES ASSUME ShapeInv, OneTimeInv, [Next]_vars PROVE OneTimeInv'
  OBVIOUS
<1>1. CASE UNCHANGED vars
  BY <1>1 DEF vars, OneTimeInv
<1>2. ASSUME NEW w \in Workers, NEW a \in Authorizations, Call(w, a)
      PROVE  OneTimeInv'
  <2>1. /\ UNCHANGED <<nonces, broadcasts, network>>
        /\ pc'[w] # "broadcast"
        /\ \A v \in Workers : v # w => pc'[v] = pc[v] /\ task'[v] = task[v]
    BY <1>2 DEF Call, Execute, ExecuteWithReceipt, Confirm, Begin, Goto,
                storage, environment, ShapeInv, LocalsOK
  <2> QED BY <2>1 DEF OneTimeInv
<1>3. ASSUME NEW a \in Authorizations, Environment(a)
      PROVE  OneTimeInv'
  BY <1>3 DEF Environment, Expire, Include, Reorg, OneTimeInv, storage, locals,
              ShapeInv, SharedOK
<1> QED BY <1>1, <1>2, <1>3, OneTimeWorker DEF Next

LEMMA OneTimeInit == Init => OneTimeInv
  BY DEF Init, OneTimeInv

\* The side effect of an intent is invoked at most once, for any number of
\* racing workers, authorizations of one intent, retries and crashes.
THEOREM OneTimeExecutionHolds == Spec => []OneBroadcastPerIntent
<1>1. ShapeInv /\ OneTimeInv => OneBroadcastPerIntent
  BY DEF OneTimeInv, OneBroadcastPerIntent
<1> QED
  BY <1>1, ShapeInit, ShapeNext, OneTimeInit, OneTimeNext, PTL DEF Spec

-------------------------------------------------------------------------------
(* Receipts.  What the table says is true because what the workers are     *)
(* about to write is true, and stays true: the network never forgets a     *)
(* transaction, and without reorganisations keeps its final answer.        *)

Justified(r, a) ==
    /\ r.ref => network[a] # "none"
    /\ r.status \in {"SUBMITTED", "CONFIRMED"} => r.ref
    /\ ~AllowReorg /\ r.status = "CONFIRMED" => network[a] = "succeeded"
    /\ ~AllowReorg /\ r.status = "FAILED" /\ r.ref => network[a] = "reverted"

EvidenceInv ==
    /\ \A a \in Authorizations : Justified(receipts[a], a)
    /\ \A w \in Workers : pc[w] # "idle" => Justified(held[w], task[w])
    /\ \A w \in Workers : pc[w] = "update" => held[w].ref

\* The network never forgets, and without reorganisations never recants.
NetworkGrows ==
    \A a \in Authorizations :
        /\ network[a] # "none" => network'[a] # "none"
        /\ ~AllowReorg /\ network[a] \in {"succeeded", "reverted"} =>
              network'[a] = network[a]

LEMMA NetworkStep ==
  ASSUME ShapeInv, OneTimeInv, Next
  PROVE  NetworkGrows
<1>1. ASSUME NEW w \in Workers, Broadcast(w)
      PROVE  NetworkGrows
  <2>1. task[w] \in Authorizations /\ network[task[w]] = "none"
    BY <1>1 DEF Broadcast, OneTimeInv, ShapeInv, LocalsOK
  <2> QED BY <1>1, <2>1 DEF Broadcast, NetworkGrows, ShapeInv, SharedOK
<1>2. ASSUME NEW w \in Workers, WorkerStep(w) \/ Crash(w), ~Broadcast(w)
      PROVE  NetworkGrows
  BY <1>2 DEF NetworkGrows, WorkerStep, Crash, Lookup, Verify, CheckState,
              Consume, Refuse, Record, Monitor, Update, environment
<1>3. ASSUME NEW w \in Workers, NEW a \in Authorizations, Call(w, a)
      PROVE  NetworkGrows
  BY <1>3 DEF NetworkGrows, Call, Execute, ExecuteWithReceipt, Confirm, Begin,
              environment
<1>4. ASSUME NEW a \in Authorizations, Environment(a)
      PROVE  NetworkGrows
  BY <1>4 DEF NetworkGrows, Environment, Expire, Include, Reorg, ShapeInv, SharedOK
<1> QED BY <1>1, <1>2, <1>3, <1>4 DEF Next

LEMMA JustifiedStays ==
  ASSUME NetworkGrows, NEW a \in Authorizations, NEW r, Justified(r, a)
  PROVE  Justified(r, a)'
  BY DEF NetworkGrows, Justified

\* What a step of w leaves in the memory of w is justified.
LEMMA HeldWorker ==
  ASSUME ShapeInv, OneTimeInv, EvidenceInv, NEW w \in Workers,
         WorkerStep(w) \/ Crash(w), NetworkGrows
  PROVE  /\ pc'[w] # "idle" => Justified(held[w], task[w])'
         /\ pc'[w] = "update" => held'[w].ref
<1>0. /\ pc[w] # "idle" /\ task[w] \in Authorizations
      /\ w \in DOMAIN pc /\ w \in DOMAIN held /\ LocalsOK
      /\ pc'[w] # "idle" => task'[w] = task[w]
  BY WorkerAdvances, WorkerFrame DEF ShapeInv, LocalsOK
<1>1. Return(w) => pc'[w] = "idle"
  BY <1>0 DEF Return, Goto
<1>2. \A r, s : Hold(w, r, s) => /\ pc'[w] = s
                                /\ held'[w] = r
                                /\ task'[w] = task[w]
  BY <1>0 DEF Hold, Goto
<1>3. Fail(w) => /\ pc'[w] # "idle" => Justified(held[w], task[w])'
                 /\ pc'[w] # "update"
  <2>1. Fail(w) => Return(w) \/ Hold(w, FailedReceipt, "record")
    BY DEF Fail
  <2>2. ASSUME held'[w] = FailedReceipt PROVE Justified(held[w], task[w])'
    BY <2>2 DEF Justified, FailedReceipt
  <2> QED BY <1>1, <1>2, <2>1, <2>2
<1>4. CASE Broadcast(w) /\ Hold(w, Submitted, "record")
  <2>1. network'[task[w]] = "pending" \/ Fail(w)
    BY <1>0, <1>4 DEF Broadcast, ShapeInv, SharedOK
  <2>2. ASSUME network'[task[w]] = "pending" PROVE Justified(held[w], task[w])'
    <3>1. /\ held'[w].ref = TRUE /\ held'[w].status = "SUBMITTED"
          /\ task'[w] = task[w]
      BY <1>2, <1>4 DEF Submitted
    <3> QED BY <2>2, <3>1 DEF Justified
  <2> QED BY <1>3, <1>2, <1>4, <2>1, <2>2
<1>5. CASE Monitor(w)
  <2>1. ASSUME held[w].status = "SUBMITTED", NEW s \in {"CONFIRMED", "FAILED"},
               network[task[w]] = (IF s = "CONFIRMED" THEN "succeeded" ELSE "reverted"),
               Answer(w, s)
        PROVE  Justified(held[w], task[w])' /\ held'[w].ref
    <3>1. network' = network /\ held[w].ref
      BY <1>0, <1>5, <2>1 DEF Monitor, environment, EvidenceInv, Justified
    <3>2. /\ held'[w].status = s /\ held'[w].ref = held[w].ref
          /\ task'[w] = task[w]
      BY <1>2, <2>1 DEF Answer, Answered
    <3> QED BY <1>0, <2>1, <3>1, <3>2 DEF Justified
  <2> QED BY <1>1, <1>5, <2>1 DEF Monitor
<1>6. CASE ~Monitor(w) /\ ~(Broadcast(w) /\ Hold(w, Submitted, "record"))
  <2>1. Return(w) \/ Fail(w) \/ \E s \in {"verify", "state", "consume", "broadcast"} : Hold(w, NoReceipt, s)
    BY <1>6 DEF WorkerStep, Crash, Lookup, Verify, CheckState, Consume, Refuse,
                Broadcast, Record, Update
  <2>2. ASSUME held'[w] = NoReceipt PROVE Justified(held[w], task[w])'
    BY <2>2 DEF Justified, NoReceipt
  <2> QED BY <1>3, <1>1, <1>2, <2>1, <2>2
<1> QED BY <1>4, <1>5, <1>6

\* What a worker writes into the table is what it holds.
LEMMA WrittenReceipts ==
  ASSUME ShapeInv, NEW w \in Workers, WorkerStep(w) \/ Crash(w)
  PROVE  \A a \in Authorizations :
           \/ receipts'[a] = receipts[a]
           \/ /\ pc[w] # "idle" /\ a = task[w] /\ receipts'[a] = held[w]
              /\ receipts[a] = NoReceipt \/ pc[w] = "update"
<1>1. CASE Record(w) \/ Update(w)
  BY <1>1 DEF Record, Update, ShapeInv, SharedOK
<1>2. CASE ~Record(w) /\ ~Update(w)
  BY <1>2 DEF WorkerStep, Crash, Lookup, Verify, CheckState, Consume, Refuse,
              Broadcast, Monitor, storage
<1> QED BY <1>1, <1>2

LEMMA EvidenceNext ==
  ShapeInv /\ OneTimeInv /\ EvidenceInv /\ [Next]_vars => EvidenceInv'
<1> SUFFICES ASSUME ShapeInv, OneTimeInv, EvidenceInv, [Next]_vars
             PROVE  EvidenceInv'
  OBVIOUS
<1>1. CASE UNCHANGED vars
  BY <1>1 DEF vars, EvidenceInv, Justified
<1>2. ASSUME NEW w \in Workers, WorkerStep(w) \/ Crash(w)
      PROVE  EvidenceInv'
  <2>0. Next /\ NetworkGrows
    BY <1>2, NetworkStep DEF Next
  <2>1. ASSUME NEW a \in Authorizations
        PROVE  Justified(receipts[a], a)'
    <3>1. PICK r : r = receipts'[a] /\ Justified(r, a)
      BY <1>2, <2>1, WrittenReceipts DEF EvidenceInv
    <3>2. Justified(r, a)'  BY <2>0, <3>1, JustifiedStays
    <3> QED BY <3>1, <3>2 DEF Justified
  <2>2. ASSUME NEW v \in Workers
        PROVE  /\ pc'[v] # "idle" => Justified(held[v], task[v])'
               /\ pc'[v] = "update" => held'[v].ref
    <3>1. CASE v = w  BY <1>2, <2>0, <3>1, HeldWorker
    <3>2. CASE v # w
      <4>1. pc'[v] = pc[v] /\ task'[v] = task[v] /\ held'[v] = held[v]
        BY <1>2, <3>2, WorkerFrame
      <4>2. ASSUME pc[v] # "idle"
            PROVE  Justified(held[v], task[v])'
        <5> DEFINE a == task[v]
                   r == held[v]
        <5>1. a \in Authorizations  BY <4>2 DEF ShapeInv, LocalsOK
        <5>2. Justified(r, a)  BY <4>2 DEF EvidenceInv
        <5>3. /\ r.ref => network'[a] # "none"
              /\ r.status \in {"SUBMITTED", "CONFIRMED"} => r.ref
              /\ ~AllowReorg /\ r.status = "CONFIRMED" => network'[a] = "succeeded"
              /\ ~AllowReorg /\ r.status = "FAILED" /\ r.ref => network'[a] = "reverted"
          BY <2>0, <5>1, <5>2 DEF NetworkGrows, Justified
        <5> QED BY <4>1, <5>3 DEF Justified
      <4> QED BY <4>1, <4>2 DEF EvidenceInv
    <3> QED BY <3>1, <3>2
  <2> QED BY <2>1, <2>2 DEF EvidenceInv
<1>3. ASSUME NEW w \in Workers, NEW a \in Authorizations, Call(w, a)
      PROVE  EvidenceInv'
  <2>1. /\ UNCHANGED <<receipts, network>>
        /\ \A v \in Workers : v # w => /\ pc'[v] = pc[v]
                                      /\ task'[v] = task[v]
                                      /\ held'[v] = held[v]
        /\ pc'[w] # "update" /\ task'[w] = a
        /\ held'[w] \in {NoReceipt, receipts[a]}
    BY <1>3 DEF Call, Execute, ExecuteWithReceipt, Confirm, Begin, Goto,
                storage, environment, ShapeInv, LocalsOK
  <2>2. Justified(held'[w], a)
    BY <2>1 DEF EvidenceInv, Justified, NoReceipt
  <2> QED BY <2>1, <2>2 DEF EvidenceInv, Justified
<1>4. ASSUME NEW a \in Authorizations, Environment(a)
      PROVE  EvidenceInv'
  <2>1. UNCHANGED <<receipts, pc, task, held>>
    BY <1>4 DEF Environment, Expire, Include, Reorg, storage, locals
  <2>2. NetworkGrows  BY <1>4, NetworkStep DEF Next
  <2>3. \A v \in Workers : pc[v] # "idle" => task[v] \in Authorizations
    BY DEF ShapeInv, LocalsOK
  <2> QED BY <2>1, <2>2, <2>3 DEF EvidenceInv, Justified, NetworkGrows
<1> QED BY <1>1, <1>2, <1>3, <1>4 DEF Next

LEMMA EvidenceInit == Init => EvidenceInv
  BY DEF Init, EvidenceInv, Justified, NoReceipt

RouterInv == ShapeInv /\ OneTimeInv /\ EvidenceInv

\* The inductive invariant of the router.
LEMMA RouterInvariant == Spec => []RouterInv
<1>1. Init => RouterInv
  BY ShapeInit, OneTimeInit, EvidenceInit DEF RouterInv
<1>2. RouterInv /\ [Next]_vars => RouterInv'
  BY ShapeNext, OneTimeNext, EvidenceNext DEF RouterInv
<1> QED BY <1>1, <1>2, PTL DEF Spec

\* On a network that keeps its final answers, no stored receipt claims more
\* than happened: a reference means a transaction of the nonce's holder.
THEOREM ReceiptsAreTruthful ==
  ASSUME ~AllowReorg
  PROVE  Spec => []ReceiptsTruthful
<1>1. RouterInv => ReceiptsTruthful
  BY DEF RouterInv, OneTimeInv, EvidenceInv, Justified, ReceiptsTruthful
<1> QED BY <1>1, RouterInvariant, PTL

-------------------------------------------------------------------------------
(* Refinement of OneTimeExecution.                                         *)

Evidence == {a \in Authorizations : receipts[a].ref}

LEMMA RefinementInit == Init => OneTime!Init
<1> SUFFICES ASSUME Init PROVE OneTime!Init  OBVIOUS
<1>1. {a \in Authorizations : receipts[a].ref} = {}
  BY DEF Init, NoReceipt
<1> QED BY <1>1 DEF Init, OneTime!Init

LEMMA RefinementWorker ==
  ASSUME RouterInv, NEW w \in Workers, WorkerStep(w) \/ Crash(w)
  PROVE  [OneTime!Next]_(OneTime!vars)
<1>0. /\ pc[w] # "idle" /\ task[w] \in Authorizations
      /\ NonceOf[task[w]] \in Nonces
  BY WorkerAdvances, NonceOfType DEF RouterInv, ShapeInv, LocalsOK
<1> DEFINE a == task[w]
           n == NonceOf[a]
<1>1. CASE Consume(w)
  <2>1. Evidence' = Evidence  BY <1>1 DEF Consume, Evidence
  <2>2. nonces' # nonces => OneTime!Grant(a)
    BY <1>1, <2>1 DEF Consume, OneTime!Grant, environment, Evidence
  <2>3. nonces' = nonces => UNCHANGED OneTime!vars
    BY <1>1, <2>1 DEF Consume, OneTime!vars, environment, Evidence
  <2> QED BY <1>0, <2>2, <2>3 DEF OneTime!Next
<1>2. CASE Broadcast(w)
  <2>1. Evidence' = Evidence /\ nonces' = nonces
    BY <1>2 DEF Broadcast, Evidence, storage
  <2>2. nonces[n] = a /\ broadcasts[n] = 0
    BY <1>2 DEF Broadcast, RouterInv, OneTimeInv
  <2>3. broadcasts' = [broadcasts EXCEPT ![n] = 1]
    <3>1. broadcasts' = [broadcasts EXCEPT ![n] = broadcasts[n] + 1]
      BY <1>2 DEF Broadcast
    <3>2. broadcasts[n] + 1 = 1  BY <2>2
    <3> QED BY <3>1, <3>2
  <2>4. OneTime!Invoke(n)
    BY <1>0, <2>1, <2>2, <2>3, NoAuthorizationIsNone DEF OneTime!Invoke, Evidence
  <2> QED BY <1>0, <2>4 DEF OneTime!Next
<1>3. CASE Record(w) \/ Update(w)
  <2>1. nonces' = nonces /\ broadcasts' = broadcasts
    BY <1>3 DEF Record, Update, environment
  <2>2. PICK r : r = held[w] /\ Justified(r, a) /\ (pc[w] = "update" => r.ref)
    BY <1>0 DEF RouterInv, EvidenceInv
  <2>3. /\ \A b \in Authorizations : b # a => receipts'[b] = receipts[b]
        /\ receipts'[a] \in {receipts[a], r}
        /\ receipts'[a] # receipts[a] /\ pc[w] # "update" => receipts[a] = NoReceipt
    BY <1>0, <1>3, <2>2, WrittenReceipts DEF RouterInv, WorkerStep
  <2>4. Evidence' = Evidence \/ (r.ref /\ Evidence' = Evidence \cup {a})
    BY <1>0, <2>2, <2>3 DEF Evidence, NoReceipt
  <2>5. r.ref => nonces[n] = a /\ broadcasts[n] = 1
    BY <1>0, <2>2 DEF RouterInv, OneTimeInv, Justified
  <2>6. CASE Evidence' = Evidence
    BY <2>1, <2>6 DEF OneTime!vars, Evidence
  <2>7. CASE r.ref /\ Evidence' = Evidence \cup {a}
    <3>1. PICK b \in Authorizations : b = a  BY <1>0
    <3>2. OneTime!Publish(b)
      BY <2>1, <2>5, <2>7, <3>1 DEF OneTime!Publish, Evidence
    <3> QED BY <3>2 DEF OneTime!Next
  <2> QED BY <2>4, <2>6, <2>7
<1>4. CASE ~Consume(w) /\ ~Broadcast(w) /\ ~Record(w) /\ ~Update(w)
  <2>1. UNCHANGED <<nonces, broadcasts, receipts>>
    BY <1>4 DEF WorkerStep, Crash, Lookup, Verify, CheckState, Refuse, Monitor,
                storage, environment
  <2> QED BY <2>1 DEF OneTime!vars
<1> QED BY <1>1, <1>2, <1>3, <1>4

LEMMA RefinementNext ==
  RouterInv /\ [Next]_vars => [OneTime!Next]_(OneTime!vars)
<1> SUFFICES ASSUME RouterInv, [Next]_vars PROVE [OneTime!Next]_(OneTime!vars)
  OBVIOUS
<1>1. CASE UNCHANGED vars
  BY <1>1 DEF vars, OneTime!vars
<1>2. ASSUME NEW w \in Workers, NEW a \in Authorizations, Call(w, a)
      PROVE  UNCHANGED OneTime!vars
  BY <1>2 DEF Call, Execute, ExecuteWithReceipt, Confirm, Begin, storage,
              environment, OneTime!vars
<1>3. ASSUME NEW a \in Authorizations, Environment(a)
      PROVE  UNCHANGED OneTime!vars
  BY <1>3 DEF Environment, Expire, Include, Reorg, storage, OneTime!vars
<1> QED BY <1>1, <1>2, <1>3, RefinementWorker DEF Next

\* The router implements the abstract one-time execution: every step of every
\* worker is a grant, the single invocation, a publication, or invisible.
THEOREM RouterImplementsOneTime == Spec => ImplementsOneTime
<1> QED
  BY RefinementInit, RefinementNext, RouterInvariant, PTL
  DEF Spec, ImplementsOneTime, OneTime!Spec

-------------------------------------------------------------------------------
(* Expiry.  Only Verify leads into the steps after the expiry check.       *)

Checked == {"state", "consume", "broadcast"}

LEMMA CheckedSteps ==
  ASSUME ShapeInv, NEW w \in Workers, WorkerStep(w) \/ Crash(w), pc'[w] \in Checked
  PROVE  /\ task'[w] = task[w]
         /\ pc[w] \in Checked \/ Verified(task[w])
<1> LocalsOK
  BY DEF ShapeInv
<1>1. task'[w] = task[w]
  BY WorkerFrame DEF Checked
<1>2. ~Return(w) /\ ~Fail(w)
  BY DEF Return, Fail, Hold, Goto, LocalsOK, Checked
<1>3. ASSUME NEW s \in Steps \ Checked, \E r : Hold(w, r, s)
      PROVE  FALSE
  BY <1>3 DEF Hold, Goto, LocalsOK
<1>4. CASE Verify(w)
  BY <1>1, <1>2, <1>4 DEF Verify
<1>5. CASE CheckState(w) \/ Consume(w)
  BY <1>1, <1>5 DEF CheckState, Consume, Checked
<1>6. CASE ~Verify(w) /\ ~CheckState(w) /\ ~Consume(w)
  <2>1. ~Crash(w) /\ ~Record(w) /\ ~Update(w) /\ ~Refuse(w)
    BY <1>2 DEF Crash, Record, Update, Refuse
  <2>2. /\ {"verify", "record", "update"} \subseteq Steps \ Checked
    BY DEF Steps, Checked
  <2>3. ~Lookup(w) /\ ~Monitor(w) /\ ~Broadcast(w)
    BY <1>2, <1>3, <2>2 DEF Lookup, Monitor, Answer, Broadcast
  <2> QED BY <1>6, <2>1, <2>3 DEF WorkerStep
<1> QED BY <1>4, <1>5, <1>6

\* No retry, no other method and no other worker gets an expired
\* authorization past the check, for any number of them.
THEOREM ExpiryStaysFinal == Spec => ExpiryIsFinal
<1> DEFINE Final == \A a \in Authorizations :
                       a \in expired /\ ~PastExpiryCheck(a) => ~PastExpiryCheck(a)'
<1>1. ShapeInv /\ [Next]_vars => Final
  <2>1. SUFFICES ASSUME ShapeInv, [Next]_vars, NEW a \in expired, NEW v \in Workers,
                        task'[v] = a, pc'[v] \in Checked
                 PROVE  PastExpiryCheck(a)
    BY DEF PastExpiryCheck, Checked
  <2>2. CASE task[v] = a /\ pc[v] \in Checked
    BY <2>2 DEF PastExpiryCheck, Checked
  <2>3. CASE UNCHANGED <<pc, task>>
    BY <2>1, <2>2, <2>3
  <2>4. ASSUME NEW w \in Workers, WorkerStep(w) \/ Crash(w)
        PROVE  PastExpiryCheck(a)
    <3>1. CASE v # w
      BY <2>1, <2>2, <2>4, <3>1, WorkerFrame
    <3>2. CASE v = w
      BY <2>1, <2>2, <2>4, <3>2, CheckedSteps DEF Verified
    <3> QED BY <3>1, <3>2
  <2>5. ASSUME NEW w \in Workers, NEW b \in Authorizations, Call(w, b)
        PROVE  PastExpiryCheck(a)
    <3>1. /\ v # w => pc'[v] = pc[v] /\ task'[v] = task[v]
          /\ pc'[w] \notin Checked
      BY <2>1, <2>5 DEF Call, Execute, ExecuteWithReceipt, Confirm, Begin, Goto,
                        ShapeInv, LocalsOK, Checked
    <3> QED BY <2>1, <2>2, <3>1
  <2>6. ASSUME NEW b \in Authorizations, Environment(b)
        PROVE  UNCHANGED <<pc, task>>
    BY <2>6 DEF Environment, Expire, Include, Reorg, locals
  <2> QED BY <2>1, <2>3, <2>4, <2>5, <2>6 DEF Next, vars
<1> HIDE DEF Final
<1>2. Spec => [][Final]_vars
  BY <1>1, ShapeInit, ShapeNext, PTL DEF Spec
<1> QED BY <1>2 DEF ExpiryIsFinal, Final

-------------------------------------------------------------------------------
(* Terminal receipts.  The copy that a confirmation works on names a        *)
(* transaction only if the row does, and the answer it writes is final.    *)

CopyInv ==
    \A w \in Workers :
        /\ pc[w] \in {"monitor", "update"} /\ held[w].ref => receipts[task[w]].ref
        /\ pc[w] = "update" => Terminal(held[w])

\* A row that names a transaction goes on doing so.
LEMMA ReferencesStay ==
  ASSUME RouterInv, NEW w \in Workers, WorkerStep(w) \/ Crash(w),
         NEW a \in Authorizations, receipts[a].ref
  PROVE  receipts'[a].ref
<1>1. \/ receipts'[a] = receipts[a]
      \/ receipts'[a] = held[w] /\ (receipts[a] = NoReceipt \/ pc[w] = "update")
  BY WrittenReceipts DEF RouterInv
<1> QED BY <1>1 DEF RouterInv, EvidenceInv, NoReceipt

LEMMA CopyWorker ==
  ASSUME RouterInv, CopyInv, NEW w \in Workers, WorkerStep(w) \/ Crash(w),
         pc'[w] \in {"monitor", "update"}
  PROVE  /\ held'[w].ref => receipts'[task'[w]].ref
         /\ Terminal(held'[w])
<1> ShapeInv /\ LocalsOK
  BY DEF RouterInv, ShapeInv
<1>1. ~Return(w) /\ ~Fail(w)
  BY DEF Return, Fail, Hold, Goto, LocalsOK
<1>2. ASSUME NEW s \in Steps \ {"monitor", "update"}, \E r : Hold(w, r, s)
      PROVE  FALSE
  BY <1>2 DEF Hold, Goto, LocalsOK
<1>3. Monitor(w)
  <2>1. {"verify", "state", "consume", "broadcast", "record"}
           \subseteq Steps \ {"monitor", "update"}
    BY DEF Steps
  <2> QED BY <1>1, <1>2, <2>1
          DEF WorkerStep, Crash, Lookup, Verify, CheckState, Consume, Refuse,
              Broadcast, Record, Update
<1>4. PICK s \in {"CONFIRMED", "FAILED"}, c \in Confirmations :
         Hold(w, Answered(held[w], s, c), "update")
  BY <1>1, <1>3 DEF Monitor, Answer
<1>5. /\ pc[w] = "monitor" /\ receipts' = receipts
      /\ held'[w] = Answered(held[w], s, c) /\ task'[w] = task[w]
  BY <1>3, <1>4 DEF Monitor, Hold, LocalsOK, storage
<1> QED BY <1>5 DEF CopyInv, Answered, Terminal

LEMMA CopyNext == RouterInv /\ CopyInv /\ [Next]_vars => CopyInv'
<1> SUFFICES ASSUME RouterInv, CopyInv, [Next]_vars PROVE CopyInv'
  OBVIOUS
<1>1. CASE UNCHANGED <<receipts, locals>>
  BY <1>1 DEF CopyInv, locals
<1>2. ASSUME NEW w \in Workers, WorkerStep(w) \/ Crash(w)
      PROVE  CopyInv'
  <2>1. ASSUME NEW v \in Workers, v # w, pc[v] \in {"monitor", "update"}, held[v].ref
        PROVE  receipts'[task[v]].ref
    <3>1. task[v] \in Authorizations /\ receipts[task[v]].ref
      BY <2>1 DEF RouterInv, ShapeInv, LocalsOK, CopyInv
    <3> QED BY <1>2, <3>1, ReferencesStay
  <2>2. \A v \in Workers : v # w => /\ pc'[v] = pc[v] /\ task'[v] = task[v]
                                   /\ held'[v] = held[v]
    BY <1>2, WorkerFrame DEF RouterInv
  <2> QED BY <1>2, <2>1, <2>2, CopyWorker DEF CopyInv
<1>3. ASSUME NEW w \in Workers, NEW a \in Authorizations, Call(w, a)
      PROVE  CopyInv'
  <2>1. /\ receipts' = receipts /\ task'[w] = a /\ pc'[w] # "update"
        /\ pc'[w] = "monitor" => held'[w] = receipts[a]
        /\ \A v \in Workers : v # w => /\ pc'[v] = pc[v] /\ task'[v] = task[v]
                                      /\ held'[v] = held[v]
    BY <1>3 DEF Call, Execute, ExecuteWithReceipt, Confirm, Begin, Goto, storage,
                RouterInv, ShapeInv, LocalsOK
  <2> QED BY <2>1 DEF CopyInv
<1>4. ASSUME NEW a \in Authorizations, Environment(a)
      PROVE  UNCHANGED <<receipts, locals>>
  BY <1>4 DEF Environment, Expire, Include, Reorg, storage
<1> QED BY <1>1, <1>2, <1>3, <1>4 DEF Next, vars, locals

\* Two answers for one transaction say the same, whatever else they sign.
LEMMA AnswersAgree ==
  ASSUME ~AllowReorg, RouterInv, CopyInv, NEW w \in Workers, pc[w] = "update",
         Terminal(receipts[task[w]])
  PROVE  /\ held[w].status = receipts[task[w]].status
         /\ held[w].ref = receipts[task[w]].ref
<1>1. PICK a \in Authorizations : a = task[w]
  BY DEF RouterInv, ShapeInv, LocalsOK
<1>2. PICK r, s : r = receipts[a] /\ s = held[w]
  OBVIOUS
<1>3. /\ s.ref /\ r.ref /\ Terminal(r) /\ Terminal(s)
      /\ Justified(r, a) /\ Justified(s, a)
  BY <1>1, <1>2 DEF RouterInv, EvidenceInv, CopyInv
<1>4. r.status = s.status
  BY <1>3 DEF Justified, Terminal
<1>5. r \in Receipt /\ s \in Receipt
  BY <1>2, <1>3 DEF RouterInv, ShapeInv, LocalsOK, SharedOK, NoReceipt, Terminal
<1>6. r.ref = s.ref
  BY <1>3, <1>5 DEF Receipt
<1> QED BY <1>1, <1>2, <1>4, <1>6

\* A step that changes a terminal row is the write of a confirmation.
LEMMA TerminalRowStep ==
  ASSUME RouterInv, [Next]_vars, NEW a \in Authorizations, Terminal(receipts[a])
  PROVE  \/ receipts'[a] = receipts[a]
         \/ \E w \in Workers :
               pc[w] = "update" /\ task[w] = a /\ receipts'[a] = held[w]
<1>1. ASSUME NEW w \in Workers, WorkerStep(w) \/ Crash(w)
      PROVE  \/ receipts'[a] = receipts[a]
             \/ pc[w] = "update" /\ task[w] = a /\ receipts'[a] = held[w]
  <2>1. receipts[a] # NoReceipt
    BY DEF Terminal, NoReceipt
  <2> QED BY <1>1, <2>1, WrittenReceipts DEF RouterInv
<1>2. ASSUME NEW w \in Workers, NEW b \in Authorizations, Call(w, b)
      PROVE  receipts' = receipts
  BY <1>2 DEF Call, Execute, ExecuteWithReceipt, Confirm, Begin, storage
<1>3. ASSUME NEW b \in Authorizations, Environment(b)
      PROVE  receipts' = receipts
  BY <1>3 DEF Environment, Expire, Include, Reorg, storage
<1> QED BY <1>1, <1>2, <1>3 DEF Next, vars

\* On a network that keeps its final answers, what a terminal receipt says is
\* never changed, not even by a confirmation that started from an older copy
\* and replaces the bytes of the row.
THEOREM TerminalStatusStays ==
  ASSUME ~AllowReorg
  PROVE  Spec => TerminalStatusIsFinal
<1> DEFINE Final == \A a \in Authorizations :
                       Terminal(receipts[a]) =>
                           /\ receipts'[a].status = receipts[a].status
                           /\ receipts'[a].ref = receipts[a].ref
<1>1. RouterInv /\ CopyInv /\ [Next]_vars => Final
  BY TerminalRowStep, AnswersAgree
<1>2. Init => CopyInv
  BY DEF Init, CopyInv
<1> HIDE DEF Final
<1>3. Spec => [][Final]_vars
  BY <1>1, <1>2, CopyNext, RouterInvariant, PTL DEF Spec
<1> QED BY <1>3 DEF TerminalStatusIsFinal, Final

-------------------------------------------------------------------------------
(* Settled receipts.  Only Monitor leads to the write of a confirmation,   *)
(* and only with a SUBMITTED copy; a new confirmation copies the row.      *)

LEMMA ConfirmingSteps ==
  ASSUME ShapeInv, NEW w \in Workers, WorkerStep(w) \/ Crash(w),
         pc'[w] \in {"monitor", "update"}
  PROVE  /\ pc[w] = "monitor" /\ held[w].status = "SUBMITTED"
         /\ task'[w] = task[w]
<1> LocalsOK
  BY DEF ShapeInv
<1>1. ~Return(w) /\ ~Fail(w)
  BY DEF Return, Fail, Hold, Goto, LocalsOK
<1>2. ASSUME NEW s \in Steps \ {"monitor", "update"}, \E r : Hold(w, r, s)
      PROVE  FALSE
  BY <1>2 DEF Hold, Goto, LocalsOK
<1>3. Monitor(w)
  <2>1. {"verify", "state", "consume", "broadcast", "record"}
           \subseteq Steps \ {"monitor", "update"}
    BY DEF Steps
  <2> QED BY <1>1, <1>2, <2>1
          DEF WorkerStep, Crash, Lookup, Verify, CheckState, Consume, Refuse,
              Broadcast, Record, Update
<1> QED BY <1>1, <1>3, WorkerFrame DEF Monitor

\* Once the confirmations that were given the SUBMITTED receipt have ended, a
\* terminal receipt is the same bytes for good, for any number of workers and
\* confirmations and whatever the network says later.
THEOREM SettledReceiptsStay == Spec => SettledReceiptIsFinal
<1> DEFINE Final == \A a \in Authorizations :
                       Terminal(receipts[a]) /\ ~UnderConfirmation(a) =>
                           receipts'[a] = receipts[a] /\ ~UnderConfirmation(a)'
<1>1. RouterInv /\ [Next]_vars => Final
  <2>1. SUFFICES ASSUME RouterInv, [Next]_vars, NEW a \in Authorizations,
                        Terminal(receipts[a]), ~UnderConfirmation(a)
                 PROVE  receipts'[a] = receipts[a] /\ ~UnderConfirmation(a)'
    OBVIOUS
  <2>2. receipts'[a] = receipts[a]
    BY <2>1, TerminalRowStep DEF UnderConfirmation
  <2>3. SUFFICES ASSUME NEW v \in Workers, task'[v] = a,
                        \/ pc'[v] = "monitor" /\ held'[v].status = "SUBMITTED"
                        \/ pc'[v] = "update"
                 PROVE  UnderConfirmation(a)
    BY <2>1, <2>2 DEF UnderConfirmation
  <2>4. ASSUME UNCHANGED <<pc, task, held>>
        PROVE  UnderConfirmation(a)
    BY <2>3, <2>4 DEF UnderConfirmation
  <2>5. ASSUME NEW w \in Workers, WorkerStep(w) \/ Crash(w)
        PROVE  UnderConfirmation(a)
    <3>1. CASE v # w
      <4>1. pc'[v] = pc[v] /\ task'[v] = task[v] /\ held'[v] = held[v]
        BY <2>1, <2>5, <3>1, WorkerFrame DEF RouterInv
      <4> QED BY <2>3, <4>1 DEF UnderConfirmation
    <3>2. CASE v = w
      BY <2>1, <2>3, <2>5, <3>2, ConfirmingSteps DEF RouterInv, UnderConfirmation
    <3> QED BY <3>1, <3>2
  <2>6. ASSUME NEW w \in Workers, NEW b \in Authorizations, Call(w, b)
        PROVE  UnderConfirmation(a)
    <3>1. /\ task'[w] = b /\ pc'[w] # "update"
          /\ pc'[w] = "monitor" => held'[w] = receipts[b]
          /\ v # w => /\ pc'[v] = pc[v] /\ task'[v] = task[v]
                      /\ held'[v] = held[v]
      BY <2>1, <2>6 DEF Call, Execute, ExecuteWithReceipt, Confirm, Begin, Goto,
                        RouterInv, ShapeInv, LocalsOK
    <3> QED BY <2>1, <2>3, <3>1 DEF UnderConfirmation, Terminal
  <2>7. ASSUME NEW b \in Authorizations, Environment(b)
        PROVE  UNCHANGED <<pc, task, held>>
    BY <2>7 DEF Environment, Expire, Include, Reorg, locals
  <2> QED BY <2>1, <2>4, <2>5, <2>6, <2>7 DEF Next, vars
<1> HIDE DEF Final
<1>2. Spec => [][Final]_vars
  BY <1>1, RouterInvariant, PTL DEF Spec
<1> QED BY <1>2 DEF SettledReceiptIsFinal, Final
===============================================================================
