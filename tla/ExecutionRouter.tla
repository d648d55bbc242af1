---------------------------- MODULE ExecutionRouter ----------------------------
(***************************************************************************)
(* enforcement/router.py: the universal execution boundary.  Several       *)
(* workers (threads of one service, or processes on one SQLite file) run   *)
(* consume/execute, execute_with_receipt and the confirmation of a stored  *)
(* receipt.  A storage call is atomic (Storage holds its lock, SQLite its  *)
(* transaction); everything between two storage calls interleaves.         *)
(* A worker may die between any two steps; the tables survive.             *)
(***************************************************************************)
EXTENDS Naturals

CONSTANTS
    Authorizations,   \* signed execution authorizations
    Nonces,           \* their nonces (intent ids)
    NonceOf,          \* authorization -> nonce
    NoAuthorization,  \* no row in execution_nonces
    Workers,          \* threads and processes calling the router
    Confirmations,    \* what a confirmation may sign besides the status
    NoConfirmation,   \* a receipt as it was first persisted
    MaxCrashes,       \* bound: how many workers may die
    AllowReorg        \* may the network change a final answer?

ASSUME NonceOfType == NonceOf \in [Authorizations -> Nonces]
ASSUME NoAuthorizationIsNone == NoAuthorization \notin Authorizations
ASSUME NoConfirmationIsNone == NoConfirmation \notin Confirmations
ASSUME MaxCrashesType == MaxCrashes \in Nat
ASSUME AllowReorgType == AllowReorg \in BOOLEAN

VARIABLES
    expired,     \* authorizations past expires_at
    nonces,      \* table execution_nonces: nonce -> authorization_id
    receipts,    \* table execution_receipts: authorization_id -> receipt
    broadcasts,  \* history: nonce -> invocations of the side effect
    network,     \* what became of each authorization's transaction
    pc,          \* worker -> its next step
    op,          \* worker -> the router method it runs
    task,        \* worker -> the authorization it works on
    held,        \* worker -> the receipt it holds in memory
    crashes      \* how many workers died

storage == <<nonces, receipts>>
environment == <<expired, network, broadcasts, crashes>>
locals == <<pc, op, task, held>>
vars == <<expired, nonces, receipts, broadcasts, network, pc, op, task, held,
          crashes>>

Statuses == {"SUBMITTED", "CONFIRMED", "FAILED"}

\* A receipt keeps its status, whether it names a transaction, and the rest of
\* what is signed.  That rest is written once with the row; a confirmation
\* signs its own: the time, the network's confirmation data and the digest of
\* the receipt it answers.  Two receipts are the same bytes, with the same
\* digest, only if they agree in all three.
Receipt == [status : Statuses, ref : BOOLEAN,
            content : Confirmations \cup {NoConfirmation}]
NoReceipt == [status |-> "NONE", ref |-> FALSE, content |-> NoConfirmation]
Submitted == [status |-> "SUBMITTED", ref |-> TRUE, content |-> NoConfirmation]
FailedReceipt == [status |-> "FAILED", ref |-> FALSE, content |-> NoConfirmation]

Terminal(receipt) == receipt.status \in {"CONFIRMED", "FAILED"}

\* The confirmation must name the transaction of the receipt it answers; it is
\* signed anew.
Answered(receipt, status, confirmation) ==
    [status |-> status, ref |-> receipt.ref, content |-> confirmation]

Steps == {"idle", "lookup", "verify", "state", "consume", "broadcast",
          "record", "monitor", "update"}

TypeOK ==
    /\ expired \subseteq Authorizations
    /\ nonces \in [Nonces -> Authorizations \cup {NoAuthorization}]
    /\ receipts \in [Authorizations -> Receipt \cup {NoReceipt}]
    /\ broadcasts \in [Nonces -> Nat]
    /\ network \in [Authorizations -> {"none", "pending", "succeeded", "reverted"}]
    /\ pc \in [Workers -> Steps]
    /\ op \in [Workers -> {"none", "execute", "receipt", "confirm"}]
    /\ task \in [Workers -> Authorizations \cup {NoAuthorization}]
    /\ held \in [Workers -> Receipt \cup {NoReceipt}]
    /\ crashes \in 0..MaxCrashes

Init ==
    /\ expired = {}
    /\ nonces = [n \in Nonces |-> NoAuthorization]
    /\ receipts = [a \in Authorizations |-> NoReceipt]
    /\ broadcasts = [n \in Nonces |-> 0]
    /\ network = [a \in Authorizations |-> "none"]
    /\ pc = [w \in Workers |-> "idle"]
    /\ op = [w \in Workers |-> "none"]
    /\ task = [w \in Workers |-> NoAuthorization]
    /\ held = [w \in Workers |-> NoReceipt]
    /\ crashes = 0

-------------------------------------------------------------------------------
(* Steps shared by the operations.                                         *)

Goto(w, step) == pc' = [pc EXCEPT ![w] = step]

\* The method returns or raises: its locals are gone.
Return(w) ==
    /\ Goto(w, "idle")
    /\ op' = [op EXCEPT ![w] = "none"]
    /\ task' = [task EXCEPT ![w] = NoAuthorization]
    /\ held' = [held EXCEPT ![w] = NoReceipt]

Hold(w, receipt, step) ==
    /\ Goto(w, step)
    /\ held' = [held EXCEPT ![w] = receipt]
    /\ UNCHANGED <<op, task>>

\* An exception before the receipt exists: execute and consume hand it to
\* their caller, execute_with_receipt turns it into a FAILED receipt.
Fail(w) ==
    IF op[w] = "receipt" THEN Hold(w, FailedReceipt, "record") ELSE Return(w)

Begin(w, method, a, receipt, step) ==
    /\ pc[w] = "idle"
    /\ op' = [op EXCEPT ![w] = method]
    /\ task' = [task EXCEPT ![w] = a]
    /\ held' = [held EXCEPT ![w] = receipt]
    /\ Goto(w, step)
    /\ UNCHANGED <<storage, environment>>

-------------------------------------------------------------------------------
(* execute / consume / execute_with_receipt                                *)

\* The caller of consume performs the effect itself once it is told True.
Execute(w, a) == Begin(w, "execute", a, NoReceipt, "verify")

ExecuteWithReceipt(w, a) == Begin(w, "receipt", a, NoReceipt, "lookup")

\* An existing receipt is returned as it is.
Lookup(w) ==
    /\ pc[w] = "lookup"
    /\ \/ receipts[task[w]] # NoReceipt /\ Return(w)
       \/ receipts[task[w]] = NoReceipt /\ Hold(w, NoReceipt, "verify")
    /\ UNCHANGED <<storage, environment>>

\* Mutant: the validity window is no longer checked.
VerifyWithoutExpiry(w) ==
    /\ pc[w] = "verify"
    /\ Hold(w, NoReceipt, "state") \/ Fail(w)
    /\ UNCHANGED <<storage, environment>>

\* verify_execution_authorization.  Signatures are sound; what changes with
\* time is the validity window.
Verified(a) == a \notin expired

\* The authorization, adapter and its validation, execution path.  The last
\* three depend on how this worker's router is configured.
Verify(w) ==
    /\ pc[w] = "verify"
    /\ \/ Verified(task[w]) /\ Hold(w, NoReceipt, "state")
       \/ Fail(w)
    /\ UNCHANGED <<storage, environment>>

\* The live external state check: a slow call that may find drift or raise.
CheckState(w) ==
    /\ pc[w] = "state"
    /\ \/ Hold(w, NoReceipt, "consume")
       \/ Fail(w)
    /\ UNCHANGED <<storage, environment>>

\* Mutant: INSERT OR REPLACE instead of INSERT.
ConsumeByUpsert(w) ==
    /\ pc[w] = "consume"
    /\ nonces' = [nonces EXCEPT ![NonceOf[task[w]]] = task[w]]
    /\ Hold(w, NoReceipt, "broadcast")
    /\ UNCHANGED <<receipts, environment>>

\* Mutant: one-time use per authorization instead of per nonce.
ConsumePerAuthorization(w) ==
    LET n == NonceOf[task[w]] IN
    /\ pc[w] = "consume"
    /\ \/ /\ nonces[n] # task[w]
          /\ nonces' = [nonces EXCEPT ![n] = task[w]]
          /\ Hold(w, NoReceipt, "broadcast")
       \/ /\ nonces[n] = task[w]
          /\ Fail(w)
          /\ UNCHANGED nonces
    /\ UNCHANGED <<receipts, environment>>

\* INSERT under the primary key of execution_nonces.
Consume(w) ==
    LET n == NonceOf[task[w]] IN
    /\ pc[w] = "consume"
    /\ \/ /\ nonces[n] = NoAuthorization
          /\ nonces' = [nonces EXCEPT ![n] = task[w]]
          /\ Hold(w, NoReceipt, "broadcast")
       \/ /\ nonces[n] # NoAuthorization
          /\ Fail(w)
          /\ UNCHANGED nonces
    /\ UNCHANGED <<receipts, environment>>

\* Mutant: the adapter's refusal escapes the handler that makes receipts.
RefuseUnhandled(w) ==
    /\ pc[w] = "broadcast"
    /\ Return(w)
    /\ UNCHANGED <<storage, environment>>

\* The adapter refuses its own binding before it calls the broadcaster.
Refuse(w) ==
    /\ pc[w] = "broadcast"
    /\ Fail(w)
    /\ UNCHANGED <<storage, environment>>

\* Mutant: a broadcast whose answer is lost is tried again.
BroadcastRetried(w) ==
    LET a == task[w] IN
    /\ pc[w] = "broadcast"
    /\ broadcasts' = [broadcasts EXCEPT ![NonceOf[a]] = @ + 1]
    /\ \/ /\ network' = [network EXCEPT ![a] = "pending"]
          /\ Hold(w, Submitted, "record")
       \/ /\ broadcasts[NonceOf[a]] < 2
          /\ Hold(w, NoReceipt, "broadcast")
          /\ UNCHANGED network
    /\ UNCHANGED <<storage, expired, crashes>>

\* Mutant: any return of the broadcaster counts as a submission.
BroadcastAssumed(w) ==
    LET a == task[w] IN
    /\ pc[w] = "broadcast"
    /\ broadcasts' = [broadcasts EXCEPT ![NonceOf[a]] = @ + 1]
    /\ network' \in {network, [network EXCEPT ![a] = "pending"]}
    /\ \/ Fail(w)
       \/ op[w] = "receipt" /\ Hold(w, Submitted, "record")
    /\ UNCHANGED <<storage, expired, crashes>>

\* The broadcaster runs.  The transaction may or may not reach the network,
\* and the answer (with its reference) may be lost in either case.
Broadcast(w) ==
    LET a == task[w] IN
    /\ pc[w] = "broadcast"
    /\ broadcasts' = [broadcasts EXCEPT ![NonceOf[a]] = @ + 1]
    /\ \/ /\ network' = [network EXCEPT ![a] = "pending"]
          /\ \/ Fail(w)
             \/ op[w] = "receipt" /\ Hold(w, Submitted, "record")
       \/ /\ Fail(w)
          /\ UNCHANGED network
    /\ UNCHANGED <<storage, expired, crashes>>

\* Mutant: INSERT OR REPLACE instead of INSERT.
RecordByUpsert(w) ==
    /\ pc[w] = "record"
    /\ receipts' = [receipts EXCEPT ![task[w]] = held[w]]
    /\ Return(w)
    /\ UNCHANGED <<nonces, environment>>

\* INSERT under UNIQUE(authorization_id): the second one raises.
Record(w) ==
    /\ pc[w] = "record"
    /\ receipts' = IF receipts[task[w]] = NoReceipt
                   THEN [receipts EXCEPT ![task[w]] = held[w]]
                   ELSE receipts
    /\ Return(w)
    /\ UNCHANGED <<nonces, environment>>

-------------------------------------------------------------------------------
(* ExecutionMonitor.check and confirm_execution_receipt                    *)

\* The caller hands over the receipt it read from the table.
Confirm(w, a) ==
    /\ receipts[a] # NoReceipt
    /\ Begin(w, "confirm", a, receipts[a], "monitor")

\* The network's answer, signed into a new receipt.  Two answers agree in
\* their content only if they were made of the same data in the same second.
Answer(w, status) ==
    \E c \in Confirmations : Hold(w, Answered(held[w], status, c), "update")

\* Mutant: PENDING is persisted like a final answer.
MonitorKeepsPending(w) ==
    /\ pc[w] = "monitor"
    /\ \/ Return(w)
       \/ /\ held[w].status = "SUBMITTED"
          /\ \/ network[task[w]] = "succeeded" /\ Answer(w, "CONFIRMED")
             \/ network[task[w]] = "pending" /\ Answer(w, "PENDING")
    /\ UNCHANGED <<storage, environment>>

\* Mutant: the status of the receipt handed in is not looked at.
MonitorAsksAgain(w) ==
    /\ pc[w] = "monitor"
    /\ \/ Return(w)
       \/ /\ held[w].ref
          /\ \/ network[task[w]] = "succeeded" /\ Answer(w, "CONFIRMED")
             \/ network[task[w]] = "reverted" /\ Answer(w, "FAILED")
    /\ UNCHANGED <<storage, environment>>

\* A receipt that is not SUBMITTED is returned unchanged; PENDING and RPC
\* errors leave the table alone; a final answer is signed into a new receipt.
Monitor(w) ==
    /\ pc[w] = "monitor"
    /\ \/ Return(w)
       \/ /\ held[w].status = "SUBMITTED"
          /\ \/ network[task[w]] = "succeeded" /\ Answer(w, "CONFIRMED")
             \/ network[task[w]] = "reverted" /\ Answer(w, "FAILED")
    /\ UNCHANGED <<storage, environment>>

\* UPDATE ... WHERE authorization_id = ?, whatever status and content the row
\* has now: a terminal row gets the bytes of the later writer.
Update(w) ==
    /\ pc[w] = "update"
    /\ receipts' = IF receipts[task[w]] # NoReceipt
                   THEN [receipts EXCEPT ![task[w]] = held[w]]
                   ELSE receipts
    /\ Return(w)
    /\ UNCHANGED <<nonces, environment>>

-------------------------------------------------------------------------------
(* Environment                                                             *)

Expire(a) ==
    /\ a \notin expired
    /\ expired' = expired \cup {a}
    /\ UNCHANGED <<storage, locals, network, broadcasts, crashes>>

Include(a, outcome) ==
    /\ network[a] = "pending"
    /\ network' = [network EXCEPT ![a] = outcome]
    /\ UNCHANGED <<storage, locals, expired, broadcasts, crashes>>

\* eth_getTransactionReceipt answers from the newest block, which can be
\* replaced by one in which the transaction reverts.
Reorg(a) ==
    /\ AllowReorg
    /\ network[a] = "succeeded"
    /\ network' = [network EXCEPT ![a] = "reverted"]
    /\ UNCHANGED <<storage, locals, expired, broadcasts, crashes>>

\* The worker dies; only the tables and the network remember.
Crash(w) ==
    /\ pc[w] # "idle"
    /\ crashes < MaxCrashes
    /\ crashes' = crashes + 1
    /\ Return(w)
    /\ UNCHANGED <<storage, expired, network, broadcasts>>

-------------------------------------------------------------------------------
WorkerStep(w) ==
    \/ Lookup(w) \/ Verify(w) \/ CheckState(w) \/ Consume(w) \/ Refuse(w)
    \/ Broadcast(w) \/ Record(w) \/ Monitor(w) \/ Update(w)

Call(w, a) == Execute(w, a) \/ ExecuteWithReceipt(w, a) \/ Confirm(w, a)

Environment(a) ==
    \/ Expire(a)
    \/ Include(a, "succeeded")
    \/ Include(a, "reverted")
    \/ Reorg(a)

Next ==
    \/ \E w \in Workers : WorkerStep(w) \/ Crash(w)
    \/ \E w \in Workers, a \in Authorizations : Call(w, a)
    \/ \E a \in Authorizations : Environment(a)

Spec == Init /\ [][Next]_vars

\* A started method runs on: threads are scheduled and RPC calls time out.
\* Nobody is obliged to call the router, to crash, or to include anything.
FairSpec == Spec /\ \A w \in Workers : WF_vars(WorkerStep(w))

-------------------------------------------------------------------------------
(* Properties                                                              *)

\* The side effect of an intent is invoked at most once: whatever mix of
\* consume, execute and execute_with_receipt is racing, whichever of several
\* authorizations of the intent they present, and whoever died on the way
\* (docs/threat-model.md: one-time use, no replay, no double spend).
OneBroadcastPerIntent == \A n \in Nonces : broadcasts[n] <= 1

\* A stored receipt never claims more than happened.  A receipt with a
\* transaction reference belongs to the authorization that holds the nonce,
\* and its transaction reached the network; CONFIRMED and FAILED-on-chain
\* repeat the network's final answer.
ReceiptsTruthful ==
    \A a \in Authorizations :
        /\ receipts[a].ref =>
              nonces[NonceOf[a]] = a /\ network[a] # "none"
        /\ receipts[a].status = "CONFIRMED" => network[a] = "succeeded"
        /\ receipts[a].status = "FAILED" /\ receipts[a].ref =>
              network[a] = "reverted"

\* The worker runs execution steps for a that come after the expiry check.
PastExpiryCheck(a) ==
    \E w \in Workers : task[w] = a /\ pc[w] \in {"state", "consume", "broadcast"}

\* Once an authorization has expired and no execution is past its expiry
\* check, none ever gets past it again, through no method and no retry.
ExpiryIsFinal ==
    [][\A a \in Authorizations :
          a \in expired /\ ~PastExpiryCheck(a) => ~PastExpiryCheck(a)']_vars

\* A confirmation of a that was given a SUBMITTED receipt has not ended.
UnderConfirmation(a) ==
    \E w \in Workers :
        /\ task[w] = a
        /\ \/ pc[w] = "monitor" /\ held[w].status = "SUBMITTED"
           \/ pc[w] = "update"

\* A terminal receipt is settled for good, byte for byte, once the
\* confirmations that were given the SUBMITTED receipt have ended: whatever
\* the network says later, no retry, confirmation or execution changes the
\* row, and no confirmation of it gets as far as writing
\* (tests/test_confirmation_router.py: a terminal receipt is idempotent).
\* Until then the bytes of a terminal row may still be replaced.
SettledReceiptIsFinal ==
    [][\A a \in Authorizations :
          Terminal(receipts[a]) /\ ~UnderConfirmation(a) =>
              receipts'[a] = receipts[a] /\ ~UnderConfirmation(a)']_vars

\* What a terminal receipt says, its status and its transaction, stays even
\* when a confirmation that started from an older copy overwrites the row.
TerminalStatusIsFinal ==
    [][\A a \in Authorizations :
          Terminal(receipts[a]) =>
              /\ receipts'[a].status = receipts[a].status
              /\ receipts'[a].ref = receipts[a].ref]_vars

\* execute_with_receipt persists the receipt of the broadcast it made: when
\* its broadcaster returned a reference, no other receipt is in the way
\* (router.py: "Broadcast once and persist a signed SUBMITTED or FAILED
\* receipt").
SubmissionIsRecorded ==
    \A w \in Workers :
        pc[w] = "record" /\ held[w].ref => receipts[task[w]] = NoReceipt

\* The router implements the abstract one-time execution.
OneTime == INSTANCE OneTimeExecution WITH
    holder <- nonces,
    invocations <- broadcasts,
    evidence <- {a \in Authorizations : receipts[a].ref}

ImplementsOneTime == OneTime!Spec

\* A worker of execute_with_receipt that has consumed the nonce leaves a
\* receipt behind, unless a worker dies.
ConsumptionLeavesReceipt ==
    \A w \in Workers, a \in Authorizations :
        (pc[w] = "broadcast" /\ op[w] = "receipt" /\ task[w] = a)
            ~> (receipts[a] # NoReceipt \/ crashes > 0)
===============================================================================
