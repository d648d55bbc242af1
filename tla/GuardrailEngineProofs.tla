------------------------- MODULE GuardrailEngineProofs -------------------------
(***************************************************************************)
(* Decisions, authorizations and signatures, for every policy, set of      *)
(* requests, number of workers and length of the audit log.                *)
(***************************************************************************)
EXTENDS IntentPlanProofs, SequenceTheorems

Rows == [request : Requests, decision : Decisions, signature : Nat]

\* What the rules ask of a request that is not blocked, whatever the log says.
Admissible(r) ==
    /\ \A f \in Fields : ~Refuses(f, r)
    /\ ~OverCap(r.intent)

\* What issuing asks of a request for the ceiling x.
IssuedUnder(r, x, s) ==
    /\ Asserts(s, r.capability, r.intent)
    /\ Assessed(r.capability, r.intent, s)
    /\ s.multiplier # 0
    /\ x = Effective(r.capability, s.multiplier)
Issued(r, x) ==
    /\ Permits(r.capability, r.intent)
    /\ \E s \in Snapshots : IssuedUnder(r, x, s)

\* A decision and the ceiling that is issued upon it.
Grants(k, r, x) ==
    /\ k \in DOMAIN audit /\ audit[k].request = r
    /\ x # NoCeiling => audit[k].decision = "ALLOW" /\ Issued(r, x)

Decided == {"issue", "record", "sign"}

LogOK ==
    /\ audit \in Seq(Rows) /\ Len(audit) <= MaxRows
    /\ minute \in 0..Len(audit) /\ day \in 0..minute
    /\ \A k \in DOMAIN audit :
          audit[k].decision # "BLOCK" => Admissible(audit[k].request)

LocalsOK ==
    /\ pc \in [Workers -> {"idle", "evaluate"} \cup Decided]
    /\ request \in [Workers -> Requests \cup {NoRequest}]
    /\ row \in [Workers -> Nat]
    /\ ceiling = [w \in Workers |-> ceiling[w]]

WorkerOK(w) ==
    /\ pc[w] # "idle" => request[w] \in Requests
    /\ IF pc[w] \in Decided
       THEN Grants(row[w], request[w], ceiling[w]) /\ audit[row[w]].signature = 0
       ELSE row[w] = 0
    /\ pc[w] \in {"idle", "evaluate", "issue"} => ceiling[w] = NoCeiling
    /\ pc[w] = "sign" /\ request[w].path # "check" =>
          \E x \in artifacts : x.row = row[w]

ArtifactsOK ==
    /\ \A x \in artifacts : x.request \in Requests /\ Grants(x.row, x.request, x.ceiling)
    /\ \A x, y \in artifacts : x.request.intent.id = y.request.intent.id => x = y

\* No two workers have the same decision in hand.
RowsApart ==
    \A w, v \in Workers :
        pc[w] \in Decided /\ pc[v] \in Decided /\ row[w] = row[v] => w = v

Inv ==
    /\ LogOK /\ LocalsOK /\ \A w \in Workers : WorkerOK(w)
    /\ ArtifactsOK /\ RowsApart /\ SignaturesBelong

-------------------------------------------------------------------------------
(* Numbers                                                                 *)

LEMMA MinOfNumbers ==
  ASSUME NEW a \in Nat, NEW b \in Nat, NEW c \in Nat, NEW S \in SUBSET {c}
  PROVE  /\ Min({a, b} \cup S) \in {a, b} \cup S
         /\ \A y \in {a, b} \cup S : Min({a, b} \cup S) <= y
<1>1. \E x \in {a, b} \cup S : \A y \in {a, b} \cup S : x <= y
  <2>1. CASE S = {}
    BY <2>1
  <2>2. CASE S = {c}
    BY <2>2
  <2> QED BY <2>1, <2>2
<1> QED BY <1>1 DEF Min

LEMMA DivType ==
  ASSUME NEW t \in Nat, NEW s \in Nat \ {0}
  PROVE  t \div s \in Nat
  OBVIOUS

LEMMA DivBound ==
  ASSUME NEW a \in Nat, NEW s \in Nat \ {0}, NEW t \in Nat, a * s <= t
  PROVE  a <= t \div s
<1> DEFINE q == t \div s
<1>1. q \in Nat /\ t < s * (q + 1)
  OBVIOUS
<1>2. ASSUME a >= q + 1 PROVE FALSE
  <2>1. a * s >= (q + 1) * s
    BY <1>1, <1>2
  <2> QED BY <1>1, <2>1
<1> QED BY <1>1, <1>2

\* A ceiling that is issued carries the multiplier it was issued under.
LEMMA IssuedMultiplier ==
  ASSUME NEW r \in Requests, NEW x, Issued(r, x)
  PROVE  x.multiplier \in Multipliers \cup {0}
  BY DEF Issued, IssuedUnder, Snapshots, Effective

-------------------------------------------------------------------------------
(* The invariant                                                           *)

\* Rows of the log keep what was asked and decided.
Kept ==
    \A k \in DOMAIN audit :
        /\ k \in DOMAIN audit'
        /\ audit'[k].request = audit[k].request
        /\ audit'[k].decision = audit[k].decision

Stays(v) ==
    /\ pc'[v] = pc[v] /\ request'[v] = request[v]
    /\ row'[v] = row[v] /\ ceiling'[v] = ceiling[v]

LEMMA StaysOK ==
  ASSUME NEW v \in Workers, WorkerOK(v), Kept, Stays(v), artifacts \subseteq artifacts',
         pc[v] \in Decided => audit'[row[v]].signature = 0
  PROVE  WorkerOK(v)'
  BY DEF WorkerOK, Kept, Stays, Grants

LEMMA ArtifactsKept ==
  ASSUME ArtifactsOK, Kept, artifacts' = artifacts
  PROVE  ArtifactsOK'
  BY DEF ArtifactsOK, Kept, Grants

\* Steps that only move the locals of a worker.
LEMMA TablesKept ==
  ASSUME Inv, UNCHANGED <<audit, artifacts>>
  PROVE  Kept /\ ArtifactsOK' /\ SignaturesBelong'
<1>1. Kept
  BY DEF Kept
<1>2. ArtifactsOK'
  BY <1>1, ArtifactsKept DEF Inv
<1> QED BY <1>1, <1>2 DEF Inv, SignaturesBelong

LEMMA LogKept ==
  ASSUME Inv, UNCHANGED <<audit, minute, day>>
  PROVE  LogOK'
  BY DEF Inv, LogOK

\* Steps after which the worker w is the only one that has moved.
LEMMA OthersStay ==
  ASSUME Inv, NEW w \in Workers, NEW v \in Workers, v # w,
         \/ Return(w)
         \/ \E step \in {"idle", "evaluate"} \cup Decided :
               /\ Goto(w, step)
               /\ \/ request' = request
                  \/ \E r \in Requests : request' = [request EXCEPT ![w] = r]
               /\ row' = row \/ row' = [row EXCEPT ![w] = Len(audit) + 1]
               /\ ceiling' = ceiling \/ \E x : ceiling' = [ceiling EXCEPT ![w] = x]
  PROVE  Stays(v)
  BY DEF Inv, LocalsOK, Return, Goto, Stays

LEMMA InitInv == Init => Inv
<1> SUFFICES ASSUME Init PROVE Inv
  OBVIOUS
<1> USE DEF Init
<1>1. LogOK
  BY NumbersType DEF LogOK
<1>2. LocalsOK
  BY DEF LocalsOK
<1>3. \A w \in Workers : WorkerOK(w)
  BY DEF WorkerOK, Decided
<1>4. ArtifactsOK /\ RowsApart /\ SignaturesBelong
  BY DEF ArtifactsOK, RowsApart, SignaturesBelong, Decided
<1> QED BY <1>1, <1>2, <1>3, <1>4 DEF Inv

LEMMA ReturnLocals ==
  ASSUME Inv, NEW w \in Workers, Return(w)
  PROVE  LocalsOK' /\ RowsApart'
<1>1. LocalsOK'
  BY DEF Inv, LocalsOK, Return
<1>2. RowsApart'
  BY DEF Inv, LocalsOK, Return, RowsApart, Decided
<1> QED BY <1>1, <1>2

LEMMA BeginInv ==
  ASSUME Inv, NEW w \in Workers, NEW r \in Requests, Begin(w, r)
  PROVE  Inv'
<1> USE DEF Begin, Goto
<1>1. LogOK' /\ Kept /\ ArtifactsOK' /\ SignaturesBelong'
  BY LogKept, TablesKept
<1>2. LocalsOK'
  BY DEF Inv, LocalsOK
<1>3. ASSUME NEW v \in Workers PROVE WorkerOK(v)'
  <2>1. CASE v = w
    BY <2>1 DEF Inv, LocalsOK, WorkerOK, Decided
  <2>2. CASE v # w
    <3>1. Stays(v)
      BY <2>2 DEF Inv, LocalsOK, Stays
    <3> QED BY <1>1, <3>1, StaysOK DEF Inv, WorkerOK
  <2> QED BY <2>1, <2>2
<1>4. RowsApart'
  BY DEF Inv, LocalsOK, RowsApart, Decided
<1> QED BY <1>1, <1>2, <1>3, <1>4 DEF Inv

LEMMA AbandonInv ==
  ASSUME Inv, NEW w \in Workers, Abandon(w)
  PROVE  Inv'
<1> USE DEF Abandon
<1>1. LogOK' /\ Kept /\ ArtifactsOK' /\ SignaturesBelong'
  BY LogKept, TablesKept
<1>2. LocalsOK' /\ RowsApart'
  BY ReturnLocals
<1>3. ASSUME NEW v \in Workers PROVE WorkerOK(v)'
  <2>1. CASE v = w
    BY <2>1 DEF Inv, LocalsOK, WorkerOK, Decided, Return
  <2>2. CASE v # w
    BY <1>1, <2>2, OthersStay, StaysOK DEF Inv, WorkerOK
  <2> QED BY <2>1, <2>2
<1> QED BY <1>1, <1>2, <1>3 DEF Inv

\* The row that is written is one that the rules were asked about.
LEMMA LoggedRow ==
  ASSUME Inv, NEW w \in Workers, pc[w] # "idle"
  PROVE  /\ Logged(w) \in Seq(Rows) /\ Len(Logged(w)) = Len(audit) + 1
         /\ \A k \in DOMAIN audit :
               k \in DOMAIN Logged(w) /\ Logged(w)[k] = audit[k]
         /\ LET k == Len(audit) + 1 IN
               /\ k \in DOMAIN Logged(w) /\ k \notin DOMAIN audit
               /\ Logged(w)[k].request = request[w]
               /\ Logged(w)[k].signature = 0
               /\ Logged(w)[k].decision # "BLOCK" => Admissible(request[w])
         /\ DOMAIN Logged(w) = DOMAIN audit \cup {Len(audit) + 1}
<1> DEFINE new == [request |-> request[w], decision |-> Decision(request[w]),
                   signature |-> 0]
<1>1. request[w] \in Requests
  BY DEF Inv, WorkerOK
<1>2. new \in Rows
  BY <1>1 DEF Rows, Decision, Decisions
<1>3. new.decision # "BLOCK" => Admissible(request[w])
  BY DEF Decision, Admissible
<1>4. new.request = request[w] /\ new.signature = 0
  OBVIOUS
<1>5. Logged(w) = Append(audit, new)
  BY DEF Logged
<1>6. audit \in Seq(Rows)
  BY DEF Inv, LogOK
<1> HIDE DEF new
<1>7. /\ Append(audit, new) \in Seq(Rows)
      /\ Len(Append(audit, new)) = Len(audit) + 1
      /\ \A k \in 1..Len(audit) : Append(audit, new)[k] = audit[k]
      /\ Append(audit, new)[Len(audit) + 1] = new
  BY <1>2, <1>6
<1>8. DOMAIN audit = 1..Len(audit) /\ Len(audit) \in Nat
  BY <1>6
<1>9. DOMAIN Logged(w) = 1..(Len(audit) + 1)
  BY <1>5, <1>7
<1> QED BY <1>3, <1>4, <1>5, <1>7, <1>8, <1>9

LEMMA EvaluateInv ==
  ASSUME Inv, NEW w \in Workers, Evaluate(w)
  PROVE  Inv'
<1> DEFINE n == Len(audit) + 1
<1>1. /\ audit' = Logged(w) /\ pc[w] = "evaluate" /\ Len(audit) < MaxRows
      /\ row' = [row EXCEPT ![w] = n] /\ Goto(w, AfterEvaluate(w))
      /\ UNCHANGED <<minute, day, artifacts, request, ceiling>>
  BY DEF Evaluate
<1>2. /\ audit' \in Seq(Rows) /\ Len(audit') = n
      /\ \A k \in DOMAIN audit : k \in DOMAIN audit' /\ audit'[k] = audit[k]
      /\ n \in DOMAIN audit' /\ n \notin DOMAIN audit
      /\ audit'[n].request = request[w] /\ audit'[n].signature = 0
      /\ audit'[n].decision # "BLOCK" => Admissible(request[w])
      /\ DOMAIN audit' = DOMAIN audit \cup {n}
  BY <1>1, LoggedRow
<1>3. Len(audit) \in Nat
  BY DEF Inv, LogOK
<1>4. LogOK'
  <2>1. Len(audit') <= MaxRows /\ minute' \in 0..Len(audit') /\ day' \in 0..minute'
    BY <1>1, <1>2, <1>3, NumbersType DEF Inv, LogOK
  <2>2. \A k \in DOMAIN audit' :
          audit'[k].decision # "BLOCK" => Admissible(audit'[k].request)
    BY <1>2 DEF Inv, LogOK
  <2> QED BY <1>2, <2>1, <2>2 DEF LogOK
<1>5. Kept
  BY <1>2 DEF Kept
<1>6. ArtifactsOK'
  BY <1>1, <1>5, ArtifactsKept DEF Inv
<1>7. AfterEvaluate(w) \in {"sign", "issue"}
  BY DEF AfterEvaluate
<1>8. LocalsOK'
  BY <1>1, <1>3, <1>7 DEF Inv, LocalsOK, Goto, Decided
<1>9. \A v \in Workers : v # w /\ pc[v] \in Decided => row[v] \in DOMAIN audit
  BY DEF Inv, WorkerOK, Grants
<1>10. ASSUME NEW v \in Workers PROVE WorkerOK(v)'
  <2>1. CASE v = w
    <3>1. /\ pc'[w] = AfterEvaluate(w) /\ request'[w] = request[w]
          /\ row'[w] = n /\ ceiling'[w] = NoCeiling /\ request[w] \in Requests
      BY <1>1 DEF Inv, LocalsOK, WorkerOK, Goto
    <3>2. Grants(row[w], request[w], ceiling[w])' /\ audit'[row'[w]].signature = 0
      BY <1>2, <3>1 DEF Grants
    <3>3. ~(pc'[w] = "sign" /\ request'[w].path # "check")
      BY <3>1 DEF AfterEvaluate
    <3> QED BY <1>7, <2>1, <3>1, <3>2, <3>3 DEF WorkerOK, Decided
  <2>2. CASE v # w
    <3>1. Stays(v)
      BY <1>1, <2>2 DEF Inv, LocalsOK, Goto, Stays
    <3>2. pc[v] \in Decided => audit'[row[v]].signature = 0
      BY <1>2, <1>9, <2>2 DEF Inv, WorkerOK
    <3> QED BY <1>1, <1>5, <3>1, <3>2, StaysOK DEF Inv
  <2> QED BY <2>1, <2>2
<1>11. RowsApart'
  <2>1. \A v \in Workers : v # w => row'[v] = row[v] /\ pc'[v] = pc[v]
    BY <1>1 DEF Inv, LocalsOK, Goto
  <2>2. row'[w] = n
    BY <1>1 DEF Inv, LocalsOK
  <2> QED BY <1>2, <1>9, <2>1, <2>2 DEF Inv, RowsApart
<1>12. SignaturesBelong'
  BY <1>1, <1>2 DEF Inv, SignaturesBelong
<1> QED BY <1>4, <1>6, <1>8, <1>10, <1>11, <1>12 DEF Inv

LEMMA IssueInv ==
  ASSUME Inv, NEW w \in Workers, Issue(w)
  PROVE  Inv'
<1>1. /\ pc[w] = "issue" /\ Goto(w, "record")
      /\ UNCHANGED <<audit, minute, day, artifacts, request, row>>
  BY DEF Issue
<1>2. LogOK' /\ Kept /\ ArtifactsOK' /\ SignaturesBelong'
  BY <1>1, LogKept, TablesKept
<1>3. PICK x : /\ ceiling' = [ceiling EXCEPT ![w] = x]
               /\ x # NoCeiling => audit[row[w]].decision = "ALLOW" /\ Issued(request[w], x)
  <2>1. CASE IssueReceipt
    <3>1. ceiling' = [ceiling EXCEPT ![w] = NoCeiling]
      BY <1>1, <2>1 DEF IssueReceipt, Inv, LocalsOK, WorkerOK
    <3> QED BY <3>1
  <2>2. CASE /\ Permits(request[w].capability, request[w].intent)
             /\ \E s \in Snapshots :
                  /\ Asserts(s, request[w].capability, request[w].intent)
                  /\ Assessed(request[w].capability, request[w].intent, s)
                  /\ s.multiplier # 0
                  /\ IssueAuthorization(w, Effective(request[w].capability, s.multiplier))
    BY <2>2 DEF IssueAuthorization, Issued, IssuedUnder
  <2> QED BY <2>1, <2>2 DEF Issue
<1>4. LocalsOK'
  BY <1>1, <1>3 DEF Inv, LocalsOK, Goto, Decided
<1>5. ASSUME NEW v \in Workers PROVE WorkerOK(v)'
  <2>1. CASE v = w
    <3>1. pc'[w] = "record" /\ request'[w] = request[w] /\ row'[w] = row[w] /\ ceiling'[w] = x
      BY <1>1, <1>3 DEF Inv, LocalsOK, Goto
    <3> QED BY <1>1, <1>3, <2>1, <3>1 DEF Inv, WorkerOK, Decided, Grants
  <2>2. CASE v # w
    <3>1. Stays(v)
      BY <1>1, <1>3, <2>2 DEF Inv, LocalsOK, Goto, Stays
    <3> QED BY <1>1, <1>2, <3>1, StaysOK DEF Inv, WorkerOK
  <2> QED BY <2>1, <2>2
<1>6. RowsApart'
  BY <1>1 DEF Inv, LocalsOK, RowsApart, Decided, Goto
<1> QED BY <1>2, <1>4, <1>5, <1>6 DEF Inv

LEMMA RecordInv ==
  ASSUME Inv, NEW w \in Workers, Record(w)
  PROVE  Inv'
<1> DEFINE new == [request |-> request[w], row |-> row[w], ceiling |-> ceiling[w]]
           taken == \E x \in artifacts : x.request.intent.id = request[w].intent.id
<1>1. pc[w] = "record" /\ UNCHANGED <<audit, minute, day>>
  BY DEF Record
<1>2. LogOK' /\ Kept
  BY <1>1, LogKept DEF Kept
<1>3. CASE taken
  <2>1. Return(w) /\ UNCHANGED artifacts
    BY <1>3 DEF Record
  <2>2. ArtifactsOK' /\ SignaturesBelong' /\ LocalsOK' /\ RowsApart'
    BY <1>1, <2>1, TablesKept, ReturnLocals
  <2>3. ASSUME NEW v \in Workers PROVE WorkerOK(v)'
    <3>1. CASE v = w
      BY <2>1, <3>1 DEF Inv, LocalsOK, WorkerOK, Decided, Return
    <3>2. CASE v # w
      BY <1>1, <1>2, <2>1, <3>2, OthersStay, StaysOK DEF Inv, WorkerOK
    <3> QED BY <3>1, <3>2
  <2> QED BY <1>2, <2>2, <2>3 DEF Inv
<1>4. CASE ~taken
  <2>1. /\ artifacts' = artifacts \cup {new} /\ Goto(w, "sign")
        /\ UNCHANGED <<request, row, ceiling>>
    BY <1>4 DEF Record
  <2>2. new.request = request[w] /\ new.row = row[w] /\ new.ceiling = ceiling[w]
    OBVIOUS
  <2>3. new \in artifacts' /\ artifacts \subseteq artifacts'
    BY <2>1
  <2>4. \A x \in artifacts' : x \in artifacts \/ x = new
    BY <2>1
  <2>5. request[w] \in Requests /\ Grants(row[w], request[w], ceiling[w])
    BY <1>1 DEF Inv, WorkerOK, Decided
  <2>6. \A x \in artifacts : x.request.intent.id # new.request.intent.id
    BY <1>4, <2>2
  <2> HIDE DEF new
  <2>7. ArtifactsOK'
    <3>1. \A x \in artifacts' : x.request \in Requests
      BY <2>2, <2>4, <2>5 DEF Inv, ArtifactsOK
    <3>2. \A x \in artifacts' : Grants(x.row, x.request, x.ceiling)
      BY <2>2, <2>4, <2>5 DEF Inv, ArtifactsOK
    <3>3. \A x, y \in artifacts' : x.request.intent.id = y.request.intent.id => x = y
      BY <2>4, <2>6 DEF Inv, ArtifactsOK
    <3>4. \A x \in artifacts' : Grants(x.row, x.request, x.ceiling)'
      BY <1>1, <3>2 DEF Grants
    <3> QED BY <3>1, <3>3, <3>4 DEF ArtifactsOK
  <2>8. LocalsOK'
    BY <2>1 DEF Inv, LocalsOK, Goto, Decided
  <2>9. ASSUME NEW v \in Workers PROVE WorkerOK(v)'
    <3>1. CASE v = w
      <4>1. pc'[w] = "sign"
        BY <2>1 DEF Inv, LocalsOK, Goto
      <4>2. \E x \in artifacts' : x.row = row'[w]
        BY <2>1, <2>2, <2>3
      <4> QED BY <1>1, <2>1, <3>1, <4>1, <4>2 DEF Inv, WorkerOK, Decided, Grants
    <3>2. CASE v # w
      <4>1. Stays(v)
        BY <2>1, <3>2 DEF Inv, LocalsOK, Goto, Stays
      <4> QED BY <1>1, <1>2, <2>3, <4>1, StaysOK DEF Inv, WorkerOK
    <3> QED BY <3>1, <3>2
  <2>10. RowsApart'
    BY <1>1, <2>1 DEF Inv, LocalsOK, RowsApart, Decided, Goto
  <2>11. SignaturesBelong'
    BY <1>1, <2>3 DEF Inv, SignaturesBelong
  <2> QED BY <1>2, <2>7, <2>8, <2>9, <2>10, <2>11 DEF Inv
<1> QED BY <1>3, <1>4

\* A worker that signs finds its own row unsigned, so if the statement changes
\* one row, it is that one.
LEMMA SignsOwnRow ==
  ASSUME Inv, NEW w \in Workers, pc[w] = "sign",
         Cardinality(Unsigned(request[w].intent.id)) = 1
  PROVE  Unsigned(request[w].intent.id) = {row[w]}
<1> DEFINE rows == Unsigned(request[w].intent.id)
<1>1. row[w] \in rows
  BY DEF Inv, WorkerOK, Decided, Grants, Unsigned
<1>2. IsFiniteSet(rows)
  <2>1. DOMAIN audit = 1..Len(audit) /\ Len(audit) \in Nat
    BY DEF Inv, LogOK
  <2>2. IsFiniteSet(DOMAIN audit)
    BY <2>1, FS_Interval
  <2>3. rows \subseteq DOMAIN audit
    BY DEF Unsigned
  <2> QED BY <2>2, <2>3, FS_Subset
<1>3. PICK k : rows = {k}
  BY <1>2, FS_Singleton
<1> QED BY <1>1, <1>3

LEMMA SignLog ==
  ASSUME Inv, NEW w \in Workers, Sign(w)
  PROVE  /\ audit' \in Seq(Rows) /\ DOMAIN audit' = DOMAIN audit
         /\ Len(audit') = Len(audit) /\ Kept
         /\ \A k \in DOMAIN audit :
               \/ audit'[k].signature = audit[k].signature
               \/ k = row[w] /\ audit'[k].signature = k
<1> DEFINE rows == Unsigned(request[w].intent.id)
           signed(k) == [audit[k] EXCEPT !.signature = row[w]]
<1>1. pc[w] = "sign" /\ audit \in Seq(Rows) /\ row[w] \in Nat
  BY DEF Sign, Inv, LogOK, LocalsOK
<1>2. CASE Cardinality(rows) # 1
  <2>1. audit' = audit
    BY <1>2 DEF Sign
  <2> QED BY <1>1, <2>1 DEF Kept
<1>3. CASE Cardinality(rows) = 1
  <2>1. rows = {row[w]}
    BY <1>1, <1>3, SignsOwnRow
  <2>2. audit' = [k \in DOMAIN audit |-> IF k = row[w] THEN signed(k) ELSE audit[k]]
    BY <1>3, <2>1 DEF Sign
  <2>3. \A k \in DOMAIN audit : audit[k] \in Rows
    BY <1>1
  <2>4. \A k \in DOMAIN audit :
          /\ signed(k) \in Rows /\ signed(k).signature = row[w]
          /\ signed(k).request = audit[k].request
          /\ signed(k).decision = audit[k].decision
    BY <1>1, <2>3 DEF Rows
  <2> HIDE DEF signed
  <2>5. DOMAIN audit = 1..Len(audit) /\ Len(audit) \in Nat
    BY <1>1
  <2>6. audit' \in [1..Len(audit) -> Rows]
    BY <2>2, <2>3, <2>4, <2>5
  <2>7. audit' \in Seq(Rows)
    BY <2>5, <2>6, SeqDef
  <2>8. Len(audit') = Len(audit)
    BY <2>5, <2>6, <2>7
  <2>9. Kept
    BY <2>2, <2>4 DEF Kept
  <2>10. \A k \in DOMAIN audit :
           \/ audit'[k].signature = audit[k].signature
           \/ k = row[w] /\ audit'[k].signature = k
    BY <2>2, <2>4
  <2> QED BY <2>5, <2>6, <2>7, <2>8, <2>9, <2>10
<1> QED BY <1>2, <1>3

LEMMA SignInv ==
  ASSUME Inv, NEW w \in Workers, Sign(w)
  PROVE  Inv'
<1>1. /\ audit' \in Seq(Rows) /\ DOMAIN audit' = DOMAIN audit
      /\ Len(audit') = Len(audit) /\ Kept
      /\ \A k \in DOMAIN audit :
            \/ audit'[k].signature = audit[k].signature
            \/ k = row[w] /\ audit'[k].signature = k
  BY SignLog
<1>2. pc[w] = "sign" /\ Return(w) /\ UNCHANGED <<minute, day, artifacts>>
  BY DEF Sign
<1>3. LogOK'
  <2>1. \A k \in DOMAIN audit' :
          audit'[k].decision # "BLOCK" => Admissible(audit'[k].request)
    BY <1>1 DEF Kept, Inv, LogOK
  <2> QED BY <1>1, <1>2, <2>1 DEF Inv, LogOK
<1>4. ArtifactsOK'
  BY <1>1, <1>2, ArtifactsKept DEF Inv
<1>5. LocalsOK' /\ RowsApart'
  BY <1>2, ReturnLocals
<1>6. ASSUME NEW v \in Workers PROVE WorkerOK(v)'
  <2>1. CASE v = w
    BY <1>2, <2>1 DEF Inv, LocalsOK, WorkerOK, Decided, Return
  <2>2. CASE v # w
    <3>1. Stays(v)
      BY <1>2, <2>2, OthersStay
    <3>2. pc[v] \in Decided => row[v] # row[w]
      BY <1>2, <2>2 DEF Inv, RowsApart, Decided
    <3>3. pc[v] \in Decided => audit'[row[v]].signature = 0
      BY <1>1, <3>2 DEF Inv, WorkerOK, Grants
    <3> QED BY <1>1, <1>2, <3>1, <3>3, StaysOK DEF Inv
  <2> QED BY <2>1, <2>2
<1>7. SignaturesBelong'
  <2>1. audit[row[w]].request = request[w]
        /\ (request[w].path # "check" => \E x \in artifacts : x.row = row[w])
    BY <1>2 DEF Inv, WorkerOK, Decided, Grants
  <2> QED BY <1>1, <1>2, <2>1 DEF Inv, SignaturesBelong, Kept
<1> QED BY <1>3, <1>4, <1>5, <1>6, <1>7 DEF Inv

LEMMA WindowInv ==
  ASSUME Inv, MinutePasses \/ DayPasses
  PROVE  Inv'
<1>1. UNCHANGED <<audit, artifacts, pc, request, row, ceiling>>
  BY DEF MinutePasses, DayPasses, locals
<1>2. LogOK'
  <2>1. Len(audit) \in Nat /\ minute \in Nat /\ day \in Nat
    BY DEF Inv, LogOK
  <2>2. minute' \in 0..Len(audit) /\ day' \in 0..minute'
    BY <2>1 DEF MinutePasses, DayPasses, Inv, LogOK
  <2> QED BY <1>1, <2>2 DEF Inv, LogOK
<1>3. Kept /\ ArtifactsOK' /\ SignaturesBelong'
  BY <1>1, TablesKept
<1>4. LocalsOK' /\ RowsApart'
  BY <1>1 DEF Inv, LocalsOK, RowsApart
<1>5. ASSUME NEW v \in Workers PROVE WorkerOK(v)'
  BY <1>1, <1>3, StaysOK DEF Inv, WorkerOK, Stays
<1> QED BY <1>2, <1>3, <1>4, <1>5 DEF Inv

LEMMA StepInv == Inv /\ [Next]_vars => Inv'
<1> SUFFICES ASSUME Inv, [Next]_vars PROVE Inv'
  OBVIOUS
<1>1. CASE UNCHANGED vars
  <2>1. UNCHANGED <<audit, minute, day, artifacts, pc, request, row, ceiling>>
    BY <1>1 DEF vars
  <2>2. LogOK' /\ Kept /\ ArtifactsOK' /\ SignaturesBelong'
    BY <2>1, LogKept, TablesKept
  <2>3. LocalsOK' /\ RowsApart'
    BY <2>1 DEF Inv, LocalsOK, RowsApart
  <2>4. ASSUME NEW v \in Workers PROVE WorkerOK(v)'
    BY <2>1, <2>2, StaysOK DEF Inv, WorkerOK, Stays
  <2> QED BY <2>2, <2>3, <2>4 DEF Inv
<1>2. CASE Next
  BY <1>2, BeginInv, EvaluateInv, IssueInv, RecordInv, SignInv, AbandonInv, WindowInv
     DEF Next
<1> QED BY <1>1, <1>2

LEMMA SpecInv == Spec => []Inv
  BY InitInv, StepInv, PTL DEF Spec

-------------------------------------------------------------------------------
(* The invariants of the run                                               *)

\* Every reachable state of the log, the artifacts and the workers is of the
\* declared types (storage.py, audit_log and authorization_artifacts).
THEOREM TypeCorrect == Spec => []TypeOK
<1>1. Inv => TypeOK
  <2> SUFFICES ASSUME Inv PROVE TypeOK
    OBVIOUS
  <2>1. /\ Len(audit) \in Nat /\ DOMAIN audit = 1..Len(audit)
        /\ \A k \in DOMAIN audit : audit[k] \in Rows
    BY DEF Inv, LogOK
  <2>2. \A k \in DOMAIN audit :
          /\ audit[k].request \in Requests /\ audit[k].decision \in Decisions
          /\ audit[k].signature \in 0..Len(audit)
    <3>1. \A k \in DOMAIN audit : audit[k].signature = 0 \/ audit[k].signature = k
      BY DEF Inv, SignaturesBelong
    <3> QED BY <2>1, <3>1 DEF Rows
  <2>3. \A x \in artifacts : x.request \in Requests /\ x.row \in DOMAIN audit
    BY DEF Inv, ArtifactsOK, Grants
  <2>4. \A x \in artifacts : x.ceiling.multiplier \in Multipliers \cup {0}
    <3> SUFFICES ASSUME NEW x \in artifacts
                 PROVE  x.ceiling.multiplier \in Multipliers \cup {0}
      OBVIOUS
    <3>1. CASE x.ceiling = NoCeiling
      BY <3>1 DEF NoCeiling
    <3>2. CASE x.ceiling # NoCeiling
      BY <3>2, IssuedMultiplier DEF Inv, ArtifactsOK, Grants
    <3> QED BY <3>1, <3>2
  <2>5. \A w \in Workers : row[w] \in 0..Len(audit)
    BY <2>1 DEF Inv, WorkerOK, LocalsOK, Grants
  <2>6. row \in [Workers -> 0..Len(audit)]
    BY <2>5 DEF Inv, LocalsOK
  <2> QED BY <2>2, <2>3, <2>4, <2>6 DEF TypeOK, Inv, LogOK, LocalsOK, Decided
<1> QED BY <1>1, SpecInv, PTL

\* Whatever races, retries and crashes there are, a signature belongs to the
\* decision of its own row (storage.py, update_signature).
THEOREM SignaturesAlwaysBelong == Spec => []SignaturesBelong
<1>1. Inv => SignaturesBelong
  BY DEF Inv
<1> QED BY <1>1, SpecInv, PTL

\* No intent is authorized twice, and none but by the decision on it that
\* allowed it (storage.py, record_authorization_artifacts).
THEOREM OneAuthorization == Spec => []OneAuthorizationPerIntent
<1>1. Inv => OneAuthorizationPerIntent
  BY DEF Inv, ArtifactsOK, Grants, OneAuthorizationPerIntent
<1> QED BY <1>1, SpecInv, PTL

\* What an executable artifact stands for.
LEMMA ExecutableIssued ==
  ASSUME Inv, NEW x \in Executable
  PROVE  /\ x.request \in Requests
         /\ Admissible(x.request) /\ Issued(x.request, x.ceiling)
<1>1. /\ x.request \in Requests /\ Issued(x.request, x.ceiling)
      /\ x.row \in DOMAIN audit /\ audit[x.row].request = x.request
      /\ audit[x.row].decision = "ALLOW"
  BY DEF Executable, Inv, ArtifactsOK, Grants
<1> QED BY <1>1 DEF Inv, LogOK

\* The limit of a ceiling for an asset is the least of the limits it combines.
LEMMA CeilingLimit ==
  ASSUME NEW r \in Requests, NEW m \in Multipliers, NEW a \in DOMAIN r.capability.limits
  PROVE  LET c == r.capability
             limit == Effective(c, m).limits[a]
         IN  /\ limit \in Nat /\ limit <= c.limits[a]
             /\ a \in DOMAIN Policy.txCap => limit <= Policy.txCap[a]
             /\ \A n \in Nat :
                   /\ n <= c.limits[a] /\ n * Scale <= c.limits[a] * m
                   /\ a \in DOMAIN Policy.txCap => n <= Policy.txCap[a]
                   => n <= limit
<1> DEFINE own == r.capability.limits[a]
           scaled == (own * m) \div Scale
           caps == {Policy.txCap[b] : b \in DOMAIN Policy.txCap \cap {a}}
           limit == Effective(r.capability, m).limits[a]
<1>1. own \in Nat /\ m \in Nat /\ Scale \in Nat \ {0}
  BY RequestsType, NumbersType
<1>2. own * m \in Nat
  BY <1>1
<1>3. scaled \in Nat /\ \A n \in Nat : n * Scale <= own * m => n <= scaled
  BY <1>1, <1>2, DivType, DivBound
<1>4. limit = Min({own, scaled} \cup caps)
  BY DEF Effective
<1>5. \E c \in Nat : caps \in SUBSET {c}
  <2>1. CASE a \in DOMAIN Policy.txCap
    BY <2>1, PolicyType
  <2>2. CASE a \notin DOMAIN Policy.txCap
    BY <2>2
  <2> QED BY <2>1, <2>2
<1>6. /\ a \in DOMAIN Policy.txCap => caps = {Policy.txCap[a]} /\ Policy.txCap[a] \in Nat
      /\ a \notin DOMAIN Policy.txCap => caps = {}
  BY PolicyType
<1> HIDE DEF scaled, caps, limit
<1>7. /\ limit \in {own, scaled} \cup caps
      /\ \A y \in {own, scaled} \cup caps : limit <= y
  BY <1>1, <1>3, <1>4, <1>5, MinOfNumbers
<1>8. /\ limit \in Nat /\ limit <= own
      /\ a \in DOMAIN Policy.txCap => limit <= Policy.txCap[a]
  BY <1>1, <1>3, <1>6, <1>7
<1>9. ASSUME NEW n \in Nat, n <= own, n * Scale <= own * m,
             a \in DOMAIN Policy.txCap => n <= Policy.txCap[a]
      PROVE  n <= limit
  BY <1>3, <1>6, <1>7, <1>9
<1> QED BY <1>8, <1>9 DEF limit

\* An amount that is issued for is within the limit that is signed.
LEMMA IssuedWithin ==
  ASSUME NEW r \in Requests, NEW x, Admissible(r), Issued(r, x), Keyed(r.intent),
         HasLimit(x, r.intent)
  PROVE  HasAmount(r.intent) /\ r.intent.amount <= Limit(x, r.intent)
<1> DEFINE c == r.capability
           i == r.intent
           a == Asset(i)
<1>1. PICK s \in Snapshots : IssuedUnder(r, x, s)
  BY DEF Issued
<1>2. s.multiplier \in Multipliers
  BY <1>1 DEF IssuedUnder, Snapshots
<1>3. x = Effective(c, s.multiplier)
  BY <1>1 DEF IssuedUnder
<1>4. HasAsset(i) /\ a \in DOMAIN c.limits
  BY <1>3 DEF HasLimit, Effective
<1>5. HasAmount(i) /\ i.amount <= c.limits[a]
  BY <1>4 DEF Issued, Permits, WithinLimit, HasLimit, Limit
<1>6. i.amount * Scale <= c.limits[a] * s.multiplier
  BY <1>1, <1>4, <1>5 DEF IssuedUnder, Asserts, HasLimit, Limit
<1>7. i.amount \in Nat
  BY <1>5, RequestsType, IntentsType DEF HasAmount
<1>8. ASSUME a \in DOMAIN Policy.txCap PROVE i.amount <= Policy.txCap[a]
  <2>1. Upper[a] = a
    BY <1>4, <1>8 DEF Keyed
  <2>2. ~(i.amount > Policy.txCap[a])
    BY <1>4, <1>5, <1>8, <2>1 DEF Admissible, OverCap, Exceeds
  <2> QED BY <1>7, <1>8, <2>2, PolicyType
<1> HIDE DEF c, i, a
<1>9. i.amount <= Effective(c, s.multiplier).limits[a]
  BY <1>2, <1>4, <1>5, <1>6, <1>7, <1>8, CeilingLimit DEF c
<1> QED BY <1>3, <1>5, <1>9 DEF Limit, i, a

\* The lists of a ceiling, and what it is within them.
LEMMA CeilingLists ==
  ASSUME NEW r \in Requests, NEW x, Issued(r, x), NEW f \in Fields
  PROVE  x.allowed[f] = Intersect(r.capability, f)
  BY DEF Issued, IssuedUnder, Effective

LEMMA SpelledWithin ==
  ASSUME NEW r \in Requests, NEW f \in Fields, Permits(r.capability, r.intent), Spelled(r)
  PROVE  Within(Intersect(r.capability, f), f, r.intent)
<1>1. Within(r.capability.allowed[f], f, r.intent)
  BY DEF Permits
<1>2. CASE f \notin DOMAIN Policy.allowed
  BY <1>1, <1>2 DEF Intersect
<1>3. CASE f \in DOMAIN Policy.allowed
  <2>1. f \in DOMAIN r.intent.value /\ r.intent.value[f] \in Policy.allowed[f]
    BY <1>3 DEF Spelled
  <2>2. r.capability.allowed[f] # {} => r.intent.value[f] \in r.capability.allowed[f]
    BY DEF Spelled
  <2>3. r.intent.value[f] \in Intersect(r.capability, f)
    BY <1>3, <2>1, <2>2 DEF Intersect
  <2> QED BY <2>1, <2>3 DEF Within
<1> QED BY <1>2, <1>3

\* What is authorized is within the limit that is signed unless the policy
\* spells its cap as no rule reads it, a bound capability is limited under no
\* multiplier above one, and a request that is spelled as the lists are is
\* admitted by the execution boundary if the multiplier is at most one
\* (effective_authority.py, verify_effective_action; receipt.py).
THEOREM AuthorizedAlwaysExecutable == Spec => []AuthorizedIsExecutable
<1>1. Inv => AuthorizedIsExecutable
  <2> SUFFICES ASSUME Inv, NEW x \in Executable
               PROVE  LET r == x.request IN
                      /\ Keyed(r.intent) => WithinLimit(x.ceiling, r.intent)
                      /\ Spelled(r) /\ Keyed(r.intent) /\ x.ceiling.multiplier <= Scale =>
                           Admits(x.ceiling, r.intent)
                      /\ r.capability.bound /\ HasLimit(r.capability, r.intent) =>
                           x.ceiling.multiplier <= Scale
    BY DEF AuthorizedIsExecutable, SpelledExecutable
  <2>1. x.request \in Requests /\ Admissible(x.request) /\ Issued(x.request, x.ceiling)
    BY ExecutableIssued
  <2>2. Keyed(x.request.intent) => WithinLimit(x.ceiling, x.request.intent)
    BY <2>1, IssuedWithin DEF WithinLimit
  <2>3. ASSUME Spelled(x.request), NEW f \in Fields
        PROVE  Within(x.ceiling.allowed[f], f, x.request.intent)
    <3>1. Permits(x.request.capability, x.request.intent)
      BY <2>1 DEF Issued
    <3>2. Within(Intersect(x.request.capability, f), f, x.request.intent)
      BY <2>1, <2>3, <3>1, SpelledWithin
    <3>3. x.ceiling.allowed[f] = Intersect(x.request.capability, f)
      BY <2>1, CeilingLists
    <3> QED BY <3>2, <3>3
  <2>4. ASSUME x.request.capability.bound, HasLimit(x.request.capability, x.request.intent)
        PROVE  x.ceiling.multiplier <= Scale
    <3>1. PICK s \in Snapshots : IssuedUnder(x.request, x.ceiling, s)
      BY <2>1 DEF Issued
    <3>2. Assessed(x.request.capability, x.request.intent, s)
      BY <3>1 DEF IssuedUnder
    <3>3. HasAmount(x.request.intent)
      BY <2>1, <2>4 DEF Issued, Permits, WithinLimit
    <3>4. s.multiplier <= Scale
      BY <2>4, <3>2, <3>3, OneActionAssessed
    <3> QED BY <3>1, <3>4 DEF IssuedUnder, Effective
  <2> QED BY <2>2, <2>3, <2>4 DEF Admits
<1> QED BY <1>1, SpecInv, PTL

\* A value within a ceiling is within what the capability and the policy allow.
LEMMA WithinBoth ==
  ASSUME NEW r \in Requests, NEW f \in Fields, Spelled(r), NEW i,
         Within(Intersect(r.capability, f), f, i)
  PROVE  /\ Within(r.capability.allowed[f], f, i)
         /\ f \in DOMAIN Policy.allowed =>
              f \in DOMAIN i.value /\ Lower[i.value[f]] \in Fold(Policy.allowed[f])
<1>1. r.capability.allowed[f] # {} => r.intent.value[f] \in r.capability.allowed[f]
  BY DEF Spelled
<1>2. CASE f \notin DOMAIN Policy.allowed
  BY <1>2 DEF Intersect
<1>3. CASE f \in DOMAIN Policy.allowed
  <2>1. r.intent.value[f] \in Policy.allowed[f]
    BY <1>3 DEF Spelled
  <2>2. /\ Intersect(r.capability, f) # {}
        /\ Intersect(r.capability, f) \subseteq Policy.allowed[f]
        /\ r.capability.allowed[f] # {} =>
              Intersect(r.capability, f) \subseteq r.capability.allowed[f]
    BY <1>1, <1>3, <2>1 DEF Intersect
  <2>3. f \in DOMAIN i.value
    BY <2>2 DEF Within
  <2>4. Lower[i.value[f]] \in Fold(Policy.allowed[f])
    BY <2>2 DEF Within, Fold
  <2>5. Within(r.capability.allowed[f], f, i)
    BY <2>2, <2>3 DEF Within, Fold
  <2> QED BY <2>3, <2>4, <2>5
<1> QED BY <1>2, <1>3

\* Whatever a signed ceiling admits is within the limit of the capability for
\* the asset as it is spelled and within a cap that the policy spells likewise,
\* and if the request was spelled as the lists are, within the lists of both,
\* although an empty intersection would admit everything
\* (effective_authority.py).
THEOREM CeilingAlwaysConfines == Spec => []CeilingConfines
<1>1. Inv => CeilingConfines
  <2> SUFFICES ASSUME Inv, NEW x \in Executable, NEW i \in Intents, Admits(x.ceiling, i)
               PROVE  LET c == x.request.capability IN
                      /\ WithinLimit(c, i)
                      /\ HasLimit(c, i) /\ Asset(i) \in DOMAIN Policy.txCap =>
                           i.amount <= Policy.txCap[Asset(i)]
                      /\ Spelled(x.request) =>
                           /\ Permits(c, i)
                           /\ \A f \in DOMAIN Policy.allowed :
                                 /\ f \in DOMAIN i.value
                                 /\ Lower[i.value[f]] \in Fold(Policy.allowed[f])
    BY DEF CeilingConfines, SpelledExecutable
  <2> DEFINE c == x.request.capability
  <2>1. x.request \in Requests /\ Admissible(x.request) /\ Issued(x.request, x.ceiling)
    BY ExecutableIssued
  <2>2. ASSUME HasLimit(c, i)
        PROVE  /\ HasAmount(i) /\ i.amount <= Limit(c, i)
               /\ Asset(i) \in DOMAIN Policy.txCap => i.amount <= Policy.txCap[Asset(i)]
    <3> DEFINE a == Asset(i)
    <3>1. PICK m \in Multipliers : x.ceiling = Effective(c, m)
      BY <2>1 DEF Issued, IssuedUnder, Snapshots
    <3>2. a \in DOMAIN c.limits /\ HasLimit(x.ceiling, i)
      BY <2>2, <3>1 DEF HasLimit, Effective
    <3>3. HasAmount(i) /\ i.amount <= Effective(c, m).limits[a]
      BY <3>1, <3>2 DEF Admits, WithinLimit, Limit
    <3>4. i.amount \in Nat /\ c.limits[a] \in Nat
      BY <2>1, <3>2, <3>3, IntentsType, RequestsType DEF HasAmount
    <3> DEFINE limit == Effective(c, m).limits[a]
    <3>5. /\ limit \in Nat /\ limit <= c.limits[a]
          /\ a \in DOMAIN Policy.txCap => limit <= Policy.txCap[a]
      BY <2>1, <3>2, CeilingLimit
    <3>6. i.amount <= limit
      BY <3>3
    <3> HIDE DEF limit
    <3>7. i.amount <= c.limits[a]
      BY <3>4, <3>5, <3>6
    <3>8. a \in DOMAIN Policy.txCap => i.amount <= Policy.txCap[a]
      BY <3>4, <3>5, <3>6, PolicyType
    <3> QED BY <3>3, <3>7, <3>8 DEF Limit
  <2>3. ASSUME Spelled(x.request), NEW f \in Fields
        PROVE  /\ Within(c.allowed[f], f, i)
               /\ f \in DOMAIN Policy.allowed =>
                    f \in DOMAIN i.value /\ Lower[i.value[f]] \in Fold(Policy.allowed[f])
    <3>1. x.ceiling.allowed[f] = Intersect(c, f)
      BY <2>1, CeilingLists
    <3>2. Within(Intersect(c, f), f, i)
      BY <3>1 DEF Admits
    <3> QED BY <2>1, <2>3, <3>2, WithinBoth
  <2> QED BY <2>2, <2>3, PolicyType DEF Permits, WithinLimit
<1> QED BY <1>1, SpecInv, PTL

-------------------------------------------------------------------------------
(* The limits                                                              *)

\* What Spent and WithinLimits add up.
Amounts == [k \in DOMAIN audit |-> Amount(k)]
Total(T) == MapThenSumSet(Amount, T)

Numbered ==
    /\ Len(audit) \in Nat /\ DOMAIN audit = 1..Len(audit)
    /\ minute \in 0..Len(audit) /\ day \in 0..minute
    /\ IsFiniteSet(DOMAIN audit)
    /\ \A k \in DOMAIN audit : Amounts[k] \in Nat

LEMMA LogNumbers == LogOK => Numbered
<1> SUFFICES ASSUME LogOK PROVE Numbered
  OBVIOUS
<1>1. /\ Len(audit) \in Int /\ 1 \in Int /\ Len(audit) \in Nat /\ DOMAIN audit = 1..Len(audit)
      /\ minute \in 0..Len(audit) /\ day \in 0..minute
  BY DEF LogOK
<1>2. IsFiniteSet(1..Len(audit))
  BY <1>1, FS_Interval
<1>3. ASSUME NEW k \in DOMAIN audit PROVE Amounts[k] \in Nat
  <2>1. audit[k] \in Rows
    BY DEF LogOK
  <2>2. audit[k].request \in Requests
    BY <2>1 DEF Rows
  <2> QED BY <2>2, RequestsType, IntentsType DEF Amount, Amounts, HasAmount
<1> QED BY <1>1, <1>2, <1>3 DEF Numbered

\* MapThenSumSet over rows of the log is the count.
LEMMA TotalIsCount ==
  ASSUME LogOK, NEW T \in SUBSET DOMAIN audit
  PROVE  Total(T) = Count(T, Amounts)
<1>1. IsFiniteSet(T) /\ \A k \in T : Amounts[k] \in Nat /\ Amounts[k] = Amount(k)
  BY LogNumbers, FS_Subset DEF Amounts, Numbered
<1>2. \E g : Sums(T, Amounts, g)
  BY <1>1, SumsExist
<1> DEFINE h == CHOOSE g : Sums(T, Amounts, g)
<1>3. Sums(T, Amounts, h)
  BY <1>2
<1>4. Total(T) = h[T]
  BY <1>1 DEF Total, MapThenSumSet, MapThenFoldSet, Sums, Amounts
<1> HIDE DEF h
<1> QED BY <1>1, <1>3, <1>4, SumsAreCounts

\* WithinLimits, counted: inductive together with Inv.
Limited ==
    /\ Policy.rate # 0 => Cardinality(Accepted(minute)) <= Policy.rate
    /\ \A asset \in DOMAIN Upper : Upper[asset] \in DOMAIN Policy.dailyCap =>
          Count(AllowedPayments(asset), Amounts) <= Policy.dailyCap[Upper[asset]]

LEMMA LimitedIsWithin == LogOK => (Limited <=> WithinLimits)
<1> SUFFICES ASSUME LogOK PROVE Limited <=> WithinLimits
  OBVIOUS
<1>1. \A asset : AllowedPayments(asset) \in SUBSET DOMAIN audit
  BY DEF AllowedPayments
<1>2. \A asset :
        MapThenSumSet(Amount, AllowedPayments(asset)) = Count(AllowedPayments(asset), Amounts)
  BY <1>1, TotalIsCount DEF Total
<1> QED BY <1>2 DEF Limited, WithinLimits

\* Rows that keep what was asked count what they did.
LEMMA CountKept ==
  ASSUME Kept, NEW T \in SUBSET DOMAIN audit
  PROVE  Count(T, Amounts') = Count(T, Amounts)
<1>1. \A k \in T : Amounts'[k] = Amounts[k]
  BY DEF Kept, Amount, Amounts
<1>2. Units(T, Amounts') = Units(T, Amounts)
  BY <1>1 DEF Units
<1> QED BY <1>2 DEF Count

\* No more rows are in a window than were written since.
LEMMA AcceptedFinite ==
  LogOK => /\ IsFiniteSet(Accepted(minute)) /\ Cardinality(Accepted(minute)) \in Nat
           /\ Cardinality(Accepted(minute)) <= Len(audit) - minute
<1> SUFFICES ASSUME LogOK
             PROVE  /\ IsFiniteSet(Accepted(minute))
                    /\ Cardinality(Accepted(minute)) \in Nat
                    /\ Cardinality(Accepted(minute)) <= Len(audit) - minute
  OBVIOUS
<1> USE LogNumbers DEF Numbered
<1>1. Accepted(minute) \subseteq (minute + 1)..Len(audit)
  BY DEF Accepted
<1>2. minute + 1 \in Int /\ Len(audit) \in Int
  OBVIOUS
<1>3. /\ IsFiniteSet((minute + 1)..Len(audit))
      /\ Cardinality((minute + 1)..Len(audit)) =
           IF minute + 1 > Len(audit) THEN 0 ELSE Len(audit) - (minute + 1) + 1
  BY <1>2, FS_Interval
<1>4. /\ IsFiniteSet(Accepted(minute))
      /\ Cardinality(Accepted(minute)) <= Cardinality((minute + 1)..Len(audit))
  BY <1>1, <1>3, FS_Subset
<1>5. Cardinality(Accepted(minute)) \in Nat
  BY <1>4, FS_CardinalityType
<1>6. Cardinality((minute + 1)..Len(audit)) = Len(audit) - minute
  BY <1>3
<1> QED BY <1>4, <1>5, <1>6

LEMMA InitLimited == Init => Limited
<1> SUFFICES ASSUME Init PROVE Limited
  OBVIOUS
<1>1. DOMAIN audit = {}
  BY DEF Init
<1>2. Accepted(minute) = {} /\ \A asset : AllowedPayments(asset) = {}
  BY <1>1 DEF Accepted, AllowedPayments
<1>3. Cardinality({}) = 0
  BY FS_EmptySet
<1> QED BY <1>2, <1>3, CountEmpty, PolicyType DEF Limited

\* Steps that log nothing: a window keeps its rows or loses some.
LEMMA NoRowLimited ==
  ASSUME Inv, Limited, Kept, LogOK', DOMAIN audit' = DOMAIN audit,
         minute' >= minute, day' >= day
  PROVE  Limited'
<1>1. /\ minute \in Nat /\ day \in Nat /\ minute' \in Nat /\ day' \in Nat
      /\ DOMAIN audit \subseteq Nat
  BY DEF Inv, LogOK
<1>2. /\ IsFiniteSet(Accepted(minute)) /\ Cardinality(Accepted(minute)) \in Nat
  BY AcceptedFinite DEF Inv
<1>3. Accepted(minute)' \subseteq Accepted(minute)
  BY <1>1 DEF Accepted, Kept
<1>4. /\ Cardinality(Accepted(minute)') <= Cardinality(Accepted(minute))
      /\ Cardinality(Accepted(minute)') \in Nat
  BY <1>2, <1>3, FS_Subset, FS_CardinalityType
<1>5. ASSUME NEW asset \in DOMAIN Upper, Upper[asset] \in DOMAIN Policy.dailyCap
      PROVE  Count(AllowedPayments(asset)', Amounts') <= Policy.dailyCap[Upper[asset]]
  <2> DEFINE P == AllowedPayments(asset)
  <2>1. P' \subseteq P /\ P \in SUBSET DOMAIN audit
    BY <1>1 DEF AllowedPayments, InAsset, Kept
  <2>2. Count(P', Amounts') = Count(P', Amounts)
    BY <2>1, CountKept
  <2>3. /\ Count(P', Amounts) <= Count(P, Amounts)
        /\ Count(P, Amounts) \in Nat /\ Count(P', Amounts) \in Nat
    BY <2>1, LogNumbers, CountFacts DEF Inv, Numbered
  <2>4. Count(P, Amounts) <= Policy.dailyCap[Upper[asset]]
    BY <1>5 DEF Limited
  <2>5. Policy.dailyCap[Upper[asset]] \in Nat
    BY <1>5, PolicyType
  <2> HIDE DEF P
  <2>6. Count(P', Amounts') <= Policy.dailyCap[Upper[asset]]
    BY <2>2, <2>3, <2>4, <2>5
  <2> QED BY <2>6 DEF P
<1>6. Policy.rate \in Nat
  BY PolicyType
<1> QED BY <1>2, <1>4, <1>5, <1>6 DEF Limited

\* The step that logs: the rules have read the window the row is written in.
LEMMA EvaluateLimited ==
  ASSUME Inv, Limited, Inv', NEW w \in Workers, Evaluate(w)
  PROVE  Limited'
<1> DEFINE n == Len(audit) + 1
           new == audit'[n]
           r == request[w]
<1>1. /\ audit' = Logged(w) /\ pc[w] = "evaluate"
      /\ minute' = minute /\ day' = day
  BY DEF Evaluate
<1>2. /\ DOMAIN audit' = DOMAIN audit \cup {n} /\ n \notin DOMAIN audit
      /\ Len(audit') = n
      /\ \A k \in DOMAIN audit : audit'[k] = audit[k]
      /\ new.request = r
  BY <1>1, LoggedRow
<1>3. new.decision = Decision(r)
  <2>1. audit \in Seq(Rows)
    BY DEF Inv, LogOK
  <2> QED BY <1>1, <2>1 DEF Logged
<1>4. Kept
  BY <1>2 DEF Kept
<1>5. /\ Len(audit) \in Nat /\ DOMAIN audit = 1..Len(audit)
      /\ minute \in 0..Len(audit) /\ day \in 0..minute
      /\ Policy.rate \in Nat /\ r \in Requests
      /\ IsFiniteSet(DOMAIN audit)
  BY <1>1, LogNumbers, PolicyType DEF Inv, WorkerOK, Numbered
<1> HIDE DEF n
<1>6. Policy.rate # 0 => Cardinality(Accepted(minute)') <= Policy.rate
  <2> SUFFICES ASSUME Policy.rate # 0 PROVE Cardinality(Accepted(minute)') <= Policy.rate
    OBVIOUS
  <2>1. CASE RateExceeded
    <3>1. new.decision = "BLOCK"
      BY <1>3, <2>1 DEF Decision
    <3>2. Accepted(minute)' = Accepted(minute)
      BY <1>1, <1>2, <3>1 DEF Accepted
    <3> QED BY <3>2 DEF Limited
  <2>2. CASE ~RateExceeded
    <3>1. LogOK'
      BY DEF Inv
    <3>2. (/\ IsFiniteSet(Accepted(minute)) /\ Cardinality(Accepted(minute)) \in Nat
           /\ Cardinality(Accepted(minute)) <= Len(audit) - minute)'
      BY <3>1, AcceptedFinite, PTL
    <3>3. Len(audit) - minute < Policy.rate
      BY <1>5, <2>2 DEF RateExceeded
    <3> QED BY <1>1, <1>2, <1>5, <3>2, <3>3 DEF n
  <2> QED BY <2>1, <2>2
<1>7. ASSUME NEW asset \in DOMAIN Upper, Upper[asset] \in DOMAIN Policy.dailyCap
      PROVE  Count(AllowedPayments(asset)', Amounts') <= Policy.dailyCap[Upper[asset]]
  <2> DEFINE P == AllowedPayments(asset)
             cap == Policy.dailyCap[Upper[asset]]
  <2>1. P \in SUBSET DOMAIN audit
    BY DEF AllowedPayments
  <2>2. Count(P, Amounts') <= cap
    BY <1>4, <1>7, <2>1, CountKept DEF Limited
  <2>3. CASE /\ new.decision = "ALLOW" /\ r.path # "action"
             /\ HasAsset(r.intent) /\ Asset(r.intent) = asset
    <3> DEFINE S == {k \in DOMAIN audit :
                       k > day /\ audit[k].decision # "BLOCK" /\ InAsset(k, asset)}
    <3>1. HasAmount(r.intent) /\ r.intent.amount \in Nat
      BY <1>5, <2>3, RequestsType, IntentsType DEF HasAmount
    <3>2. cap \in Nat
      BY <1>7, PolicyType
    <3>3. S \in SUBSET DOMAIN audit /\ Spent(asset) = Count(S, Amounts)
      BY TotalIsCount DEF Spent, Total, Inv
    <3>4. Count(S, Amounts) \in Nat
      BY <3>3, LogNumbers, CountFacts DEF Inv, Numbered
    <3>5. Spent(asset) + r.intent.amount <= cap
      <4>1. ~NeedsConfirmation(r.intent)
        BY <1>3, <2>3 DEF Decision
      <4>2. ~(Spent(asset) + r.intent.amount > cap)
        BY <1>7, <2>3, <4>1 DEF NeedsConfirmation, Exceeds
      <4>3. Spent(asset) + r.intent.amount \in Nat
        BY <3>1, <3>3, <3>4
      <4> QED BY <3>2, <4>2, <4>3
    <3>6. Count(S, Amounts') = Count(S, Amounts)
      BY <1>4, <3>3, CountKept
    <3>7. P' \subseteq S \cup {n}
      BY <1>1, <1>2 DEF AllowedPayments, InAsset
    <3>8. Amounts'[n] = r.intent.amount
      BY <1>2, <3>1 DEF Amounts, Amount
    <3>9. /\ IsFiniteSet(DOMAIN audit') /\ \A k \in DOMAIN audit' : Amounts'[k] \in Nat
      <4>1. LogOK'
        BY DEF Inv
      <4>2. Numbered'
        BY <4>1, LogNumbers, PTL
      <4> QED BY <4>2 DEF Numbered
    <3>10. S \cup {n} \in SUBSET DOMAIN audit' /\ n \in S \cup {n} /\ (S \cup {n}) \ {n} = S
      BY <1>2
    <3> HIDE DEF S, new, r, P, cap
    <3>11. /\ Count(P', Amounts') <= Count(S \cup {n}, Amounts')
           /\ Count(S \cup {n}, Amounts') = Amounts'[n] + Count((S \cup {n}) \ {n}, Amounts')
           /\ Count(S \cup {n}, Amounts') \in Nat /\ Count(P', Amounts') \in Nat
      BY <3>7, <3>9, <3>10, CountFacts
    <3>12. Count(S \cup {n}, Amounts') = Amounts'[n] + Count(S, Amounts')
      BY <3>10, <3>11, Zenon
    <3>13. Count(S \cup {n}, Amounts') = r.intent.amount + Spent(asset)
      BY <3>3, <3>6, <3>8, <3>12, Zenon
    <3>14. Count(P', Amounts') <= cap
      BY <3>1, <3>2, <3>3, <3>4, <3>5, <3>11, <3>13
    <3> QED BY <3>14 DEF P, cap
  <2>4. CASE ~(/\ new.decision = "ALLOW" /\ r.path # "action"
               /\ HasAsset(r.intent) /\ Asset(r.intent) = asset)
    <3>1. P' = P
      BY <1>1, <1>2, <2>4 DEF AllowedPayments, InAsset
    <3> QED BY <2>2, <3>1
  <2> QED BY <2>3, <2>4
<1> QED BY <1>1, <1>6, <1>7 DEF Limited

LEMMA StepLimited == Inv /\ Limited /\ [Next]_vars /\ Inv' => Limited'
<1> SUFFICES ASSUME Inv, Limited, [Next]_vars, Inv' PROVE Limited'
  OBVIOUS
<1>1. minute \in Nat /\ day \in Nat /\ LogOK'
  BY DEF Inv, LogOK
<1>2. CASE UNCHANGED <<audit, minute, day>>
  BY <1>1, <1>2, NoRowLimited DEF Kept
<1>3. CASE MinutePasses \/ DayPasses
  <2>1. audit' = audit /\ minute' >= minute /\ day' >= day
    BY <1>1, <1>3 DEF MinutePasses, DayPasses
  <2> QED BY <1>1, <2>1, NoRowLimited DEF Kept
<1>4. ASSUME NEW w \in Workers, Sign(w) PROVE Limited'
  <2>1. /\ DOMAIN audit' = DOMAIN audit /\ Kept
        /\ minute' = minute /\ day' = day
    BY <1>4 DEF Sign, Kept
  <2> QED BY <1>1, <2>1, NoRowLimited
<1>5. ASSUME NEW w \in Workers, Evaluate(w) PROVE Limited'
  BY <1>5, EvaluateLimited
<1>6. ASSUME NEW w \in Workers,
             \/ \E r \in Requests : Begin(w, r)
             \/ Issue(w) \/ Record(w) \/ Abandon(w)
      PROVE  UNCHANGED <<audit, minute, day>>
  BY <1>6 DEF Begin, Issue, Record, Abandon
<1> QED BY <1>2, <1>3, <1>4, <1>5, <1>6 DEF Next, vars

\* However requests interleave, crash and come again, no minute accepts more
\* than the rate limit and no day allows payments in one spelling of an asset
\* beyond its daily cap (engine.py, evaluate).
THEOREM AlwaysWithinLimits == Spec => []WithinLimits
<1>1. Init => Inv /\ Limited
  BY InitInv, InitLimited
<1>2. (Inv /\ Limited) /\ [Next]_vars => (Inv /\ Limited)'
  BY StepInv, StepLimited
<1>3. Inv /\ Limited => WithinLimits
  BY LimitedIsWithin DEF Inv
<1> QED BY <1>1, <1>2, <1>3, PTL DEF Spec
===============================================================================
