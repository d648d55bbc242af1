------------------------- MODULE MCOutcomeAttestation -------------------------
(* One execution; an outside verifier that is registered, rotated, revoked    *)
(* and activated again by governance; the executor, which is configured at    *)
(* startup and reports on itself.                                             *)
EXTENDS OutcomeAttestation, TLC

Receipt(status, copy) == [status |-> status, copy |-> copy]
MCReceipts == {Receipt("SUBMITTED", 0), Receipt("FAILED", 0), Receipt("CONFIRMED", 1),
               Receipt("CONFIRMED", 2), Receipt("FAILED", 2)}

Claim(id, status, copy) ==
    [id |-> id, status |-> status, receipt |-> copy, executor |-> "executor",
     evidence |-> "CHAIN_RECEIPT", effect |-> "SUCCEEDED"]

Confirmed == Receipt("CONFIRMED", 1)
Done == Claim("c1", "SUCCEEDED", Confirmed)
Pending == Claim("c1", "UNKNOWN", Receipt("SUBMITTED", 0))
Wrong == Claim("c2", "FAILED", Confirmed)
Reverted == Claim("c2", "FAILED", Receipt("FAILED", 2))

By(id, claim, attestor, type, key) ==
    [id |-> id, claim |-> claim, attestor |-> attestor, type |-> type, key |-> key]

MCAttestations ==
    {By("t1", Done, "verifier", "CHAIN_VERIFIER", "k1"),
     By("t2", Wrong, "verifier", "CHAIN_VERIFIER", "k1"),
     By("t2", Reverted, "verifier", "EXTERNAL_VERIFIER", "k2"),
     By("t1", Done, "executor", SelfReport, "k0"),
     By("t4", Pending, "verifier", "EXTERNAL_VERIFIER", "k2")}

\* The documents on the first key are approved for one unit of time, as is the
\* execution; its term ends with them.
Doc(id, action, key, ends, term) ==
    [id |-> id, action |-> action, attestor |-> "verifier", key |-> key,
     type |-> IF key = "k1" THEN "CHAIN_VERIFIER" ELSE "EXTERNAL_VERIFIER",
     ends |-> ends, term |-> term]

MCDocuments ==
    {Doc("d1", "REGISTER", "k1", 1, 1), Doc("d2", "ROTATE", "k2", 1, Never),
     Doc("d3", "REVOKE", "k1", 1, Never), Doc("d4", "ACTIVATE", "k1", 2, Never)}

MCBootstrapped ==
    [a \in {"executor"} |->
        [status |-> "ACTIVE", key |-> "k0", type |-> "EXECUTOR", term |-> Never]]
===============================================================================
