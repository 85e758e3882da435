---------------------------- MODULE RefundPromise ----------------------------
(***************************************************************************)
(* What the refund ledger promises of each cancelled claim when an escrow  *)
(* box moves the money (ESCROW_MODE=box): a row is recorded before the box *)
(* is asked, the box decides once, and the row is closed at most once, with*)
(* the box's verdict.                                                      *)
(***************************************************************************)
CONSTANT Refs      \* claim ids

VARIABLES
    row,           \* the refund row of each claim
    verdict,       \* what the box has decided
    paid           \* how often the box has disbursed

vars == <<row, verdict, paid>>

\* How each definitive verdict closes the row.
Closes == [refunded |-> "sent", retained |-> "skipped", failed |-> "failed"]

Init ==
    /\ row = [r \in Refs |-> "none"]
    /\ verdict = [r \in Refs |-> "none"]
    /\ paid = [r \in Refs |-> 0]

\* A dust refund is closed at once.
Record(r) ==
    /\ row[r] = "none"
    /\ \E s \in {"pending", "skipped"} : row' = [row EXCEPT ![r] = s]
    /\ UNCHANGED <<verdict, paid>>

\* The first decision, or the end of a refund that was retried.
Decide(r) ==
    /\ row[r] = "pending"
    /\ \E v \in {"pending", "refunded", "retained", "failed"} :
          /\ \/ verdict[r] = "none"
             \/ verdict[r] = "pending" /\ v \in {"refunded", "failed"}
          /\ verdict' = [verdict EXCEPT ![r] = v]
          /\ paid' = IF v = "refunded" THEN [paid EXCEPT ![r] = 1] ELSE paid
    /\ UNCHANGED row

Close(r) ==
    /\ row[r] = "pending"
    /\ verdict[r] \in DOMAIN Closes
    /\ row' = [row EXCEPT ![r] = Closes[verdict[r]]]
    /\ UNCHANGED <<verdict, paid>>

Next == \E r \in Refs : Record(r) \/ Decide(r) \/ Close(r)

Spec == Init /\ [][Next]_vars
=============================================================================
