--------------------------- MODULE UploadFlowProofs ---------------------------
(***************************************************************************)
(* Theorems about the upload handler, for any number of accounts,          *)
(* reservations, transfers, requests and crashes.                          *)
(***************************************************************************)
EXTENDS UploadFlow, FiniteSetTheorems, TLAPS

\* A payment was recorded for the request, and not undone.
Paying(q) == requests[q].at \in {"pinning", "hosted", "half"}

\* What a request knows since its first segment: a free one stands on a quote of
\* zero, any other names a transfer.
Working ==
    \A q \in Requests :
        requests[q].at \in InFlight \cup {"hosted", "half"} =>
            LET r == requests[q].res  p == requests[q].pay
            IN  /\ r \in Reservations /\ p \in PayIds
                /\ rows[r].status # "none"
                /\ requests[q].exempt => p = r /\ rows[r].free
                /\ ~requests[q].exempt => p \in Txs
                /\ requests[q].at = "verifying" => ~requests[q].exempt

\* Behind every request that went past the payment stands its payments row, and
\* behind that a confirmed transfer or a quote of zero.
Backed ==
    \A q \in Requests :
        Paying(q) =>
            LET p == requests[q].pay  r == requests[q].res
            IN  /\ payments[p] = r
                /\ \/ p = r /\ rows[r].free
                   \/ p \in Txs /\ PaysFor(p, r) /\ chain[p].outcome = "confirmed"

OnePayer ==
    \A q1, q2 \in Requests :
        Paying(q1) /\ Paying(q2) /\ requests[q1].pay = requests[q2].pay => q1 = q2

\* The inductive invariant.
UInv == TypeOK /\ Working /\ Backed /\ OnePayer

-----------------------------------------------------------------------------
(* Types *)

LEMMA RowUpdates ==
    ASSUME NEW row \in Row
    PROVE  \A new \in {PaidRow(row), UploadedRow(row), CancelledRow(row)} :
              /\ new \in Row
              /\ new.free = row.free
              /\ row.status # "none" => new.status # "none"
              /\ row.status \in Final => new.status = row.status
<1>1. PaidRow(row) \in Row /\ UploadedRow(row) \in Row /\ CancelledRow(row) \in Row
  BY DEF PaidRow, UploadedRow, CancelledRow, Row, Status
<1>2. /\ PaidRow(row).free = row.free /\ UploadedRow(row).free = row.free
      /\ CancelledRow(row).free = row.free
  BY DEF PaidRow, UploadedRow, CancelledRow, Row
<1>3. /\ PaidRow(row).status = IF row.status = "pending" THEN "paid" ELSE row.status
      /\ UploadedRow(row).status = IF row.status = "paid" THEN "uploaded" ELSE row.status
      /\ CancelledRow(row).status =
            IF row.status \in {"pending", "paid"} THEN "cancelled" ELSE row.status
  BY DEF PaidRow, UploadedRow, CancelledRow, Row
<1>4. QED
  BY <1>1, <1>2, <1>3 DEF Final

LEMMA AtType ==
    ASSUME TypeOK, NEW q \in Requests, NEW where \in InFlight \cup Done
    PROVE  At(q, where) \in [Requests -> Request]
  BY DEF TypeOK, At, Request

LEMMA AllDroppedType ==
    ASSUME TypeOK
    PROVE  AllDropped \in [Requests -> Request]
<1>1. \A q \in Requests : requests[q] \in Request
  BY DEF TypeOK
<1>2. \A q \in Requests : [requests[q] EXCEPT !.at = "dropped"] \in Request
  BY <1>1 DEF Request, Done
<1>3. QED
  BY <1>1, <1>2 DEF AllDropped

LEMMA TypeStep == TypeOK /\ [Next]_vars => TypeOK'
<1> SUFFICES ASSUME TypeOK, [Next]_vars PROVE TypeOK'
  OBVIOUS
<1>a. \A r \in Reservations : rows[r] \in Row
  BY DEF TypeOK
<1>1. ASSUME NEW r \in Reservations, NEW a \in Accounts, Reserve(r, a) PROVE TypeOK'
  <2>1. [status |-> "pending", owner |-> a, free |-> a \in exempt, lapsed |-> FALSE]
            \in Row
    BY DEF Row, Status
  <2>2. QED
    BY <1>1, <2>1 DEF TypeOK, Reserve
<1>2. ASSUME NEW r \in Reservations, Lapse(r) PROVE TypeOK'
  BY <1>2 DEF TypeOK, Lapse, Row
<1>3. ASSUME SweepReservations PROVE TypeOK'
  <2>1. \A r \in Reservations : [rows[r] EXCEPT !.status = "expired"] \in Row
    BY <1>a DEF Row, Status
  <2>2. rows' \in [Reservations -> Row]
    BY <1>3, <1>a, <2>1 DEF SweepReservations
  <2>3. QED
    BY <1>3, <2>2 DEF TypeOK, SweepReservations
<1>4. ASSUME NEW q \in Requests, NEW r \in Reservations, NEW p \in PayIds, Start(q, r, p)
      PROVE  TypeOK'
  BY <1>4 DEF TypeOK, Start, Request, Row, InFlight
<1>5. ASSUME NEW q \in Requests, Answer(q) PROVE TypeOK'
  <2> DEFINE r == requests[q].res  p == requests[q].pay
  <2>1. CASE BadProof(q) \/ Replayed(q) \/ VerifyPayment(q) \/ PaymentRefused(q)
    <3>1. /\ requests' \in [Requests -> Request]
          /\ UNCHANGED <<rows, payments, chain, exempt, barred, crashes>>
      BY <2>1, AtType DEF BadProof, Replayed, VerifyPayment, PaymentRefused, InFlight, Done
    <3>2. QED
      BY <3>1 DEF TypeOK
  <2>2. CASE SidechainFails(q) \/ PinRefused(q)
    <3>1. /\ requests' \in [Requests -> Request]
          /\ rows' = [rows EXCEPT ![r] = CancelledRow(@)]
          /\ UNCHANGED <<payments, chain, exempt, barred, crashes>>
      BY <2>2, AtType DEF SidechainFails, PinRefused, InFlight, Done
    <3>2. rows' \in [Reservations -> Row]
      BY <3>1, <1>a, RowUpdates DEF TypeOK
    <3>3. QED
      BY <3>1, <3>2 DEF TypeOK
  <2>3. CASE Record(q)
    <3>1. /\ requests' \in [Requests -> Request]
          /\ UNCHANGED <<chain, exempt, barred, crashes>>
      BY <2>3, AtType DEF Record, InFlight, Done
    <3>2. rows' \in [Reservations -> Row]
      BY <2>3, <1>a, RowUpdates DEF TypeOK, Record
    <3>3. requests[q] \in Request
      BY DEF TypeOK
    <3>4. r \in Reservations \cup {Nil}
      BY <3>3 DEF Request
    <3>5. payments' \in [PayIds -> Reservations \cup {Nil}]
      BY <2>3, <3>4 DEF TypeOK, Record
    <3>6. QED
      BY <3>1, <3>2, <3>5 DEF TypeOK
  <2>4. CASE Commit(q)
    <3>1. /\ requests' \in [Requests -> Request]
          /\ rows' = [rows EXCEPT ![r] = UploadedRow(@)]
          /\ UNCHANGED <<payments, chain, exempt, barred, crashes>>
      BY <2>4, AtType DEF Commit, InFlight, Done
    <3>2. rows' \in [Reservations -> Row]
      BY <3>1, <1>a, RowUpdates DEF TypeOK
    <3>3. QED
      BY <3>1, <3>2 DEF TypeOK
  <2>5. CASE RecordThrows(q)
    <3>1. /\ requests' \in [Requests -> Request]
          /\ UNCHANGED <<rows, chain, exempt, barred, crashes>>
      BY <2>5, AtType DEF RecordThrows, Done
    <3>2. requests[q] \in Request
      BY DEF TypeOK
    <3>3. r \in Reservations \cup {Nil}
      BY <3>2 DEF Request
    <3>4. payments' \in [PayIds -> Reservations \cup {Nil}]
      BY <2>5, <3>3 DEF TypeOK, RecordThrows
    <3>5. QED
      BY <3>1, <3>4 DEF TypeOK
  <2>6. CASE CommitThrows(q)
    <3>1. /\ requests' \in [Requests -> Request]
          /\ rows' = rows \/ rows' = [rows EXCEPT ![r] = UploadedRow(@)]
          /\ UNCHANGED <<payments, chain, exempt, barred, crashes>>
      BY <2>6, AtType DEF CommitThrows, Done
    <3>2. rows' \in [Reservations -> Row]
      BY <3>1, <1>a, RowUpdates DEF TypeOK
    <3>3. QED
      BY <3>1, <3>2 DEF TypeOK
  <2>7. QED
    BY <1>5, <2>1, <2>2, <2>3, <2>4, <2>5, <2>6 DEF Answer
<1>6. ASSUME crashes < MaxCrashes, crashes' = crashes + 1 PROVE crashes' \in 0 .. MaxCrashes
  BY <1>6, UploadAssumption DEF TypeOK
<1>7. ASSUME NEW q \in Requests, CrashInRecord(q) PROVE TypeOK'
  <2>1. requests[q] \in Request
    BY DEF TypeOK
  <2>2. requests[q].res \in Reservations \cup {Nil}
    BY <2>1 DEF Request
  <2>3. payments' \in [PayIds -> Reservations \cup {Nil}]
    BY <1>7, <2>2 DEF TypeOK, CrashInRecord
  <2>4. requests' \in [Requests -> Request]
    BY <1>7, AllDroppedType DEF CrashInRecord
  <2>5. crashes' \in 0 .. MaxCrashes
    BY <1>6, <1>7 DEF CrashInRecord
  <2>6. UNCHANGED <<rows, chain, exempt, barred>>
    BY <1>7 DEF CrashInRecord
  <2>7. QED
    BY <2>3, <2>4, <2>5, <2>6 DEF TypeOK
<1>8. ASSUME NEW q \in Requests, CrashInCommit(q) PROVE TypeOK'
  <2>1. AllDropped \in [Requests -> Request]
    BY AllDroppedType
  <2>2. requests' \in [Requests -> Request]
    BY <1>8, <2>1 DEF CrashInCommit, Request, Done
  <2>3. rows' \in [Reservations -> Row]
    BY <1>8, <1>a, RowUpdates DEF TypeOK, CrashInCommit
  <2>4. crashes' \in 0 .. MaxCrashes
    BY <1>6, <1>8 DEF CrashInCommit
  <2>5. UNCHANGED <<payments, chain, exempt, barred>>
    BY <1>8 DEF CrashInCommit
  <2>6. QED
    BY <2>2, <2>3, <2>4, <2>5 DEF TypeOK
<1>9. CASE Crash
  <2>1. requests' \in [Requests -> Request] /\ crashes' \in 0 .. MaxCrashes
    BY <1>6, <1>9, AllDroppedType DEF Crash
  <2>2. QED
    BY <1>9, <2>1 DEF Crash, TypeOK
<1>10. ASSUME NEW t \in Txs, NEW r \in Reservations, Pay(t, r) PROVE TypeOK'
  BY <1>10 DEF TypeOK, Pay, Transfer
<1>11. ASSUME NEW t \in Txs, SidechainDecides(t) PROVE TypeOK'
  BY <1>11 DEF TypeOK, SidechainDecides, Transfer
<1>12. ASSUME NEW a \in Accounts, SetExempt(a) \/ SetBarred(a) PROVE TypeOK'
  BY <1>12 DEF TypeOK, SetExempt, SetBarred
<1>13. CASE UNCHANGED vars
  BY <1>13 DEF TypeOK, vars
<1>14. QED
  BY <1>1, <1>2, <1>3, <1>4, <1>5, <1>7, <1>8, <1>9, <1>10, <1>11, <1>12, <1>13
     DEF Next, Die

LEMMA TypeInit == Init => TypeOK
  BY UploadAssumption DEF Init, TypeOK, Row, Status, Request, Transfer

\* No statement writes a value its column does not take.
THEOREM TypeCorrect == Spec => []TypeOK
<1>1. QED
  BY TypeInit, TypeStep, PTL DEF Spec

-----------------------------------------------------------------------------
(* What no step takes back *)

\* A row once reserved stays, with its quote, and a final one is final; a
\* recorded payment and a confirmed transfer stay.
Grows ==
    /\ \A r \in Reservations :
          /\ rows[r].status # "none" =>
                rows'[r].status # "none" /\ rows'[r].free = rows[r].free
          /\ rows[r].status \in Final => rows'[r].status = rows[r].status
    /\ \A p \in PayIds : payments[p] # Nil => payments'[p] = payments[p]
    /\ \A t \in Txs : chain[t].outcome = "confirmed" => chain'[t] = chain[t]

LEMMA RowStep ==
    ASSUME TypeOK, NEW r \in Reservations,
           \E new \in {PaidRow(rows[r]), UploadedRow(rows[r]), CancelledRow(rows[r])} :
              rows' = [rows EXCEPT ![r] = new]
    PROVE  \A s \in Reservations :
              /\ rows[s].status # "none" =>
                    rows'[s].status # "none" /\ rows'[s].free = rows[s].free
              /\ rows[s].status \in Final => rows'[s].status = rows[s].status
<1>1. rows[r] \in Row
  BY DEF TypeOK
<1>2. PICK new \in {PaidRow(rows[r]), UploadedRow(rows[r]), CancelledRow(rows[r])} :
         rows' = [rows EXCEPT ![r] = new]
  OBVIOUS
<1>3. /\ new.free = rows[r].free
      /\ rows[r].status # "none" => new.status # "none"
      /\ rows[r].status \in Final => new.status = rows[r].status
  BY <1>1, <1>2, RowUpdates
<1>4. \A s \in Reservations : rows'[s] = IF s = r THEN new ELSE rows[s]
  BY <1>2 DEF TypeOK
<1>5. QED
  BY <1>3, <1>4

\* A request that holds no reservation updates none.
LEMMA NoRowStep ==
    ASSUME TypeOK, NEW r, r \notin Reservations, NEW new,
           rows' = [rows EXCEPT ![r] = new]
    PROVE  rows' = rows
  BY DEF TypeOK

LEMMA RequestRowStep ==
    ASSUME TypeOK, NEW r,
           \E new \in {PaidRow(rows[r]), UploadedRow(rows[r]), CancelledRow(rows[r])} :
              rows' = [rows EXCEPT ![r] = new]
    PROVE  \A s \in Reservations :
              /\ rows[s].status # "none" =>
                    rows'[s].status # "none" /\ rows'[s].free = rows[s].free
              /\ rows[s].status \in Final => rows'[s].status = rows[s].status
<1>1. CASE r \in Reservations
  BY <1>1, RowStep
<1>2. CASE r \notin Reservations
  BY <1>2, NoRowStep
<1>3. QED
  BY <1>1, <1>2

LEMMA GrowsStep == TypeOK /\ [Next]_vars => Grows
<1> SUFFICES ASSUME TypeOK, [Next]_vars PROVE Grows
  OBVIOUS
<1>1. CASE UNCHANGED <<rows, payments, chain>>
  BY <1>1 DEF Grows
<1>2. ASSUME NEW r \in Reservations, NEW a \in Accounts, Reserve(r, a) PROVE Grows
  BY <1>2 DEF Grows, Reserve, TypeOK, Final
<1>3. ASSUME NEW r \in Reservations, Lapse(r) PROVE Grows
  <2>1. rows[r] \in Row
    BY DEF TypeOK
  <2>2. QED
    BY <1>3, <2>1 DEF Grows, Lapse, TypeOK, Row
<1>4. CASE SweepReservations
  <2>1. \A r \in Reservations :
           /\ rows[r] \in Row
           /\ \/ rows'[r] = rows[r]
              \/ /\ rows[r].status = "pending"
                 /\ rows'[r] = [rows[r] EXCEPT !.status = "expired"]
    BY <1>4 DEF SweepReservations, TypeOK
  <2>2. UNCHANGED <<payments, chain>>
    BY <1>4 DEF SweepReservations
  <2>3. QED
    BY <2>1, <2>2 DEF Grows, Row, Final
<1>5. ASSUME NEW q \in Requests, SidechainFails(q) \/ PinRefused(q) \/ Commit(q)
      PROVE  Grows
  <2>1. UNCHANGED <<payments, chain>>
    BY <1>5 DEF SidechainFails, PinRefused, Commit
  <2>2. \E new \in {PaidRow(rows[requests[q].res]), UploadedRow(rows[requests[q].res]),
                     CancelledRow(rows[requests[q].res])} :
           rows' = [rows EXCEPT ![requests[q].res] = new]
    BY <1>5 DEF SidechainFails, PinRefused, Commit
  <2>3. QED
    BY <2>1, <2>2, RequestRowStep DEF Grows
<1>6. ASSUME NEW q \in Requests, Record(q) PROVE Grows
  <2>1. chain' = chain /\ \A p \in PayIds : payments[p] # Nil => payments'[p] = payments[p]
    BY <1>6 DEF Record, TypeOK
  <2>2. \E new \in {PaidRow(rows[requests[q].res]), UploadedRow(rows[requests[q].res]),
                     CancelledRow(rows[requests[q].res])} :
           rows' = [rows EXCEPT ![requests[q].res] = new]
    BY <1>6 DEF Record
  <2>3. QED
    BY <2>1, <2>2, RequestRowStep DEF Grows
<1>7. ASSUME NEW q \in Requests, CrashInRecord(q) \/ RecordThrows(q) PROVE Grows
  BY <1>7 DEF Grows, CrashInRecord, RecordThrows, TypeOK
<1>8. ASSUME NEW q \in Requests, CrashInCommit(q) \/ CommitThrows(q) PROVE Grows
  <2>1. UNCHANGED <<payments, chain>>
    BY <1>8 DEF CrashInCommit, CommitThrows
  <2>2. \/ UNCHANGED rows
        \/ \E new \in {PaidRow(rows[requests[q].res]), UploadedRow(rows[requests[q].res]),
                        CancelledRow(rows[requests[q].res])} :
              rows' = [rows EXCEPT ![requests[q].res] = new]
    BY <1>8 DEF CrashInCommit, CommitThrows
  <2>3. QED
    BY <2>1, <2>2, RequestRowStep DEF Grows
<1>9. ASSUME NEW t \in Txs, NEW r \in Reservations, Pay(t, r) PROVE Grows
  BY <1>9 DEF Grows, Pay, TypeOK
<1>10. ASSUME NEW t \in Txs, SidechainDecides(t) PROVE Grows
  BY <1>10 DEF Grows, SidechainDecides, TypeOK
<1>11. QED
  BY <1>1, <1>2, <1>3, <1>4, <1>5, <1>6, <1>7, <1>8, <1>9, <1>10
     DEF Next, Answer, Die, vars, Start, BadProof, Replayed, VerifyPayment,
         PaymentRefused, Crash, SetExempt, SetBarred

\* The sweeper, a second request and a failed pin all write the status of one
\* reservation; none of them takes it out of a final status
\* (quota.js:290-309, 825-828).
THEOREM FinalRowsStay == Spec => FinalIsFinal
<1>1. TypeOK /\ [Next]_vars =>
        [\A r \in Reservations :
            rows[r].status \in Final => rows'[r].status = rows[r].status]_vars
  BY GrowsStep DEF Grows
<1>2. QED
  BY <1>1, TypeInit, TypeStep, PTL DEF Spec, FinalIsFinal

-----------------------------------------------------------------------------
(* What one step does to one request *)

SameFields(q) ==
    /\ requests'[q].res = requests[q].res
    /\ requests'[q].pay = requests[q].pay
    /\ requests'[q].exempt = requests[q].exempt

Stays(q)   == requests'[q] = requests[q]
GivesUp(q) == requests'[q].at \in {"refused", "told_retry", "dropped", "threw"}

Starts(q) ==
    LET new == requests'[q]
    IN  /\ new.at = "proving"
        /\ new.res \in Reservations /\ new.pay \in PayIds
        /\ rows[new.res].status = "pending"
        /\ new.exempt => new.pay = new.res /\ rows[new.res].free
        /\ ~new.exempt => new.pay \in Txs

LooksUp(q) ==
    /\ requests[q].at = "proving" /\ ~requests[q].exempt
    /\ requests'[q].at = "verifying" /\ SameFields(q)

Pays(q) ==
    /\ Accepted(q)
    /\ payments[requests[q].pay] = Nil
    /\ payments' = [payments EXCEPT ![requests[q].pay] = requests[q].res]
    /\ requests'[q].at = "pinning" /\ SameFields(q)
    /\ \A o \in Requests \ {q} : Stays(o)

Hosts(q) ==
    /\ requests[q].at = "pinning"
    /\ requests'[q].at \in {"hosted", "half"} /\ SameFields(q)

Moves(q) ==
    Stays(q) \/ GivesUp(q) \/ Starts(q) \/ LooksUp(q) \/ Pays(q) \/ Hosts(q)

LEMMA AtMoves ==
    ASSUME TypeOK, NEW q \in Requests, NEW where, requests' = At(q, where)
    PROVE  /\ requests'[q].at = where /\ SameFields(q)
           /\ \A o \in Requests \ {q} : Stays(o)
<1>1. requests[q] \in Request
  BY DEF TypeOK
<1>2. requests'[q] = [requests[q] EXCEPT !.at = where]
  BY DEF At, TypeOK
<1>3. QED
  BY <1>1, <1>2 DEF SameFields, Stays, At, TypeOK, Request

LEMMA Drops ==
    ASSUME TypeOK, NEW q \in Requests, requests'[q] = AllDropped[q]
    PROVE  Stays(q) \/ GivesUp(q)
<1>1. requests[q] \in Request
  BY DEF TypeOK
<1>2. CASE requests[q].at \in InFlight
  <2>1. requests'[q] = [requests[q] EXCEPT !.at = "dropped"]
    BY <1>2 DEF AllDropped
  <2>2. QED
    BY <1>1, <2>1 DEF GivesUp, Request
<1>3. CASE requests[q].at \notin InFlight
  BY <1>3 DEF AllDropped, Stays
<1>4. QED
  BY <1>2, <1>3

LEMMA EveryMove == TypeOK /\ [Next]_vars => \A q \in Requests : Moves(q)
<1> SUFFICES ASSUME TypeOK, [Next]_vars, NEW q \in Requests PROVE Moves(q)
  OBVIOUS
<1> USE DEF Moves
<1>1. CASE UNCHANGED requests
  BY <1>1 DEF Stays
<1>2. ASSUME NEW o \in Requests, NEW r \in Reservations, NEW p \in PayIds, Start(o, r, p)
      PROVE  Moves(q)
  <2>1. CASE o = q
    <3> DEFINE free == rows[r].free /\ rows[r].owner \in exempt
    <3>1. requests'[q] = [at |-> "proving", res |-> r, pay |-> p, exempt |-> free]
      BY <1>2, <2>1 DEF Start, TypeOK
    <3>2. rows[r].status = "pending"
      BY <1>2 DEF Start, Holds
    <3>3. IF free THEN p = r ELSE p \in Txs
      BY <1>2 DEF Start
    <3>4. free => rows[r].free
      OBVIOUS
    <3> HIDE DEF free
    <3>5. /\ requests'[q].at = "proving" /\ requests'[q].res = r
          /\ requests'[q].pay = p
      BY <3>1
    <3>6. requests'[q].exempt = free
      BY <3>1, SMT
    <3>7. requests'[q].exempt => p = r /\ rows[r].free
      BY <3>3, <3>4, <3>6, Zenon
    <3>8. ~requests'[q].exempt => p \in Txs
      BY <3>3, <3>6, Zenon
    <3>9. QED
      BY <3>2, <3>5, <3>7, <3>8, Zenon DEF Starts
  <2>2. CASE o # q
    BY <1>2, <2>2 DEF Start, Stays, TypeOK
  <2>3. QED
    BY <2>1, <2>2
<1>3. ASSUME NEW o \in Requests, Answer(o) PROVE Moves(q)
  <2>1. ASSUME NEW w, requests' = At(o, w), o # q PROVE Stays(q)
    BY <2>1, AtMoves
  <2>2. CASE BadProof(o) \/ Replayed(o) \/ PaymentRefused(o) \/ PinRefused(o)
    <3>1. requests' = At(o, "refused")
      BY <2>2 DEF BadProof, Replayed, PaymentRefused, PinRefused
    <3>2. requests'[o].at = "refused"
      BY <3>1, AtMoves
    <3>3. QED
      BY <2>1, <3>1, <3>2 DEF GivesUp
  <2>3. CASE SidechainFails(o)
    <3>1. PICK w \in {"refused", "told_retry"} : requests' = At(o, w)
      BY <2>3 DEF SidechainFails
    <3>2. requests'[o].at = w
      BY <3>1, AtMoves
    <3>3. QED
      BY <2>1, <3>1, <3>2 DEF GivesUp
  <2>4. CASE VerifyPayment(o)
    <3>1. /\ requests' = At(o, "verifying")
          /\ requests[o].at = "proving" /\ ~requests[o].exempt
      BY <2>4 DEF VerifyPayment
    <3>2. requests'[o].at = "verifying" /\ SameFields(o)
      BY <3>1, AtMoves
    <3>3. QED
      BY <2>1, <3>1, <3>2 DEF LooksUp
  <2>5. CASE Record(o)
    <3>1. requests' = At(o, "pinning")
      BY <2>5 DEF Record
    <3>2. /\ requests'[o].at = "pinning" /\ SameFields(o)
          /\ \A u \in Requests \ {o} : Stays(u)
      BY <3>1, AtMoves
    <3>3. Pays(o)
      BY <2>5, <3>2 DEF Record, Pays
    <3>4. QED
      BY <3>2, <3>3
  <2>6. CASE Commit(o)
    <3>1. requests' = At(o, "hosted") /\ requests[o].at = "pinning"
      BY <2>6 DEF Commit
    <3>2. requests'[o].at = "hosted" /\ SameFields(o)
      BY <3>1, AtMoves
    <3>3. QED
      BY <2>1, <3>1, <3>2 DEF Hosts
  <2>7. CASE RecordThrows(o) \/ CommitThrows(o)
    <3>1. PICK w \in {"threw", "half"} :
             requests' = At(o, w) /\ (w = "half" => requests[o].at = "pinning")
      BY <2>7 DEF RecordThrows, CommitThrows
    <3>2. requests'[o].at = w /\ SameFields(o)
      BY <3>1, AtMoves
    <3>3. QED
      BY <2>1, <3>1, <3>2 DEF GivesUp, Hosts
  <2>8. QED
    BY <1>3, <2>2, <2>3, <2>4, <2>5, <2>6, <2>7 DEF Answer
<1>4. CASE Crash
  BY <1>4, Drops DEF Crash
<1>5. ASSUME NEW o \in Requests, CrashInRecord(o) PROVE Moves(q)
  BY <1>5, Drops DEF CrashInRecord
<1>6. ASSUME NEW o \in Requests, CrashInCommit(o) PROVE Moves(q)
  <2>1. requests' = [AllDropped EXCEPT ![o].at = "half"] /\ requests[o].at = "pinning"
    BY <1>6 DEF CrashInCommit
  <2>2. AllDropped \in [Requests -> Request]
    BY AllDroppedType
  <2>3. CASE o # q
    <3>1. requests'[q] = AllDropped[q]
      BY <2>1, <2>2, <2>3
    <3>2. QED
      BY <3>1, Drops
  <2>4. CASE o = q
    <3>1. requests'[q] = [AllDropped[q] EXCEPT !.at = "half"]
      BY <2>1, <2>2, <2>4
    <3>2. AllDropped[q] = [requests[q] EXCEPT !.at = "dropped"]
      BY <2>1, <2>4 DEF AllDropped, InFlight
    <3>3. requests[q] \in Request
      BY DEF TypeOK
    <3>4. requests'[q].at = "half" /\ SameFields(q)
      BY <3>1, <3>2, <3>3 DEF Request, SameFields
    <3>5. QED
      BY <2>1, <2>4, <3>4 DEF Hosts
  <2>5. QED
    BY <2>3, <2>4
<1>7. QED
  BY <1>1, <1>2, <1>3, <1>4, <1>5, <1>6
     DEF Next, Die, vars, Reserve, Lapse, SweepReservations, Pay, SidechainDecides,
         SetExempt, SetBarred

-----------------------------------------------------------------------------
(* The invariant *)

LEMMA WorkingStep == TypeOK /\ Working /\ [Next]_vars => Working'
<1> SUFFICES ASSUME TypeOK, Working, [Next]_vars, NEW q \in Requests,
                    requests'[q].at \in InFlight \cup {"hosted", "half"}
             PROVE  LET r == requests'[q].res  p == requests'[q].pay
                    IN  /\ r \in Reservations /\ p \in PayIds
                        /\ rows'[r].status # "none"
                        /\ requests'[q].exempt => p = r /\ rows'[r].free
                        /\ ~requests'[q].exempt => p \in Txs
                        /\ requests'[q].at = "verifying" => ~requests'[q].exempt
  BY DEF Working
<1>1. Grows /\ Moves(q)
  BY GrowsStep, EveryMove
<1>2. CASE Stays(q)
  BY <1>1, <1>2 DEF Stays, Working, Grows
<1>3. CASE Starts(q)
  BY <1>1, <1>3 DEF Starts, Grows
<1>4. CASE LooksUp(q)
  BY <1>1, <1>4 DEF LooksUp, SameFields, Working, Grows, InFlight
<1>5. CASE Pays(q)
  BY <1>1, <1>5 DEF Pays, SameFields, Working, Grows, InFlight, Accepted
<1>6. CASE Hosts(q)
  BY <1>1, <1>6 DEF Hosts, SameFields, Working, Grows, InFlight
<1>7. QED
  BY <1>1, <1>2, <1>3, <1>4, <1>5, <1>6 DEF Moves, GivesUp, InFlight

\* A request that pays has the answer of the sidechain, or a free quote.
LEMMA BackedStep == UInv /\ [Next]_vars => Backed'
<1> SUFFICES ASSUME UInv, [Next]_vars, NEW q \in Requests, Paying(q)'
             PROVE  LET p == requests'[q].pay  r == requests'[q].res
                    IN  /\ payments'[p] = r
                        /\ \/ p = r /\ rows'[r].free
                           \/ /\ p \in Txs
                              /\ chain'[p].memo = r
                              /\ chain'[p].outcome = "confirmed"
  BY DEF Backed, PaysFor
<1> DEFINE p == requests[q].pay  r == requests[q].res
<1>1. Grows /\ Moves(q)
  BY GrowsStep, EveryMove DEF UInv
<1>2. CASE Paying(q) /\ (Stays(q) \/ Hosts(q))
  <2>1. r \in Reservations /\ p \in PayIds /\ rows[r].status # "none"
    BY <1>2 DEF UInv, Working, Paying, InFlight
  <2>2. /\ payments[p] = r
        /\ \/ p = r /\ rows[r].free
           \/ p \in Txs /\ chain[p].memo = r /\ chain[p].outcome = "confirmed"
    BY <1>2 DEF UInv, Backed, PaysFor
  <2>3. requests'[q].pay = p /\ requests'[q].res = r
    BY <1>2 DEF Stays, Hosts, SameFields
  <2>4. payments'[p] = r
    BY <1>1, <2>1, <2>2, UploadAssumption DEF Grows
  <2>5. QED
    BY <1>1, <2>1, <2>2, <2>3, <2>4 DEF Grows
<1>3. CASE Pays(q)
  <2>1. /\ r \in Reservations /\ p \in PayIds /\ rows[r].status # "none"
        /\ requests[q].exempt => p = r /\ rows[r].free
        /\ requests[q].at = "verifying" => p \in Txs
    BY <1>3 DEF UInv, Working, Pays, Accepted, InFlight
  <2>2. requests'[q].pay = p /\ requests'[q].res = r
    BY <1>3 DEF Pays, SameFields
  <2>3. payments'[p] = r
    BY <1>3, <2>1 DEF Pays, UInv, TypeOK
  <2>4. \/ p = r /\ rows[r].free
        \/ p \in Txs /\ chain[p].memo = r /\ chain[p].outcome = "confirmed"
    BY <1>3, <2>1 DEF Pays, Accepted, PaysFor
  <2>5. QED
    BY <1>1, <2>1, <2>2, <2>3, <2>4 DEF Grows
<1>4. QED
  BY <1>1, <1>2, <1>3 DEF Moves, Paying, Stays, GivesUp, Starts, LooksUp, Hosts

\* Whoever pays finds no row of its tx_id; whoever has paid left one.
LEMMA OnePayerStep == UInv /\ [Next]_vars => OnePayer'
<1> SUFFICES ASSUME UInv, [Next]_vars, NEW q1 \in Requests, NEW q2 \in Requests,
                    Paying(q1)', Paying(q2)', requests'[q1].pay = requests'[q2].pay,
                    q1 # q2
             PROVE  FALSE
  BY DEF OnePayer
<1>1. Moves(q1) /\ Moves(q2)
  BY EveryMove DEF UInv
<1>2. \A q \in Requests :
        Paying(q) => payments[requests[q].pay] # Nil
  BY UploadAssumption DEF UInv, Working, Backed, Paying, InFlight
<1>3. \A q \in {q1, q2} :
        \/ Pays(q) /\ requests'[q].pay = requests[q].pay
        \/ Paying(q) /\ requests'[q].pay = requests[q].pay
  BY <1>1 DEF Moves, Paying, Stays, GivesUp, Starts, LooksUp, Pays, Hosts, SameFields
<1>4. ASSUME NEW a \in {q1, q2}, NEW b \in {q1, q2}, a # b, Pays(a) PROVE FALSE
  <2>1. Stays(b) /\ Paying(b)
    BY <1>4 DEF Pays, Stays, Paying
  <2>2. payments[requests[a].pay] = Nil
    BY <1>4 DEF Pays
  <2>3. requests[a].pay = requests[b].pay
    BY <1>4, <2>1 DEF Pays, SameFields, Stays
  <2>4. QED
    BY <1>2, <2>1, <2>2, <2>3
<1>5. Paying(q1) /\ Paying(q2) /\ requests[q1].pay = requests[q2].pay
  BY <1>3, <1>4
<1>6. QED
  BY <1>5 DEF UInv, OnePayer

LEMMA UploadInvariant == Spec => []UInv
<1>1. Init => UInv
  BY TypeInit DEF UInv, Init, Working, Backed, OnePayer, Paying, InFlight
<1>2. UInv /\ [Next]_vars => UInv'
  BY TypeStep, WorkingStep, BackedStep, OnePayerStep DEF UInv
<1>3. QED
  BY <1>1, <1>2, PTL DEF Spec

\* Nothing is hosted on an unpaid promise, though the reservation may expire and
\* the exemption go while the request awaits (server.js:607-900).
THEOREM HostingWasPaid == Spec => []HostedWasPaid
<1>1. UInv => HostedWasPaid
  BY DEF UInv, Backed, Paying, HostedWasPaid, Pinned
<1>2. QED
  BY <1>1, UploadInvariant, PTL

\* One payment buys one upload, however many requests present it at once
\* (payments.tx_id UNIQUE; server.js:746-753, 806-822).
THEOREM PaymentsAreSpentOnce == Spec => []PaymentBuysOneUpload
<1>1. UInv => PaymentBuysOneUpload
  BY DEF UInv, OnePayer, Paying, PaymentBuysOneUpload, Pinned
<1>2. QED
  BY <1>1, UploadInvariant, PTL

-----------------------------------------------------------------------------
(* The limits *)

Holding(R) == {r \in R : Holds(r)}
PayingIn(R) == {q \in Requests : Paying(q) /\ requests[q].res \in R}

LEMMA PromisedParts ==
    ASSUME NEW R \in SUBSET Reservations
    PROVE  /\ Promised(R) = Cardinality(Holding(R)) + Cardinality(PayingIn(R))
           /\ IsFiniteSet(Holding(R)) /\ IsFiniteSet(PayingIn(R))
           /\ Cardinality(Holding(R)) \in Nat /\ Cardinality(PayingIn(R)) \in Nat
<1>1. Promised(R) = Cardinality(Holding(R)) + Cardinality(PayingIn(R))
  BY DEF Promised, Holding, PayingIn, Paying
<1>2. Holding(R) \in SUBSET Reservations /\ PayingIn(R) \in SUBSET Requests
  BY DEF Holding, PayingIn
<1>3. IsFiniteSet(Reservations) /\ IsFiniteSet(Requests)
  BY UploadAssumption
<1>4. IsFiniteSet(Holding(R)) /\ IsFiniteSet(PayingIn(R))
  BY <1>2, <1>3, FS_Subset
<1>5. QED
  BY <1>1, <1>4, FS_CardinalityType

\* The same of the next state.
LEMMA PromisedPartsNext ==
    ASSUME NEW R \in SUBSET Reservations, NEW a
    PROVE  /\ Promised(R)' = Cardinality(Holding(R)') + Cardinality(PayingIn(R)')
           /\ Promised(OwnedBy(a))' = Cardinality(Holding(OwnedBy(a))')
                                        + Cardinality(PayingIn(OwnedBy(a))')
  BY DEF Promised, Holding, PayingIn, Paying

LEMMA SmallerSums ==
    ASSUME NEW S, NEW T, NEW U \in SUBSET S, NEW V \in SUBSET T,
           IsFiniteSet(S), IsFiniteSet(T)
    PROVE  Cardinality(U) + Cardinality(V) <= Cardinality(S) + Cardinality(T)
<1>1. Cardinality(U) <= Cardinality(S) /\ Cardinality(V) <= Cardinality(T)
  BY FS_Subset
<1>2. IsFiniteSet(U) /\ IsFiniteSet(V)
  BY FS_Subset
<1>3. /\ Cardinality(U) \in Nat /\ Cardinality(V) \in Nat
      /\ Cardinality(S) \in Nat /\ Cardinality(T) \in Nat
  BY <1>2, FS_CardinalityType
<1>4. QED
  BY <1>1, <1>3

\* A step that promises nothing new.
Sheds ==
    /\ \A r \in Reservations : /\ Holds(r)' => Holds(r)
                               /\ rows'[r].owner = rows[r].owner
    /\ \A q \in Requests : Paying(q)' => Paying(q) /\ requests'[q].res = requests[q].res

LEMMA UpdatedRowsShed ==
    ASSUME TypeOK, NEW r,
           \E new \in {PaidRow(rows[r]), UploadedRow(rows[r]), CancelledRow(rows[r])} :
              rows' = [rows EXCEPT ![r] = new]
    PROVE  \A s \in Reservations : (Holds(s)' => Holds(s)) /\ rows'[s].owner = rows[s].owner
<1>1. PICK new \in {PaidRow(rows[r]), UploadedRow(rows[r]), CancelledRow(rows[r])} :
         rows' = [rows EXCEPT ![r] = new]
  OBVIOUS
<1> SUFFICES ASSUME NEW s \in Reservations
             PROVE  (Holds(s)' => Holds(s)) /\ rows'[s].owner = rows[s].owner
  OBVIOUS
<1>2. CASE s = r
  <2>1. rows'[s] = new /\ rows[s] \in Row
    BY <1>1, <1>2 DEF TypeOK
  <2>2. /\ new.owner = rows[s].owner
        /\ new.lapsed = rows[s].lapsed
        /\ new.status = "pending" => rows[s].status = "pending"
    BY <1>1, <1>2, <2>1 DEF PaidRow, UploadedRow, CancelledRow, Row
  <2>3. QED
    BY <2>1, <2>2 DEF Holds
<1>3. CASE s # r
  <2>1. rows'[s] = rows[s]
    BY <1>1, <1>3 DEF TypeOK
  <2>2. QED
    BY <2>1 DEF Holds
<1>4. QED
  BY <1>2, <1>3

LEMMA StepReservesPaysOrSheds ==
    ASSUME TypeOK, [Next]_vars
    PROVE  \/ \E r \in Reservations, a \in Accounts : Reserve(r, a)
           \/ \E q \in Requests : Record(q)
           \/ Sheds
<1> DEFINE RowsShed == \A r \in Reservations : /\ Holds(r)' => Holds(r)
                                               /\ rows'[r].owner = rows[r].owner
<1>1. CASE UNCHANGED <<rows, requests>>
  BY <1>1 DEF Sheds, Holds, Paying
<1>2. ASSUME UNCHANGED rows
      PROVE  RowsShed
  BY <1>2 DEF Holds
<1>3. ASSUME NEW q \in Requests,
             \/ requests' = At(q, "refused") \/ requests' = At(q, "verifying")
             \/ requests' = At(q, "told_retry") \/ requests' = At(q, "threw")
             \/ /\ requests[q].at = "pinning"
                /\ requests' = At(q, "hosted") \/ requests' = At(q, "half"),
             RowsShed
      PROVE  Sheds
  <2>1. ASSUME NEW o \in Requests, Paying(o)'
        PROVE  Paying(o) /\ requests'[o].res = requests[o].res
    <3>1. CASE o = q
      BY <1>3, <2>1, <3>1, AtMoves DEF SameFields, Paying
    <3>2. CASE o # q
      BY <1>3, <2>1, <3>2, AtMoves DEF Stays, Paying
    <3>3. QED
      BY <3>1, <3>2
  <2>2. QED
    BY <1>3, <2>1 DEF Sheds
<1>4. ASSUME requests' = requests, RowsShed
      PROVE  Sheds
  BY <1>4 DEF Sheds, Paying
<1>5. ASSUME NEW r \in Reservations, Lapse(r)
      PROVE  Sheds
  <2>1. rows[r] \in Row
    BY DEF TypeOK
  <2>2. RowsShed
    BY <1>5, <2>1 DEF Lapse, TypeOK, Row, Holds
  <2>3. QED
    BY <1>4, <1>5, <2>2 DEF Lapse
<1>6. CASE SweepReservations
  <2>1. \A r \in Reservations :
           /\ rows[r] \in Row
           /\ \/ rows'[r] = rows[r]
              \/ rows'[r] = [rows[r] EXCEPT !.status = "expired"]
    BY <1>6 DEF SweepReservations, TypeOK
  <2>2. RowsShed
    BY <2>1 DEF Row, Holds
  <2>3. QED
    BY <1>4, <1>6, <2>2 DEF SweepReservations
<1>7. ASSUME NEW q \in Requests, NEW r \in Reservations, NEW p \in PayIds, Start(q, r, p)
      PROVE  Sheds
  <2>1. requests'[q].at = "proving" /\ \A o \in Requests \ {q} : requests'[o] = requests[o]
    BY <1>7 DEF Start, TypeOK
  <2>2. RowsShed
    BY <1>2, <1>7 DEF Start
  <2>3. QED
    BY <2>1, <2>2 DEF Sheds, Paying
<1>8. ASSUME NEW q \in Requests,
             BadProof(q) \/ Replayed(q) \/ VerifyPayment(q) \/ PaymentRefused(q)
      PROVE  Sheds
  BY <1>2, <1>3, <1>8 DEF BadProof, Replayed, VerifyPayment, PaymentRefused
<1>9. ASSUME NEW q \in Requests, SidechainFails(q) \/ PinRefused(q) \/ Commit(q)
      PROVE  Sheds
  <2>1. \E new \in {PaidRow(rows[requests[q].res]), UploadedRow(rows[requests[q].res]),
                     CancelledRow(rows[requests[q].res])} :
           rows' = [rows EXCEPT ![requests[q].res] = new]
    BY <1>9 DEF SidechainFails, PinRefused, Commit
  <2>2. RowsShed
    BY <2>1, UpdatedRowsShed
  <2>3. QED
    BY <1>3, <1>9, <2>2 DEF SidechainFails, PinRefused, Commit
<1>10. ASSUME \A o \in Requests : requests'[o] = AllDropped[o], UNCHANGED rows
       PROVE  Sheds
  BY <1>2, <1>10, Drops DEF Sheds, Stays, GivesUp, Paying
<1>11. ASSUME Crash \/ \E q \in Requests : CrashInRecord(q)
       PROVE  Sheds
  BY <1>10, <1>11 DEF Crash, CrashInRecord
<1>12. ASSUME NEW q \in Requests, CrashInCommit(q)
       PROVE  Sheds
  <2>1. RowsShed
    <3>1. \/ UNCHANGED rows
          \/ \E new \in {PaidRow(rows[requests[q].res]), UploadedRow(rows[requests[q].res]),
                          CancelledRow(rows[requests[q].res])} :
                rows' = [rows EXCEPT ![requests[q].res] = new]
      BY <1>12 DEF CrashInCommit
    <3>2. QED
      BY <1>2, <3>1, UpdatedRowsShed
  <2>2. ASSUME NEW o \in Requests, o # q
        PROVE  requests'[o] = AllDropped[o]
    BY <1>12, <2>2, AllDroppedType DEF CrashInCommit
  <2>3. requests'[q].res = requests[q].res
    <3>1. AllDropped[q] \in Request /\ requests[q] \in Request
      BY AllDroppedType DEF TypeOK
    <3>2. requests'[q] = [AllDropped[q] EXCEPT !.at = "half"]
      BY <1>12, AllDroppedType DEF CrashInCommit
    <3>3. AllDropped[q].res = requests[q].res
      BY <3>1 DEF AllDropped, Request
    <3>4. QED
      BY <3>1, <3>2, <3>3 DEF Request
  <2>4. Paying(q)
    BY <1>12 DEF CrashInCommit, Paying
  <2>5. \A o \in Requests : Paying(o)' => Paying(o) /\ requests'[o].res = requests[o].res
    BY <2>2, <2>3, <2>4, Drops DEF Stays, GivesUp, Paying
  <2>6. QED
    BY <2>1, <2>5 DEF Sheds
<1>13. ASSUME NEW q \in Requests, RecordThrows(q) \/ CommitThrows(q)
       PROVE  Sheds
  <2>1. \/ UNCHANGED rows
        \/ \E new \in {PaidRow(rows[requests[q].res]), UploadedRow(rows[requests[q].res]),
                        CancelledRow(rows[requests[q].res])} :
              rows' = [rows EXCEPT ![requests[q].res] = new]
    BY <1>13 DEF RecordThrows, CommitThrows
  <2>2. RowsShed
    BY <1>2, <2>1, UpdatedRowsShed
  <2>3. QED
    BY <1>3, <1>13, <2>2 DEF RecordThrows, CommitThrows
<1>14. QED
  BY <1>1, <1>5, <1>6, <1>7, <1>8, <1>9, <1>11, <1>12, <1>13
     DEF Next, Answer, Die, vars, Pay, SidechainDecides, SetExempt, SetBarred

\* Fewer rows that hold and fewer uploads that pay: no more was promised.
LEMMA PromisesShrink ==
    ASSUME NEW R \in SUBSET Reservations,
           NEW H \in SUBSET Holding(R), NEW Q \in SUBSET PayingIn(R)
    PROVE  Cardinality(H) + Cardinality(Q) <= Promised(R)
  BY PromisedParts, SmallerSums

\* The room of a reservation goes to its upload.
LEMMA PromiseMoves ==
    ASSUME NEW R \in SUBSET Reservations, NEW r \in Holding(R), NEW q,
           NEW H \in SUBSET (Holding(R) \ {r}), NEW Q \in SUBSET (PayingIn(R) \cup {q})
    PROVE  Cardinality(H) + Cardinality(Q) <= Promised(R)
<1> DEFINE S == Holding(R) \ {r}
           T == PayingIn(R) \cup {q}
<1>1. /\ Promised(R) = Cardinality(Holding(R)) + Cardinality(PayingIn(R))
      /\ IsFiniteSet(Holding(R)) /\ IsFiniteSet(PayingIn(R))
      /\ Cardinality(Holding(R)) \in Nat /\ Cardinality(PayingIn(R)) \in Nat
  BY PromisedParts
<1>2. IsFiniteSet(S) /\ Cardinality(S) = Cardinality(Holding(R)) - 1
  BY <1>1, FS_RemoveElement
<1>3. IsFiniteSet(T) /\ (\/ Cardinality(T) = Cardinality(PayingIn(R))
                         \/ Cardinality(T) = Cardinality(PayingIn(R)) + 1)
  BY <1>1, FS_AddElement
<1>4. H \in SUBSET S /\ Q \in SUBSET T
  OBVIOUS
<1> HIDE DEF S, T
<1>5. Cardinality(H) + Cardinality(Q) <= Cardinality(S) + Cardinality(T)
  BY <1>2, <1>3, <1>4, SmallerSums
<1>6. /\ Cardinality(H) \in Nat /\ Cardinality(Q) \in Nat
      /\ Cardinality(S) \in Nat /\ Cardinality(T) \in Nat
  BY <1>2, <1>3, <1>4, FS_Subset, FS_CardinalityType
<1>7. QED
  BY <1>1, <1>2, <1>3, <1>5, <1>6

\* One more row that holds.
LEMMA PromiseAdds ==
    ASSUME NEW R \in SUBSET Reservations, NEW r,
           NEW H \in SUBSET (Holding(R) \cup {r}), NEW Q \in SUBSET PayingIn(R)
    PROVE  Cardinality(H) + Cardinality(Q) <= Promised(R) + 1
<1> DEFINE S == Holding(R) \cup {r}
           T == PayingIn(R)
<1>1. /\ Promised(R) = Cardinality(Holding(R)) + Cardinality(T)
      /\ IsFiniteSet(Holding(R)) /\ IsFiniteSet(T)
      /\ Cardinality(Holding(R)) \in Nat /\ Cardinality(T) \in Nat
  BY PromisedParts
<1>2. IsFiniteSet(S) /\ (\/ Cardinality(S) = Cardinality(Holding(R))
                         \/ Cardinality(S) = Cardinality(Holding(R)) + 1)
  BY <1>1, FS_AddElement
<1>3. H \in SUBSET S /\ Q \in SUBSET T
  OBVIOUS
<1> HIDE DEF S, T
<1>4. Cardinality(H) + Cardinality(Q) <= Cardinality(S) + Cardinality(T)
  BY <1>1, <1>2, <1>3, SmallerSums
<1>5. /\ Cardinality(H) \in Nat /\ Cardinality(Q) \in Nat
      /\ Cardinality(S) \in Nat
  BY <1>1, <1>2, <1>3, FS_Subset, FS_CardinalityType
<1>6. QED
  BY <1>1, <1>2, <1>4, <1>5

LimitStep ==
    /\ Promised(Reservations) <= DiskLimit /\ Promised(Reservations)' > DiskLimit
         => ReservesBeside(Reservations) \/ PaysLate(Reservations)
    /\ \A a \in Accounts :
          Promised(OwnedBy(a)) <= Cap /\ Promised(OwnedBy(a))' > Cap
            => ReservesBeside(OwnedBy(a)) \/ PaysLate(OwnedBy(a))

\* It is enough that the step's promises stay within the old ones, or within the
\* limit, unless it is one of the two exceptions.
LEMMA LimitStepSuffices ==
    ASSUME \/ Promised(Reservations)' <= Promised(Reservations)
           \/ Promised(Reservations)' <= DiskLimit
           \/ ReservesBeside(Reservations) \/ PaysLate(Reservations),
           \A a \in Accounts :
              \/ Promised(OwnedBy(a))' <= Promised(OwnedBy(a))
              \/ Promised(OwnedBy(a))' <= Cap
              \/ ReservesBeside(OwnedBy(a)) \/ PaysLate(OwnedBy(a))
    PROVE  LimitStep
<1>1. DiskLimit \in Nat /\ Cap \in Nat
  BY UploadAssumption
<1>2. ASSUME NEW R \in SUBSET Reservations
      PROVE  Promised(R) \in Nat
  BY PromisedParts
<1>3. \A a : OwnedBy(a) \in SUBSET Reservations
  BY DEF OwnedBy
<1>4. Promised(Reservations) \in Nat /\ \A a \in Accounts : Promised(OwnedBy(a)) \in Nat
  BY <1>2, <1>3
<1>5. /\ Promised(Reservations)' \in Nat
      /\ \A a \in Accounts : Promised(OwnedBy(a))' \in Nat
  <2>1. ASSUME NEW H \in SUBSET Reservations, NEW Q \in SUBSET Requests
        PROVE  Cardinality(H) + Cardinality(Q) \in Nat
    BY UploadAssumption, FS_Subset, FS_CardinalityType
  <2>2. /\ Holding(Reservations)' \in SUBSET Reservations
        /\ PayingIn(Reservations)' \in SUBSET Requests
    BY DEF Holding, PayingIn
  <2>3. ASSUME NEW a \in Accounts
        PROVE  /\ Holding(OwnedBy(a))' \in SUBSET Reservations
               /\ PayingIn(OwnedBy(a))' \in SUBSET Requests
    BY DEF Holding, PayingIn, OwnedBy
  <2>4. QED
    BY <2>1, <2>2, <2>3, PromisedPartsNext
<1>6. QED
  BY <1>1, <1>4, <1>5 DEF LimitStep

LEMMA ShedsKeepsLimits ==
    ASSUME Sheds
    PROVE  LimitStep
<1>1. \A a \in Accounts : OwnedBy(a) \in SUBSET Reservations /\ OwnedBy(a)' = OwnedBy(a)
  BY DEF Sheds, OwnedBy
<1>2. /\ Holding(Reservations)' \in SUBSET Holding(Reservations)
      /\ PayingIn(Reservations)' \in SUBSET PayingIn(Reservations)
  BY DEF Sheds, Holding, PayingIn
<1>3. ASSUME NEW a \in Accounts
      PROVE  /\ Holding(OwnedBy(a))' \in SUBSET Holding(OwnedBy(a))
             /\ PayingIn(OwnedBy(a))' \in SUBSET PayingIn(OwnedBy(a))
  BY <1>1 DEF Sheds, Holding, PayingIn
<1>4. Promised(Reservations)' <= Promised(Reservations)
  BY <1>2, PromisesShrink, PromisedPartsNext
<1>5. ASSUME NEW a \in Accounts
      PROVE  Promised(OwnedBy(a))' <= Promised(OwnedBy(a))
  BY <1>1, <1>3, PromisesShrink, PromisedPartsNext
<1>6. QED
  BY <1>4, <1>5, LimitStepSuffices

LEMMA RecordKeepsLimits ==
    ASSUME UInv, NEW q \in Requests, Record(q)
    PROVE  LimitStep
<1> DEFINE r == requests[q].res
<1>1. TypeOK /\ Working
  BY DEF UInv
<1>2. requests[q].at \in {"proving", "verifying"}
  BY DEF Record, Accepted
<1>3. r \in Reservations /\ rows[r] \in Row
  BY <1>1, <1>2 DEF Working, InFlight, TypeOK
<1>4. /\ requests'[q].at = "pinning" /\ SameFields(q)
      /\ \A o \in Requests \ {q} : Stays(o)
  BY <1>1, AtMoves DEF Record
<1>5. /\ rows'[r] = PaidRow(rows[r])
      /\ \A s \in Reservations \ {r} : rows'[s] = rows[s]
  BY <1>1, <1>3 DEF Record, TypeOK
<1>6. /\ rows'[r].status # "pending" /\ rows'[r].owner = rows[r].owner
  BY <1>3, <1>5 DEF PaidRow, Row
<1> HIDE DEF r
<1>7. \A s \in Reservations : Holds(s)' => Holds(s) /\ s # r
  BY <1>5, <1>6 DEF Holds
<1>8. \A o \in Requests : requests'[o].res = requests[o].res /\ (Paying(o)' => Paying(o) \/ o = q)
  BY <1>4 DEF SameFields, Stays, Paying
<1>9. requests[q].res = r
  BY DEF r
<1>10. \A a \in Accounts : OwnedBy(a) \in SUBSET Reservations /\ OwnedBy(a)' = OwnedBy(a)
  BY <1>5, <1>6 DEF OwnedBy
<1>11. /\ Holding(Reservations)' \in SUBSET (Holding(Reservations) \ {r})
       /\ PayingIn(Reservations)' \in SUBSET (PayingIn(Reservations) \cup {q})
  BY <1>7, <1>8 DEF Holding, PayingIn
<1>12. ASSUME NEW a \in Accounts
       PROVE  /\ Holding(OwnedBy(a))' \in SUBSET (Holding(OwnedBy(a)) \ {r})
              /\ PayingIn(OwnedBy(a))' \in SUBSET (PayingIn(OwnedBy(a)) \cup {q})
              /\ r \notin OwnedBy(a) => PayingIn(OwnedBy(a))' \in SUBSET PayingIn(OwnedBy(a))
  BY <1>7, <1>8, <1>9, <1>10 DEF Holding, PayingIn
<1>13. CASE ~Holds(r)
  <2>1. PaysLate(Reservations)
    BY <1>2, <1>3, <1>4, <1>9, <1>13 DEF PaysLate
  <2>2. ASSUME NEW a \in Accounts
        PROVE  Promised(OwnedBy(a))' <= Promised(OwnedBy(a)) \/ PaysLate(OwnedBy(a))
    <3>1. CASE r \in OwnedBy(a)
      BY <1>2, <1>4, <1>9, <1>13, <3>1 DEF PaysLate
    <3>2. CASE r \notin OwnedBy(a)
      <4>1. /\ Holding(OwnedBy(a))' \in SUBSET Holding(OwnedBy(a))
            /\ PayingIn(OwnedBy(a))' \in SUBSET PayingIn(OwnedBy(a))
        BY <1>12, <3>2
      <4>2. QED
        BY <1>10, <4>1, PromisesShrink, PromisedPartsNext
    <3>3. QED
      BY <3>1, <3>2
  <2>3. QED
    BY <2>1, <2>2, LimitStepSuffices
<1>14. CASE Holds(r)
  <2>1. r \in Holding(Reservations)
    BY <1>3, <1>14 DEF Holding
  <2>2. Promised(Reservations)' <= Promised(Reservations)
    BY <1>11, <2>1, PromiseMoves, PromisedPartsNext
  <2>3. ASSUME NEW a \in Accounts
        PROVE  Promised(OwnedBy(a))' <= Promised(OwnedBy(a))
    <3>1. CASE r \in OwnedBy(a)
      <4>1. r \in Holding(OwnedBy(a))
        BY <1>14, <3>1 DEF Holding
      <4>2. QED
        BY <1>10, <1>12, <4>1, PromiseMoves, PromisedPartsNext
    <3>2. CASE r \notin OwnedBy(a)
      <4>1. /\ Holding(OwnedBy(a))' \in SUBSET Holding(OwnedBy(a))
            /\ PayingIn(OwnedBy(a))' \in SUBSET PayingIn(OwnedBy(a))
        BY <1>12, <3>2
      <4>2. QED
        BY <1>10, <4>1, PromisesShrink, PromisedPartsNext
    <3>3. QED
      BY <3>1, <3>2
  <2>4. QED
    BY <2>2, <2>3, LimitStepSuffices
<1>15. QED
  BY <1>13, <1>14

\* A reservation is made within both limits, as the node counts; it miscounts only
\* what is being pinned.
LEMMA ReserveKeepsLimits ==
    ASSUME UInv, NEW r \in Reservations, NEW a0 \in Accounts, Reserve(r, a0)
    PROVE  LimitStep
<1>1. TypeOK /\ Working
  BY DEF UInv
<1>2. /\ rows[r].status = "none" /\ UNCHANGED requests
      /\ DiskUsed + 1 <= DiskLimit /\ AccountUsed(a0) + 1 <= Cap
  BY DEF Reserve
<1>3. /\ rows'[r].status = "pending" /\ rows'[r].owner = a0
      /\ \A s \in Reservations \ {r} : rows'[s] = rows[s]
  BY <1>1 DEF Reserve, TypeOK
<1>4. \A q \in Requests : Paying(q) => requests[q].res \in Reservations \ {r}
  <2>1. ASSUME NEW q \in Requests, Paying(q)
        PROVE  requests[q].res \in Reservations /\ rows[requests[q].res].status # "none"
    BY <1>1, <2>1 DEF Working, Paying, InFlight
  <2>2. QED
    BY <1>2, <2>1
<1>5. \A q \in Requests : Paying(q)' <=> Paying(q)
  BY <1>2 DEF Paying
<1>6. \A s \in Reservations \ {r} : Holds(s)' <=> Holds(s)
  BY <1>3 DEF Holds
<1>7. Holding(Reservations)' \in SUBSET (Holding(Reservations) \cup {r})
  BY <1>6 DEF Holding
<1>8. PayingIn(Reservations)' \in SUBSET PayingIn(Reservations)
  BY <1>2, <1>5 DEF PayingIn
<1>9. ASSUME NEW R \in SUBSET Reservations,
             ~ \E q \in Requests : requests[q].at = "pinning" /\ requests[q].res \in R
      PROVE  PayingIn(R) = {q \in Pinned : requests[q].res \in R}
  BY <1>9 DEF PayingIn, Pinned, Paying
<1>10. \A a \in Accounts : OwnedBy(a) \in SUBSET Reservations
  BY DEF OwnedBy
<1>11. \/ Promised(Reservations)' <= DiskLimit
       \/ ReservesBeside(Reservations)
  <2> SUFFICES ASSUME ~ReservesBeside(Reservations)
               PROVE  Promised(Reservations)' <= DiskLimit
    OBVIOUS
  <2>1. ~ \E q \in Requests : requests[q].at = "pinning" /\ requests[q].res \in Reservations
    BY <1>2, <1>3 DEF ReservesBeside
  <2>2. PayingIn(Reservations) = Pinned
    <3>1. \A q \in Pinned : Paying(q) /\ q \in Requests
      BY DEF Pinned, Paying
    <3>2. QED
      BY <1>4, <1>9, <2>1, <3>1
  <2>3. DiskUsed = Promised(Reservations)
    BY <2>2, PromisedParts DEF DiskUsed, Holding
  <2>4. Promised(Reservations)' <= Promised(Reservations) + 1
    BY <1>7, <1>8, PromiseAdds, PromisedPartsNext
  <2>5. Promised(Reservations) \in Nat /\ DiskLimit \in Nat
    BY PromisedParts, UploadAssumption
  <2>6. Promised(Reservations)' \in Nat
    <3>1. /\ Holding(Reservations)' \in SUBSET Reservations
          /\ PayingIn(Reservations)' \in SUBSET Requests
      BY DEF Holding, PayingIn
    <3>2. QED
      BY <3>1, UploadAssumption, FS_Subset, FS_CardinalityType, PromisedPartsNext
  <2>7. QED
    BY <1>2, <2>3, <2>4, <2>5, <2>6
<1>12. ASSUME NEW a \in Accounts, a # a0
       PROVE  Promised(OwnedBy(a))' <= Promised(OwnedBy(a))
  <2>1. OwnedBy(a)' \in SUBSET OwnedBy(a) /\ r \notin OwnedBy(a)'
    BY <1>3, <1>12 DEF OwnedBy
  <2>2. /\ Holding(OwnedBy(a))' \in SUBSET Holding(OwnedBy(a))
        /\ PayingIn(OwnedBy(a))' \in SUBSET PayingIn(OwnedBy(a))
    <3>1. Holding(OwnedBy(a))' \in SUBSET Holding(OwnedBy(a))
      BY <1>6, <1>10, <2>1 DEF Holding
    <3>2. PayingIn(OwnedBy(a))' \in SUBSET PayingIn(OwnedBy(a))
      BY <1>2, <1>5, <2>1 DEF PayingIn
    <3>3. QED
      BY <3>1, <3>2
  <2>3. QED
    BY <1>10, <2>2, PromisesShrink, PromisedPartsNext
<1>13. \/ Promised(OwnedBy(a0))' <= Cap
       \/ ReservesBeside(OwnedBy(a0))
  <2> SUFFICES ASSUME ~ReservesBeside(OwnedBy(a0))
               PROVE  Promised(OwnedBy(a0))' <= Cap
    OBVIOUS
  <2>1. ~ \E q \in Requests : requests[q].at = "pinning" /\ requests[q].res \in OwnedBy(a0)
    BY <1>2, <1>3 DEF ReservesBeside
  <2>2. PayingIn(OwnedBy(a0)) = {q \in Pinned : rows[requests[q].res].owner = a0}
    <3>1. \A q \in Pinned : requests[q].res \in Reservations
      BY <1>4 DEF Pinned, Paying
    <3>2. \A q \in Pinned : requests[q].res \in OwnedBy(a0)
                              <=> rows[requests[q].res].owner = a0
      BY <3>1 DEF OwnedBy
    <3>3. PayingIn(OwnedBy(a0)) = {q \in Pinned : requests[q].res \in OwnedBy(a0)}
      BY <1>9, <1>10, <2>1
    <3>4. QED
      BY <3>2, <3>3
  <2>3. Holding(OwnedBy(a0)) = {s \in Reservations : Holds(s) /\ rows[s].owner = a0}
    BY DEF Holding, OwnedBy
  <2>4. AccountUsed(a0) = Promised(OwnedBy(a0))
    <3>1. AccountUsed(a0) = Cardinality(PayingIn(OwnedBy(a0)))
                              + Cardinality(Holding(OwnedBy(a0)))
      BY <2>2, <2>3 DEF AccountUsed, PendingCount
    <3>2. QED
      BY <1>10, <3>1, PromisedParts
  <2>5. /\ Holding(OwnedBy(a0))' \in SUBSET (Holding(OwnedBy(a0)) \cup {r})
        /\ PayingIn(OwnedBy(a0))' \in SUBSET PayingIn(OwnedBy(a0))
    <3>1. OwnedBy(a0)' \in SUBSET (OwnedBy(a0) \cup {r})
      BY <1>3 DEF OwnedBy
    <3>2. OwnedBy(a0)' \in SUBSET Reservations
      BY DEF OwnedBy
    <3>3. Holding(OwnedBy(a0))' \in SUBSET (Holding(OwnedBy(a0)) \cup {r})
      BY <1>6, <3>1, <3>2 DEF Holding
    <3>4. PayingIn(OwnedBy(a0))' \in SUBSET PayingIn(OwnedBy(a0))
      BY <1>2, <1>4, <1>5, <3>1 DEF PayingIn
    <3>5. QED
      BY <3>3, <3>4
  <2>6. Promised(OwnedBy(a0))' <= Promised(OwnedBy(a0)) + 1
    BY <1>10, <2>5, PromiseAdds, PromisedPartsNext
  <2>7. Promised(OwnedBy(a0)) \in Nat /\ Cap \in Nat
    BY <1>10, PromisedParts, UploadAssumption
  <2>8. Promised(OwnedBy(a0))' \in Nat
    <3>1. /\ Holding(OwnedBy(a0))' \in SUBSET Reservations
          /\ PayingIn(OwnedBy(a0))' \in SUBSET Requests
      BY DEF Holding, PayingIn, OwnedBy
    <3>2. QED
      BY <3>1, UploadAssumption, FS_Subset, FS_CardinalityType, PromisedPartsNext
  <2>9. QED
    BY <1>2, <2>4, <2>6, <2>7, <2>8
<1>14. QED
  BY <1>11, <1>12, <1>13, LimitStepSuffices

\* For any limits, and any number of requests, reservations and crashes: the disk
\* limit and an account's cap are passed only by a reservation made beside an
\* upload that is being pinned, or by a payment for a reservation that no longer
\* holds (quota.js:101-113, 195-215; server.js:607-822).
THEOREM LimitsHoldBeforeUploads == Spec => LimitsYieldToUploads
<1>1. UInv /\ [Next]_vars => LimitStep
  <2> SUFFICES ASSUME UInv, [Next]_vars PROVE LimitStep
    OBVIOUS
  <2>1. TypeOK
    BY DEF UInv
  <2>2. QED
    BY <2>1, StepReservesPaysOrSheds, ReserveKeepsLimits, RecordKeepsLimits,
       ShedsKeepsLimits
<1>2. QED
  BY <1>1, UploadInvariant, PTL DEF Spec, LimitsYieldToUploads, LimitStep

-----------------------------------------------------------------------------
(* Reservations left behind *)

\* A request pins for r, or was cut short on the way.
PinsFor(q, r) ==
    /\ requests[q].res = r
    /\ requests[q].at \in {"pinning", "dropped", "half", "threw"}

\* A reservation is 'paid' only while a request pins for it, or after one was cut
\* short.
PaidIsPinning ==
    \A r \in Reservations :
        rows[r].status = "paid" => \E q \in Requests : PinsFor(q, r)

\* A status is written by name.
LEMMA RowStatus ==
    ASSUME TypeOK, NEW r \in Reservations, NEW new \in Row,
           rows' = [rows EXCEPT ![r] = new]
    PROVE  rows'[r].status = new.status /\ \A s \in Reservations \ {r} : rows'[s] = rows[s]
BY DEF TypeOK

LEMMA NotPaid ==
    ASSUME NEW row \in Row
    PROVE  /\ CancelledRow(row) \in Row /\ CancelledRow(row).status # "paid"
           /\ UploadedRow(row) \in Row /\ UploadedRow(row).status # "paid"
<1>1. CancelledRow(row) \in Row /\ UploadedRow(row) \in Row
  BY RowUpdates
<1>2. /\ UploadedRow(row).status = IF row.status = "paid" THEN "uploaded" ELSE row.status
      /\ CancelledRow(row).status =
            IF row.status \in {"pending", "paid"} THEN "cancelled" ELSE row.status
  BY DEF UploadedRow, CancelledRow, Row
<1> QED BY <1>1, <1>2

\* A request goes on pinning for its reservation, or is cut short.
Carries(q) == \A r \in Reservations : PinsFor(q, r) => PinsFor(q, r)'

LEMMA StaysCarries == \A q \in Requests : Stays(q) => Carries(q)
BY DEF Stays, Carries, PinsFor

\* A row that is paid after a step was paid before it or has a request for it now,
\* and no request lets go of its own.
LEMMA NoneMarked ==
    ASSUME PaidIsPinning,
           \A r \in Reservations :
              \/ rows'[r].status = "paid" => rows[r].status = "paid"
              \/ \E q \in Requests : PinsFor(q, r)',
           \A q \in Requests : Carries(q)
    PROVE  PaidIsPinning'
BY DEF PaidIsPinning, Carries

\* A request that moves to a place where it was cut short, or leaves one where it
\* did not pin, carries on.
LEMMA AtCarries ==
    ASSUME TypeOK, NEW q \in Requests, NEW where, requests' = At(q, where),
           \/ where \in {"pinning", "half", "threw"}
           \/ requests[q].at \notin {"pinning", "dropped", "half", "threw"}
    PROVE  \A o \in Requests : Carries(o)
<1>1. /\ requests'[q].at = where /\ SameFields(q)
      /\ \A o \in Requests \ {q} : Stays(o)
  BY AtMoves
<1>2. Carries(q)
  BY <1>1 DEF Carries, PinsFor, SameFields
<1> QED BY <1>1, <1>2, StaysCarries

LEMMA DropCarries ==
    ASSUME TypeOK, NEW q \in Requests, requests'[q] = AllDropped[q]
    PROVE  Carries(q)
<1>1. requests[q] \in Request
  BY DEF TypeOK
<1>2. CASE requests[q].at \in InFlight
  <2>1. requests'[q] = [requests[q] EXCEPT !.at = "dropped"]
    BY <1>2 DEF AllDropped
  <2> QED BY <1>1, <2>1 DEF Carries, PinsFor, Request
<1>3. CASE requests[q].at \notin InFlight
  BY <1>3 DEF AllDropped, Carries, PinsFor
<1> QED BY <1>2, <1>3

LEMMA PaidIsPinningStep == UInv /\ PaidIsPinning /\ [Next]_vars => PaidIsPinning'
<1> SUFFICES ASSUME UInv, PaidIsPinning, [Next]_vars PROVE PaidIsPinning'
  OBVIOUS
<1>a. TypeOK /\ Working
  BY DEF UInv
<1>b. \A r \in Reservations : rows[r] \in Row
  BY <1>a DEF TypeOK
<1>1. CASE UNCHANGED <<rows, requests>>
  BY <1>1, NoneMarked, StaysCarries DEF Stays
<1>2. CASE \/ \E r \in Reservations, a \in Accounts : Reserve(r, a)
           \/ \E r \in Reservations : Lapse(r)
           \/ SweepReservations
  <2>1. UNCHANGED requests
    BY <1>2 DEF Reserve, Lapse, SweepReservations
  <2>2. ASSUME NEW s \in Reservations, rows'[s].status = "paid"
        PROVE  rows[s].status = "paid"
    <3>1. ASSUME NEW r \in Reservations, NEW a \in Accounts, Reserve(r, a)
          PROVE  rows[s].status = "paid"
      BY <1>a, <2>2, <3>1 DEF TypeOK, Reserve
    <3>2. ASSUME NEW r \in Reservations, Lapse(r) PROVE rows[s].status = "paid"
      <4>1. [rows[r] EXCEPT !.lapsed = TRUE].status = rows[r].status
        BY <1>b DEF Row
      <4>2. rows'[s] = IF s = r THEN [rows[r] EXCEPT !.lapsed = TRUE] ELSE rows[s]
        BY <1>a, <3>2 DEF TypeOK, Lapse
      <4> QED BY <2>2, <4>1, <4>2
    <3>3. CASE SweepReservations
      <4>1. rows'[s] = rows[s] \/ rows'[s] = [rows[s] EXCEPT !.status = "expired"]
        BY <3>3 DEF SweepReservations
      <4>2. [rows[s] EXCEPT !.status = "expired"].status = "expired"
        BY <1>b DEF Row
      <4> QED BY <2>2, <4>1, <4>2
    <3> QED BY <1>2, <3>1, <3>2, <3>3
  <2> QED BY <2>1, <2>2, NoneMarked, StaysCarries DEF Stays
<1>3. ASSUME NEW q \in Requests, NEW r \in Reservations, NEW p \in PayIds, Start(q, r, p)
      PROVE  PaidIsPinning'
  <2>1. UNCHANGED rows /\ requests[q].at = "idle"
    BY <1>3 DEF Start
  <2>2. \A o \in Requests \ {q} : Stays(o)
    BY <1>3, <1>a DEF Start, Stays, TypeOK
  <2>3. \A o \in Requests : Carries(o)
    BY <2>1, <2>2, StaysCarries DEF Carries, PinsFor
  <2> QED BY <2>1, <2>3, NoneMarked
<1>4. ASSUME NEW q \in Requests,
             \/ BadProof(q) \/ Replayed(q) \/ VerifyPayment(q) \/ PaymentRefused(q)
             \/ RecordThrows(q)
      PROVE  PaidIsPinning'
  <2>1. /\ UNCHANGED rows
        /\ requests[q].at \in {"proving", "verifying"}
        /\ \E where : requests' = At(q, where)
    BY <1>4 DEF BadProof, Replayed, VerifyPayment, PaymentRefused, RecordThrows, Accepted
  <2>2. \A o \in Requests : Carries(o)
    BY <1>a, <2>1, AtCarries
  <2> QED BY <2>1, <2>2, NoneMarked
<1>5. ASSUME NEW q \in Requests, SidechainFails(q) \/ PinRefused(q) \/ Commit(q)
      PROVE  PaidIsPinning'
  <2>1. PICK r \in Reservations : r = requests[q].res
    BY <1>5, <1>a DEF SidechainFails, PinRefused, Commit, Working, InFlight
  <2>2. /\ \E where : requests' = At(q, where)
        /\ \E new \in {CancelledRow(rows[r]), UploadedRow(rows[r])} :
              rows' = [rows EXCEPT ![r] = new]
    BY <1>5, <2>1 DEF SidechainFails, PinRefused, Commit
  <2>3. rows'[r].status # "paid" /\ \A s \in Reservations \ {r} : rows'[s] = rows[s]
    <3>1. PICK new \in {CancelledRow(rows[r]), UploadedRow(rows[r])} :
             rows' = [rows EXCEPT ![r] = new]
      BY <2>2
    <3>2. new \in Row /\ new.status # "paid"
      BY <1>b, <2>1, <3>1, NotPaid
    <3> QED BY <1>a, <2>1, <3>1, <3>2, RowStatus
  <2>4. \A o \in Requests \ {q} : Stays(o)
    BY <1>a, <2>2, AtMoves
  <2>5. ASSUME NEW s \in Reservations, rows'[s].status = "paid"
        PROVE  \E o \in Requests : PinsFor(o, s)'
    <3>1. s # r /\ rows[s].status = "paid"
      BY <2>3, <2>5
    <3>2. PICK o \in Requests : PinsFor(o, s)
      BY <3>1 DEF PaidIsPinning
    <3>3. o # q
      BY <2>1, <3>1, <3>2 DEF PinsFor
    <3>4. Carries(o)
      BY <2>4, <3>3, StaysCarries
    <3> QED BY <3>2, <3>4 DEF Carries
  <2> QED BY <2>5 DEF PaidIsPinning
<1>6. ASSUME NEW q \in Requests, Record(q) PROVE PaidIsPinning'
  <2>1. PICK r \in Reservations : r = requests[q].res
    BY <1>6, <1>a DEF Record, Accepted, Working, InFlight
  <2>2. /\ requests' = At(q, "pinning")
        /\ rows' = [rows EXCEPT ![r] = PaidRow(rows[r])]
    BY <1>6, <2>1 DEF Record
  <2>3. \A s \in Reservations \ {r} : rows'[s] = rows[s]
    <3>1. PaidRow(rows[r]) \in Row
      BY <1>b, <2>1, RowUpdates
    <3> QED BY <1>a, <2>1, <2>2, <3>1, RowStatus
  <2>4. PinsFor(q, r)'
    BY <1>a, <2>1, <2>2, AtMoves DEF PinsFor, SameFields
  <2>5. \A o \in Requests : Carries(o)
    BY <1>a, <2>2, AtCarries
  <2> QED BY <2>3, <2>4, <2>5, NoneMarked
<1>7. ASSUME NEW q \in Requests, CommitThrows(q) PROVE PaidIsPinning'
  <2>1. PICK r \in Reservations : r = requests[q].res
    BY <1>7, <1>a DEF CommitThrows, Working, InFlight
  <2>2. /\ \E where \in {"half", "threw"} : requests' = At(q, where)
        /\ rows' = rows \/ rows' = [rows EXCEPT ![r] = UploadedRow(rows[r])]
    BY <1>7, <2>1 DEF CommitThrows
  <2>3. \A o \in Requests : Carries(o)
    BY <1>a, <2>2, AtCarries
  <2>4. \A s \in Reservations : rows'[s].status = "paid" => rows[s].status = "paid"
    BY <1>a, <1>b, <2>1, <2>2, NotPaid, RowStatus
  <2> QED BY <2>3, <2>4, NoneMarked
<1>8. CASE Crash \/ \E q \in Requests : CrashInRecord(q)
  <2>1. UNCHANGED rows /\ requests' = AllDropped
    BY <1>8 DEF Crash, CrashInRecord
  <2> QED BY <1>a, <2>1, DropCarries, NoneMarked
<1>9. ASSUME NEW q \in Requests, CrashInCommit(q) PROVE PaidIsPinning'
  <2>1. PICK r \in Reservations : r = requests[q].res
    BY <1>9, <1>a DEF CrashInCommit, Working, InFlight
  <2>2. /\ requests' = [AllDropped EXCEPT ![q].at = "half"]
        /\ rows' = rows \/ rows' = [rows EXCEPT ![r] = UploadedRow(rows[r])]
    BY <1>9, <2>1 DEF CrashInCommit
  <2>3. ASSUME NEW o \in Requests, o # q PROVE Carries(o)
    <3>1. requests'[o] = AllDropped[o]
      BY <1>a, <2>2, <2>3, AllDroppedType
    <3> QED BY <1>a, <3>1, DropCarries
  <2>4. Carries(q)
    <3>1. AllDropped[q] \in Request /\ requests[q] \in Request
      BY <1>a, AllDroppedType DEF TypeOK
    <3>2. requests'[q] = [AllDropped[q] EXCEPT !.at = "half"]
      BY <1>a, <2>2, AllDroppedType
    <3>3. AllDropped[q].res = requests[q].res
      BY <3>1 DEF AllDropped, Request
    <3> QED BY <3>1, <3>2, <3>3 DEF Carries, PinsFor, Request
  <2>5. \A s \in Reservations : rows'[s].status = "paid" => rows[s].status = "paid"
    BY <1>a, <1>b, <2>1, <2>2, NotPaid, RowStatus
  <2> QED BY <2>3, <2>4, <2>5, NoneMarked
<1> QED BY <1>1, <1>2, <1>3, <1>4, <1>5, <1>6, <1>7, <1>8, <1>9
        DEF Next, Answer, Die, Pay, SidechainDecides, SetExempt, SetBarred, vars

\* However many requests share a reservation, and whatever refuses them, no
\* reservation is left 'paid' with nobody working on it, where no later upload and
\* no sweep would find it, unless a request for that reservation was cut short by a
\* crash or by an exception (server.js:806-930).
THEOREM OnlyCutShortLeavePaid == Spec => []AbandonedWasCutShort
<1>1. Init => PaidIsPinning
  BY DEF Init, PaidIsPinning
<1>2. PaidIsPinning => AbandonedWasCutShort
  <2> SUFFICES ASSUME PaidIsPinning, NEW r \in Reservations, Abandoned(r)
               PROVE  CutShort(r)
    BY DEF AbandonedWasCutShort
  <2>1. PICK q \in Requests : PinsFor(q, r)
    BY DEF Abandoned, PaidIsPinning
  <2>2. requests[q].at # "pinning"
    BY <2>1 DEF Abandoned, PinsFor, InFlight
  <2> QED BY <2>1, <2>2 DEF CutShort, PinsFor
<1> QED BY <1>1, <1>2, UploadInvariant, PaidIsPinningStep, PTL DEF Spec
=============================================================================
