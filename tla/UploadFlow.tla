------------------------------ MODULE UploadFlow ------------------------------
(***************************************************************************)
(* From quote to hosted file: POST /reserve and POST /upload of            *)
(* src/server.js over the tables reservations, payments and pins.          *)
(*                                                                         *)
(* /upload awaits four times: the hash and signature, the Hive             *)
(* transaction, the Hive-Engine sidechain, the Kubo add.  Between two      *)
(* awaits it runs alone; across one, any other request, the sweeper and an *)
(* admin may run.  Nothing it read before an await is read again except    *)
(* the replay guard, which is the UNIQUE column payments.tx_id.            *)
(*                                                                         *)
(* Every file has size one or is empty: the checks of size in /upload are  *)
(* upper bounds, so a reservation's bytes may turn out to be none, which   *)
(* counts as one here.  The model stops at createOrderWithClaim: what      *)
(* happens to a claim afterwards is HostingLedger's.                       *)
(***************************************************************************)
EXTENDS Naturals, FiniteSets

CONSTANTS
    Accounts,      \* Hive accounts
    Reservations,  \* reservation ids
    Txs,           \* ids of on-chain transfers
    Requests,      \* POST /upload requests
    Nil,           \* a column never written
    DiskLimit,     \* DISK_LIMIT_BYTES
    Cap,           \* whitelisted_accounts.quota_bytes, one cap for everybody
    MaxPending,    \* RESERVATION_PER_ACCOUNT_MAX
    MaxCrashes     \* bound: how often the node dies

ASSUME UploadAssumption ==
    /\ IsFiniteSet(Reservations) /\ IsFiniteSet(Requests)
    /\ {DiskLimit, Cap, MaxPending, MaxCrashes} \subseteq Nat
    /\ Txs \cap Reservations = {}
    /\ Nil \notin Accounts \cup Reservations \cup Txs

VARIABLES
    rows,      \* the reservations table
    payments,  \* the payments table: tx_id -> the reservation it pays
    requests,  \* how far each /upload request has come
    chain,     \* the transfers on Hive and their fate on the sidechain
    exempt,    \* whitelist entries with fee_exempt
    barred,    \* accounts that are banned or not on the whitelist
    crashes    \* crashes so far

vars == <<rows, payments, requests, chain, exempt, barred, crashes>>

\* The tx_id of a fee-exempt upload is "whitelist-free:upload:<reservation>":
\* one per reservation, so the reservation stands for it.
PayIds == Txs \cup Reservations

Status   == {"none", "pending", "paid", "uploaded", "expired", "cancelled"}
Final    == {"uploaded", "expired", "cancelled"}
InFlight == {"proving", "verifying", "pinning"}
Done     == {"hosted", "half", "threw", "refused", "told_retry", "dropped"}

Row     == [status: Status, owner: Accounts \cup {Nil}, free: BOOLEAN,
            lapsed: BOOLEAN]
Request == [at: InFlight \cup Done \cup {"idle"}, res: Reservations \cup {Nil},
            pay: PayIds \cup {Nil}, exempt: BOOLEAN]
Transfer == [memo: Reservations \cup {Nil},
             outcome: {"unsent", "pending", "confirmed", "rejected"}]

TypeOK ==
    /\ rows \in [Reservations -> Row]
    /\ payments \in [PayIds -> Reservations \cup {Nil}]
    /\ requests \in [Requests -> Request]
    /\ chain \in [Txs -> Transfer]
    /\ exempt \subseteq Accounts
    /\ barred \subseteq Accounts
    /\ crashes \in 0 .. MaxCrashes

-----------------------------------------------------------------------------
(* Queries and single-row updates *)

\* A pending row whose expires_at has not passed.
Holds(r) == rows[r].status = "pending" /\ ~rows[r].lapsed

\* getAccountPendingCount
PendingCount(a) == Cardinality({r \in Reservations : Holds(r) /\ rows[r].owner = a})

\* Requests whose createPin ran: their pin row is active.
Pinned == {q \in Requests : requests[q].at \in {"hosted", "half"}}

\* getDiskUsage.used_bytes and getAccountUsage.used_bytes: active pins plus
\* pending reservations.  A reservation that is 'paid' is in neither sum.
DiskUsed == Cardinality(Pinned) + Cardinality({r \in Reservations : Holds(r)})
AccountUsed(a) ==
    Cardinality({q \in Pinned : rows[requests[q].res].owner = a}) + PendingCount(a)

\* markReservationPaid, markReservationUploaded, markReservationCancelled:
\* each UPDATE names the statuses it may leave.
PaidRow_AnyStatus(row)  == [row EXCEPT !.status = "paid"]

PaidRow(row)     == [row EXCEPT !.status = IF @ = "pending" THEN "paid" ELSE @]
UploadedRow(row) == [row EXCEPT !.status = IF @ = "paid" THEN "uploaded" ELSE @]
CancelledRow(row) ==
    [row EXCEPT !.status = IF @ \in {"pending", "paid"} THEN "cancelled" ELSE @]

At(q, where) == [requests EXCEPT ![q].at = where]

\* A dead process answers nobody.
AllDropped == [q \in Requests |-> IF requests[q].at \in InFlight
                                  THEN [requests[q] EXCEPT !.at = "dropped"]
                                  ELSE requests[q]]

-----------------------------------------------------------------------------
(* POST /reserve *)

\* Mutant: the disk limit is not read.
Reserve_NoDiskLimit(r, a) ==
    /\ rows[r].status = "none"
    /\ a \notin barred
    /\ PendingCount(a) < MaxPending
    /\ AccountUsed(a) + 1 <= Cap
    /\ rows' = [rows EXCEPT ![r] = [status |-> "pending", owner |-> a,
                                    free |-> a \in exempt, lapsed |-> FALSE]]
    /\ UNCHANGED <<payments, requests, chain, exempt, barred, crashes>>

\* One immediate transaction: the three limits are read and the row written
\* together.  feeExemptEntryFor decides the quote.
Reserve(r, a) ==
    /\ rows[r].status = "none"
    /\ a \notin barred
    /\ PendingCount(a) < MaxPending
    /\ DiskUsed + 1 <= DiskLimit
    /\ AccountUsed(a) + 1 <= Cap
    /\ rows' = [rows EXCEPT ![r] = [status |-> "pending", owner |-> a,
                                    free |-> a \in exempt, lapsed |-> FALSE]]
    /\ UNCHANGED <<payments, requests, chain, exempt, barred, crashes>>

\* The clock passes expires_at.
Lapse(r) ==
    /\ Holds(r)
    /\ rows' = [rows EXCEPT ![r].lapsed = TRUE]
    /\ UNCHANGED <<payments, requests, chain, exempt, barred, crashes>>

\* quota.sweep, the statement on reservations.
SweepReservations ==
    LET lapsed == {r \in Reservations : rows[r].status = "pending" /\ rows[r].lapsed}
    IN /\ lapsed # {}
       /\ rows' = [r \in Reservations |->
                      IF r \in lapsed THEN [rows[r] EXCEPT !.status = "expired"]
                                      ELSE rows[r]]
       /\ UNCHANGED <<payments, requests, chain, exempt, barred, crashes>>

-----------------------------------------------------------------------------
(* POST /upload *)

\* Up to the first await.  A free quote counts only while the account is still
\* exempt; everybody else names a transaction.
Start(q, r, p) ==
    /\ requests[q].at = "idle"
    /\ Holds(r)
    /\ rows[r].owner \notin barred
    /\ LET free == rows[r].free /\ rows[r].owner \in exempt
       IN /\ IF free THEN p = r ELSE p \in Txs
          /\ requests' = [requests EXCEPT ![q] = [at |-> "proving", res |-> r,
                                                  pay |-> p, exempt |-> free]]
    /\ UNCHANGED <<rows, payments, chain, exempt, barred, crashes>>

\* The signature, or for a free upload the posting key, does not verify.
BadProof(q) ==
    /\ requests[q].at = "proving"
    /\ requests' = At(q, "refused")
    /\ UNCHANGED <<rows, payments, chain, exempt, barred, crashes>>

\* getPaymentByTxId finds the transaction, or recordPayment trips over UNIQUE.
Replayed(q) ==
    /\ requests[q].at \in {"proving", "verifying"}
    /\ payments[requests[q].pay] # Nil
    /\ requests' = At(q, "refused")
    /\ UNCHANGED <<rows, payments, chain, exempt, barred, crashes>>

\* The replay check passes and the Hive lookup begins.
VerifyPayment(q) ==
    /\ requests[q].at = "proving"
    /\ ~requests[q].exempt
    /\ payments[requests[q].pay] = Nil
    /\ requests' = At(q, "verifying")
    /\ UNCHANGED <<rows, payments, chain, exempt, barred, crashes>>

\* hive.verifyPayment throws: no such transaction, its sender, amount or memo
\* is not this reservation's, or Hive does not answer.  The reservation stays
\* open.
PaymentRefused(q) ==
    /\ requests[q].at = "verifying"
    /\ requests' = At(q, "refused")
    /\ UNCHANGED <<rows, payments, chain, exempt, barred, crashes>>

PaysFor(t, r) == chain[t].memo = r

\* What the sidechain poll ends in: unreachable, rejected, or still pending
\* after the retries.  All three cancel the reservation.
SidechainFails(q) ==
    /\ requests[q].at = "verifying"
    /\ PaysFor(requests[q].pay, requests[q].res)
    /\ \/ requests' = At(q, "refused")
       \/ /\ chain[requests[q].pay].outcome = "pending"
          /\ requests' = At(q, "told_retry")
    /\ rows' = [rows EXCEPT ![requests[q].res] = CancelledRow(@)]
    /\ UNCHANGED <<payments, chain, exempt, barred, crashes>>

Accepted_AnyOutcome(q) ==
    \/ requests[q].at = "proving" /\ requests[q].exempt
    \/ /\ requests[q].at = "verifying"
       /\ PaysFor(requests[q].pay, requests[q].res)

\* The checks that let a payment in: a free upload after its proof, a paid one
\* once the sidechain confirmed it.
Accepted(q) ==
    \/ requests[q].at = "proving" /\ requests[q].exempt
    \/ /\ requests[q].at = "verifying"
       /\ PaysFor(requests[q].pay, requests[q].res)
       /\ chain[requests[q].pay].outcome = "confirmed"

Record_NoUnique(q) ==
    /\ Accepted(q)
    /\ payments' = [payments EXCEPT ![requests[q].pay] = requests[q].res]
    /\ rows' = [rows EXCEPT ![requests[q].res] = PaidRow(@)]
    /\ requests' = At(q, "pinning")
    /\ UNCHANGED <<chain, exempt, barred, crashes>>

\* recordPayment, then markReservationPaid, then the Kubo add begins.
Record(q) ==
    /\ Accepted(q)
    /\ payments[requests[q].pay] = Nil
    /\ payments' = [payments EXCEPT ![requests[q].pay] = requests[q].res]
    /\ rows' = [rows EXCEPT ![requests[q].res] = PaidRow(@)]
    /\ requests' = At(q, "pinning")
    /\ UNCHANGED <<chain, exempt, barred, crashes>>

PinRefused_KeepsRow(q) ==
    /\ requests[q].at = "pinning"
    /\ requests' = At(q, "refused")
    /\ UNCHANGED <<rows, payments, chain, exempt, barred, crashes>>

\* kubo.pinFile throws, or the CID it returns is blocked.
PinRefused(q) ==
    /\ requests[q].at = "pinning"
    /\ requests' = At(q, "refused")
    /\ rows' = [rows EXCEPT ![requests[q].res] = CancelledRow(@)]
    /\ UNCHANGED <<payments, chain, exempt, barred, crashes>>

\* createPin, markReservationUploaded, createOrderWithClaim.
Commit(q) ==
    /\ requests[q].at = "pinning"
    /\ requests' = At(q, "hosted")
    /\ rows' = [rows EXCEPT ![requests[q].res] = UploadedRow(@)]
    /\ UNCHANGED <<payments, chain, exempt, barred, crashes>>

\* A statement fails between recordPayment and the Kubo add.  The handler's catch
\* answers, here as in CommitThrows, and undoes nothing.
RecordThrows(q) ==
    /\ Accepted(q)
    /\ payments[requests[q].pay] = Nil
    /\ payments' = [payments EXCEPT ![requests[q].pay] = requests[q].res]
    /\ requests' = At(q, "threw")
    /\ UNCHANGED <<rows, chain, exempt, barred, crashes>>

\* After the Kubo add: billableMB refuses a file of no bytes, or a statement fails,
\* before createPin; or a later statement fails, and the pin row is there without
\* its order and claim.
CommitThrows(q) ==
    /\ requests[q].at = "pinning"
    /\ \/ requests' = At(q, "threw") /\ UNCHANGED rows
       \/ /\ requests' = At(q, "half")
          /\ \/ UNCHANGED rows
             \/ rows' = [rows EXCEPT ![requests[q].res] = UploadedRow(@)]
    /\ UNCHANGED <<payments, chain, exempt, barred, crashes>>

-----------------------------------------------------------------------------
(* The process dies.  Every statement of Record and of Commit is its own    *)
(* SQLite transaction, so it may die between two of them.                   *)

Crash ==
    /\ crashes < MaxCrashes
    /\ crashes' = crashes + 1
    /\ requests' = AllDropped
    /\ UNCHANGED <<rows, payments, chain, exempt, barred>>

\* After recordPayment, before markReservationPaid.
CrashInRecord(q) ==
    /\ crashes < MaxCrashes
    /\ Accepted(q)
    /\ payments[requests[q].pay] = Nil
    /\ payments' = [payments EXCEPT ![requests[q].pay] = requests[q].res]
    /\ requests' = AllDropped
    /\ crashes' = crashes + 1
    /\ UNCHANGED <<rows, chain, exempt, barred>>

\* After createPin: before or after markReservationUploaded, and without the
\* order and the claim.
CrashInCommit(q) ==
    /\ crashes < MaxCrashes
    /\ requests[q].at = "pinning"
    /\ requests' = [AllDropped EXCEPT ![q].at = "half"]
    /\ \/ UNCHANGED rows
       \/ rows' = [rows EXCEPT ![requests[q].res] = UploadedRow(@)]
    /\ crashes' = crashes + 1
    /\ UNCHANGED <<payments, chain, exempt, barred>>

-----------------------------------------------------------------------------
(* The chain and the admin *)

\* A client pays for a reservation it was quoted.
Pay(t, r) ==
    /\ chain[t].outcome = "unsent"
    /\ rows[r].status # "none"
    /\ chain' = [chain EXCEPT ![t] = [memo |-> r, outcome |-> "pending"]]
    /\ UNCHANGED <<rows, payments, requests, exempt, barred, crashes>>

\* Hive-Engine processes the transfer, or rejects it.
SidechainDecides(t) ==
    /\ chain[t].outcome = "pending"
    /\ \E o \in {"confirmed", "rejected"} :
          chain' = [chain EXCEPT ![t].outcome = o]
    /\ UNCHANGED <<rows, payments, requests, exempt, barred, crashes>>

\* The admin grants or revokes a fee exemption; bans, unbans, adds to the
\* whitelist or removes from it.
SetExempt(a) ==
    /\ exempt' = IF a \in exempt THEN exempt \ {a} ELSE exempt \cup {a}
    /\ UNCHANGED <<rows, payments, requests, chain, barred, crashes>>

SetBarred(a) ==
    /\ barred' = IF a \in barred THEN barred \ {a} ELSE barred \cup {a}
    /\ UNCHANGED <<rows, payments, requests, chain, exempt, crashes>>

-----------------------------------------------------------------------------

Init ==
    /\ rows = [r \in Reservations |-> [status |-> "none", owner |-> Nil,
                                       free |-> FALSE, lapsed |-> FALSE]]
    /\ payments = [p \in PayIds |-> Nil]
    /\ requests = [q \in Requests |-> [at |-> "idle", res |-> Nil, pay |-> Nil,
                                       exempt |-> FALSE]]
    /\ chain = [t \in Txs |-> [memo |-> Nil, outcome |-> "unsent"]]
    /\ exempt = {}
    /\ barred = {}
    /\ crashes = 0

\* What the node goes on with by itself: the awaits of a request all end (each
\* fetch has a timeout and the retries are counted), time passes, and the
\* sweeper runs every minute.
Answer(q) ==
    \/ BadProof(q) \/ Replayed(q) \/ VerifyPayment(q) \/ PaymentRefused(q)
    \/ SidechainFails(q) \/ Record(q) \/ PinRefused(q) \/ Commit(q)
    \/ RecordThrows(q) \/ CommitThrows(q)

Die(q) == CrashInRecord(q) \/ CrashInCommit(q)

Next ==
    \/ \E r \in Reservations, a \in Accounts : Reserve(r, a)
    \/ \E r \in Reservations : Lapse(r)
    \/ SweepReservations
    \/ \E q \in Requests, r \in Reservations, p \in PayIds : Start(q, r, p)
    \/ \E q \in Requests : Answer(q) \/ Die(q)
    \/ Crash
    \/ \E t \in Txs, r \in Reservations : Pay(t, r)
    \/ \E t \in Txs : SidechainDecides(t)
    \/ \E a \in Accounts : SetExempt(a) \/ SetBarred(a)

Spec == Init /\ [][Next]_vars

Fairness ==
    /\ \A r \in Reservations : WF_vars(Lapse(r))
    /\ WF_vars(SweepReservations)
    /\ \A q \in Requests : WF_vars(Answer(q))

FairSpec == Spec /\ Fairness

-----------------------------------------------------------------------------
(* Properties *)

\* Nothing is hosted on an unpaid promise: behind every pin row of /upload
\* stands its own payments row, and behind that a transfer the sidechain
\* confirmed for this reservation, or a quote of zero.  The reservation may
\* have expired, and the exemption may have gone, while the request awaited.
HostedWasPaid ==
    \A q \in Pinned :
        LET p == requests[q].pay  r == requests[q].res
        IN /\ payments[p] = r
           /\ \/ p = r /\ rows[r].free
              \/ p \in Txs /\ PaysFor(p, r) /\ chain[p].outcome = "confirmed"

\* One payment buys one upload, however many requests present it at once: the
\* replay guard is the UNIQUE tx_id, since every earlier check is before an
\* await.
PaymentBuysOneUpload ==
    \A q1, q2 \in Pinned \cup {q \in Requests : requests[q].at = "pinning"} :
        requests[q1].pay = requests[q2].pay => q1 = q2

\* The sweeper, a second request and a failed pin all write the status of the
\* same reservation; none of them takes it out of a final status.
FinalIsFinal ==
    [][\A r \in Reservations :
          rows[r].status \in Final => rows'[r].status = rows[r].status]_vars

\* What the node has promised room for in the reservations R: the ones that hold,
\* the uploads being pinned and the pins.
Promised(R) ==
    Cardinality({r \in R : Holds(r)})
      + Cardinality({q \in Requests : /\ requests[q].at \in {"pinning", "hosted", "half"}
                                      /\ requests[q].res \in R})

OwnedBy(a) == {r \in Reservations : rows[r].owner = a}

\* A step that reserves while an upload of R is being pinned.
ReservesBeside(R) ==
    /\ \E r \in Reservations : rows[r].status = "none" /\ rows'[r].status # "none"
    /\ \E q \in Requests : requests[q].at = "pinning" /\ requests[q].res \in R

\* A step that takes the payment of an upload whose reservation no longer holds.
PaysLate(R) ==
    \E q \in Requests :
        /\ requests[q].at # "pinning" /\ requests'[q].at = "pinning"
        /\ requests[q].res \in R /\ ~Holds(requests[q].res)

\* The disk limit and an account's cap give way in two cases alone.  A 'paid'
\* reservation is in neither sum, so one can be made in the room of an upload that
\* is being pinned (quota.js:101-113, 195-215); and a request looks at its
\* reservation before its awaits and not after them, so it is let in when the
\* reservation has lapsed or another request has used it up (server.js:595-705).
LimitsYieldToUploads ==
    [][/\ Promised(Reservations) <= DiskLimit /\ Promised(Reservations)' > DiskLimit
            => ReservesBeside(Reservations) \/ PaysLate(Reservations)
       /\ \A a \in Accounts :
             Promised(OwnedBy(a)) <= Cap /\ Promised(OwnedBy(a))' > Cap
               => ReservesBeside(OwnedBy(a)) \/ PaysLate(OwnedBy(a))]_vars

\* A reservation is left 'paid': no request works on it, no later one is let in,
\* and the sweeper does not look at it.
Abandoned(r) ==
    /\ rows[r].status = "paid"
    /\ \A q \in Requests : requests[q].res = r => requests[q].at \notin InFlight

\* A request for r got no answer of its own: the process died under it, or an
\* exception took it to the catch of the handler (server.js:928-930).
CutShort(r) ==
    \E q \in Requests : requests[q].res = r /\ requests[q].at \in {"dropped", "half", "threw"}

\* Requests that share a reservation, refusals and the sweeper leave none 'paid'
\* behind a request that is gone; only a request of that reservation which a crash
\* or an exception cut short does (server.js:806-930).
AbandonedWasCutShort == \A r \in Reservations : Abandoned(r) => CutShort(r)

\* A reservation is uploaded, expired or cancelled in the end, whichever of its
\* requests and the sweeper come first; only one that a crash or an exception cut
\* short can stay abandoned (quota.js:290-309, 825-828, server.js:638-643, 928-930).
ReservationsResolve ==
    \A r \in Reservations :
        rows[r].status \in {"pending", "paid"} ~>
            \/ rows[r].status \in Final
            \/ Abandoned(r) /\ CutShort(r)
=============================================================================
