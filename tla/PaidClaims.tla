------------------------------ MODULE PaidClaims ------------------------------
(***************************************************************************)
(* The money of a file: what an upload, an own copy, a guardian's pledge   *)
(* and an extension cost, which payment buys which of them, and what a     *)
(* claim that ends early gets back (src/server.js, src/quota.js,           *)
(* src/pricing.js), with refunds broadcast by the node itself              *)
(* (ESCROW_MODE=in-process; EscrowSettlement has the other mode).          *)
(*                                                                         *)
(* Every paid request quotes, awaits the chain, records the payment in one *)
(* commit and writes the claim in the next; the file may lose its last     *)
(* host and the claim may end during the await, and the node may die       *)
(* between the commits.  The claims are those of one CID and carry the     *)
(* name of the request that bought them.  Who may do what is               *)
(* HostingLedger's; the queue's order is, too.                             *)
(***************************************************************************)
EXTENDS Pricing, FiniteSets

CONSTANTS
    Txs,          \* ids of on-chain transfers
    Nil,
    MaxRequests,  \* bound: requests that quote and pay
    Bytes,        \* the size of the file
    Sizes,        \* sizes a client may reserve for it
    Hours,        \* hours a client may ask for
    Copies,       \* copies a client may ask for
    Amounts,      \* what a client may transfer
    Configs,      \* the settings an operator may start the node with
    Exempt,       \* the requests whose account may be found fee_exempt
    MaxTime,      \* bound: the clock stops here
    MaxEnds,      \* bound: no claim is ended early once this many were
    MaxFaults     \* bound: crashes, failed broadcasts, rows that cannot be written

Config == [rate: Nat, permanent: BOOLEAN]

ASSUME PaidAssumption ==
    /\ {MaxRequests, MaxTime, MaxEnds, MaxFaults} \subseteq Nat
    /\ Bytes \in Nat \ {0}
    /\ Sizes \subseteq Nat /\ (\A s \in Sizes : s >= Bytes)
    /\ Hours \subseteq Nat \ {0}
    /\ Copies \subseteq Nat
    /\ Amounts \subseteq Nat
    /\ Configs \subseteq Config
    /\ Exempt \subseteq 1 .. MaxRequests
    /\ PermanentExpiry > MaxTime

VARIABLES
    now,
    config,     \* rate and hosting mode of the running process
    transfers,  \* the chain: what each transfer pays, and its memo
    payments,   \* tx_ids in the payments table
    requests,   \* how far each request has come; a reservation outlives the process
    claims,
    refunds,    \* per claim, the refund that is due and its row
    faults,
    ledger,     \* per claim, what was paid for it and what that bought (history)
    uses        \* per transfer, how many things it bought (history)

vars == <<now, config, transfers, payments, requests, claims, refunds, faults, ledger, uses>>

Requests == 1 .. MaxRequests
Kind     == {"upload", "own_copy", "guardian", "extend"}

\* The memo names the purpose and the reservation, the claim or the CID.
Memo(kind, ref) == <<kind, IF kind \in {"upload", "extend"} THEN ref ELSE 0>>

Transfer == [memo: Kind \X Nat, amount: Amounts]
Idle     == [at |-> "idle"]
Done     == [at |-> "done"]
Request  == [at: {"reserved", "verifying", "pinning"}, kind: Kind, ref: Requests,
             tx: Txs \cup {Nil}, hours: Nat, copies: Nat, quote: Nat,
             rate: Nat]                  \* the rate it was quoted at
Claim    == [state: {"dormant", "active", "cancelled", "expired"}, start: Nat,
             expiry: Nat, hours: Nat, rate: Nat, copies: Nat, bytes: {Bytes},
             mb: Nat, paid: Nat, tx: Txs \cup {Nil}]
Refund   == [due: {"no", "owed", "sending", "closed", "lost"},
             was: {"active", "dormant"},
             terms: {"cancel", "prorata", "none", "innocent"},
             row: {"none", "skipped", "pending", "sent", "failed"},
             amount: Int, sent: Nat]     \* how often the transfer reached the chain
Entry    == [in: Nat, payments: Nat, hours: Nat, charged: Nat]

ASSUME NilAssumption == Nil \notin Txs /\ Nil \notin Claim /\ Nil \notin Transfer

NoRefund == [due |-> "no", was |-> "active", terms |-> "none", row |-> "none",
             amount |-> 0, sent |-> 0]
NoEntry  == [in |-> 0, payments |-> 0, hours |-> 0, charged |-> 0]

TypeOK ==
    /\ now \in 0 .. MaxTime
    /\ config \in Configs
    /\ transfers \in [Txs -> Transfer \cup {Nil}]
    /\ payments \subseteq Txs
    /\ requests \in [Requests -> Request \cup {Idle, Done}]
    /\ claims \in [Requests -> Claim \cup {Nil}]
    /\ refunds \in [Requests -> Refund]
    /\ faults \in 0 .. MaxFaults
    /\ ledger \in [Requests -> Entry]
    /\ uses \in [Txs -> Nat]

-----------------------------------------------------------------------------

InState(s) == {c \in Requests : claims[c] # Nil /\ claims[c].state = s}

\* hasActivePinForCid
Hosted == InState("active") # {}

\* Nothing reads the clock before there is a claim.
Tick ==
    /\ now < MaxTime
    /\ \E c \in Requests : claims[c] # Nil
    /\ now' = now + 1
    /\ UNCHANGED <<config, transfers, payments, requests, claims, refunds, faults, ledger, uses>>

\* Requests are numbered as they arrive.
Fresh(q) == requests[q] = Idle /\ \A p \in 1 .. q - 1 : requests[p] # Idle

Finish(q) == requests' = [requests EXCEPT ![q] = Done]

\* On a permanent gate an upload or own copy costs one minimum, whatever hours.
PricedHours(hours) == IF config.permanent THEN MinHours ELSE hours

\* POST /reserve: the quote is kept in the reservations row.
Reserve(q, size, hours, copies, free) ==
    LET rate == IF free THEN 0 ELSE config.rate
        hrs  == PricedHours(hours)
    IN /\ Fresh(q)
       /\ free => q \in Exempt
       /\ requests' = [requests EXCEPT ![q] =
             [at |-> "reserved", kind |-> "upload", ref |-> q, tx |-> Nil,
              hours |-> BillableHours(hrs), copies |-> CappedCopies(copies),
              quote |-> Cost(size, hrs, copies, rate), rate |-> rate]]
       /\ UNCHANGED <<now, config, transfers, payments, claims, refunds, faults, ledger, uses>>

\* The client has transferred some amount with the memo it was told, or names a
\* transfer it made before.
Presents(tx, memo) ==
    IF transfers[tx] = Nil
    THEN \E a \in Amounts :
            transfers' = [transfers EXCEPT ![tx] = [memo |-> memo, amount |-> a]]
    ELSE UNCHANGED transfers

\* getPaymentByTxId, before the chain is asked
Unused(tx) == tx \notin payments

\* POST /upload with a transfer.
AskUpload(q, tx) ==
    /\ requests[q].at = "reserved"
    /\ Unused(tx)
    /\ Presents(tx, Memo("upload", q))
    /\ requests' = [requests EXCEPT ![q].at = "verifying", ![q].tx = tx]
    /\ UNCHANGED <<now, config, payments, claims, refunds, faults, ledger, uses>>

\* POST /upload of a reservation quoted at zero, by an account still exempt.
AskFreeUpload(q) ==
    /\ requests[q].at = "reserved"
    /\ requests[q].quote = 0
    /\ q \in Exempt
    /\ requests' = [requests EXCEPT ![q].at = "pinning"]
    /\ UNCHANGED <<now, config, transfers, payments, claims, refunds, faults, ledger, uses>>

\* POST /claims/own-copy and /guardian/pledge: the file must be hosted.
AskClaim(q, kind, hours, copies, tx) ==
    LET hrs == IF kind = "own_copy" THEN PricedHours(hours) ELSE hours
    IN /\ Fresh(q)
       /\ Hosted
       /\ Unused(tx)
       /\ Presents(tx, Memo(kind, q))
       /\ requests' = [requests EXCEPT ![q] =
             [at |-> "verifying", kind |-> kind, ref |-> q, tx |-> tx,
              hours |-> BillableHours(hrs), copies |-> CappedCopies(copies),
              quote |-> Cost(Bytes, hrs, copies, config.rate), rate |-> config.rate]]
       /\ UNCHANGED <<now, config, payments, claims, refunds, faults, ledger, uses>>

\* POST /claims/extend: an active claim with a timer, at its own rate.
AskExtend(q, c, hours, tx) ==
    /\ Fresh(q)
    /\ c \in InState("active")
    /\ ~IsPermanent(claims[c].expiry)
    /\ Unused(tx)
    /\ Presents(tx, Memo("extend", c))
    /\ requests' = [requests EXCEPT ![q] =
          [at |-> "verifying", kind |-> "extend", ref |-> c, tx |-> tx,
           hours |-> BillableHours(hours), copies |-> claims[c].copies,
           quote |-> ExtendCost(claims[c], hours), rate |-> claims[c].rate]]
    /\ UNCHANGED <<now, config, payments, claims, refunds, faults, ledger, uses>>

-----------------------------------------------------------------------------
(* After the chain has answered *)

\* validateTransferPayload: the memo of this purpose, and enough.
Covers(q) ==
    LET t == transfers[requests[q].tx]
    IN t.memo = Memo(requests[q].kind, requests[q].ref) /\ t.amount >= requests[q].quote

\* verifyPayment throws: the transfer is not what was asked for, or no node has
\* it, or another request used it first.  An upload may try again.
Refuse(q) ==
    /\ requests[q].at = "verifying"
    /\ IF requests[q].kind = "upload"
       THEN requests' = [requests EXCEPT ![q].at = "reserved", ![q].tx = Nil]
       ELSE Finish(q)
    /\ UNCHANGED <<now, config, transfers, payments, claims, refunds, faults, ledger, uses>>

\* The sidechain does not confirm it: an upload gives its reservation up, too.
NotConfirmed(q) ==
    /\ requests[q].at = "verifying"
    /\ Finish(q)
    /\ UNCHANGED <<now, config, transfers, payments, claims, refunds, faults, ledger, uses>>

\* A new claim, of what the request paid for.
NewClaim(q, state, hours, expiry, rate, paid) ==
    [state |-> state, start |-> now, expiry |-> expiry, hours |-> hours, rate |-> rate,
     copies |-> requests[q].copies, bytes |-> Bytes, mb |-> BillableMB(Bytes),
     paid |-> paid, tx |-> requests[q].tx]

\* What buys hosting now: its timer runs from now, or not at all.
Hosting(q, rate, paid) ==
    LET hrs == IF config.permanent THEN MinHours ELSE requests[q].hours
    IN NewClaim(q, "active", hrs,
                IF config.permanent THEN PermanentExpiry ELSE now + hrs * Hour, rate, paid)

\* The books of the model: hours that were bought for the claim c at this rate,
\* with the transfer tx or for nothing.
Credit(c, tx, hours, rate) ==
    /\ ledger' = [ledger EXCEPT ![c] =
          [in |-> @.in + (IF tx = Nil THEN 0 ELSE transfers[tx].amount),
           payments |-> @.payments + 1, hours |-> @.hours + hours, charged |-> rate]]
    /\ uses' = [t \in Txs |-> IF t = tx THEN uses[t] + 1 ELSE uses[t]]

RecordPayment_NoUnique(q) ==
    payments' = payments \cup {requests[q].tx}

\* recordPayment: tx_id is UNIQUE, whoever comes second gets a conflict.
RecordPayment(q) ==
    /\ requests[q].tx \notin payments
    /\ payments' = payments \cup {requests[q].tx}

Paid(q) == transfers[requests[q].tx].amount

\* The request's transfer is good and has not been used meanwhile.
Buys(q, kind) ==
    /\ requests[q].at = "verifying"
    /\ requests[q].kind = kind
    /\ Covers(q)
    /\ RecordPayment(q)

\* createOwnCopyClaim: looks again, and throws if the last host has gone.
BuyOwnCopy(q) ==
    /\ Buys(q, "own_copy")
    /\ IF Hosted
       THEN /\ claims' = [claims EXCEPT ![q] = Hosting(q, config.rate, Paid(q))]
            /\ Credit(q, requests[q].tx, claims'[q].hours, requests[q].rate)
       ELSE UNCHANGED <<claims, ledger, uses>>
    /\ Finish(q)
    /\ UNCHANGED <<now, config, transfers, refunds, faults>>

BuyPledge_LooksAgain(q) ==
    /\ Buys(q, "guardian")
    /\ IF Hosted
       THEN /\ claims' = [claims EXCEPT ![q] =
                    NewClaim(q, "dormant", requests[q].hours, now, config.rate, Paid(q))]
            /\ Credit(q, requests[q].tx, requests[q].hours, requests[q].rate)
       ELSE UNCHANGED <<claims, ledger, uses>>
    /\ Finish(q)
    /\ UNCHANGED <<now, config, transfers, refunds, faults>>

\* A pledge waits, with no timer yet.
BuyPledge(q) ==
    /\ Buys(q, "guardian")
    /\ claims' = [claims EXCEPT ![q] =
                    NewClaim(q, "dormant", requests[q].hours, now, config.rate, Paid(q))]
    /\ Credit(q, requests[q].tx, requests[q].hours, requests[q].rate)
    /\ Finish(q)
    /\ UNCHANGED <<now, config, transfers, refunds, faults>>

Extended_FromNow(c, hours) ==
    [claims[c] EXCEPT !.hours = @ + hours, !.expiry = now + hours * Hour]

Extended(c, hours) ==
    [claims[c] EXCEPT !.hours = @ + hours, !.expiry = @ + hours * Hour]

\* extendClaim: reads the row again, and throws if the claim has ended.
BuyExtension(q) ==
    LET c == requests[q].ref
    IN /\ Buys(q, "extend")
       /\ IF claims[c].state = "active"
          THEN /\ claims' = [claims EXCEPT ![c] = Extended(c, requests[q].hours)]
               /\ Credit(c, requests[q].tx, requests[q].hours, ledger[c].charged)
          ELSE UNCHANGED <<claims, ledger, uses>>
       /\ Finish(q)
       /\ UNCHANGED <<now, config, transfers, refunds, faults>>

\* /upload records the payment and goes on to Kubo.
PayUpload(q) ==
    /\ Buys(q, "upload")
    /\ requests' = [requests EXCEPT ![q].at = "pinning"]
    /\ UNCHANGED <<now, config, transfers, claims, refunds, faults, ledger, uses>>

\* The add fails, the CID was blocked meanwhile, or what is left of the handler
\* throws, as it does for an empty file: the payment stays, and the reservation
\* takes no second upload.
UploadFails(q) ==
    /\ requests[q].at = "pinning"
    /\ Finish(q)
    /\ UNCHANGED <<now, config, transfers, payments, claims, refunds, faults, ledger, uses>>

\* The rate that /upload locks: zero for a free one, else today's.
LockedRate(q) == IF requests[q].tx = Nil THEN 0 ELSE config.rate

Upload(q) ==
    LET paid == IF requests[q].tx = Nil THEN 0 ELSE Paid(q)
    IN /\ requests[q].at = "pinning"
       /\ claims' = [claims EXCEPT ![q] = Hosting(q, LockedRate(q), paid)]
       /\ Credit(q, requests[q].tx, claims'[q].hours, requests[q].rate)
       /\ Finish(q)
       /\ UNCHANGED <<now, config, transfers, payments, refunds, faults>>

\* An exempt account pays nothing: own copy, pledge and extension in one go.
FreeRow(kind, hours, copies) ==
    [state |-> IF kind = "own_copy" THEN "active" ELSE "dormant", start |-> now,
     expiry |-> CASE kind = "guardian" -> now
                  [] kind = "own_copy" /\ config.permanent -> PermanentExpiry
                  [] OTHER -> now + hours * Hour,
     hours |-> hours, rate |-> 0, copies |-> CappedCopies(copies), bytes |-> Bytes,
     mb |-> BillableMB(Bytes), paid |-> 0, tx |-> Nil]

FreeClaim(q, kind, hours, copies) ==
    LET hrs == BillableHours(IF kind = "own_copy" THEN PricedHours(hours) ELSE hours)
    IN /\ Fresh(q)
       /\ q \in Exempt
       /\ Hosted
       /\ claims' = [claims EXCEPT ![q] = FreeRow(kind, hrs, copies)]
       /\ Credit(q, Nil, hrs, 0)
       /\ Finish(q)
       /\ UNCHANGED <<now, config, transfers, payments, refunds, faults>>

\* ... of a claim that was free, while its owner still is exempt.
FreeExtend(q, c, hours) ==
    /\ Fresh(q)
    /\ c \in Exempt
    /\ c \in InState("active")
    /\ ~IsPermanent(claims[c].expiry)
    /\ ExtendCost(claims[c], hours) = 0
    /\ claims' = [claims EXCEPT ![c] = Extended(c, BillableHours(hours))]
    /\ Credit(c, Nil, BillableHours(hours), ledger[c].charged)
    /\ Finish(q)
    /\ UNCHANGED <<now, config, transfers, payments, refunds, faults>>

-----------------------------------------------------------------------------
(* The end of a claim, and its refund *)

\* The claims E leave; if no host is left, a queued guardian starts its timer.
Leave(E, state) ==
    LET rest   == InState("active") \ E
        queue  == InState("dormant") \ E
        closed == [c \in Requests |->
                     IF c \in E THEN [claims[c] EXCEPT !.state = state] ELSE claims[c]]
    IN IF E \cap InState("active") # {} /\ rest = {} /\ queue # {}
       THEN \E g \in queue :
               claims' = [closed EXCEPT ![g].state = "active", ![g].start = now,
                                        ![g].expiry = now + claims[g].hours * Hour]
       ELSE claims' = closed

Live == InState("active") \cup InState("dormant")

\* The handler holds the rows as they were, on these terms, and settles them next.
Owe(E, terms) ==
    /\ Cardinality({c \in Requests : refunds[c].due # "no"}) < MaxEnds
    /\ refunds' = [c \in Requests |->
                     IF c \in E THEN [refunds[c] EXCEPT !.due = "owed", !.was = claims[c].state,
                                                        !.terms = terms[c]]
                     ELSE refunds[c]]

\* Cancel or delete by the owner, or a release.
Cancel(c) ==
    /\ c \in Live
    /\ Leave({c}, "cancelled")
    /\ Owe({c}, [x \in {c} |-> "cancel"])
    /\ UNCHANGED <<now, config, transfers, payments, requests, faults, ledger, uses>>

\* A ban ends the claims of an account, on the admin's terms.
Ban(E, policy) ==
    /\ E # {} /\ E \subseteq Live
    /\ Leave(E, "cancelled")
    /\ Owe(E, [c \in E |-> policy])
    /\ UNCHANGED <<now, config, transfers, payments, requests, faults, ledger, uses>>

\* A takedown ends them all, and guardians are innocent.
Takedown(policy) ==
    /\ Live # {}
    /\ Leave(Live, "cancelled")
    /\ Owe(Live, [c \in Live |-> IF claims[c].state = "dormant" THEN "innocent" ELSE policy])
    /\ UNCHANGED <<now, config, transfers, payments, requests, faults, ledger, uses>>

\* The sweeper: a timer that has run out ends a claim and refunds nothing.
Sweep ==
    LET E == {c \in InState("active") : claims[c].expiry < now}
    IN /\ E # {}
       /\ Leave(E, "expired")
       /\ UNCHANGED <<now, config, transfers, payments, requests, refunds, faults, ledger, uses>>

\* The refund's row is written, and what is worth a transfer is broadcast.
Booked(amount, row) ==
    [NoRefund EXCEPT !.amount = amount,
                     !.row    = IF amount = 0 THEN "skipped" ELSE row,
                     !.due    = IF amount = 0 THEN "closed" ELSE "sending"]

Settle_LiveRate(c) ==
    LET claim == [claims[c] EXCEPT !.rate = config.rate]
    IN /\ refunds[c].due = "owed"
       /\ refunds' = [refunds EXCEPT ![c] =
             Booked(RefundAmount(claim, refunds[c].was, refunds[c].terms, now), "pending")]
       /\ UNCHANGED <<now, config, transfers, payments, requests, claims, faults, ledger, uses>>

Settle_MarksSent(c) ==
    /\ refunds[c].due = "owed"
    /\ refunds' = [refunds EXCEPT ![c] =
          Booked(RefundAmount(claims[c], refunds[c].was, refunds[c].terms, now), "sent")]
    /\ UNCHANGED <<now, config, transfers, payments, requests, claims, faults, ledger, uses>>

\* settleClaimRefund, settleForcedRefund, broadcastRefund up to the await.
Settle(c) ==
    /\ refunds[c].due = "owed"
    /\ refunds' = [refunds EXCEPT ![c] =
          Booked(RefundAmount(claims[c], refunds[c].was, refunds[c].terms, now), "pending")]
    /\ UNCHANGED <<now, config, transfers, payments, requests, claims, faults, ledger, uses>>

\* recordRefund throws, and with it the handler that held the claim: no row, and
\* nobody who will write it.
RecordThrows(c) ==
    /\ faults < MaxFaults
    /\ refunds[c].due = "owed"
    /\ refunds' = [refunds EXCEPT ![c].due = "lost"]
    /\ faults' = faults + 1
    /\ UNCHANGED <<now, config, transfers, payments, requests, claims, ledger, uses>>

\* sendRefund's broadcast is accepted: the row is marked sent.
Sent(c) ==
    /\ refunds[c].due = "sending"
    /\ refunds' = [refunds EXCEPT ![c].due = "closed", ![c].row = "sent", ![c].sent = @ + 1]
    /\ UNCHANGED <<now, config, transfers, payments, requests, claims, faults, ledger, uses>>

\* There is no key: the row stays pending for the operator.
NoKey(c) ==
    /\ refunds[c].due = "sending"
    /\ refunds' = [refunds EXCEPT ![c].due = "closed"]
    /\ UNCHANGED <<now, config, transfers, payments, requests, claims, faults, ledger, uses>>

\* The broadcast throws; the transfer may have reached the chain all the same.
SendFails(c) ==
    /\ faults < MaxFaults
    /\ refunds[c].due = "sending"
    /\ \E n \in {0, 1} :
          refunds' = [refunds EXCEPT ![c].due = "closed", ![c].row = "failed", ![c].sent = @ + n]
    /\ faults' = faults + 1
    /\ UNCHANGED <<now, config, transfers, payments, requests, claims, ledger, uses>>

-----------------------------------------------------------------------------
(* The process dies and is started again, perhaps with other settings *)

Restart(new) ==
    /\ faults < MaxFaults
    /\ faults' = faults + 1
    /\ config' = new
    /\ requests' = [q \in Requests |->
                      IF requests[q].at \in {"verifying", "pinning"} THEN Done ELSE requests[q]]
    /\ \E out \in SUBSET {c \in Requests : refunds[c].due = "sending"} :
          refunds' = [c \in Requests |->
             IF refunds[c].due = "owed" THEN [refunds[c] EXCEPT !.due = "lost"]
             ELSE IF refunds[c].due = "sending"
                  THEN [refunds[c] EXCEPT !.due = "closed",
                                          !.sent = IF c \in out THEN @ + 1 ELSE @]
                  ELSE refunds[c]]
    /\ UNCHANGED <<now, transfers, claims, ledger, uses>>

Crash(new) == Restart(new) /\ UNCHANGED payments

\* ... after a payment was recorded and before the claim was written.
CrashAfterPayment(q, new) ==
    /\ requests[q].at = "verifying"
    /\ Covers(q)
    /\ RecordPayment(q)
    /\ Restart(new)

-----------------------------------------------------------------------------

Init ==
    /\ now = 0
    /\ config \in Configs
    /\ transfers = [tx \in Txs |-> Nil]
    /\ payments = {}
    /\ requests = [q \in Requests |-> Idle]
    /\ claims = [c \in Requests |-> Nil]
    /\ refunds = [c \in Requests |-> NoRefund]
    /\ faults = 0
    /\ ledger = [c \in Requests |-> NoEntry]
    /\ uses = [tx \in Txs |-> 0]

Next ==
    \/ Tick
    \/ \E q \in Requests, size \in Sizes, hours \in Hours, copies \in Copies,
          free \in BOOLEAN : Reserve(q, size, hours, copies, free)
    \/ \E q \in Requests, tx \in Txs : AskUpload(q, tx)
    \/ \E q \in Requests, kind \in {"own_copy", "guardian"}, hours \in Hours, copies \in Copies :
          \/ \E tx \in Txs : AskClaim(q, kind, hours, copies, tx)
          \/ FreeClaim(q, kind, hours, copies)
    \/ \E q, c \in Requests, hours \in Hours :
          \/ \E tx \in Txs : AskExtend(q, c, hours, tx)
          \/ FreeExtend(q, c, hours)
    \/ \E q \in Requests :
          \/ AskFreeUpload(q)
          \/ Refuse(q) \/ NotConfirmed(q) \/ BuyOwnCopy(q) \/ BuyPledge(q) \/ BuyExtension(q)
          \/ PayUpload(q) \/ UploadFails(q) \/ Upload(q)
    \/ \E c \in Requests : Cancel(c)
    \/ \E policy \in {"prorata", "none"} :
          Takedown(policy) \/ \E E \in SUBSET Requests : Ban(E, policy)
    \/ Sweep
    \/ \E c \in Requests : Settle(c) \/ RecordThrows(c) \/ Sent(c) \/ NoKey(c) \/ SendFails(c)
    \/ \E new \in Configs :
          Crash(new) \/ \E q \in Requests : CrashAfterPayment(q, new)

Spec == Init /\ [][Next]_vars

-----------------------------------------------------------------------------
(* Properties *)

\* No claim gets back more than was paid for it, but for the rounding of each
\* amount by half a unit: not with extensions, promotions, overpayments, bans,
\* other prices after a restart.
Covered(c) ==
    2 * Grain * refunds[c].amount <= 2 * Grain * ledger[c].in + Grain * (ledger[c].payments + 1)

\* "the charged rate and the persisted rate_locked must agree or a later pro-rata
\* refund/extend would silently bill the real rate on a claim that was free"
\* (server.js:865-867): every refund is covered.
RefundsAreCovered == \A c \in Requests : Covered(c)

\* ... and it is whenever they do agree (server.js:320-338, pricing.js:121-157).
RefundWithinDeposit ==
    \A c \in Requests :
        claims[c] # Nil /\ claims[c].rate <= ledger[c].charged => Covered(c)

\* One transfer buys one thing, whichever requests race with it and whatever
\* they are for (quota.js:317-330).
PaymentBuysOneThing == \A tx \in Txs : uses[tx] <= 1

\* The timer of a running claim is the sum of the hours bought for it: two
\* extensions at once both count, and a promotion starts it afresh
\* (quota.js:667-684, 707-720).
TimerIsWhatWasBought ==
    \A c \in InState("active") :
        /\ claims[c].hours = ledger[c].hours
        /\ IsPermanent(claims[c].expiry)
              \/ claims[c].expiry = claims[c].start + claims[c].hours * Hour

\* A recorded payment that bought nothing, and that no request holds any more.
Stranded(tx) ==
    /\ tx \in payments
    /\ uses[tx] = 0
    /\ \A q \in Requests : requests[q].at = "pinning" => requests[q].tx # tx

\* What the transfer is for cannot be had: its upload came as far as Kubo and is
\* failing there, the file to be copied has no host, the claim has ended.
PastHelp(tx) ==
    LET kind == transfers[tx].memo[1]
        ref  == transfers[tx].memo[2]
    IN \/ kind = "upload" /\ requests[ref].at = "pinning" /\ requests[ref].tx = tx
       \/ kind = "own_copy" /\ ~Hosted
       \/ kind = "extend" /\ claims[ref].state \in {"cancelled", "expired"}

\* Short of a crash a recorded payment is stranded by no step but these: an own
\* copy's when the last host went during the await, an extension's when its claim
\* ended, an upload's when what follows the payment fails.  A pledge's never is,
\* and no claim that another request buys or ends strands it later
\* (server.js:827-864, 1637-1658, 1844-1850, 1978-1989).
PaidIsServed ==
    [][\A tx \in Txs :
          ~Stranded(tx) /\ Stranded(tx)' /\ faults' = faults => PastHelp(tx)]_vars

\* A claim that is ended has a refund row, or its handler is about to write it.
\* A refund is transferred at most once, and the row says what happened: sent is
\* sent, skipped and unwritten are not.  Only a crash, a row that cannot be
\* written or a failed broadcast leaves no row, or a transfer behind one that says
\* pending or failed
\* (server.js:264-312, quota.js:783-785).
RefundRowIsTrue ==
    \A c \in Requests :
        /\ claims[c] # Nil /\ claims[c].state = "cancelled" /\ refunds[c].row = "none" =>
              refunds[c].due = "owed" \/ faults > 0
        /\ refunds[c].sent <= 1
        /\ refunds[c].row = "sent" => refunds[c].sent = 1
        /\ refunds[c].sent = 1 =>
              \/ refunds[c].row = "sent"
              \/ refunds[c].row \in {"pending", "failed"} /\ faults > 0
=============================================================================
