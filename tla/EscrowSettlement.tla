-------------------------- MODULE EscrowSettlement --------------------------
(***************************************************************************)
(* Refunds in ESCROW_MODE=box.  The node holds no money key: for each      *)
(* cancelled claim it records a refund row, queues a report durably and    *)
(* publishes it until the escrow box answers with a receipt                *)
(* (src/server.js broadcastRefund and finalizeRefund,                      *)
(* src/escrow-settlement-queue.js, src/escrow-box-mode.js,                 *)
(* src/escrow-box-client.mjs).                                             *)
(*                                                                         *)
(* The node may crash between any two commits and forgets what was not     *)
(* committed; a commit may also throw, and is then not tried again.  The   *)
(* relays lose, delay, duplicate and reorder messages.  The box is another *)
(* program, known from what the node expects of it.                        *)
(***************************************************************************)
EXTENDS Naturals

CONSTANTS
    Refs,          \* claim ids, the reports' ref
    MaxCrashes,    \* bound on the crashes of a behaviour
    Lossy          \* may the relays lose messages?

ASSUME SettlementAssumption == MaxCrashes \in Nat /\ Lossy \in BOOLEAN

VARIABLES
    cancelled,     \* claims whose end has been committed
    refunds,       \* the status of each claim's row in refunds
    reports,       \* the status of each claim's row in pending_reports
    stored,        \* its receipt_json
    up,            \* is the process running?
    todo,          \* cancelled claims a running handler has yet to settle
    publishing,    \* rows a handler or the drainer has read and will publish
    crashes,
    thrown,        \* claims whose settlement or finalize handler has thrown (history)
    fired,         \* how often onSettled and onCompleted ran for a claim
    wire,          \* reports on the relays
    receipts,      \* receipts on the relays
    verdict,       \* the box's decision on each claim
    seen,          \* nonces the box has acted on
    paid           \* how often the box has disbursed for a claim

durable   == <<cancelled, refunds, reports, stored>>
memory    == <<up, todo, publishing>>
accidents == <<crashes, thrown>>
network   == <<wire, receipts>>
box       == <<verdict, seen, paid>>
vars      == <<durable, memory, accidents, fired, network, box>>

RefundStatus == {"none", "pending", "sent", "failed", "skipped"}
ReportStatus == {"none", "pending", "settled", "failed"}

\* A receipt with status "settled" is "refunded" or "retained", by its refund
\* field.
Outcomes   == {"pending", "refunded", "retained", "failed"}
Definitive == Outcomes \ {"pending"}

Receipt == [ref : Refs, outcome : Outcomes]
Report  == [ref : Refs, nonce : 0..MaxCrashes]

TypeOK ==
    /\ cancelled \subseteq Refs
    /\ refunds \in [Refs -> RefundStatus]
    /\ reports \in [Refs -> ReportStatus]
    /\ stored \in [Refs -> Outcomes \cup {"none"}]
    /\ up \in BOOLEAN
    /\ todo \subseteq cancelled
    /\ publishing \subseteq Refs
    /\ crashes \in 0..MaxCrashes
    /\ thrown \subseteq Refs
    /\ fired \in [Refs -> [settled : Nat, completed : Nat]]
    /\ wire \subseteq Report
    /\ receipts \subseteq Receipt
    /\ verdict \in [Refs -> Outcomes \cup {"none"}]
    /\ seen \subseteq Report
    /\ paid \in [Refs -> Nat]

-----------------------------------------------------------------------------
\* queue.pending()
PendingReports == {r \in Refs : reports[r] = "pending"}

\* Mutant: a nonce of its own for every run of the process.
SettleNonce_PerBoot(r) == crashes

\* settleNonce: `ref:settle`, the same for every publication of a report.
SettleNonce(r) == 0

\* Mutant: a receipt that announces a retry counts as a refund.
FinalRow_PendingIsSent(s, o) ==
    CASE o \in {"pending", "refunded"} -> "sent"
      [] o = "retained" -> "skipped"
      [] OTHER          -> "failed"

\* finalizeRefund: the row after a receipt, s before.
FinalRow(s, o) ==
    CASE o = "refunded" -> "sent"
      [] o = "retained" -> "skipped"
      [] o = "failed"   -> "failed"
      [] o = "pending"  -> s

-----------------------------------------------------------------------------
(* The node *)

\* A cancel, release, ban or takedown commits; the handler keeps the voided
\* claims in a variable and settles them one by one.
Void(S) ==
    /\ up
    /\ S # {} /\ S \cap cancelled = {}
    /\ cancelled' = cancelled \cup S
    /\ todo' = todo \cup S
    /\ UNCHANGED <<refunds, reports, stored, up, publishing, accidents, fired,
                   network, box>>

\* The row, then the report: two commits, nothing awaited in between.
RecordRefund(r) ==
    refunds' = [refunds EXCEPT ![r] = "pending"]

Enqueue(r) ==
    IF reports[r] = "none"
    THEN /\ reports' = [reports EXCEPT ![r] = "pending"]
         /\ publishing' = publishing \cup {r}
    ELSE UNCHANGED <<reports, publishing>>

\* broadcastRefund of a claim with nothing to give back.
SkipRefund(r) ==
    /\ up /\ r \in todo
    /\ todo' = todo \ {r}
    /\ refunds' = [refunds EXCEPT ![r] = "skipped"]
    /\ UNCHANGED <<cancelled, reports, stored, up, publishing, accidents, fired,
                   network, box>>

\* broadcastRefund, up to the first await.
Settle(r) ==
    /\ up /\ r \in todo
    /\ todo' = todo \ {r}
    /\ RecordRefund(r)
    /\ Enqueue(r)
    /\ UNCHANGED <<cancelled, stored, up, accidents, fired, network, box>>

\* ... and what follows the row throws: no payment rows, no facts, or no queue.
\* The row stays pending with no report behind it.
SettleThrows(r) ==
    /\ up /\ r \in todo
    /\ todo' = todo \ {r}
    /\ RecordRefund(r)
    /\ thrown' = thrown \cup {r}
    /\ UNCHANGED <<cancelled, reports, stored, up, publishing, crashes, fired,
                   network, box>>

\* recordRefund itself throws: its handler ends there, and with it what it still
\* had to settle.
RecordThrows(S) ==
    /\ up
    /\ S # {} /\ S \subseteq todo
    /\ todo' = todo \ S
    /\ thrown' = thrown \cup S
    /\ UNCHANGED <<durable, up, publishing, crashes, fired, network, box>>

\* Mutant: the interval is never armed, only a boot drains.
DrainTick_BootOnly == FALSE /\ UNCHANGED vars

\* setInterval(drainOnce): every pending row is read, then published in turn.
DrainTick ==
    /\ up
    /\ publishing' = publishing \cup PendingReports
    /\ UNCHANGED <<durable, up, todo, accidents, fired, network, box>>

\* publishRow: the row may have been settled since it was read.
Publish(r) ==
    /\ up /\ r \in publishing
    /\ publishing' = publishing \ {r}
    /\ wire' = wire \cup {[ref |-> r, nonce |-> SettleNonce(r)]}
    /\ UNCHANGED <<durable, up, todo, accidents, fired, receipts, box>>

\* No relay takes the report, or no key is readable yet: the row stays pending.
PublishFails(r) ==
    /\ up /\ r \in publishing
    /\ Lossy
    /\ publishing' = publishing \ {r}
    /\ UNCHANGED <<durable, up, todo, accidents, fired, network, box>>

\* Mutant: any receipt for a known report is taken as the first.
IsAwaited_AnyStatus(r) == reports[r] # "none"

\* markSettled and markFailed: UPDATE ... WHERE ref = ? AND status = 'pending'.
IsAwaited(r) == reports[r] = "pending"

\* Mutant: a row that left 'pending' takes no more receipts.
IsCompletion_Never(r, o) == FALSE

\* A receipt after the first counts only if that one announced a retry.
IsCompletion(r, o) ==
    /\ reports[r] \in {"settled", "failed"}
    /\ stored[r] = "pending"
    /\ o \in Definitive

\* The queue's part of handleReceipt.
StoreReceipt(r, o) ==
    /\ reports' = [reports EXCEPT ![r] = IF ~IsAwaited(r) THEN @
                                         ELSE IF o = "failed" THEN "failed"
                                         ELSE "settled"]
    /\ stored' = [stored EXCEPT ![r] = o]

\* A relay keeps what it delivered, or not; a later run sees it again.
Deliver(m) ==
    /\ m \in receipts
    /\ receipts' \in {receipts, receipts \ {m}}

\* handleReceipt of a receipt the node acts on: the queue, then the handler.
TakeReceipt(m) ==
    LET r == m.ref  o == m.outcome
    IN  /\ up /\ Deliver(m)
        /\ IsAwaited(r) \/ IsCompletion(r, o)
        /\ StoreReceipt(r, o)
        /\ fired' = IF IsAwaited(r) THEN [fired EXCEPT ![r].settled = @ + 1]
                                    ELSE [fired EXCEPT ![r].completed = @ + 1]
        /\ UNCHANGED <<cancelled, memory, crashes, wire, box>>

\* The handler closes the row.
HandleReceipt(m) ==
    /\ TakeReceipt(m)
    /\ refunds' = [refunds EXCEPT ![m.ref] = FinalRow(@, m.outcome)]
    /\ UNCHANGED thrown

\* The handler throws, is caught, and is not called for this receipt again.
HandlerThrows(m) ==
    /\ TakeReceipt(m)
    /\ thrown' = thrown \cup {m.ref}
    /\ UNCHANGED refunds

\* A duplicate, a late "pending", or a receipt for a ref the queue does not know.
IgnoreReceipt(m) ==
    /\ up /\ Deliver(m)
    /\ ~IsAwaited(m.ref) /\ ~IsCompletion(m.ref, m.outcome)
    /\ UNCHANGED <<durable, memory, accidents, fired, wire, box>>

-----------------------------------------------------------------------------
(* Crashes *)

Die ==
    /\ up /\ crashes < MaxCrashes
    /\ up' = FALSE
    /\ todo' = {} /\ publishing' = {}
    /\ crashes' = crashes + 1
    /\ UNCHANGED thrown

Crash ==
    /\ Die
    /\ UNCHANGED <<durable, fired, network, box>>

\* Mutant: the report is queued before the refund row is written.
CrashInSettle_ReportFirst(r) ==
    /\ r \in todo
    /\ Die
    /\ reports' = [reports EXCEPT ![r] = "pending"]
    /\ UNCHANGED <<cancelled, refunds, stored, fired, network, box>>

\* The process dies between recordRefund and enqueue.
CrashInSettle(r) ==
    /\ r \in todo
    /\ Die
    /\ RecordRefund(r)
    /\ UNCHANGED <<cancelled, reports, stored, fired, network, box>>

\* The process dies after the queue took a receipt, before the handler ran.
CrashInReceipt(m) ==
    /\ Deliver(m)
    /\ IsAwaited(m.ref) \/ IsCompletion(m.ref, m.outcome)
    /\ Die
    /\ StoreReceipt(m.ref, m.outcome)
    /\ UNCHANGED <<cancelled, refunds, fired, wire, box>>

\* boot(): handlers are registered, then start() drains.
Restart ==
    /\ ~up
    /\ up' = TRUE
    /\ publishing' = PendingReports
    /\ UNCHANGED <<durable, todo, accidents, fired, network, box>>

-----------------------------------------------------------------------------
(* The box and the relays *)

\* A report the box has not acted on is settled; whatever the report, the answer
\* is its current verdict.
BoxReceive(m) ==
    /\ m \in wire
    /\ wire' = wire \ {m}
    /\ seen' = seen \cup {m}
    /\ \E v \in Outcomes :
          /\ m \in seen => v = verdict[m.ref]
          /\ verdict' = [verdict EXCEPT ![m.ref] = v]
          /\ paid' = IF v = "refunded" /\ m \notin seen
                     THEN [paid EXCEPT ![m.ref] = @ + 1] ELSE paid
          /\ receipts' = receipts \cup {[ref |-> m.ref, outcome |-> v]}
    /\ UNCHANGED <<durable, memory, accidents, fired>>

\* The box's retry of a refund succeeds or is given up, announced once.
BoxCompletes(r) ==
    /\ verdict[r] = "pending"
    /\ \E v \in {"refunded", "failed"} :
          /\ verdict' = [verdict EXCEPT ![r] = v]
          /\ paid' = IF v = "refunded" THEN [paid EXCEPT ![r] = @ + 1] ELSE paid
          /\ receipts' = receipts \cup {[ref |-> r, outcome |-> v]}
    /\ UNCHANGED <<durable, memory, accidents, fired, wire, seen>>

LoseReport(m) ==
    /\ Lossy /\ m \in wire
    /\ wire' = wire \ {m}
    /\ UNCHANGED <<durable, memory, accidents, fired, receipts, box>>

LoseReceipt(m) ==
    /\ Lossy /\ m \in receipts
    /\ receipts' = receipts \ {m}
    /\ UNCHANGED <<durable, memory, accidents, fired, wire, box>>

-----------------------------------------------------------------------------
Init ==
    /\ cancelled = {}
    /\ refunds = [r \in Refs |-> "none"]
    /\ reports = [r \in Refs |-> "none"]
    /\ stored = [r \in Refs |-> "none"]
    /\ up = TRUE
    /\ todo = {} /\ publishing = {}
    /\ crashes = 0
    /\ thrown = {}
    /\ fired = [r \in Refs |-> [settled |-> 0, completed |-> 0]]
    /\ wire = {} /\ receipts = {}
    /\ verdict = [r \in Refs |-> "none"]
    /\ seen = {}
    /\ paid = [r \in Refs |-> 0]

NodeNext ==
    \/ \E S \in SUBSET Refs : Void(S) \/ RecordThrows(S)
    \/ \E r \in Refs : \/ SkipRefund(r) \/ Settle(r) \/ SettleThrows(r)
                       \/ Publish(r) \/ PublishFails(r)
    \/ DrainTick
    \/ \E m \in Receipt : HandleReceipt(m) \/ HandlerThrows(m) \/ IgnoreReceipt(m)

CrashNext ==
    \/ Crash \/ Restart
    \/ \E r \in Refs : CrashInSettle(r)
    \/ \E m \in Receipt : CrashInReceipt(m)

EnvNext ==
    \/ \E m \in Report : BoxReceive(m) \/ LoseReport(m)
    \/ \E r \in Refs : BoxCompletes(r)
    \/ \E m \in Receipt : LoseReceipt(m)

Next == NodeNext \/ CrashNext \/ EnvNext

Spec == Init /\ [][Next]_vars

\* A container that exited is restarted; the event loop gets to every handler
\* that is ready; the timer fires; the box finishes what it retries; a message
\* that is sent again and again is delivered some time.
Fairness ==
    /\ WF_vars(Restart) /\ WF_vars(DrainTick)
    /\ \A r \in Refs : /\ WF_vars(Settle(r) \/ SkipRefund(r))
                       /\ SF_vars(Publish(r))
                       /\ WF_vars(BoxCompletes(r))
    /\ \A m \in Report : SF_vars(BoxReceive(m))
    /\ \A m \in Receipt : SF_vars(HandleReceipt(m))

FairSpec == Spec /\ Fairness

-----------------------------------------------------------------------------
(* What settlement promises *)

\* A claim's money leaves the box at most once, however often its report is
\* published and whatever run of the node published it ("the stable ref:settle
\* nonce lets the box dedup republished reports", escrow-box-mode.js:12-13).
DisbursedAtMostOnce == \A r \in Refs : paid[r] <= 1

\* The finalize handlers run at most once each for a claim
\* (escrow-box-mode.js:43-52), under duplicated and reordered receipts and
\* restarts.
FinalizedAtMostOnce ==
    \A r \in Refs : fired[r].settled <= 1 /\ fired[r].completed <= 1

\* What the ledger tells the user is what the box did: "sent" is money that left,
\* "failed" and "skipped" money that did not and will not.
RowTellsTheTruth ==
    \A r \in Refs :
        /\ refunds[r] = "sent" => verdict[r] = "refunded" /\ paid[r] >= 1
        /\ refunds[r] \in {"failed", "skipped"} => paid[r] = 0 /\ verdict[r] # "pending"

\* Every report that was queued is answered (escrow-settlement-queue.js:7-10,
\* "retry until received").
QueuedReportsAreAnswered ==
    \A r \in Refs : reports[r] = "pending" ~> reports[r] \in {"settled", "failed"}

\* The four ways a refund can be stranded, each a commit that was not followed by
\* the next, because the node died or the next one threw: its voided claim was only
\* in the memory of a handler that ended; its row was written and its report was
\* not; a receipt was stored and its handler did not close the row; the completion
\* of a refund the box retried was lost, and the drainer asks for it no more.
Forgotten(r)      == refunds[r] = "none" /\ r \notin todo
Unreported(r)     == refunds[r] = "pending" /\ reports[r] = "none"
Unhandled(r)      == refunds[r] = "pending" /\ stored[r] \in Definitive
CompletionLost(r) == /\ stored[r] = "pending"
                     /\ verdict[r] \in Definitive
                     /\ \A m \in receipts : m.ref = r => m.outcome = "pending"

Stranded(r) == Forgotten(r) \/ Unreported(r) \/ Unhandled(r) \/ CompletionLost(r)

\* Every cancelled claim ends in a row with the box's verdict, or in one of the
\* four stranded states: nothing else in crashes, exceptions, restarts and lossy relays
\* loses a refund (escrow-settlement-queue.js:7-8, quota.js:784-785).
EveryCancelIsClosed ==
    \A r \in Refs :
        r \in cancelled ~> refunds[r] \in {"sent", "failed", "skipped"} \/ Stranded(r)

\* The detailed settlement implements RefundPromise.
Promise == INSTANCE RefundPromise WITH row <- refunds

ImplementsPromise == Promise!Spec

\* Each stranding has its own cause.  A row that is missing, unreported or unhandled
\* was cut off between two commits, by a crash or by an exception in this claim's own
\* settlement, and by nothing the relays do; a completion is lost by the relays
\* alone, whatever crashes and exceptions come between
\* (server.js:264-296, 2012-2018, escrow-box-mode.js:83-110, 150-157).
StrandingHasACause ==
    \A r \in cancelled :
        /\ Forgotten(r) \/ Unreported(r) \/ Unhandled(r) => crashes > 0 \/ r \in thrown
        /\ CompletionLost(r) => Lossy
=============================================================================
