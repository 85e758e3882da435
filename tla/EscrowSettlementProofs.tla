----------------------- MODULE EscrowSettlementProofs -----------------------
(***************************************************************************)
(* Theorems about settlement through the escrow box, for any number of     *)
(* claims and crashes, over relays that lose, duplicate and reorder.       *)
(***************************************************************************)
EXTENDS EscrowSettlement, TLAPS

\* How far a claim has come bounds where it can be found.
Stages ==
    \A r \in Refs :
        /\ r \notin cancelled => refunds[r] = "none"
        /\ r \in todo => refunds[r] = "none"
        /\ refunds[r] = "none" => reports[r] = "none"
        /\ reports[r] = "none" => /\ r \notin publishing
                                  /\ \A m \in wire : m.ref # r
                                  /\ verdict[r] = "none"

\* Reports carry the stable nonce, and the box has acted on a claim exactly when
\* it has seen that nonce.
OneNonce ==
    /\ \A m \in wire \cup seen : m.nonce = SettleNonce(m.ref)
    /\ \A r \in Refs : verdict[r] # "none" <=>
                         [ref |-> r, nonce |-> SettleNonce(r)] \in seen
    /\ \A r \in Refs : paid[r] = IF verdict[r] = "refunded" THEN 1 ELSE 0

\* A definitive receipt carries the box's verdict.
ReceiptsAreTrue ==
    \A m \in receipts :
        /\ verdict[m.ref] # "none"
        /\ m.outcome \in Definitive => m.outcome = verdict[m.ref]

\* A closed row carries it too, unless nothing was to be refunded.
RowsAreTrue ==
    \A r \in Refs :
        /\ refunds[r] = "sent" => verdict[r] = "refunded"
        /\ refunds[r] = "failed" => verdict[r] = "failed"
        /\ refunds[r] = "skipped" => verdict[r] = "retained" \/ reports[r] = "none"

\* The inductive invariant.
SInv == TypeOK /\ Stages /\ OneNonce /\ ReceiptsAreTrue /\ RowsAreTrue

LEMMA NonceType == \A r \in Refs : [ref |-> r, nonce |-> SettleNonce(r)] \in Report
  BY SettlementAssumption DEF Report, SettleNonce

LEMMA FinalRowType ==
    ASSUME NEW s \in RefundStatus, NEW o \in Outcomes
    PROVE  /\ FinalRow(s, o) \in RefundStatus
           /\ o = "refunded" => FinalRow(s, o) = "sent"
           /\ o = "retained" => FinalRow(s, o) = "skipped"
           /\ o = "failed" => FinalRow(s, o) = "failed"
           /\ o = "pending" => FinalRow(s, o) = s
  BY DEF FinalRow, RefundStatus, Outcomes

LEMMA DieType == TypeOK /\ Die => /\ up' \in BOOLEAN /\ todo' = {} /\ publishing' = {}
                                  /\ crashes' \in 0..MaxCrashes /\ thrown' = thrown
<1> SUFFICES ASSUME TypeOK, Die
             PROVE  /\ up' \in BOOLEAN /\ todo' = {} /\ publishing' = {}
                    /\ crashes' \in 0..MaxCrashes /\ thrown' = thrown
  OBVIOUS
<1>1. /\ crashes \in 0..MaxCrashes /\ crashes < MaxCrashes
      /\ crashes' = crashes + 1
  BY Zenon DEF TypeOK, Die
<1>2. crashes' \in 0..MaxCrashes
  BY <1>1, SettlementAssumption
<1>3. up' \in BOOLEAN /\ todo' = {} /\ publishing' = {} /\ thrown' = thrown
  BY Zenon DEF Die
<1>4. QED
  BY <1>2, <1>3

LEMMA StoreType ==
    ASSUME TypeOK, NEW r \in Refs, NEW o \in Outcomes, StoreReceipt(r, o)
    PROVE  /\ reports' \in [Refs -> ReportStatus]
           /\ stored' \in [Refs -> Outcomes \cup {"none"}]
           /\ \A q \in Refs : reports'[q] = "none" <=> reports[q] = "none"
  BY DEF TypeOK, StoreReceipt, ReportStatus, IsAwaited

-----------------------------------------------------------------------------
(* Types *)

LEMMA TypeStep == TypeOK /\ [Next]_vars => TypeOK'
<1> SUFFICES ASSUME TypeOK, [Next]_vars PROVE TypeOK'
  OBVIOUS
<1> USE DEF durable, memory, accidents, network, box
<1>1. ASSUME NEW S \in SUBSET Refs, Void(S) PROVE TypeOK'
  BY <1>1 DEF Void, TypeOK
<1>2. ASSUME NEW r \in Refs, SkipRefund(r) PROVE TypeOK'
  BY <1>2 DEF SkipRefund, TypeOK, RefundStatus
<1>3. ASSUME NEW r \in Refs, Settle(r) PROVE TypeOK'
  BY <1>3 DEF Settle, RecordRefund, Enqueue, TypeOK, RefundStatus, ReportStatus
<1>4. ASSUME NEW r \in Refs, Publish(r) PROVE TypeOK'
  BY <1>4, NonceType DEF Publish, TypeOK
<1>5. ASSUME NEW r \in Refs, PublishFails(r) PROVE TypeOK'
  BY <1>5 DEF PublishFails, TypeOK
<1>6. CASE DrainTick
  BY <1>6 DEF DrainTick, PendingReports, TypeOK
<1>7. ASSUME NEW m \in Receipt, HandleReceipt(m) \/ HandlerThrows(m) PROVE TypeOK'
  <2>1. m.ref \in Refs /\ m.outcome \in Outcomes
    BY DEF Receipt
  <2>2. fired' \in [Refs -> [settled : Nat, completed : Nat]]
    <3>1. CASE fired' = [fired EXCEPT ![m.ref].settled = @ + 1]
      BY <2>1, <3>1 DEF TypeOK
    <3>2. CASE fired' = [fired EXCEPT ![m.ref].completed = @ + 1]
      BY <2>1, <3>2 DEF TypeOK
    <3>3. QED
      BY <1>7, <3>1, <3>2 DEF HandleReceipt, HandlerThrows, TakeReceipt
  <2>3. refunds' \in [Refs -> RefundStatus]
    BY <1>7, <2>1, FinalRowType DEF HandleReceipt, HandlerThrows, TypeOK
  <2>4. TakeReceipt(m) /\ thrown' \subseteq Refs
    BY <1>7, <2>1 DEF HandleReceipt, HandlerThrows, TypeOK
  <2>5. receipts' \subseteq Receipt
    BY <2>4 DEF TakeReceipt, Deliver, TypeOK
  <2>6. QED
    BY <2>1, <2>2, <2>3, <2>4, <2>5, StoreType DEF TakeReceipt, TypeOK
<1>8. ASSUME NEW m \in Receipt, IgnoreReceipt(m) PROVE TypeOK'
  BY <1>8 DEF IgnoreReceipt, Deliver, TypeOK
<1>9. CASE Crash
  BY <1>9, DieType DEF Crash, TypeOK
<1>10. ASSUME NEW r \in Refs, CrashInSettle(r) PROVE TypeOK'
  BY <1>10, DieType DEF CrashInSettle, RecordRefund, TypeOK, RefundStatus
<1>11. ASSUME NEW m \in Receipt, CrashInReceipt(m) PROVE TypeOK'
  <2>1. m.ref \in Refs /\ m.outcome \in Outcomes
    BY DEF Receipt
  <2>2. receipts' \subseteq Receipt
    BY <1>11 DEF CrashInReceipt, Deliver, TypeOK
  <2>3. QED
    BY <1>11, <2>1, <2>2, StoreType, DieType DEF CrashInReceipt, TypeOK
<1>12. CASE Restart
  BY <1>12 DEF Restart, PendingReports, TypeOK
<1>13. ASSUME NEW m \in Report, BoxReceive(m) PROVE TypeOK'
  <2>1. m.ref \in Refs
    BY DEF Report
  <2>2. QED
    BY <1>13, <2>1 DEF BoxReceive, TypeOK, Receipt
<1>14. ASSUME NEW r \in Refs, BoxCompletes(r) PROVE TypeOK'
  BY <1>14 DEF BoxCompletes, TypeOK, Receipt, Outcomes
<1>15. ASSUME NEW m, LoseReport(m) \/ LoseReceipt(m) PROVE TypeOK'
  BY <1>15 DEF LoseReport, LoseReceipt, TypeOK
<1>16. CASE UNCHANGED vars
  BY <1>16 DEF vars, TypeOK
<1>17. ASSUME NEW r \in Refs, SettleThrows(r) PROVE TypeOK'
  BY <1>17 DEF SettleThrows, RecordRefund, TypeOK, RefundStatus
<1>18. ASSUME NEW S \in SUBSET Refs, RecordThrows(S) PROVE TypeOK'
  BY <1>18 DEF RecordThrows, TypeOK
<1>19. QED
  BY <1>1, <1>2, <1>3, <1>4, <1>5, <1>6, <1>7, <1>8, <1>9, <1>10, <1>11, <1>12,
     <1>13, <1>14, <1>15, <1>16, <1>17, <1>18
     DEF Next, NodeNext, CrashNext, EnvNext

-----------------------------------------------------------------------------
(* The invariant *)

Told == Stages /\ OneNonce /\ ReceiptsAreTrue /\ RowsAreTrue

\* The box, the relays and the rows are as before; the queue only learns more.
LEMMA QuietStep ==
    ASSUME SInv, UNCHANGED <<verdict, seen, paid, refunds, cancelled>>,
           wire' \subseteq wire, receipts' \subseteq receipts, todo' \subseteq todo,
           reports' \in [Refs -> ReportStatus],
           \A r \in Refs : reports'[r] = "none" <=> reports[r] = "none",
           \A r \in publishing' : r \in publishing \/ reports[r] # "none"
    PROVE  Told'
<1>1. Stages'
  BY DEF SInv, Stages
<1>2. OneNonce'
  BY DEF SInv, OneNonce
<1>3. ReceiptsAreTrue'
  BY DEF SInv, ReceiptsAreTrue
<1>4. RowsAreTrue'
  BY DEF SInv, RowsAreTrue
<1>5. QED
  BY <1>1, <1>2, <1>3, <1>4 DEF Told

LEMMA NodeStep == SInv /\ NodeNext => Told'
<1> SUFFICES ASSUME SInv, NodeNext PROVE Told'
  OBVIOUS
<1> USE DEF durable, memory, accidents, network, box
<1> TypeOK
  BY DEF SInv
<1>1. ASSUME NEW S \in SUBSET Refs, Void(S) PROVE Told'
  <2>1. Stages'
    BY <1>1 DEF Void, SInv, Stages
  <2>2. OneNonce' /\ ReceiptsAreTrue' /\ RowsAreTrue'
    BY <1>1 DEF Void, SInv, OneNonce, ReceiptsAreTrue, RowsAreTrue
  <2>3. QED
    BY <2>1, <2>2 DEF Told
<1>2. ASSUME NEW r \in Refs, SkipRefund(r) \/ Settle(r) \/ SettleThrows(r) PROVE Told'
  <2>1. /\ r \in todo /\ r \in cancelled /\ refunds[r] = "none" /\ reports[r] = "none"
        /\ verdict[r] = "none"
    BY <1>2 DEF SkipRefund, Settle, SettleThrows, TypeOK, SInv, Stages
  <2>2. \A q \in Refs \ {r} : refunds'[q] = refunds[q] /\ reports'[q] = reports[q]
    BY <1>2 DEF SkipRefund, Settle, SettleThrows, RecordRefund, Enqueue, TypeOK
  <2>3. /\ refunds'[r] \in {"pending", "skipped"}
        /\ refunds'[r] = "skipped" => reports'[r] = "none"
        /\ reports'[r] = "none" => publishing' = publishing
        /\ publishing' \subseteq publishing \cup {r}
    <3>1. CASE SkipRefund(r)
      BY <2>1, <3>1 DEF SkipRefund, TypeOK
    <3>2. CASE Settle(r)
      BY <2>1, <3>2 DEF Settle, RecordRefund, Enqueue, TypeOK
    <3>3. CASE SettleThrows(r)
      BY <2>1, <3>3 DEF SettleThrows, RecordRefund, TypeOK
    <3>4. QED
      BY <1>2, <3>1, <3>2, <3>3
  <2>4. /\ todo' = todo \ {r}
        /\ UNCHANGED <<cancelled, wire, receipts, verdict, seen, paid>>
    BY <1>2 DEF SkipRefund, Settle, SettleThrows
  <2>5. Stages'
    BY <2>1, <2>2, <2>3, <2>4 DEF SInv, Stages
  <2>6. OneNonce' /\ ReceiptsAreTrue'
    BY <2>4 DEF SInv, OneNonce, ReceiptsAreTrue
  <2>7. RowsAreTrue'
    BY <2>2, <2>3, <2>4 DEF SInv, RowsAreTrue
  <2>8. QED
    BY <2>5, <2>6, <2>7 DEF Told
<1>3. ASSUME NEW r \in Refs, Publish(r) PROVE Told'
  <2>1. reports[r] # "none"
    BY <1>3 DEF Publish, SInv, Stages
  <2>2. /\ wire' = wire \cup {[ref |-> r, nonce |-> SettleNonce(r)]}
        /\ publishing' \subseteq publishing
        /\ UNCHANGED <<cancelled, refunds, reports, todo, receipts, verdict, seen, paid>>
    BY <1>3 DEF Publish
  <2>3. Stages'
    BY <2>1, <2>2 DEF SInv, Stages
  <2>4. OneNonce'
    BY <2>2 DEF SInv, OneNonce
  <2>5. ReceiptsAreTrue' /\ RowsAreTrue'
    BY <2>2 DEF SInv, ReceiptsAreTrue, RowsAreTrue
  <2>6. QED
    BY <2>3, <2>4, <2>5 DEF Told
<1>4. ASSUME NEW r \in Refs, PublishFails(r) PROVE Told'
  BY <1>4, QuietStep DEF PublishFails, TypeOK
<1>5. CASE DrainTick
  BY <1>5, QuietStep DEF DrainTick, PendingReports, TypeOK
<1>6. ASSUME NEW m \in Receipt, HandleReceipt(m) PROVE Told'
  <2>1. m.ref \in Refs /\ m.outcome \in Outcomes /\ m \in receipts
    BY <1>6 DEF Receipt, HandleReceipt, TakeReceipt, Deliver
  <2>2. /\ reports' \in [Refs -> ReportStatus]
        /\ \A q \in Refs : reports'[q] = "none" <=> reports[q] = "none"
    BY <1>6, <2>1, StoreType DEF HandleReceipt, TakeReceipt
  <2>3. /\ refunds' = [refunds EXCEPT ![m.ref] = FinalRow(@, m.outcome)]
        /\ receipts' \subseteq receipts
        /\ UNCHANGED <<cancelled, todo, publishing, wire, verdict, seen, paid>>
        /\ reports[m.ref] # "none"
    BY <1>6 DEF HandleReceipt, TakeReceipt, Deliver, IsAwaited, IsCompletion
  <2>4. /\ refunds[m.ref] # "none" /\ refunds[m.ref] \in RefundStatus
        /\ verdict[m.ref] # "none"
        /\ m.outcome \in Definitive => verdict[m.ref] = m.outcome
    BY <2>1, <2>3 DEF SInv, Stages, ReceiptsAreTrue, TypeOK
  <2>5. /\ refunds'[m.ref] = FinalRow(refunds[m.ref], m.outcome)
        /\ \A q \in Refs \ {m.ref} : refunds'[q] = refunds[q]
    BY <2>1, <2>3 DEF TypeOK
  <2>6. /\ refunds'[m.ref] # "none"
        /\ refunds'[m.ref] = "sent" => verdict[m.ref] = "refunded"
        /\ refunds'[m.ref] = "failed" => verdict[m.ref] = "failed"
        /\ refunds'[m.ref] = "skipped" => verdict[m.ref] = "retained"
    <3>1. CASE m.outcome = "pending"
      BY <2>1, <2>3, <2>4, <2>5, <3>1, FinalRowType DEF SInv, RowsAreTrue
    <3>2. CASE m.outcome # "pending"
      BY <2>1, <2>4, <2>5, <3>2, FinalRowType DEF Definitive, Outcomes
    <3>3. QED
      BY <3>1, <3>2
  <2>7. Stages'
    <3>1. \A q \in Refs : refunds'[q] = "none" <=> refunds[q] = "none"
      BY <2>4, <2>5, <2>6
    <3>2. QED
      BY <2>2, <2>3, <3>1 DEF SInv, Stages
  <2>8. OneNonce' /\ ReceiptsAreTrue'
    BY <2>3 DEF SInv, OneNonce, ReceiptsAreTrue
  <2>9. RowsAreTrue'
    BY <2>2, <2>3, <2>5, <2>6 DEF SInv, RowsAreTrue
  <2>10. QED
    BY <2>7, <2>8, <2>9 DEF Told
<1>7. ASSUME NEW m \in Receipt, IgnoreReceipt(m) PROVE Told'
  BY <1>7, QuietStep DEF IgnoreReceipt, Deliver, TypeOK
<1>8. ASSUME NEW m \in Receipt, HandlerThrows(m) PROVE Told'
  <2>1. m.ref \in Refs /\ m.outcome \in Outcomes
    BY DEF Receipt
  <2>2. /\ reports' \in [Refs -> ReportStatus]
        /\ \A q \in Refs : reports'[q] = "none" <=> reports[q] = "none"
    BY <1>8, <2>1, StoreType DEF HandlerThrows, TakeReceipt
  <2>3. QED
    BY <1>8, <2>2, QuietStep DEF HandlerThrows, TakeReceipt, Deliver
<1>9. ASSUME NEW S \in SUBSET Refs, RecordThrows(S) PROVE Told'
  BY <1>9, QuietStep DEF RecordThrows, TypeOK
<1>10. QED
  BY <1>1, <1>2, <1>3, <1>4, <1>5, <1>6, <1>7, <1>8, <1>9 DEF NodeNext

LEMMA CrashStep == SInv /\ CrashNext => Told'
<1> SUFFICES ASSUME SInv, CrashNext PROVE Told'
  OBVIOUS
<1> USE DEF durable, memory, accidents, network, box
<1> TypeOK
  BY DEF SInv
<1>1. CASE Crash
  <2>1. /\ UNCHANGED <<cancelled, refunds, reports, wire, receipts, verdict, seen, paid>>
        /\ todo' = {} /\ publishing' = {}
    BY <1>1 DEF Crash, Die
  <2>2. QED
    BY <2>1, QuietStep DEF TypeOK
<1>2. CASE Restart
  BY <1>2, QuietStep DEF Restart, PendingReports, TypeOK
<1>3. ASSUME NEW r \in Refs, CrashInSettle(r) PROVE Told'
  <2>1. /\ r \in cancelled /\ refunds[r] = "none" /\ reports[r] = "none"
        /\ refunds'[r] = "pending"
        /\ \A q \in Refs \ {r} : refunds'[q] = refunds[q]
    BY <1>3 DEF CrashInSettle, RecordRefund, TypeOK, SInv, Stages
  <2>2. /\ todo' = {} /\ publishing' = {}
        /\ UNCHANGED <<cancelled, reports, wire, receipts, verdict, seen, paid>>
    BY <1>3 DEF CrashInSettle, Die
  <2>3. Stages'
    BY <2>1, <2>2 DEF SInv, Stages
  <2>4. OneNonce' /\ ReceiptsAreTrue'
    BY <2>2 DEF SInv, OneNonce, ReceiptsAreTrue
  <2>5. RowsAreTrue'
    BY <2>1, <2>2 DEF SInv, RowsAreTrue
  <2>6. QED
    BY <2>3, <2>4, <2>5 DEF Told
<1>4. ASSUME NEW m \in Receipt, CrashInReceipt(m) PROVE Told'
  <2>1. m.ref \in Refs /\ m.outcome \in Outcomes
    BY DEF Receipt
  <2>2. /\ reports' \in [Refs -> ReportStatus]
        /\ \A q \in Refs : reports'[q] = "none" <=> reports[q] = "none"
    BY <1>4, <2>1, StoreType DEF CrashInReceipt
  <2>3. QED
    BY <1>4, <2>2, QuietStep DEF CrashInReceipt, Deliver, Die
<1>5. QED
  BY <1>1, <1>2, <1>3, <1>4 DEF CrashNext

LEMMA EnvStep == SInv /\ EnvNext => Told'
<1> SUFFICES ASSUME SInv, EnvNext PROVE Told'
  OBVIOUS
<1> USE DEF durable, memory, accidents, network, box
<1> TypeOK
  BY DEF SInv
<1>1. ASSUME NEW m \in Report, BoxReceive(m) PROVE Told'
  <2>1. /\ m.ref \in Refs /\ m \in wire /\ m.nonce = SettleNonce(m.ref)
        /\ m = [ref |-> m.ref, nonce |-> SettleNonce(m.ref)]
    BY <1>1 DEF BoxReceive, Report, SInv, OneNonce
  <2>2. m \in seen <=> verdict[m.ref] # "none"
    BY <2>1 DEF SInv, OneNonce
  <2>3. PICK v \in Outcomes :
          /\ m \in seen => v = verdict[m.ref]
          /\ verdict' = [verdict EXCEPT ![m.ref] = v]
          /\ paid' = IF v = "refunded" /\ m \notin seen
                     THEN [paid EXCEPT ![m.ref] = @ + 1] ELSE paid
          /\ receipts' = receipts \cup {[ref |-> m.ref, outcome |-> v]}
    BY <1>1 DEF BoxReceive
  <2>4. /\ wire' = wire \ {m} /\ seen' = seen \cup {m}
        /\ UNCHANGED <<cancelled, refunds, reports, todo, publishing>>
    BY <1>1 DEF BoxReceive
  <2>5. /\ verdict'[m.ref] = v
        /\ \A q \in Refs \ {m.ref} : verdict'[q] = verdict[q] /\ paid'[q] = paid[q]
        /\ paid'[m.ref] = IF v = "refunded" /\ m \notin seen THEN paid[m.ref] + 1
                          ELSE paid[m.ref]
        /\ v # "none"
    BY <2>1, <2>3 DEF TypeOK, Outcomes
  <2>6. reports[m.ref] # "none"
    BY <2>1 DEF SInv, Stages
  <2>7. verdict[m.ref] # "none" => v = verdict[m.ref]
    BY <2>2, <2>3
  <2>8. Stages'
    BY <2>4, <2>5, <2>6 DEF SInv, Stages
  <2>9. OneNonce'
    <3>1. \A n \in wire' \cup seen' : n.nonce = SettleNonce(n.ref)
      BY <2>1, <2>4 DEF SInv, OneNonce
    <3>2. ASSUME NEW q \in Refs
          PROVE  verdict'[q] # "none" <=> [ref |-> q, nonce |-> SettleNonce(q)] \in seen'
      <4>1. CASE q = m.ref
        BY <2>1, <2>4, <2>5, <4>1
      <4>2. CASE q # m.ref
        BY <2>1, <2>4, <2>5, <4>2 DEF SInv, OneNonce
      <4>3. QED
        BY <4>1, <4>2
    <3>3. ASSUME NEW q \in Refs
          PROVE  paid'[q] = IF verdict'[q] = "refunded" THEN 1 ELSE 0
      <4>1. paid[q] = IF verdict[q] = "refunded" THEN 1 ELSE 0
        BY DEF SInv, OneNonce
      <4>2. CASE q = m.ref /\ m \in seen
        BY <2>3, <2>5, <4>1, <4>2
      <4>3. CASE q = m.ref /\ m \notin seen
        <5>1. verdict[q] = "none" /\ paid[q] = 0
          BY <2>2, <4>1, <4>3
        <5>2. QED
          BY <2>5, <4>3, <5>1
      <4>4. CASE q # m.ref
        BY <2>5, <4>1, <4>4
      <4>5. QED
        BY <4>2, <4>3, <4>4
    <3>4. QED
      BY <3>1, <3>2, <3>3 DEF OneNonce
  <2>10. ReceiptsAreTrue'
    <3>1. \A n \in receipts : n.ref \in Refs
      BY DEF TypeOK, Receipt
    <3>2. \A n \in receipts : verdict'[n.ref] = verdict[n.ref]
      BY <2>5, <2>7, <3>1 DEF SInv, ReceiptsAreTrue
    <3>3. \A n \in receipts : /\ verdict'[n.ref] # "none"
                              /\ n.outcome \in Definitive => n.outcome = verdict'[n.ref]
      BY <3>2 DEF SInv, ReceiptsAreTrue
    <3>4. QED
      BY <2>3, <2>5, <3>3 DEF ReceiptsAreTrue
  <2>11. RowsAreTrue'
    BY <2>4, <2>5, <2>6, <2>7 DEF SInv, RowsAreTrue
  <2>12. QED
    BY <2>8, <2>9, <2>10, <2>11 DEF Told
<1>2. ASSUME NEW r \in Refs, BoxCompletes(r) PROVE Told'
  <2>1. PICK v \in {"refunded", "failed"} :
          /\ verdict' = [verdict EXCEPT ![r] = v]
          /\ paid' = IF v = "refunded" THEN [paid EXCEPT ![r] = @ + 1] ELSE paid
          /\ receipts' = receipts \cup {[ref |-> r, outcome |-> v]}
    BY <1>2 DEF BoxCompletes
  <2>2. /\ verdict[r] = "pending" /\ verdict'[r] = v
        /\ \A q \in Refs \ {r} : verdict'[q] = verdict[q] /\ paid'[q] = paid[q]
        /\ paid'[r] = IF v = "refunded" THEN paid[r] + 1 ELSE paid[r]
        /\ UNCHANGED <<cancelled, refunds, reports, todo, publishing, wire, seen>>
    BY <1>2, <2>1 DEF BoxCompletes, TypeOK
  <2>3. Stages'
    BY <2>2 DEF SInv, Stages
  <2>4. OneNonce'
    <3>1. \A q \in Refs : verdict'[q] # "none" <=> verdict[q] # "none"
      BY <2>2
    <3>2. \A q \in Refs : paid'[q] = IF verdict'[q] = "refunded" THEN 1 ELSE 0
      BY <2>2 DEF SInv, OneNonce
    <3>3. QED
      BY <2>2, <3>1, <3>2 DEF SInv, OneNonce
  <2>5. ReceiptsAreTrue'
    <3>1. \A n \in receipts : n.ref \in Refs
      BY DEF TypeOK, Receipt
    <3>2. \A n \in receipts : /\ verdict'[n.ref] # "none"
                              /\ n.outcome \in Definitive => n.outcome = verdict'[n.ref]
      BY <2>2, <3>1 DEF SInv, ReceiptsAreTrue, Definitive
    <3>3. QED
      BY <2>1, <2>2, <3>2 DEF ReceiptsAreTrue
  <2>6. RowsAreTrue'
    BY <2>2 DEF SInv, RowsAreTrue
  <2>7. QED
    BY <2>3, <2>4, <2>5, <2>6 DEF Told
<1>3. ASSUME NEW m, LoseReport(m) \/ LoseReceipt(m) PROVE Told'
  BY <1>3, QuietStep DEF LoseReport, LoseReceipt, TypeOK
<1>4. QED
  BY <1>1, <1>2, <1>3 DEF EnvNext

LEMMA SettlementInvariant == Spec => []SInv
<1>1. Init => SInv
  <2> SUFFICES ASSUME Init PROVE SInv
    OBVIOUS
  <2>1. up \in BOOLEAN
    BY Zenon DEF Init
  <2>2. crashes \in 0..MaxCrashes
    BY SettlementAssumption DEF Init
  <2>3. TypeOK
    BY <2>1, <2>2 DEF Init, TypeOK, RefundStatus, ReportStatus
  <2>4. Stages /\ OneNonce /\ ReceiptsAreTrue /\ RowsAreTrue
    BY DEF Init, Stages, OneNonce, ReceiptsAreTrue, RowsAreTrue
  <2>5. QED
    BY <2>3, <2>4 DEF SInv
<1>2. SInv /\ UNCHANGED vars => Told'
  <2> SUFFICES ASSUME SInv, UNCHANGED vars PROVE Told'
    OBVIOUS
  <2>1. UNCHANGED <<cancelled, refunds, reports, todo, publishing, wire, receipts,
                    verdict, seen, paid>>
    BY DEF vars, durable, memory, accidents, network, box
  <2>2. QED
    BY <2>1, QuietStep DEF SInv, TypeOK
<1>3. SInv /\ [Next]_vars => SInv'
  BY <1>2, TypeStep, NodeStep, CrashStep, EnvStep DEF Next, SInv, Told
<1>4. QED
  BY <1>1, <1>3, PTL DEF Spec

\* The tables, the memory of the node and the messages keep their types.
THEOREM TypeCorrect == Spec => []TypeOK
<1>1. SInv => TypeOK
  BY DEF SInv
<1>2. QED
  BY <1>1, SettlementInvariant, PTL

\* No claim is refunded twice, whatever is published, lost, delivered twice or
\* published again after a crash.
THEOREM PaidOnce == Spec => []DisbursedAtMostOnce
<1>1. SInv => DisbursedAtMostOnce
  <2> SUFFICES ASSUME SInv, NEW r \in Refs PROVE paid[r] <= 1
    BY DEF DisbursedAtMostOnce
  <2>1. paid[r] = IF verdict[r] = "refunded" THEN 1 ELSE 0
    BY DEF SInv, OneNonce
  <2>2. QED
    BY <2>1
<1>2. QED
  BY <1>1, SettlementInvariant, PTL

\* A closed refund row agrees with what the box did.
THEOREM RowsAgreeWithBox == Spec => []RowTellsTheTruth
<1>1. SInv => RowTellsTheTruth
  <2> SUFFICES ASSUME SInv, NEW r \in Refs
               PROVE  /\ refunds[r] = "sent" => verdict[r] = "refunded" /\ paid[r] >= 1
                      /\ refunds[r] \in {"failed", "skipped"}
                           => paid[r] = 0 /\ verdict[r] # "pending"
    BY DEF RowTellsTheTruth
  <2>1. paid[r] = IF verdict[r] = "refunded" THEN 1 ELSE 0
    BY DEF SInv, OneNonce
  <2>2. /\ refunds[r] = "sent" => verdict[r] = "refunded"
        /\ refunds[r] = "failed" => verdict[r] = "failed"
        /\ refunds[r] = "skipped" => verdict[r] \in {"retained", "none"}
    BY DEF SInv, RowsAreTrue, Stages
  <2>3. QED
    BY <2>1, <2>2
<1>2. QED
  BY <1>1, SettlementInvariant, PTL

-----------------------------------------------------------------------------
(* The finalize handlers *)

\* A handler has run only for a report that is answered, and the second one only
\* for an answer that is final.
Fired ==
    \A r \in Refs :
        /\ reports[r] \notin {"settled", "failed"} =>
              fired[r].settled = 0 /\ fired[r].completed = 0
        /\ stored[r] = "pending" => fired[r].completed = 0
        /\ fired[r].settled \in {0, 1} /\ fired[r].completed \in {0, 1}

\* The queue has taken a receipt: the report is answered, with that outcome.
LEMMA StoredReceipt ==
    ASSUME TypeOK, NEW r \in Refs, NEW o \in Outcomes, IsAwaited(r) \/ IsCompletion(r, o),
           StoreReceipt(r, o)
    PROVE  /\ reports'[r] \in {"settled", "failed"}
           /\ stored'[r] = o
           /\ \A q \in Refs \ {r} : reports'[q] = reports[q] /\ stored'[q] = stored[q]
  BY DEF TypeOK, StoreReceipt, IsAwaited, IsCompletion

LEMMA FiredStep == TypeOK /\ Fired /\ [Next]_vars => Fired'
<1> SUFFICES ASSUME TypeOK, Fired, [Next]_vars PROVE Fired'
  OBVIOUS
<1> USE DEF durable, memory, accidents, network, box
<1>1. ASSUME NEW r \in Refs, Settle(r) PROVE Fired'
  <2>1. UNCHANGED <<stored, fired>>
    BY <1>1 DEF Settle
  <2>2. \A q \in Refs : reports'[q] \notin {"settled", "failed"} =>
                          reports[q] \notin {"settled", "failed"}
    BY <1>1 DEF Settle, Enqueue, TypeOK
  <2>3. QED
    BY <2>1, <2>2 DEF Fired
<1>2. ASSUME NEW m \in Receipt, TakeReceipt(m) PROVE Fired'
  <2>1. /\ m.ref \in Refs /\ m.outcome \in Outcomes
        /\ IsAwaited(m.ref) \/ IsCompletion(m.ref, m.outcome)
        /\ StoreReceipt(m.ref, m.outcome)
    BY <1>2 DEF Receipt, TakeReceipt
  <2>2. /\ reports'[m.ref] \in {"settled", "failed"}
        /\ stored'[m.ref] = m.outcome
        /\ \A q \in Refs \ {m.ref} : reports'[q] = reports[q] /\ stored'[q] = stored[q]
    BY <2>1, StoredReceipt
  <2>3. \A q \in Refs \ {m.ref} : fired'[q] = fired[q]
    <3>1. \/ fired' = [fired EXCEPT ![m.ref].settled = @ + 1]
          \/ fired' = [fired EXCEPT ![m.ref].completed = @ + 1]
      BY <1>2 DEF TakeReceipt
    <3>2. QED
      BY <2>1, <3>1 DEF TypeOK
  <2>4. /\ fired'[m.ref].settled \in {0, 1} /\ fired'[m.ref].completed \in {0, 1}
        /\ m.outcome = "pending" => fired'[m.ref].completed = 0
    <3>1. fired[m.ref] \in [settled : Nat, completed : Nat]
      BY <2>1 DEF TypeOK
    <3>2. CASE IsAwaited(m.ref)
      <4>1. fired[m.ref].settled = 0 /\ fired[m.ref].completed = 0
        BY <2>1, <3>2 DEF Fired, IsAwaited
      <4>2. fired' = [fired EXCEPT ![m.ref].settled = @ + 1]
        BY <1>2, <3>2 DEF TakeReceipt
      <4>3. fired'[m.ref].settled = 1 /\ fired'[m.ref].completed = 0
        BY <2>1, <4>1, <4>2 DEF TypeOK
      <4>4. QED
        BY <4>3
    <3>3. CASE ~IsAwaited(m.ref)
      <4>1. m.outcome # "pending" /\ stored[m.ref] = "pending"
        BY <2>1, <3>3 DEF IsCompletion, Definitive
      <4>2. fired[m.ref].completed = 0 /\ fired[m.ref].settled \in {0, 1}
        BY <2>1, <4>1 DEF Fired
      <4>3. fired' = [fired EXCEPT ![m.ref].completed = @ + 1]
        BY <1>2, <3>3 DEF TakeReceipt
      <4>4. fired'[m.ref].completed = 1 /\ fired'[m.ref].settled = fired[m.ref].settled
        BY <2>1, <4>2, <4>3 DEF TypeOK
      <4>5. QED
        BY <4>1, <4>2, <4>4
    <3>4. QED
      BY <3>2, <3>3
  <2>5. QED
    BY <2>2, <2>3, <2>4 DEF Fired
<1>3. ASSUME NEW m \in Receipt, CrashInReceipt(m) PROVE Fired'
  <2>1. /\ m.ref \in Refs /\ m.outcome \in Outcomes
        /\ IsAwaited(m.ref) \/ IsCompletion(m.ref, m.outcome)
        /\ StoreReceipt(m.ref, m.outcome) /\ UNCHANGED fired
    BY <1>3 DEF Receipt, CrashInReceipt
  <2>2. /\ reports'[m.ref] \in {"settled", "failed"}
        /\ stored'[m.ref] = m.outcome
        /\ \A q \in Refs \ {m.ref} : reports'[q] = reports[q] /\ stored'[q] = stored[q]
    BY <2>1, StoredReceipt
  <2>3. m.outcome = "pending" => fired[m.ref].completed = 0
    BY <2>1 DEF Fired, IsAwaited, IsCompletion, Definitive
  <2>4. QED
    BY <2>1, <2>2, <2>3 DEF Fired
<1>4. CASE \/ \E S \in SUBSET Refs : Void(S) \/ RecordThrows(S)
           \/ \E r \in Refs : SkipRefund(r) \/ SettleThrows(r) \/ Publish(r) \/ PublishFails(r)
                             \/ CrashInSettle(r)
           \/ \E r \in Refs : BoxCompletes(r)
           \/ DrainTick \/ Crash \/ Restart
           \/ \E m \in Receipt : IgnoreReceipt(m) \/ LoseReceipt(m)
           \/ \E m \in Report : BoxReceive(m) \/ LoseReport(m)
           \/ UNCHANGED vars
  <2>1. UNCHANGED <<reports, stored, fired>>
    BY <1>4 DEF Void, RecordThrows, SkipRefund, SettleThrows, Publish, PublishFails, CrashInSettle, BoxCompletes, DrainTick,
                Crash, Restart, IgnoreReceipt, LoseReceipt, BoxReceive, LoseReport, vars
  <2>2. QED
    BY <2>1 DEF Fired
<1>5. QED
  BY <1>1, <1>2, <1>3, <1>4 DEF Next, NodeNext, CrashNext, EnvNext, HandleReceipt, HandlerThrows

\* Each of the two finalize handlers runs at most once for a claim, however often
\* receipts are delivered and the process is restarted: the queue's row leaves
\* 'pending' before the handler is called, and a stored outcome that is final
\* takes no other (escrow-box-mode.js:79-110).
THEOREM HandlersRunOnce == Spec => []FinalizedAtMostOnce
<1>1. ASSUME Init PROVE Fired
  <2>1. fired = [r \in Refs |-> [settled |-> 0, completed |-> 0]]
    BY <1>1 DEF Init
  <2>2. \A r \in Refs : fired[r].settled = 0 /\ fired[r].completed = 0
    BY <2>1
  <2>3. QED
    BY <2>2 DEF Fired
<1>2. ASSUME Fired PROVE FinalizedAtMostOnce
  <2>1. \A r \in Refs : fired[r].settled \in {0, 1} /\ fired[r].completed \in {0, 1}
    BY <1>2 DEF Fired
  <2>2. \A n \in {0, 1} : n <= 1
    OBVIOUS
  <2>3. QED
    BY <2>1, <2>2 DEF FinalizedAtMostOnce
<1>3. QED
  BY <1>1, <1>2, FiredStep, TypeCorrect, PTL DEF Spec

-----------------------------------------------------------------------------
(* Refinement *)

LEMMA ClosesRows ==
    ASSUME NEW s \in RefundStatus, NEW o \in Definitive
    PROVE  FinalRow(s, o) = Promise!Closes[o] /\ o \in DOMAIN Promise!Closes
  BY FinalRowType DEF Definitive, Outcomes, Promise!Closes

LEMMA PromiseStep == SInv /\ [Next]_vars => [Promise!Next]_Promise!vars
<1> SUFFICES ASSUME SInv, [Next]_vars PROVE [Promise!Next]_Promise!vars
  OBVIOUS
<1> USE DEF durable, memory, accidents, network, box
<1> DEFINE Still == UNCHANGED <<refunds, verdict, paid>>
<1>1. ASSUME NEW r \in Refs, SkipRefund(r) \/ Settle(r) \/ SettleThrows(r) \/ CrashInSettle(r)
      PROVE  Promise!Record(r)
  <2>1. r \in todo
    BY <1>1 DEF SkipRefund, Settle, SettleThrows, CrashInSettle
  <2>2. refunds[r] = "none"
    BY <2>1 DEF SInv, TypeOK, Stages
  <2>3. /\ \E s \in {"pending", "skipped"} : refunds' = [refunds EXCEPT ![r] = s]
        /\ UNCHANGED <<verdict, paid>>
    BY <1>1 DEF SkipRefund, Settle, SettleThrows, CrashInSettle, RecordRefund
  <2>4. QED
    BY <2>2, <2>3 DEF Promise!Record
<1>2. ASSUME NEW m \in Receipt, HandleReceipt(m)
      PROVE  Promise!Close(m.ref) \/ Still
  <2>1. /\ m.ref \in Refs /\ m.outcome \in Outcomes /\ m \in receipts
        /\ reports[m.ref] # "none"
        /\ refunds' = [refunds EXCEPT ![m.ref] = FinalRow(@, m.outcome)]
        /\ UNCHANGED <<verdict, paid>>
    BY <1>2 DEF Receipt, HandleReceipt, TakeReceipt, Deliver, IsAwaited, IsCompletion
  <2>2. /\ refunds \in [Refs -> RefundStatus] /\ refunds[m.ref] # "none"
        /\ m.outcome \in Definitive => m.outcome = verdict[m.ref]
    BY <2>1 DEF SInv, TypeOK, Stages, ReceiptsAreTrue
  <2>3. CASE FinalRow(refunds[m.ref], m.outcome) = refunds[m.ref]
    <3>1. refunds' = refunds
      BY <2>1, <2>2, <2>3
    <3>2. QED
      BY <2>1, <3>1
  <2>4. CASE FinalRow(refunds[m.ref], m.outcome) # refunds[m.ref]
    <3>1. m.outcome \in Definitive
      BY <2>1, <2>2, <2>4, FinalRowType DEF Definitive
    <3>2. refunds[m.ref] = "pending"
      <4>1. m.outcome = verdict[m.ref] /\ refunds[m.ref] \in RefundStatus
        BY <2>1, <2>2, <3>1
      <4>2. refunds[m.ref] \notin {"none", "sent", "failed", "skipped"}
        BY <2>1, <2>2, <2>4, <4>1, FinalRowType DEF SInv, RowsAreTrue
      <4>3. QED
        BY <4>1, <4>2 DEF RefundStatus
    <3>3. QED
      BY <2>1, <2>2, <3>1, <3>2, ClosesRows DEF Promise!Close
  <2>5. QED
    BY <2>3, <2>4
<1>3. ASSUME NEW r \in Refs, verdict[r] = "none", reports[r] # "none"
      PROVE  refunds[r] = "pending"
  BY <1>3 DEF SInv, TypeOK, Stages, RowsAreTrue, RefundStatus
<1>4. ASSUME NEW m \in Report, BoxReceive(m)
      PROVE  Promise!Decide(m.ref) \/ Still
  <2>1. /\ m.ref \in Refs /\ m \in wire /\ UNCHANGED refunds
        /\ m = [ref |-> m.ref, nonce |-> SettleNonce(m.ref)]
    BY <1>4 DEF BoxReceive, Report, SInv, OneNonce
  <2>2. /\ m \in seen <=> verdict[m.ref] # "none"
        /\ reports[m.ref] # "none"
        /\ paid[m.ref] = IF verdict[m.ref] = "refunded" THEN 1 ELSE 0
    BY <2>1 DEF SInv, OneNonce, Stages
  <2>3. PICK v \in Outcomes :
          /\ m \in seen => v = verdict[m.ref]
          /\ verdict' = [verdict EXCEPT ![m.ref] = v]
          /\ paid' = IF v = "refunded" /\ m \notin seen
                     THEN [paid EXCEPT ![m.ref] = @ + 1] ELSE paid
    BY <1>4 DEF BoxReceive
  <2>4. CASE m \in seen
    <3>1. verdict' = verdict /\ paid' = paid
      BY <2>1, <2>3, <2>4 DEF SInv, TypeOK
    <3>2. QED
      BY <2>1, <3>1
  <2>5. CASE m \notin seen
    <3>1. verdict[m.ref] = "none" /\ refunds[m.ref] = "pending" /\ paid[m.ref] = 0
      BY <1>3, <2>1, <2>2, <2>5
    <3>2. paid' = IF v = "refunded" THEN [paid EXCEPT ![m.ref] = 1] ELSE paid
      BY <2>3, <2>5, <3>1
    <3>3. QED
      BY <2>1, <2>3, <3>1, <3>2 DEF Promise!Decide, Outcomes
  <2>6. QED
    BY <2>4, <2>5
<1>5. ASSUME NEW r \in Refs, BoxCompletes(r)
      PROVE  Promise!Decide(r)
  <2>1. /\ verdict[r] = "pending" /\ UNCHANGED refunds
        /\ paid[r] = 0
    BY <1>5 DEF BoxCompletes, SInv, OneNonce
  <2>2. PICK v \in {"refunded", "failed"} :
          /\ verdict' = [verdict EXCEPT ![r] = v]
          /\ paid' = IF v = "refunded" THEN [paid EXCEPT ![r] = @ + 1] ELSE paid
    BY <1>5 DEF BoxCompletes
  <2>3. refunds[r] = "pending"
    BY <2>1 DEF SInv, TypeOK, Stages, RowsAreTrue, RefundStatus
  <2>4. paid' = IF v = "refunded" THEN [paid EXCEPT ![r] = 1] ELSE paid
    BY <2>1, <2>2
  <2>5. QED
    BY <2>1, <2>2, <2>3, <2>4 DEF Promise!Decide
<1>6. CASE \/ \E S \in SUBSET Refs : Void(S) \/ RecordThrows(S)
           \/ \E r \in Refs : Publish(r) \/ PublishFails(r)
           \/ DrainTick \/ Crash \/ Restart
           \/ \E m \in Receipt : HandlerThrows(m) \/ IgnoreReceipt(m) \/ CrashInReceipt(m)
           \/ \E m : LoseReport(m) \/ LoseReceipt(m)
           \/ UNCHANGED vars
  <2>1. Still
    BY <1>6 DEF Void, RecordThrows, HandlerThrows, TakeReceipt, Publish, PublishFails, DrainTick, Crash, Restart,
                IgnoreReceipt, CrashInReceipt, LoseReport, LoseReceipt, vars
  <2>2. QED
    BY <2>1 DEF Promise!vars
<1>7. CASE \E m \in Report : BoxReceive(m)
  BY <1>4, <1>7 DEF Report, Promise!Next, Promise!vars
<1>8. CASE \E m \in Receipt : HandleReceipt(m)
  BY <1>2, <1>8 DEF Receipt, Promise!Next, Promise!vars
<1>9. QED
  BY <1>1, <1>5, <1>6, <1>7, <1>8
     DEF Next, NodeNext, CrashNext, EnvNext, Promise!Next, Promise!vars

\* Settlement through the box keeps RefundPromise: a row before the box is asked,
\* one decision, one closing with that decision.
THEOREM KeepsPromise == Spec => ImplementsPromise
<1>1. Init => Promise!Init
  BY DEF Init, Promise!Init
<1>2. QED
  BY <1>1, PromiseStep, SettlementInvariant, PTL
     DEF Spec, ImplementsPromise, Promise!Spec

-----------------------------------------------------------------------------
(* What strands a refund *)

\* An outcome is on file exactly for the reports that were answered.
AnswersOnFile ==
    \A r \in Refs : stored[r] = "none" <=> reports[r] \in {"none", "pending"}

\* Until the first crash each cancelled claim whose settlement has not thrown is in
\* some handler's hands: waiting in its memory, then in the queue, then closed by the
\* receipt that was stored.
InHand ==
    crashes = 0 =>
        \A r \in cancelled \ thrown :
            /\ refunds[r] = "none" => r \in todo
            /\ refunds[r] = "pending" => reports[r] # "none" /\ stored[r] \notin Definitive

\* A relay that loses nothing keeps the box's verdict until the node has stored it.
VerdictOnItsWay ==
    ~Lossy =>
        \A r \in Refs :
            verdict[r] \in Definitive =>
                \/ stored[r] \in Definitive
                \/ \E m \in receipts : m.ref = r /\ m.outcome \in Definitive

\* The inductive invariant, on top of SInv.
Traced == AnswersOnFile /\ InHand /\ VerdictOnItsWay

LEMMA AnswersOnFileStep == SInv /\ AnswersOnFile /\ [Next]_vars => AnswersOnFile'
<1> SUFFICES ASSUME SInv, AnswersOnFile, [Next]_vars PROVE AnswersOnFile'
  OBVIOUS
<1> USE DEF durable, memory, accidents, network, box
<1>a. TypeOK
  BY DEF SInv
<1>1. ASSUME NEW r \in Refs, Settle(r) PROVE AnswersOnFile'
  <2>1. /\ UNCHANGED stored
        /\ reports' = reports \/ (reports[r] = "none" /\ reports' = [reports EXCEPT ![r] = "pending"])
    BY <1>1 DEF Settle, Enqueue
  <2> QED BY <1>a, <2>1 DEF AnswersOnFile, TypeOK
<1>2. ASSUME NEW m \in Receipt, TakeReceipt(m) \/ CrashInReceipt(m) PROVE AnswersOnFile'
  <2>1. /\ m.ref \in Refs /\ m.outcome \in Outcomes
        /\ IsAwaited(m.ref) \/ IsCompletion(m.ref, m.outcome)
        /\ StoreReceipt(m.ref, m.outcome)
    BY <1>2 DEF Receipt, TakeReceipt, CrashInReceipt
  <2>2. /\ reports'[m.ref] \in {"settled", "failed"}
        /\ stored'[m.ref] # "none"
        /\ \A q \in Refs \ {m.ref} : reports'[q] = reports[q] /\ stored'[q] = stored[q]
    BY <1>a, <2>1, StoredReceipt DEF Outcomes
  <2> QED BY <2>2 DEF AnswersOnFile
<1>3. CASE UNCHANGED <<reports, stored>>
  BY <1>3 DEF AnswersOnFile
<1> QED BY <1>1, <1>2, <1>3
        DEF Next, NodeNext, CrashNext, EnvNext, HandleReceipt, HandlerThrows, Void, RecordThrows,
            SettleThrows, SkipRefund, Publish, PublishFails, DrainTick,
            Crash, Restart, CrashInSettle, IgnoreReceipt, LoseReceipt, BoxReceive, LoseReport,
            BoxCompletes, vars

LEMMA InHandStep == SInv /\ AnswersOnFile /\ InHand /\ [Next]_vars => InHand'
<1> SUFFICES ASSUME SInv, AnswersOnFile, InHand, [Next]_vars PROVE InHand'
  OBVIOUS
<1> USE DEF durable, memory, accidents, network, box
<1>a. TypeOK /\ Stages
  BY DEF SInv
<1>1. ASSUME NEW S \in SUBSET Refs, Void(S) PROVE InHand'
  <2>1. /\ cancelled' = cancelled \cup S /\ todo' = todo \cup S /\ S \cap cancelled = {}
        /\ UNCHANGED <<refunds, reports, stored, crashes, thrown>>
    BY <1>1 DEF Void
  <2>2. \A r \in S : refunds[r] = "none"
    BY <1>a, <2>1 DEF Stages
  <2> QED BY <2>1, <2>2 DEF InHand
<1>2. ASSUME NEW r \in Refs, SkipRefund(r) \/ Settle(r) PROVE InHand'
  <2>1. /\ UNCHANGED <<cancelled, stored, crashes, thrown>> /\ todo' = todo \ {r} /\ r \in todo
        /\ \E row \in {"skipped", "pending"} : refunds' = [refunds EXCEPT ![r] = row]
    BY <1>2 DEF SkipRefund, Settle, RecordRefund
  <2>2. refunds[r] = "none" /\ reports[r] = "none" /\ stored[r] = "none"
    BY <1>a, <2>1 DEF Stages, AnswersOnFile
  <2>3. \A q \in Refs \ {r} : refunds'[q] = refunds[q]
    BY <1>a, <2>1 DEF TypeOK
  <2>4. /\ refunds'[r] \in {"skipped", "pending"}
        /\ \A q \in Refs \ {r} : reports'[q] = reports[q]
        /\ refunds'[r] = "pending" => reports'[r] # "none"
    <3>1. CASE SkipRefund(r)
      BY <1>a, <3>1 DEF SkipRefund, TypeOK
    <3>2. CASE Settle(r)
      BY <1>a, <3>2 DEF Settle, RecordRefund, Enqueue, TypeOK
    <3> QED BY <1>2, <3>1, <3>2
  <2>5. cancelled' \subseteq Refs
    BY <1>a, <2>1 DEF TypeOK
  <2> QED BY <2>1, <2>2, <2>3, <2>4, <2>5 DEF InHand, Definitive, Outcomes
<1>3. ASSUME NEW m \in Receipt, HandleReceipt(m) PROVE InHand'
  <2>1. /\ m.ref \in Refs /\ m.outcome \in Outcomes
        /\ IsAwaited(m.ref) \/ IsCompletion(m.ref, m.outcome)
        /\ StoreReceipt(m.ref, m.outcome)
        /\ refunds' = [refunds EXCEPT ![m.ref] = FinalRow(@, m.outcome)]
        /\ UNCHANGED <<cancelled, todo, crashes, thrown>>
    BY <1>3 DEF Receipt, HandleReceipt, TakeReceipt
  <2>2. /\ reports'[m.ref] # "none"
        /\ stored'[m.ref] = m.outcome
        /\ \A q \in Refs \ {m.ref} : reports'[q] = reports[q] /\ stored'[q] = stored[q]
    BY <1>a, <2>1, StoredReceipt
  <2>3. /\ refunds'[m.ref] = FinalRow(refunds[m.ref], m.outcome)
        /\ refunds[m.ref] \in RefundStatus
        /\ \A q \in Refs \ {m.ref} : refunds'[q] = refunds[q]
    BY <1>a, <2>1 DEF TypeOK
  <2>4. refunds[m.ref] # "none"
    BY <1>a, <2>1 DEF Stages, IsAwaited, IsCompletion
  <2>5. refunds'[m.ref] # "none" /\ (refunds'[m.ref] = "pending" => m.outcome \notin Definitive)
    BY <2>1, <2>3, <2>4, FinalRowType DEF Definitive, Outcomes
  <2>6. cancelled \subseteq Refs
    BY <1>a DEF TypeOK
  <2> QED BY <2>1, <2>2, <2>3, <2>5, <2>6 DEF InHand
<1>4. CASE UNCHANGED <<cancelled, refunds, reports, stored, todo, accidents>>
  BY <1>4 DEF InHand
<1>5. CASE Die
  <2>1. crashes' = crashes + 1 /\ crashes \in Nat
    BY <1>5, <1>a DEF Die, TypeOK
  <2>2. crashes' # 0
    BY <2>1
  <2> QED BY <2>2 DEF InHand
<1>6. ASSUME NEW S \in SUBSET Refs, UNCHANGED <<cancelled, crashes>>, thrown' = thrown \cup S,
             todo \ S \subseteq todo',
             \A q \in Refs \ S : /\ refunds'[q] = refunds[q] /\ reports'[q] = reports[q]
                                 /\ stored'[q] = stored[q]
      PROVE  InHand'
  <2>1. cancelled \subseteq Refs
    BY <1>a DEF TypeOK
  <2> QED BY <1>6, <2>1 DEF InHand
<1>7. ASSUME NEW S \in SUBSET Refs, RecordThrows(S) PROVE InHand'
  BY <1>6, <1>7 DEF RecordThrows
<1>8. ASSUME NEW r \in Refs, SettleThrows(r) PROVE InHand'
  <2>1. /\ UNCHANGED <<cancelled, crashes, reports, stored>> /\ thrown' = thrown \cup {r}
        /\ todo' = todo \ {r} /\ refunds' = [refunds EXCEPT ![r] = "pending"]
    BY <1>8 DEF SettleThrows, RecordRefund
  <2>2. \A q \in Refs \ {r} : refunds'[q] = refunds[q]
    BY <1>a, <2>1 DEF TypeOK
  <2> QED BY <1>6, <2>1, <2>2
<1>9. ASSUME NEW m \in Receipt, HandlerThrows(m) PROVE InHand'
  <2>1. /\ m.ref \in Refs /\ m.outcome \in Outcomes
        /\ IsAwaited(m.ref) \/ IsCompletion(m.ref, m.outcome)
        /\ StoreReceipt(m.ref, m.outcome)
        /\ UNCHANGED <<cancelled, refunds, todo, crashes>> /\ thrown' = thrown \cup {m.ref}
    BY <1>9 DEF Receipt, HandlerThrows, TakeReceipt
  <2>2. \A q \in Refs \ {m.ref} : reports'[q] = reports[q] /\ stored'[q] = stored[q]
    BY <1>a, <2>1, StoredReceipt
  <2>3. {m.ref} \in SUBSET Refs /\ todo \ {m.ref} \subseteq todo'
    BY <2>1
  <2> QED BY <1>6, <2>1, <2>2, <2>3
<1> QED BY <1>1, <1>2, <1>3, <1>4, <1>5, <1>7, <1>8, <1>9
        DEF Next, NodeNext, CrashNext, EnvNext, Publish, PublishFails, DrainTick, Crash, Restart,
            CrashInSettle, CrashInReceipt, IgnoreReceipt, LoseReceipt, BoxReceive, LoseReport,
            BoxCompletes, vars

\* The queue stores a receipt, and its relay may forget it.
LEMMA TakenVerdict ==
    ASSUME SInv, AnswersOnFile, VerdictOnItsWay, NEW m \in Receipt,
           Deliver(m), UNCHANGED verdict,
           \/ /\ IsAwaited(m.ref) \/ IsCompletion(m.ref, m.outcome)
              /\ StoreReceipt(m.ref, m.outcome)
           \/ ~IsAwaited(m.ref) /\ ~IsCompletion(m.ref, m.outcome) /\ UNCHANGED stored
    PROVE  VerdictOnItsWay'
<1>1. TypeOK /\ Stages /\ ReceiptsAreTrue /\ m.ref \in Refs /\ m.outcome \in Outcomes
  BY DEF SInv, Receipt
<1>2. m \in receipts /\ \A n \in receipts : n # m => n \in receipts'
  BY DEF Deliver
<1>3. ASSUME NEW q \in Refs, q # m.ref PROVE stored'[q] = stored[q]
  BY <1>1, <1>3, StoredReceipt
<1>4. m.outcome \in Definitive => stored'[m.ref] \in Definitive
  <2>1. CASE /\ IsAwaited(m.ref) \/ IsCompletion(m.ref, m.outcome)
             /\ StoreReceipt(m.ref, m.outcome)
    BY <1>1, <2>1, StoredReceipt
  <2>2. CASE ~IsAwaited(m.ref) /\ ~IsCompletion(m.ref, m.outcome) /\ UNCHANGED stored
    <3> SUFFICES ASSUME m.outcome \in Definitive PROVE stored[m.ref] \in Definitive
      BY <2>2
    <3>1. reports[m.ref] \in {"settled", "failed"}
      BY <1>1, <1>2, <2>2 DEF ReceiptsAreTrue, Stages, IsAwaited, TypeOK, ReportStatus
    <3>2. stored[m.ref] \notin {"none", "pending"}
      BY <1>1, <2>2, <3>1 DEF IsCompletion, AnswersOnFile
    <3> QED BY <1>1, <3>2 DEF TypeOK, Definitive
  <2> QED BY <2>1, <2>2
<1>5. m.outcome \notin Definitive => stored[m.ref] \notin Definitive \/ stored' = stored
  <2>1. IsAwaited(m.ref) => stored[m.ref] = "none"
    BY <1>1 DEF IsAwaited, AnswersOnFile
  <2> QED BY <2>1 DEF IsCompletion, Definitive, Outcomes
<1>6. ASSUME ~Lossy, NEW r \in Refs, verdict[r] \in Definitive,
             ~\E n \in receipts' : n.ref = r /\ n.outcome \in Definitive
      PROVE  stored'[r] \in Definitive
  <2>1. CASE stored[r] \in Definitive
    BY <1>3, <1>4, <1>5, <2>1
  <2>2. CASE \E n \in receipts : n.ref = r /\ n.outcome \in Definitive
    BY <1>2, <1>4, <1>6, <2>2
  <2> QED BY <1>6, <2>1, <2>2 DEF VerdictOnItsWay
<1> QED BY <1>6 DEF VerdictOnItsWay

LEMMA VerdictStep == SInv /\ AnswersOnFile /\ VerdictOnItsWay /\ [Next]_vars => VerdictOnItsWay'
<1> SUFFICES ASSUME SInv, AnswersOnFile, VerdictOnItsWay, [Next]_vars PROVE VerdictOnItsWay'
  OBVIOUS
<1> USE DEF durable, memory, accidents, network, box
<1>a. TypeOK /\ OneNonce
  BY DEF SInv
<1>1. ASSUME NEW m \in Receipt, TakeReceipt(m) \/ CrashInReceipt(m) \/ IgnoreReceipt(m)
      PROVE  VerdictOnItsWay'
  BY <1>1, TakenVerdict DEF TakeReceipt, CrashInReceipt, IgnoreReceipt
<1>2. ASSUME NEW r \in Refs, NEW v \in Outcomes, UNCHANGED stored,
             verdict' = [verdict EXCEPT ![r] = v],
             receipts' = receipts \cup {[ref |-> r, outcome |-> v]}
      PROVE  VerdictOnItsWay'
  <2>1. ASSUME ~Lossy, NEW q \in Refs, verdict'[q] \in Definitive
        PROVE  \/ stored'[q] \in Definitive
               \/ \E m \in receipts' : m.ref = q /\ m.outcome \in Definitive
    <3>1. CASE q = r
      <4>1. verdict'[q] = v
        BY <1>a, <1>2, <3>1 DEF TypeOK
      <4>2. [ref |-> r, outcome |-> v] \in receipts'
        BY <1>2
      <4> QED BY <2>1, <3>1, <4>1, <4>2
    <3>2. CASE q # r
      <4>1. verdict'[q] = verdict[q]
        BY <1>a, <1>2, <3>2 DEF TypeOK
      <4> QED BY <1>2, <2>1, <4>1 DEF VerdictOnItsWay
    <3> QED BY <3>1, <3>2
  <2> QED BY <2>1 DEF VerdictOnItsWay
<1>3. ASSUME NEW m \in Report, BoxReceive(m) PROVE VerdictOnItsWay'
  BY <1>2, <1>3 DEF BoxReceive, Report
<1>4. ASSUME NEW r \in Refs, BoxCompletes(r) PROVE VerdictOnItsWay'
  BY <1>2, <1>4 DEF BoxCompletes, Outcomes
<1>5. ASSUME NEW m \in Receipt, LoseReceipt(m) PROVE VerdictOnItsWay'
  BY <1>5 DEF LoseReceipt, VerdictOnItsWay
<1>6. CASE UNCHANGED <<stored, verdict, receipts>>
  BY <1>6 DEF VerdictOnItsWay
<1> QED BY <1>1, <1>3, <1>4, <1>5, <1>6
        DEF Next, NodeNext, CrashNext, EnvNext, HandleReceipt, HandlerThrows, Void, RecordThrows,
            SettleThrows, SkipRefund, Settle, Publish, PublishFails,
            DrainTick, Crash, Restart, CrashInSettle, LoseReport, vars

\* A refund is stranded by a crash between two commits, by an exception in its own
\* settlement or by a relay that loses the one announcement of a completion, each in its
\* own way: repeated, reordered and late receipts, republished reports, restarts and
\* what is thrown for other claims strand none
\* (server.js:264-296, 2012-2018, escrow-box-mode.js:83-110, 150-157).
THEOREM StrandingIsCaused == Spec => []StrandingHasACause
<1>1. Init => Traced
  BY DEF Init, Traced, AnswersOnFile, InHand, VerdictOnItsWay, Definitive, Outcomes
<1>2. SInv /\ Traced /\ [Next]_vars => Traced'
  BY AnswersOnFileStep, InHandStep, VerdictStep DEF Traced
<1>3. SInv /\ Traced => StrandingHasACause
  <2> SUFFICES ASSUME SInv, Traced, NEW r \in cancelled
               PROVE  /\ Forgotten(r) \/ Unreported(r) \/ Unhandled(r) => crashes > 0 \/ r \in thrown
                      /\ CompletionLost(r) => Lossy
    BY DEF StrandingHasACause
  <2>1. crashes \in Nat /\ r \in Refs
    BY SettlementAssumption DEF SInv, TypeOK
  <2>2. Forgotten(r) \/ Unreported(r) \/ Unhandled(r) => crashes # 0 \/ r \in thrown
    BY DEF Traced, InHand, Forgotten, Unreported, Unhandled
  <2>3. CompletionLost(r) => Lossy
    BY <2>1 DEF Traced, VerdictOnItsWay, CompletionLost, Definitive
  <2> QED BY <2>1, <2>2, <2>3
<1> QED BY <1>1, <1>2, <1>3, SettlementInvariant, PTL DEF Spec
=============================================================================
