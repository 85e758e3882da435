--------------------------- MODULE PaidClaimsProofs ---------------------------
(***************************************************************************)
(* What PaidClaims proves for every price, size, number of requests and    *)
(* set of transfers: first what the sums of src/pricing.js return, then    *)
(* the invariants of the books.                                            *)
(***************************************************************************)
EXTENDS PaidClaims, TLAPS

-----------------------------------------------------------------------------
(* Amounts *)

\* Nothing that is rounded up to a whole unit is lost.
LEMMA CeilDivBounds ==
    ASSUME NEW n \in Nat, NEW d \in Nat \ {0}
    PROVE  CeilDiv(n, d) \in Nat /\ d * CeilDiv(n, d) >= n
BY DEF CeilDiv

\* A megabyte is started when it is billed, and a larger file bills no less.
LEMMA BillableMBType ==
    ASSUME NEW bytes \in Nat
    PROVE  BillableMB(bytes) \in Nat
BY CeilDivBounds, PricingAssumption DEF BillableMB, AtLeast

LEMMA BillableMBMonotone ==
    ASSUME NEW a \in Nat, NEW b \in Nat, a <= b
    PROVE  BillableMB(a) <= BillableMB(b)
BY PricingAssumption DEF BillableMB, AtLeast, CeilDiv

LEMMA BillableHoursType ==
    ASSUME NEW hours \in Nat
    PROVE  BillableHours(hours) \in Nat /\ BillableHours(hours) >= MinHours
BY PricingAssumption DEF BillableHours, AtLeast

LEMMA CappedCopiesType ==
    ASSUME NEW copies \in Nat
    PROVE  CappedCopies(copies) \in Nat
BY PricingAssumption DEF CappedCopies, AtLeast, AtMost

LEMMA CappedOnce ==
    ASSUME NEW copies \in Nat
    PROVE  CappedCopies(CappedCopies(copies)) = CappedCopies(copies)
BY PricingAssumption DEF CappedCopies, AtLeast, AtMost

\* An amount is rounded by half a unit at most.
LEMMA RoundCoinsBounds ==
    ASSUME NEW g \in Nat
    PROVE  /\ RoundCoins(g) \in Nat
           /\ 2 * Grain * RoundCoins(g) <= 2 * g + Grain
           /\ 2 * Grain * RoundCoins(g) + Grain >= 2 * g
<1> DEFINE d == 2 * Grain
           n == 2 * g + Grain
           r == n \div d
<1>1. d \in Nat /\ d > 0 /\ n \in Nat
  BY PricingAssumption
<1>2. r \in Nat /\ d * r <= n /\ n < d * r + d
  <2> HIDE DEF d, n
  <2> QED BY <1>1
<1>3. RoundCoins(g) = r
  BY DEF RoundCoins
<1> HIDE DEF r
<1> QED BY <1>1, <1>2, <1>3, PricingAssumption

LEMMA ProductIsNat ==
    ASSUME NEW a \in Nat, NEW b \in Nat
    PROVE  a * b \in Nat
OBVIOUS

LEMMA CostType ==
    ASSUME NEW bytes \in Nat, NEW hours \in Nat, NEW copies \in Nat, NEW rate \in Nat
    PROVE  Cost(bytes, hours, copies, rate) \in Nat
<1>1. BillableMB(bytes) * BillableHours(hours) \in Nat
  BY BillableMBType, BillableHoursType, ProductIsNat
<1>2. BillableMB(bytes) * BillableHours(hours) * rate * CappedCopies(copies) \in Nat
  BY <1>1, CappedCopiesType, ProductIsNat
<1> QED BY <1>2, RoundCoinsBounds DEF Cost

LEMMA ExtendCostType ==
    ASSUME NEW claim \in Claim, NEW hours \in Nat
    PROVE  ExtendCost(claim, hours) \in Nat
<1>1. claim.mb \in Nat /\ claim.rate \in Nat /\ claim.copies \in Nat
  BY DEF Claim
<1>2. claim.mb * BillableHours(hours) \in Nat
  BY <1>1, BillableHoursType, ProductIsNat
<1>3. claim.mb * BillableHours(hours) * claim.rate * claim.copies \in Nat
  BY <1>1, <1>2, ProductIsNat
<1> QED BY <1>3, RoundCoinsBounds DEF ExtendCost

\* An hour is used up at once, so no more hours come back than there were.
LEMMA HoursUsedBounds ==
    ASSUME NEW claim \in Claim, NEW t \in Nat
    PROVE  HoursUsed(claim, t) \in Int /\ HoursUsed(claim, t) >= 1
BY PricingAssumption DEF Claim, HoursUsed, AtLeast, CeilDiv

LEMMA UnusedHours ==
    ASSUME NEW claim \in Claim, NEW t \in Nat
    PROVE  /\ AtLeast(0, claim.hours - HoursUsed(claim, t)) \in Nat
           /\ AtLeast(0, claim.hours - HoursUsed(claim, t)) <= claim.hours
BY HoursUsedBounds DEF Claim, AtLeast

LEMMA CalculateRefundType ==
    ASSUME NEW claim \in Claim, NEW t \in Nat
    PROVE  CalculateRefund(claim, t) \in Nat
<1> DEFINE h == AtLeast(0, claim.hours - HoursUsed(claim, t))
           mb == BillableMB(claim.bytes)
           copies == CappedCopies(claim.copies)
<1>1. h \in Nat /\ mb \in Nat /\ copies \in Nat /\ claim.rate \in Nat
  BY UnusedHours, BillableMBType, CappedCopiesType, PaidAssumption DEF Claim
<1>2. CalculateRefund(claim, t) \in {0, NoDust(RoundCoins(h * mb * claim.rate * copies))}
  BY DEF CalculateRefund
<1> HIDE DEF h, mb, copies
<1>3. h * mb * claim.rate * copies \in Nat
  BY <1>1, ProductIsNat
<1> QED BY <1>2, <1>3, RoundCoinsBounds, PricingAssumption DEF NoDust

\* What never ran is refunded from what was paid.
LEMMA DormantRefundBounds ==
    ASSUME NEW claim \in Claim, NEW pct \in 0 .. 100
    PROVE  /\ CalculateDormantRefund(claim, pct) \in Int
           /\ CalculateDormantRefund(claim, pct) <= claim.paid
<1>1. claim.paid \in Nat /\ 2 * claim.paid * pct \in Nat
  BY ProductIsNat DEF Claim
<1> DEFINE n == 2 * claim.paid * pct + 100
           fee == n \div 200
<1>2. n \in Nat
  BY <1>1
<1>3. fee \in Nat
  <2> HIDE DEF n
  <2> QED BY <1>2
<1>4. CalculateDormantRefund(claim, pct) = NoDust(claim.paid - fee)
  BY DEF CalculateDormantRefund
<1> HIDE DEF fee
<1> QED BY <1>1, <1>3, <1>4, PricingAssumption DEF NoDust

\* Whatever the terms, a refund is one of the two sums, or nothing.
LEMMA RefundAmountCases ==
    ASSUME NEW claim \in Claim, NEW t \in Nat, NEW was \in {"active", "dormant"},
           NEW terms \in {"cancel", "prorata", "none", "innocent"}
    PROVE  RefundAmount(claim, was, terms, t) \in
              {0, CalculateRefund(claim, t), CalculateDormantRefund(claim, 0),
               CalculateDormantRefund(claim, FeePct)}
BY DEF RefundAmount

LEMMA RefundAmountType ==
    ASSUME NEW claim \in Claim, NEW t \in Nat, NEW was \in {"active", "dormant"},
           NEW terms \in {"cancel", "prorata", "none", "innocent"}
    PROVE  RefundAmount(claim, was, terms, t) \in Int
BY RefundAmountCases, CalculateRefundType, DormantRefundBounds, PricingAssumption

-----------------------------------------------------------------------------
(* Types *)

\* A request under way has its fields.
LEMMA UnderWay ==
    ASSUME TypeOK, NEW q \in Requests,
           requests[q].at \in {"reserved", "verifying", "pinning"}
    PROVE  requests[q] \in Request
BY DEF TypeOK, Idle, Done

LEMMA FinishTyped ==
    ASSUME TypeOK, NEW q \in Requests, Finish(q)
    PROVE  requests' \in [Requests -> Request \cup {Idle, Done}]
BY DEF TypeOK, Finish

LEMMA PresentsTyped ==
    ASSUME TypeOK, NEW tx \in Txs, NEW memo \in Kind \X Nat, Presents(tx, memo)
    PROVE  transfers' \in [Txs -> Transfer \cup {Nil}]
BY DEF TypeOK, Presents, Transfer

LEMMA MemoTyped ==
    ASSUME NEW kind \in Kind, NEW ref \in Requests
    PROVE  Memo(kind, ref) \in Kind \X Nat
BY DEF Memo, Requests

\* A claim that is billed is a row.
LEMMA RowOf ==
    ASSUME TypeOK, NEW s, NEW c \in InState(s)
    PROVE  c \in Requests /\ claims[c] \in Claim /\ claims[c].state = s
BY DEF TypeOK, InState

LEMMA CreditTyped ==
    ASSUME TypeOK, NEW c \in Requests, NEW tx \in Txs \cup {Nil}, NEW hours \in Nat,
           NEW rate \in Nat, tx # Nil => transfers[tx] \in Transfer, Credit(c, tx, hours, rate)
    PROVE  ledger' \in [Requests -> Entry] /\ uses' \in [Txs -> Nat]
<1>1. (IF tx = Nil THEN 0 ELSE transfers[tx].amount) \in Nat
  BY PaidAssumption DEF Transfer
<1> QED BY <1>1 DEF TypeOK, Credit, Entry

LEMMA LeaveTyped ==
    ASSUME TypeOK, NEW E \in SUBSET Requests, NEW state \in {"cancelled", "expired"},
           \A c \in E : claims[c] \in Claim, Leave(E, state)
    PROVE  claims' \in [Requests -> Claim \cup {Nil}]
<1> DEFINE closed == [c \in Requests |->
                        IF c \in E THEN [claims[c] EXCEPT !.state = state] ELSE claims[c]]
<1>1. closed \in [Requests -> Claim \cup {Nil}]
  BY DEF TypeOK, Claim
<1>2. ASSUME NEW g \in InState("dormant") \ E,
             claims' = [closed EXCEPT ![g].state = "active", ![g].start = now,
                                      ![g].expiry = now + claims[g].hours * Hour]
      PROVE  claims' \in [Requests -> Claim \cup {Nil}]
  <2>1. g \in Requests /\ claims[g] \in Claim /\ closed[g] = claims[g]
    BY RowOf
  <2>2. now + claims[g].hours * Hour \in Nat /\ now \in Nat
    BY <2>1, ProductIsNat, PricingAssumption DEF TypeOK, Claim
  <2> HIDE DEF closed
  <2> QED BY ZenonT(40), <1>1, <1>2, <2>1, <2>2 DEF Claim
<1> QED BY <1>1, <1>2 DEF Leave

LEMMA NewClaimTyped ==
    ASSUME TypeOK, NEW q \in Requests, requests[q].at \in {"verifying", "pinning"},
           NEW state \in {"active", "dormant"}, NEW hours \in Nat, NEW expiry \in Nat,
           NEW rate \in Nat, NEW paid \in Nat
    PROVE  NewClaim(q, state, hours, expiry, rate, paid) \in Claim
<1>1. requests[q] \in Request
  BY UnderWay
<1>2. requests[q].copies \in Nat /\ requests[q].tx \in Txs \cup {Nil}
  BY <1>1 DEF Request
<1>3. now \in Nat /\ BillableMB(Bytes) \in Nat
  BY BillableMBType, PaidAssumption DEF TypeOK
<1> QED BY <1>2, <1>3 DEF NewClaim, Claim

LEMMA PricedHoursType ==
    ASSUME TypeOK, NEW hours \in Hours
    PROVE  PricedHours(hours) \in Nat
BY PaidAssumption, PricingAssumption DEF PricedHours

LEMMA HostingTyped ==
    ASSUME TypeOK, NEW q \in Requests, requests[q].at \in {"verifying", "pinning"},
           NEW rate \in Nat, NEW paid \in Nat
    PROVE  Hosting(q, rate, paid) \in Claim
<1> DEFINE hrs == IF config.permanent THEN MinHours ELSE requests[q].hours
           expiry == IF config.permanent THEN PermanentExpiry ELSE now + hrs * Hour
<1>1. hrs \in Nat
  BY UnderWay, PricingAssumption DEF Request
<1>2. expiry \in Nat
  <2>1. hrs * Hour \in Nat
    BY <1>1, ProductIsNat, PricingAssumption
  <2> HIDE DEF hrs
  <2> QED BY <2>1, PricingAssumption DEF TypeOK
<1>3. Hosting(q, rate, paid) = NewClaim(q, "active", hrs, expiry, rate, paid)
  BY DEF Hosting
<1> HIDE DEF hrs, expiry
<1> QED BY <1>1, <1>2, <1>3, NewClaimTyped

\* A transfer that covers its quote is on the chain.
LEMMA CoversTyped ==
    ASSUME TypeOK, NEW q \in Requests, requests[q].at = "verifying", Covers(q),
           requests[q].tx \in Txs => transfers[requests[q].tx] # Nil,
           requests[q].tx # Nil
    PROVE  /\ requests[q].tx \in Txs
           /\ transfers[requests[q].tx] \in Transfer
           /\ Paid(q) \in Nat
BY UnderWay, PaidAssumption DEF TypeOK, Request, Paid, Transfer

-----------------------------------------------------------------------------
(* The base of every other invariant: types, what a request under way holds, *)
(* and that only a finished request has a claim.                             *)

Holds(q) ==
    /\ requests[q].at = "reserved" => requests[q].kind = "upload" /\ requests[q].tx = Nil
    /\ requests[q].at = "verifying" => requests[q].tx # Nil
    /\ requests[q].at = "pinning" => requests[q].kind = "upload"
    /\ requests[q].at \in {"verifying", "pinning"} /\ requests[q].tx # Nil =>
          transfers[requests[q].tx] # Nil
    /\ requests[q].at = "pinning" /\ requests[q].tx # Nil =>
          transfers[requests[q].tx].memo[1] = "upload" /\ transfers[requests[q].tx].memo[2] = q
    /\ requests[q].at \in {"reserved", "verifying", "pinning"} /\ requests[q].kind = "upload" =>
          requests[q].ref = q
    /\ requests[q].at = "verifying" /\ requests[q].kind = "extend" =>
          claims[requests[q].ref] # Nil /\ claims[requests[q].ref].state # "dormant"

Slot(c) ==
    /\ claims[c] # Nil => requests[c].at = "done"
    /\ claims[c] = Nil =>
          /\ ledger[c].hours = 0 /\ ledger[c].in = 0 /\ ledger[c].payments = 0
          /\ refunds[c].due = "no"

Base == TypeOK /\ (\A q \in Requests : Holds(q)) /\ (\A c \in Requests : Slot(c))

\* Rows are never deleted, and a claim that runs or ran is never queued again.
Kept ==
    \A c \in Requests :
        claims[c] # Nil =>
            /\ claims'[c] # Nil
            /\ claims[c].state # "dormant" => claims'[c].state # "dormant"

LEMMA LeaveKeeps ==
    ASSUME TypeOK, NEW E \in SUBSET Requests, NEW state \in {"cancelled", "expired"},
           \A c \in E : claims[c] \in Claim, Leave(E, state)
    PROVE  /\ Kept
           /\ \A c \in Requests : claims[c] = Nil => claims'[c] = Nil
<1> DEFINE closed == [c \in Requests |->
                        IF c \in E THEN [claims[c] EXCEPT !.state = state] ELSE claims[c]]
<1>1. closed \in [Requests -> Claim \cup {Nil}]
  BY DEF TypeOK, Claim
<1>2. ASSUME NEW c \in Requests
      PROVE  /\ claims[c] = Nil => closed[c] = Nil
             /\ claims[c] # Nil => closed[c] \in Claim
             /\ claims[c] # Nil /\ claims[c].state # "dormant" => closed[c].state # "dormant"
  BY NilAssumption DEF TypeOK, Claim
<1>3. ASSUME NEW g \in InState("dormant") \ E, NEW c \in Requests,
             claims' = [closed EXCEPT ![g].state = "active", ![g].start = now,
                                      ![g].expiry = now + claims[g].hours * Hour]
      PROVE  /\ claims[c] = Nil => claims'[c] = Nil
             /\ claims[c] # Nil => claims'[c] # Nil
             /\ claims[c] # Nil /\ claims[c].state # "dormant" => claims'[c].state # "dormant"
  <2>1. g \in Requests /\ claims[g] \in Claim /\ claims[g] # Nil
    BY RowOf DEF InState
  <2>2. closed[g] \in Claim /\ now + claims[g].hours * Hour \in Nat /\ now \in Nat
    BY <1>2, <2>1, ProductIsNat, PricingAssumption DEF TypeOK, Claim
  <2> HIDE DEF closed
  <2>3. CASE c = g
    <3>1. claims'[g].state = "active" /\ claims'[g] \in Claim
      BY <1>1, <1>3, <2>1, <2>2 DEF Claim
    <3> QED BY <2>1, <2>3, <3>1, NilAssumption
  <2>4. CASE c # g
    <3>1. claims'[c] = closed[c]
      BY <1>1, <1>3, <2>1, <2>4
    <3> QED BY <1>2, <3>1, NilAssumption
  <2> QED BY <2>3, <2>4
<1>4. ASSUME claims' = closed, NEW c \in Requests
      PROVE  /\ claims[c] = Nil => claims'[c] = Nil
             /\ claims[c] # Nil => claims'[c] # Nil
             /\ claims[c] # Nil /\ claims[c].state # "dormant" => claims'[c].state # "dormant"
  <2> HIDE DEF closed
  <2> QED BY <1>2, <1>4, NilAssumption
<1>5. \/ claims' = closed
      \/ \E g \in InState("dormant") \ E :
            claims' = [closed EXCEPT ![g].state = "active", ![g].start = now,
                                     ![g].expiry = now + claims[g].hours * Hour]
  BY DEF Leave
<1> HIDE DEF closed
<1> QED BY <1>3, <1>4, <1>5 DEF Kept

\* An answer, and a request that is only asking, touch no row.
Asked(q) ==
    /\ requests[q].at # "done"
    /\ requests' \in [Requests -> Request \cup {Idle, Done}]
    /\ \A p \in Requests : p # q => requests'[p] = requests[p]
    /\ requests'[q].at = "pinning" => requests'[q].tx = Nil
    /\ requests'[q] \in Request \cup {Done}
    /\ transfers' \in [Txs -> Transfer \cup {Nil}]
    /\ \A tx \in Txs : transfers[tx] # Nil => transfers'[tx] = transfers[tx]
    /\ UNCHANGED <<now, config, payments, claims, refunds, faults, ledger, uses>>

LEMMA PresentsKeeps ==
    ASSUME TypeOK, NEW tx \in Txs, NEW memo \in Kind \X Nat, Presents(tx, memo)
    PROVE  /\ \A t \in Txs : transfers[t] # Nil => transfers'[t] = transfers[t]
           /\ transfers'[tx] # Nil
BY NilAssumption DEF TypeOK, Presents, Transfer

LEMMA AskedBase ==
    ASSUME Base, NEW q \in Requests, Asked(q), Holds(q)'
    PROVE  Base'
<1>1. TypeOK'
  BY DEF Base, TypeOK, Asked
<1>2. ASSUME NEW p \in Requests PROVE Holds(p)'
  <2>1. CASE p # q
    <3>1. requests'[p] = requests[p] /\ Holds(p) /\ claims' = claims
      BY <2>1 DEF Asked, Base
    <3>2. requests[p].at \in {"verifying", "pinning"} /\ requests[p].tx # Nil =>
             transfers'[requests[p].tx] = transfers[requests[p].tx]
      <4>1. requests[p].at \in {"verifying", "pinning"} => requests[p] \in Request
        BY UnderWay DEF Base
      <4> QED BY <3>1, <4>1 DEF Asked, Holds, Request
    <3> QED BY <3>1, <3>2 DEF Holds
  <2> QED BY <2>1
<1>3. ASSUME NEW c \in Requests PROVE Slot(c)'
  <2>1. claims[c] # Nil => c # q
    BY DEF Base, Slot, Asked
  <2> QED BY <2>1 DEF Base, Slot, Asked
<1> QED BY <1>1, <1>2, <1>3 DEF Base

LEMMA BaseInit == Init => Base
<1> SUFFICES ASSUME Init PROVE Base
  OBVIOUS
<1>1. TypeOK
  BY PaidAssumption DEF Init, TypeOK, Idle, NoRefund, Refund, NoEntry, Entry
<1>2. \A q \in Requests : Holds(q) /\ Slot(q)
  BY DEF Init, Holds, Slot, Idle, NoEntry, NoRefund
<1> QED BY <1>1, <1>2 DEF Base

\* What is asked, step by step.
LEMMA ReserveAsks ==
    ASSUME Base, NEW q \in Requests, NEW size \in Sizes, NEW hours \in Hours,
           NEW copies \in Copies, NEW free \in BOOLEAN, Reserve(q, size, hours, copies, free)
    PROVE  Asked(q) /\ Holds(q)'
<1> DEFINE rate == IF free THEN 0 ELSE config.rate
           hrs  == PricedHours(hours)
           r == [at |-> "reserved", kind |-> "upload", ref |-> q, tx |-> Nil,
                 hours |-> BillableHours(hrs), copies |-> CappedCopies(copies),
                 quote |-> Cost(size, hrs, copies, rate), rate |-> rate]
<1>1. rate \in Nat
  BY PaidAssumption DEF Base, TypeOK, Config
<1>2. hrs \in Nat /\ size \in Nat /\ copies \in Nat
  BY PricedHoursType, PaidAssumption DEF Base
<1>3. r \in Request /\ r.at = "reserved" /\ r.kind = "upload" /\ r.tx = Nil /\ r.ref = q
  <2>1. BillableHours(hrs) \in Nat /\ CappedCopies(copies) \in Nat /\ Cost(size, hrs, copies, rate) \in Nat
    <3> HIDE DEF rate, hrs
    <3> QED BY <1>1, <1>2, BillableHoursType, CappedCopiesType, CostType
  <2> HIDE DEF rate, hrs
  <2> QED BY <1>1, <2>1 DEF Request, Kind
<1>4. requests' = [requests EXCEPT ![q] = r] /\ requests[q].at = "idle"
  BY DEF Reserve, Fresh, Idle
<1>5. UNCHANGED <<now, config, transfers, payments, claims, refunds, faults, ledger, uses>>
  BY DEF Reserve
<1> HIDE DEF r
<1>6. requests'[q] = r /\ \A p \in Requests : p # q => requests'[p] = requests[p]
  BY <1>4 DEF Base, TypeOK
<1>7. Asked(q)
  BY <1>3, <1>4, <1>5, <1>6 DEF Asked, Base, TypeOK
<1>8. Holds(q)'
  BY <1>3, <1>6 DEF Holds
<1> QED BY <1>7, <1>8

LEMMA AskUploadAsks ==
    ASSUME Base, NEW q \in Requests, NEW tx \in Txs, AskUpload(q, tx)
    PROVE  Asked(q) /\ Holds(q)'
<1>1. requests[q] \in Request /\ requests[q].kind = "upload" /\ requests[q].ref = q
  BY UnderWay DEF Base, AskUpload, Holds
<1>2. Memo("upload", q) \in Kind \X Nat
  BY MemoTyped DEF Kind
<1>3. /\ transfers' \in [Txs -> Transfer \cup {Nil}]
      /\ \A t \in Txs : transfers[t] # Nil => transfers'[t] = transfers[t]
      /\ transfers'[tx] # Nil
  BY <1>2, PresentsTyped, PresentsKeeps DEF Base, AskUpload
<1> DEFINE r == [requests[q] EXCEPT !.at = "verifying", !.tx = tx]
<1>4. r \in Request /\ r.at = "verifying" /\ r.tx = tx /\ r.kind = "upload" /\ r.ref = q
  BY <1>1 DEF Request
<1>5. requests' = [requests EXCEPT ![q] = r] /\ requests[q].at = "reserved"
  BY DEF AskUpload, Base, TypeOK
<1> HIDE DEF r
<1>6. requests'[q] = r /\ \A p \in Requests : p # q => requests'[p] = requests[p]
  BY <1>5 DEF Base, TypeOK
<1>7. Asked(q)
  BY <1>3, <1>4, <1>5, <1>6 DEF Asked, Base, TypeOK, AskUpload
<1>8. Holds(q)'
  BY <1>3, <1>4, <1>6, NilAssumption DEF Holds
<1> QED BY <1>7, <1>8

LEMMA AskFreeUploadAsks ==
    ASSUME Base, NEW q \in Requests, AskFreeUpload(q)
    PROVE  Asked(q) /\ Holds(q)'
<1>1. /\ requests[q] \in Request /\ requests[q].kind = "upload" /\ requests[q].tx = Nil
      /\ requests[q].ref = q
  BY UnderWay DEF Base, AskFreeUpload, Holds
<1> DEFINE r == [requests[q] EXCEPT !.at = "pinning"]
<1>2. r \in Request /\ r.at = "pinning" /\ r.tx = Nil /\ r.kind = "upload" /\ r.ref = q
  BY <1>1 DEF Request
<1>3. requests' = [requests EXCEPT ![q] = r] /\ requests[q].at = "reserved"
  BY DEF AskFreeUpload, Base, TypeOK
<1> HIDE DEF r
<1>4. requests'[q] = r /\ \A p \in Requests : p # q => requests'[p] = requests[p]
  BY <1>3 DEF Base, TypeOK
<1>5. Asked(q)
  BY ZenonT(40), <1>2, <1>3, <1>4 DEF Asked, Base, TypeOK, AskFreeUpload
<1>6. Holds(q)'
  BY <1>2, <1>4 DEF Holds
<1> QED BY <1>5, <1>6

LEMMA AskClaimAsks ==
    ASSUME Base, NEW q \in Requests, NEW kind \in {"own_copy", "guardian"},
           NEW hours \in Hours, NEW copies \in Copies, NEW tx \in Txs,
           AskClaim(q, kind, hours, copies, tx)
    PROVE  Asked(q) /\ Holds(q)'
<1> DEFINE hrs == IF kind = "own_copy" THEN PricedHours(hours) ELSE hours
           r == [at |-> "verifying", kind |-> kind, ref |-> q, tx |-> tx,
                 hours |-> BillableHours(hrs), copies |-> CappedCopies(copies),
                 quote |-> Cost(Bytes, hrs, copies, config.rate), rate |-> config.rate]
<1>1. hrs \in Nat /\ Bytes \in Nat /\ copies \in Nat /\ config.rate \in Nat
  BY PricedHoursType, PaidAssumption DEF Base, TypeOK, Config
<1>2. Memo(kind, q) \in Kind \X Nat
  BY MemoTyped DEF Kind
<1>3. /\ transfers' \in [Txs -> Transfer \cup {Nil}]
      /\ \A t \in Txs : transfers[t] # Nil => transfers'[t] = transfers[t]
      /\ transfers'[tx] # Nil
  BY <1>2, PresentsTyped, PresentsKeeps DEF Base, AskClaim
<1>4. r \in Request /\ r.at = "verifying" /\ r.kind \in {"own_copy", "guardian"} /\ r.tx = tx
  <2>1. BillableHours(hrs) \in Nat /\ CappedCopies(copies) \in Nat
        /\ Cost(Bytes, hrs, copies, config.rate) \in Nat
    <3> HIDE DEF hrs
    <3> QED BY <1>1, BillableHoursType, CappedCopiesType, CostType
  <2> HIDE DEF hrs
  <2> QED BY <1>1, <2>1 DEF Request, Kind
<1>5. requests' = [requests EXCEPT ![q] = r] /\ requests[q].at = "idle"
  BY DEF AskClaim, Fresh, Idle
<1> HIDE DEF r
<1>6. requests'[q] = r /\ \A p \in Requests : p # q => requests'[p] = requests[p]
  BY <1>5 DEF Base, TypeOK
<1>7. Asked(q)
  BY <1>3, <1>4, <1>5, <1>6 DEF Asked, Base, TypeOK, AskClaim
<1>8. Holds(q)'
  BY <1>3, <1>4, <1>6, NilAssumption DEF Holds
<1> QED BY <1>7, <1>8

LEMMA AskExtendAsks ==
    ASSUME Base, NEW q \in Requests, NEW c \in Requests, NEW hours \in Hours, NEW tx \in Txs,
           AskExtend(q, c, hours, tx)
    PROVE  Asked(q) /\ Holds(q)'
<1> DEFINE r == [at |-> "verifying", kind |-> "extend", ref |-> c, tx |-> tx,
                 hours |-> BillableHours(hours), copies |-> claims[c].copies,
                 quote |-> ExtendCost(claims[c], hours), rate |-> claims[c].rate]
<1>1. claims[c] \in Claim /\ claims[c].state = "active" /\ claims[c] # Nil
  BY RowOf DEF Base, AskExtend, InState
<1>2. Memo("extend", c) \in Kind \X Nat
  BY MemoTyped DEF Kind
<1>3. /\ transfers' \in [Txs -> Transfer \cup {Nil}]
      /\ \A t \in Txs : transfers[t] # Nil => transfers'[t] = transfers[t]
      /\ transfers'[tx] # Nil
  BY <1>2, PresentsTyped, PresentsKeeps DEF Base, AskExtend
<1>4. r \in Request /\ r.at = "verifying" /\ r.kind = "extend" /\ r.tx = tx /\ r.ref = c
  <2>1. BillableHours(hours) \in Nat /\ ExtendCost(claims[c], hours) \in Nat
    BY <1>1, BillableHoursType, ExtendCostType, PaidAssumption
  <2> QED BY <1>1, <2>1 DEF Request, Kind, Claim
<1>5. requests' = [requests EXCEPT ![q] = r] /\ requests[q].at = "idle"
  BY DEF AskExtend, Fresh, Idle
<1> HIDE DEF r
<1>6. requests'[q] = r /\ \A p \in Requests : p # q => requests'[p] = requests[p]
  BY <1>5 DEF Base, TypeOK
<1>7. Asked(q)
  BY <1>3, <1>4, <1>5, <1>6 DEF Asked, Base, TypeOK, AskExtend
<1>8. Holds(q)'
  <2>1. claims' = claims
    BY DEF AskExtend
  <2> QED BY <1>1, <1>3, <1>4, <1>6, <2>1, NilAssumption DEF Holds
<1> QED BY <1>7, <1>8

LEMMA AnswerAsks ==
    ASSUME Base, NEW q \in Requests, Refuse(q) \/ NotConfirmed(q) \/ UploadFails(q)
    PROVE  Asked(q) /\ Holds(q)'
<1>1. requests[q] \in Request /\ requests[q].at # "done"
  BY UnderWay DEF Base, Refuse, NotConfirmed, UploadFails
<1>2. UNCHANGED <<now, config, transfers, payments, claims, refunds, faults, ledger, uses>>
  BY DEF Refuse, NotConfirmed, UploadFails
<1>3. CASE requests' = [requests EXCEPT ![q] = Done]
  BY <1>1, <1>2, <1>3 DEF Asked, Holds, Base, TypeOK, Done
<1>4. CASE /\ requests[q].kind = "upload"
           /\ requests' = [requests EXCEPT ![q].at = "reserved", ![q].tx = Nil]
  <2> DEFINE r == [requests[q] EXCEPT !.at = "reserved", !.tx = Nil]
  <2>1. r \in Request /\ r.at = "reserved" /\ r.kind = "upload" /\ r.tx = Nil /\ r.ref = q
    <3>1. requests[q].ref = q
      BY <1>4 DEF Base, Holds, Refuse, NotConfirmed, UploadFails
    <3> QED BY <1>1, <1>4, <3>1 DEF Request
  <2>2. requests' = [requests EXCEPT ![q] = r]
    BY <1>4 DEF Base, TypeOK
  <2> HIDE DEF r
  <2>3. requests'[q] = r /\ \A p \in Requests : p # q => requests'[p] = requests[p]
    BY <2>2 DEF Base, TypeOK
  <2>4. Asked(q)
    BY <1>1, <1>2, <2>1, <2>2, <2>3 DEF Asked, Base, TypeOK
  <2>5. Holds(q)'
    BY <2>1, <2>3 DEF Holds
  <2> QED BY <2>4, <2>5
<1> QED BY <1>3, <1>4 DEF Refuse, NotConfirmed, UploadFails, Finish

-----------------------------------------------------------------------------
(* What the other actions do, in five shapes *)

\* The request q uses the transfer tx now, or has recorded it, or pays nothing.
PaysWith(q, tx) ==
    \/ tx = Nil /\ payments' = payments
    \/ /\ tx \in Txs /\ tx = requests[q].tx /\ requests[q].at = "verifying"
       /\ tx \notin payments /\ payments' = payments \cup {tx}
    \/ /\ tx \in Txs /\ tx = requests[q].tx /\ requests[q].at = "pinning"
       /\ payments' = payments

\* 1. The request q buys its claim.
Bought(q, row, tx, rate) ==
    /\ requests[q].at # "done"
    /\ row \in Claim
    /\ row.state \in {"active", "dormant"}
    /\ row.start = now
    /\ row.state = "active" =>
          IsPermanent(row.expiry) \/ row.expiry = now + row.hours * Hour
    /\ row.paid = IF tx = Nil THEN 0 ELSE transfers[tx].amount
    /\ tx # Nil => transfers[tx] \in Transfer
    /\ tx \in Txs \cup {Nil}
    /\ rate \in Nat
    /\ claims' = [claims EXCEPT ![q] = row]
    /\ Credit(q, tx, row.hours, rate)
    /\ Finish(q)
    /\ PaysWith(q, tx)
    /\ UNCHANGED <<now, config, transfers, refunds, faults>>

\* 2. It buys hours for the claim c.
Prolonged(q, c, tx, hours) ==
    /\ requests[q].at # "done"
    /\ claims[c] \in Claim
    /\ claims[c].state = "active"
    /\ hours \in Nat
    /\ tx \in Txs \cup {Nil}
    /\ tx # Nil => transfers[tx] \in Transfer
    /\ claims' = [claims EXCEPT ![c] = Extended(c, hours)]
    /\ Credit(c, tx, hours, ledger[c].charged)
    /\ Finish(q)
    /\ PaysWith(q, tx)
    /\ UNCHANGED <<now, config, transfers, refunds, faults>>

\* 3. It has paid, and gets nothing.
LeftOver(q) ==
    /\ requests[q].at = "verifying"
    /\ requests[q].kind \in {"own_copy", "extend"}
    /\ requests[q].kind = "extend" => claims[requests[q].ref].state # "active"
    /\ requests[q].kind = "own_copy" => ~Hosted
    /\ Covers(q)
    /\ RecordPayment(q)
    /\ Finish(q)
    /\ UNCHANGED <<now, config, transfers, claims, refunds, faults, ledger, uses>>

\* 4. The claims E end.
Ended(E, state) ==
    /\ E \subseteq Live
    /\ Leave(E, state)
    /\ refunds' \in [Requests -> Refund]
    /\ \A c \in Requests :
          IF c \in E /\ state = "cancelled"
          THEN /\ refunds'[c].due = "owed" /\ refunds'[c].row = refunds[c].row
               /\ refunds'[c].sent = refunds[c].sent /\ refunds'[c].amount = refunds[c].amount
               /\ refunds'[c].was = claims[c].state
          ELSE refunds'[c] = refunds[c]
    /\ UNCHANGED <<now, config, transfers, payments, requests, faults, ledger, uses>>

\* 5. The row of c's refund changes.
Moved(c) ==
    /\ refunds[c].due \in {"owed", "sending"}
    /\ refunds' \in [Requests -> Refund]
    /\ \A d \in Requests : d # c => refunds'[d] = refunds[d]
    /\ faults' \in {faults, faults + 1} /\ faults' \in 0 .. MaxFaults
    /\ UNCHANGED <<now, config, transfers, payments, requests, claims, ledger, uses>>

\* A request that verifies or pins holds what its transfer paid.
LEMMA Transferred ==
    ASSUME Base, NEW q \in Requests, requests[q].at \in {"verifying", "pinning"},
           requests[q].tx # Nil
    PROVE  /\ requests[q] \in Request
           /\ requests[q].tx \in Txs
           /\ transfers[requests[q].tx] \in Transfer
           /\ Paid(q) \in Nat
           /\ Paid(q) = transfers[requests[q].tx].amount
<1>1. requests[q] \in Request
  BY UnderWay DEF Base
<1>2. requests[q].tx \in Txs /\ transfers[requests[q].tx] # Nil
  BY <1>1 DEF Base, Holds, Request
<1>3. transfers[requests[q].tx] \in Transfer
  BY <1>2 DEF Base, TypeOK
<1> QED BY <1>1, <1>2, <1>3, PaidAssumption DEF Paid, Transfer

LEMMA Rates == Base => config.rate \in Nat /\ config.permanent \in BOOLEAN
BY PaidAssumption DEF Base, TypeOK, Config

LEMMA HostingShape ==
    ASSUME Base, NEW q \in Requests, requests[q].at \in {"verifying", "pinning"},
           NEW rate \in Nat, NEW paid \in Nat
    PROVE  LET row == Hosting(q, rate, paid)
           IN /\ row \in Claim /\ row.state = "active" /\ row.start = now /\ row.paid = paid
              /\ row.tx = requests[q].tx /\ row.rate = rate
              /\ row.copies = requests[q].copies /\ row.mb = BillableMB(Bytes)
              /\ row.hours = (IF config.permanent THEN MinHours ELSE requests[q].hours)
              /\ IsPermanent(row.expiry) \/ row.expiry = now + row.hours * Hour
<1> DEFINE hrs == IF config.permanent THEN MinHours ELSE requests[q].hours
           expiry == IF config.permanent THEN PermanentExpiry ELSE now + hrs * Hour
           row == Hosting(q, rate, paid)
<1>1. row \in Claim
  BY HostingTyped DEF Base
<1>2. row = NewClaim(q, "active", hrs, expiry, rate, paid)
  BY DEF Hosting
<1>3. IsPermanent(expiry) \/ expiry = now + hrs * Hour
  BY PricingAssumption DEF IsPermanent
<1> HIDE DEF hrs, expiry, row
<1>4. /\ row.state = "active" /\ row.start = now /\ row.paid = paid /\ row.tx = requests[q].tx
      /\ row.rate = rate /\ row.copies = requests[q].copies /\ row.mb = BillableMB(Bytes)
      /\ row.hours = hrs /\ row.expiry = expiry
  BY <1>2 DEF NewClaim
<1> USE DEF row
<1> QED BY <1>1, <1>3, <1>4 DEF hrs

LEMMA BuyOwnCopyShape ==
    ASSUME Base, NEW q \in Requests, BuyOwnCopy(q)
    PROVE  \/ Bought(q, Hosting(q, config.rate, Paid(q)), requests[q].tx, requests[q].rate)
           \/ LeftOver(q)
<1>1. /\ requests[q].at = "verifying" /\ requests[q].tx # Nil
      /\ requests[q].kind = "own_copy" /\ Covers(q) /\ RecordPayment(q) /\ Finish(q)
  BY DEF BuyOwnCopy, Buys, Base, Holds
<1>2. /\ requests[q] \in Request /\ requests[q].tx \in Txs /\ requests[q].rate \in Nat
      /\ transfers[requests[q].tx] \in Transfer
      /\ Paid(q) \in Nat /\ Paid(q) = transfers[requests[q].tx].amount
  BY <1>1, Transferred DEF Request
<1> DEFINE row == Hosting(q, config.rate, Paid(q))
<1>3. /\ row \in Claim /\ row.state = "active" /\ row.start = now /\ row.paid = Paid(q)
      /\ IsPermanent(row.expiry) \/ row.expiry = now + row.hours * Hour
  BY <1>1, <1>2, HostingShape, Rates
<1>4. CASE Hosted
  <2>1. claims' = [claims EXCEPT ![q] = row] /\ Credit(q, requests[q].tx, claims'[q].hours, requests[q].rate)
    BY <1>4 DEF BuyOwnCopy
  <2> HIDE DEF row
  <2>2. claims'[q] = row
    BY <2>1 DEF Base, TypeOK
  <2>3. PaysWith(q, requests[q].tx)
    BY <1>1, <1>2 DEF PaysWith, RecordPayment
  <2>4. Bought(q, row, requests[q].tx, requests[q].rate)
    <3>1. Credit(q, requests[q].tx, row.hours, requests[q].rate)
      BY <2>1, <2>2
    <3>2. UNCHANGED <<now, config, transfers, refunds, faults>>
      BY DEF BuyOwnCopy
    <3> QED BY <1>1, <1>2, <1>3, <2>1, <2>3, <3>1, <3>2 DEF Bought
  <2> QED BY <2>4 DEF row
<1>5. CASE ~Hosted
  BY <1>1, <1>5 DEF LeftOver, BuyOwnCopy
<1> QED BY <1>4, <1>5

LEMMA BuyPledgeShape ==
    ASSUME Base, NEW q \in Requests, BuyPledge(q)
    PROVE  Bought(q, NewClaim(q, "dormant", requests[q].hours, now, config.rate, Paid(q)),
                  requests[q].tx, requests[q].rate)
<1>1. /\ requests[q].at = "verifying" /\ requests[q].tx # Nil /\ RecordPayment(q) /\ Finish(q)
  BY DEF BuyPledge, Buys, Base, Holds
<1>2. /\ requests[q].tx \in Txs /\ requests[q].rate \in Nat /\ requests[q].hours \in Nat
      /\ transfers[requests[q].tx] \in Transfer
      /\ Paid(q) \in Nat /\ Paid(q) = transfers[requests[q].tx].amount
  BY <1>1, Transferred DEF Request
<1> DEFINE row == NewClaim(q, "dormant", requests[q].hours, now, config.rate, Paid(q))
<1>3. row \in Claim
  BY <1>1, <1>2, NewClaimTyped, Rates, PaidAssumption DEF Base, TypeOK
<1>4. row.state = "dormant" /\ row.start = now /\ row.paid = Paid(q) /\ row.hours = requests[q].hours
  BY DEF NewClaim
<1>5. /\ claims' = [claims EXCEPT ![q] = row]
      /\ Credit(q, requests[q].tx, requests[q].hours, requests[q].rate)
      /\ UNCHANGED <<now, config, transfers, refunds, faults>>
  BY DEF BuyPledge
<1> HIDE DEF row
<1>6. PaysWith(q, requests[q].tx)
  BY <1>1, <1>2 DEF PaysWith, RecordPayment
<1>7. Bought(q, row, requests[q].tx, requests[q].rate)
  BY <1>1, <1>2, <1>3, <1>4, <1>5, <1>6 DEF Bought
<1> QED BY <1>7 DEF row

\* What an upload has paid: nothing, if it is free.
PaidUp(q) == IF requests[q].tx = Nil THEN 0 ELSE Paid(q)

LEMMA UploadShape ==
    ASSUME Base, NEW q \in Requests, Upload(q)
    PROVE  /\ Bought(q, Hosting(q, LockedRate(q), PaidUp(q)), requests[q].tx, requests[q].rate)
           /\ LockedRate(q) \in Nat /\ PaidUp(q) \in Nat
<1>1. requests[q].at = "pinning" /\ Finish(q)
  BY DEF Upload
<1>2. requests[q] \in Request
  BY <1>1, UnderWay DEF Base
<1>3. /\ requests[q].tx \in Txs \cup {Nil} /\ requests[q].rate \in Nat
      /\ requests[q].tx # Nil => transfers[requests[q].tx] \in Transfer
      /\ PaidUp(q) \in Nat
      /\ PaidUp(q) = IF requests[q].tx = Nil THEN 0 ELSE transfers[requests[q].tx].amount
  BY <1>1, <1>2, Transferred DEF Request, PaidUp
<1>4. LockedRate(q) \in Nat
  BY Rates DEF LockedRate
<1> DEFINE row == Hosting(q, LockedRate(q), PaidUp(q))
<1>5. /\ row \in Claim /\ row.state = "active" /\ row.start = now /\ row.paid = PaidUp(q)
      /\ IsPermanent(row.expiry) \/ row.expiry = now + row.hours * Hour
  BY <1>1, <1>3, <1>4, HostingShape
<1>6. /\ claims' = [claims EXCEPT ![q] = row]
      /\ Credit(q, requests[q].tx, claims'[q].hours, requests[q].rate)
      /\ UNCHANGED <<now, config, transfers, payments, refunds, faults>>
  BY DEF Upload, PaidUp
<1> HIDE DEF row
<1>7. claims'[q] = row
  BY <1>6 DEF Base, TypeOK
<1>8. Credit(q, requests[q].tx, row.hours, requests[q].rate)
  BY <1>6, <1>7
<1>9. PaysWith(q, requests[q].tx)
  BY <1>1, <1>3, <1>6 DEF PaysWith
<1>10. Bought(q, row, requests[q].tx, requests[q].rate)
  BY <1>1, <1>3, <1>5, <1>6, <1>8, <1>9 DEF Bought
<1> QED BY <1>3, <1>4, <1>10 DEF row

LEMMA FreeClaimShape ==
    ASSUME Base, NEW q \in Requests, NEW kind \in {"own_copy", "guardian"}, NEW hours \in Hours,
           NEW copies \in Copies, FreeClaim(q, kind, hours, copies)
    PROVE  \E row \in Claim : row.rate = 0 /\ Bought(q, row, Nil, 0)
<1> DEFINE hrs == BillableHours(IF kind = "own_copy" THEN PricedHours(hours) ELSE hours)
           row == FreeRow(kind, hrs, copies)
<1>1. hrs \in Nat
  BY BillableHoursType, PricedHoursType, PaidAssumption DEF Base
<1>2. /\ requests[q].at = "idle"
      /\ claims' = [claims EXCEPT ![q] = row]
      /\ Credit(q, Nil, hrs, 0)
      /\ Finish(q)
      /\ UNCHANGED <<now, config, transfers, payments, refunds, faults>>
  BY DEF FreeClaim, Fresh, Idle
<1> HIDE DEF hrs
<1>3. hrs * Hour \in Nat /\ now \in Nat /\ CappedCopies(copies) \in Nat /\ BillableMB(Bytes) \in Nat
  BY <1>1, ProductIsNat, PricingAssumption, PaidAssumption, CappedCopiesType, BillableMBType
     DEF Base, TypeOK
<1>4. /\ row.state = (IF kind = "own_copy" THEN "active" ELSE "dormant")
      /\ row.start = now /\ row.hours = hrs /\ row.rate = 0 /\ row.paid = 0
  BY DEF FreeRow
<1>5. /\ row.expiry \in Nat
      /\ row.state = "active" => IsPermanent(row.expiry) \/ row.expiry = now + hrs * Hour
  BY <1>3, PricingAssumption DEF FreeRow, IsPermanent
<1>6. row \in Claim
  BY <1>1, <1>3, <1>5 DEF FreeRow, Claim
<1> HIDE DEF row
<1>7. PaysWith(q, Nil)
  BY <1>2 DEF PaysWith
<1>8. Bought(q, row, Nil, 0)
  BY <1>2, <1>4, <1>5, <1>6, <1>7 DEF Bought
<1> QED BY <1>4, <1>6, <1>8

LEMMA BuyExtensionShape ==
    ASSUME Base, NEW q \in Requests, BuyExtension(q)
    PROVE  \/ /\ Prolonged(q, requests[q].ref, requests[q].tx, requests[q].hours)
              /\ Covers(q) /\ requests[q].at = "verifying" /\ requests[q].kind = "extend"
           \/ LeftOver(q)
<1> DEFINE c == requests[q].ref
<1>1. /\ requests[q].at = "verifying" /\ requests[q].tx # Nil /\ requests[q].kind = "extend"
      /\ Covers(q) /\ RecordPayment(q) /\ Finish(q)
      /\ UNCHANGED <<now, config, transfers, refunds, faults>>
  BY DEF BuyExtension, Buys, Base, Holds
<1>2. /\ requests[q] \in Request /\ requests[q].tx \in Txs /\ requests[q].hours \in Nat
      /\ transfers[requests[q].tx] \in Transfer /\ c \in Requests
  BY <1>1, Transferred DEF Request
<1>3. PaysWith(q, requests[q].tx)
  BY <1>1, <1>2 DEF PaysWith, RecordPayment
<1>4. CASE claims[c].state = "active"
  <2>1. claims[c] \in Claim
    BY <1>1, <1>2 DEF Base, Holds, TypeOK
  <2>2. /\ claims' = [claims EXCEPT ![c] = Extended(c, requests[q].hours)]
        /\ Credit(c, requests[q].tx, requests[q].hours, ledger[c].charged)
    BY <1>4 DEF BuyExtension
  <2>3. Prolonged(q, c, requests[q].tx, requests[q].hours)
    BY <1>1, <1>2, <1>3, <1>4, <2>1, <2>2 DEF Prolonged
  <2> QED BY <1>1, <2>3
<1>5. CASE claims[c].state # "active"
  BY <1>1, <1>5 DEF LeftOver, BuyExtension
<1> QED BY <1>4, <1>5

LEMMA FreeExtendShape ==
    ASSUME Base, NEW q \in Requests, NEW c \in Requests, NEW hours \in Hours, FreeExtend(q, c, hours)
    PROVE  Prolonged(q, c, Nil, BillableHours(hours))
<1>1. claims[c] \in Claim /\ claims[c].state = "active"
  BY RowOf DEF FreeExtend, Base
<1>2. BillableHours(hours) \in Nat
  BY BillableHoursType, PaidAssumption
<1> QED BY <1>1, <1>2 DEF FreeExtend, Prolonged, Fresh, Idle, PaysWith

LEMMA LiveRows ==
    ASSUME TypeOK
    PROVE  /\ Live \subseteq Requests
           /\ \A c \in Live : claims[c] \in Claim /\ claims[c] # Nil
                              /\ claims[c].state \in {"active", "dormant"}
BY DEF TypeOK, Live, InState

LEMMA OweShape ==
    ASSUME Base, NEW E \in SUBSET Live, Leave(E, "cancelled"),
           NEW T \in [Requests -> {"cancel", "prorata", "none", "innocent"}],
           refunds' = [c \in Requests |->
              IF c \in E THEN [refunds[c] EXCEPT !.due = "owed", !.was = claims[c].state,
                                                 !.terms = T[c]]
              ELSE refunds[c]],
           UNCHANGED <<now, config, transfers, payments, requests, faults, ledger, uses>>
    PROVE  Ended(E, "cancelled")
<1>1. ASSUME NEW c \in Requests
      PROVE  /\ refunds'[c] \in Refund
             /\ IF c \in E
                THEN /\ refunds'[c].due = "owed" /\ refunds'[c].row = refunds[c].row
                     /\ refunds'[c].sent = refunds[c].sent /\ refunds'[c].amount = refunds[c].amount
                     /\ refunds'[c].was = claims[c].state
                ELSE refunds'[c] = refunds[c]
  <2>1. refunds[c] \in Refund /\ T[c] \in {"cancel", "prorata", "none", "innocent"}
    BY DEF Base, TypeOK
  <2>2. c \in E => claims[c].state \in {"active", "dormant"}
    BY LiveRows DEF Base
  <2> QED BY <2>1, <2>2 DEF Refund
<1>2. refunds' \in [Requests -> Refund]
  BY <1>1
<1> QED BY <1>1, <1>2 DEF Ended

LEMMA CancelShape ==
    ASSUME Base, NEW c \in Requests, Cancel(c)
    PROVE  Ended({c}, "cancelled")
<1> DEFINE T == [x \in Requests |-> "cancel"]
<1>1. refunds' = [x \in Requests |->
         IF x \in {c} THEN [refunds[x] EXCEPT !.due = "owed", !.was = claims[x].state,
                                             !.terms = "cancel"]
         ELSE refunds[x]]
  BY DEF Cancel, Owe
<1>2. refunds' = [x \in Requests |->
         IF x \in {c} THEN [refunds[x] EXCEPT !.due = "owed", !.was = claims[x].state,
                                             !.terms = T[x]]
         ELSE refunds[x]]
  BY <1>1
<1>3. T \in [Requests -> {"cancel", "prorata", "none", "innocent"}]
  OBVIOUS
<1>4. /\ {c} \in SUBSET Live /\ Leave({c}, "cancelled")
      /\ UNCHANGED <<now, config, transfers, payments, requests, faults, ledger, uses>>
  BY DEF Cancel
<1> HIDE DEF T
<1> QED BY <1>2, <1>3, <1>4, OweShape

LEMMA BanShape ==
    ASSUME Base, NEW E \in SUBSET Requests, NEW policy \in {"prorata", "none"}, Ban(E, policy)
    PROVE  Ended(E, "cancelled")
<1> DEFINE T == [x \in Requests |-> policy]
<1>1. refunds' = [x \in Requests |->
         IF x \in E THEN [refunds[x] EXCEPT !.due = "owed", !.was = claims[x].state,
                                           !.terms = policy]
         ELSE refunds[x]]
  BY DEF Ban, Owe
<1>2. refunds' = [x \in Requests |->
         IF x \in E THEN [refunds[x] EXCEPT !.due = "owed", !.was = claims[x].state,
                                           !.terms = T[x]]
         ELSE refunds[x]]
  BY <1>1
<1>3. T \in [Requests -> {"cancel", "prorata", "none", "innocent"}]
  OBVIOUS
<1>4. /\ E \in SUBSET Live /\ Leave(E, "cancelled")
      /\ UNCHANGED <<now, config, transfers, payments, requests, faults, ledger, uses>>
  BY DEF Ban
<1> HIDE DEF T
<1> QED BY <1>2, <1>3, <1>4, OweShape

LEMMA TakedownShape ==
    ASSUME Base, NEW policy \in {"prorata", "none"}, Takedown(policy)
    PROVE  Ended(Live, "cancelled")
<1> DEFINE T == [x \in Requests |-> IF claims[x].state = "dormant" THEN "innocent" ELSE policy]
<1>1. refunds' = [x \in Requests |->
         IF x \in Live THEN [refunds[x] EXCEPT !.due = "owed", !.was = claims[x].state,
                   !.terms = IF claims[x].state = "dormant" THEN "innocent" ELSE policy]
         ELSE refunds[x]]
  BY DEF Takedown, Owe
<1>2. refunds' = [x \in Requests |->
         IF x \in Live THEN [refunds[x] EXCEPT !.due = "owed", !.was = claims[x].state,
                                              !.terms = T[x]]
         ELSE refunds[x]]
  BY <1>1
<1>3. T \in [Requests -> {"cancel", "prorata", "none", "innocent"}]
  OBVIOUS
<1>4. /\ Live \in SUBSET Live /\ Leave(Live, "cancelled")
      /\ UNCHANGED <<now, config, transfers, payments, requests, faults, ledger, uses>>
  BY DEF Takedown
<1> HIDE DEF T
<1> QED BY <1>2, <1>3, <1>4, OweShape

LEMMA SweepShape ==
    ASSUME Base, Sweep
    PROVE  \E E \in SUBSET Requests : Ended(E, "expired")
<1> DEFINE E == {c \in InState("active") : claims[c].expiry < now}
<1>1. E \subseteq Live /\ E \subseteq Requests
  BY DEF Live, InState
<1>2. Leave(E, "expired")
  BY DEF Sweep
<1> HIDE DEF E
<1>3. Ended(E, "expired")
  BY <1>1, <1>2 DEF Sweep, Ended, Base, TypeOK
<1> QED BY <1>1, <1>3

LEMMA MovedShape ==
    ASSUME Base, NEW c \in Requests, Settle(c) \/ RecordThrows(c) \/ Sent(c) \/ NoKey(c) \/ SendFails(c)
    PROVE  Moved(c)
<1>1. CASE Settle(c)
  <2>1. claims[c] \in Claim /\ now \in Nat /\ refunds[c] \in Refund /\ refunds[c].due = "owed"
    BY <1>1 DEF Settle, Base, Slot, TypeOK
  <2> DEFINE amount == RefundAmount(claims[c], refunds[c].was, refunds[c].terms, now)
  <2>2. amount \in Int
    BY <2>1, RefundAmountType DEF Refund
  <2>3. refunds' = [refunds EXCEPT ![c] = Booked(amount, "pending")]
    BY <1>1 DEF Settle
  <2> HIDE DEF amount
  <2>4. Booked(amount, "pending") \in Refund
    BY <2>2 DEF Booked, NoRefund, Refund
  <2>5. faults' = faults /\ faults \in 0 .. MaxFaults
    BY <1>1 DEF Settle, Base, TypeOK
  <2> QED BY <1>1, <2>1, <2>3, <2>4, <2>5 DEF Moved, Settle, Base, TypeOK
<1>2. CASE Sent(c)
  BY <1>2 DEF Moved, Sent, Base, TypeOK, Refund
<1>3. CASE NoKey(c)
  BY <1>3 DEF Moved, NoKey, Base, TypeOK, Refund
<1>4. CASE SendFails(c)
  <2>1. PICK n \in {0, 1} : refunds' = [refunds EXCEPT ![c].due = "closed", ![c].row = "failed",
                                                       ![c].sent = @ + n]
    BY <1>4 DEF SendFails
  <2>2. refunds' \in [Requests -> Refund] /\ \A d \in Requests : d # c => refunds'[d] = refunds[d]
    <3>1. refunds[c] \in Refund /\ refunds[c].sent + n \in Nat
      BY DEF Base, TypeOK, Refund
    <3> DEFINE r == [refunds[c] EXCEPT !.due = "closed", !.row = "failed", !.sent = @ + n]
    <3>2. r \in Refund
      BY <3>1 DEF Refund
    <3>3. refunds' = [refunds EXCEPT ![c] = r]
      BY <2>1 DEF Base, TypeOK
    <3> HIDE DEF r
    <3> QED BY <3>2, <3>3 DEF Base, TypeOK
  <2>3. faults' = faults + 1 /\ faults' \in 0 .. MaxFaults
    BY <1>4, PaidAssumption DEF SendFails, Base, TypeOK
  <2> QED BY <1>4, <2>2, <2>3 DEF Moved, SendFails
<1>5. CASE RecordThrows(c)
  <2>1. faults' = faults + 1 /\ faults' \in 0 .. MaxFaults
    BY <1>5, PaidAssumption DEF RecordThrows, Base, TypeOK
  <2> QED BY <1>5, <2>1 DEF Moved, RecordThrows, Base, TypeOK, Refund
<1> QED BY <1>1, <1>2, <1>3, <1>4, <1>5

-----------------------------------------------------------------------------
(* Each shape keeps the base *)

\* Requests that go on keep what they hold when rows are kept.
LEMMA HoldsKept ==
    ASSUME Base, Kept, transfers' = transfers, NEW q \in Requests, requests'[q] = requests[q]
    PROVE  Holds(q)'
<1>1. Holds(q)
  BY DEF Base
<1>2. requests[q].at = "verifying" /\ requests[q].kind = "extend" => requests[q].ref \in Requests
  BY UnderWay DEF Base, Request
<1> QED BY <1>1, <1>2 DEF Holds, Kept

LEMMA DoneHolds ==
    ASSUME NEW q \in Requests, requests'[q] = Done
    PROVE  Holds(q)'
BY DEF Holds, Done

LEMMA BoughtBase ==
    ASSUME Base, NEW q \in Requests, NEW row, NEW tx, NEW rate, Bought(q, row, tx, rate)
    PROVE  Base' /\ claims[q] = Nil /\ Kept
<1> USE DEF Bought
<1>1. claims[q] = Nil
  BY DEF Base, Slot
<1>2. /\ claims' \in [Requests -> Claim \cup {Nil}] /\ claims'[q] = row
      /\ \A p \in Requests : p # q => claims'[p] = claims[p]
  BY DEF Base, TypeOK
<1>3. /\ requests' \in [Requests -> Request \cup {Idle, Done}] /\ requests'[q] = Done
      /\ \A p \in Requests : p # q => requests'[p] = requests[p]
  BY FinishTyped DEF Base, TypeOK, Finish
<1>4. Kept
  BY <1>1, <1>2 DEF Kept
<1>5. TypeOK'
  <2>1. ledger' \in [Requests -> Entry] /\ uses' \in [Txs -> Nat]
    <3>1. row.hours \in Nat
      BY DEF Claim
    <3> QED BY <3>1, CreditTyped DEF Base
  <2>2. payments' \subseteq Txs
    BY DEF PaysWith, Base, TypeOK
  <2> QED BY <1>2, <1>3, <2>1, <2>2 DEF Base, TypeOK
<1>6. ASSUME NEW p \in Requests PROVE Holds(p)'
  BY <1>3, <1>4, HoldsKept, DoneHolds
<1>7. ASSUME NEW c \in Requests PROVE Slot(c)'
  <2>1. CASE c = q
    BY <1>2, <1>3, <2>1, NilAssumption DEF Slot, Done
  <2>2. CASE c # q
    <3>1. ledger'[c] = ledger[c] /\ refunds' = refunds
      BY <2>2 DEF Credit, Base, TypeOK
    <3> QED BY <1>2, <1>3, <2>2, <3>1 DEF Base, Slot
  <2> QED BY <2>1, <2>2
<1> QED BY <1>1, <1>4, <1>5, <1>6, <1>7 DEF Base

LEMMA ProlongedRow ==
    ASSUME Base, NEW q \in Requests, NEW c \in Requests, NEW tx, NEW hours, Prolonged(q, c, tx, hours)
    PROVE  /\ claims' \in [Requests -> Claim \cup {Nil}]
           /\ claims'[c] \in Claim /\ claims'[c].state = "active"
           /\ claims'[c].hours = claims[c].hours + hours
           /\ claims'[c].expiry = claims[c].expiry + hours * Hour
           /\ claims'[c].start = claims[c].start /\ claims'[c].rate = claims[c].rate
           /\ claims'[c].mb = claims[c].mb /\ claims'[c].copies = claims[c].copies
           /\ claims'[c].paid = claims[c].paid /\ claims'[c].tx = claims[c].tx
           /\ \A p \in Requests : p # c => claims'[p] = claims[p]
           /\ Kept
<1>0. PICK m \in Nat : m = hours * Hour
  BY ProductIsNat, PricingAssumption DEF Prolonged
<1>h. PICK h \in Nat : h = claims[c].hours + hours
  BY DEF Prolonged, Claim
<1>e. PICK e \in Nat : e = claims[c].expiry + m
  BY DEF Prolonged, Claim
<1> DEFINE r == [claims[c] EXCEPT !.hours = h, !.expiry = e]
<1>1. claims[c] \in Claim /\ claims[c].state = "active" /\ claims' = [claims EXCEPT ![c] = r]
  BY <1>0, <1>h, <1>e DEF Prolonged, Extended
<1>2. /\ r \in Claim /\ r.state = "active" /\ r.hours = h /\ r.expiry = e
      /\ r.start = claims[c].start /\ r.rate = claims[c].rate
      /\ r.mb = claims[c].mb /\ r.copies = claims[c].copies
      /\ r.paid = claims[c].paid /\ r.tx = claims[c].tx
  BY <1>1 DEF Claim
<1> HIDE DEF r
<1>3. /\ claims' \in [Requests -> Claim \cup {Nil}] /\ claims'[c] = r
      /\ \A p \in Requests : p # c => claims'[p] = claims[p]
  BY <1>1, <1>2 DEF Base, TypeOK
<1>4. Kept
  BY <1>2, <1>3, NilAssumption DEF Kept
<1> QED BY <1>0, <1>h, <1>e, <1>2, <1>3, <1>4

LEMMA ProlongedBase ==
    ASSUME Base, NEW q \in Requests, NEW c \in Requests, NEW tx, NEW hours, Prolonged(q, c, tx, hours)
    PROVE  Base'
<1>1. /\ requests' \in [Requests -> Request \cup {Idle, Done}] /\ requests'[q] = Done
      /\ \A p \in Requests : p # q => requests'[p] = requests[p]
      /\ requests[q].at # "done"
  BY FinishTyped DEF Base, TypeOK, Finish, Prolonged
<1>2. /\ Kept /\ claims' \in [Requests -> Claim \cup {Nil}] /\ claims'[c] \in Claim
      /\ \A p \in Requests : p # c => claims'[p] = claims[p]
      /\ claims[c] \in Claim
  BY ProlongedRow DEF Prolonged
<1>3. TypeOK'
  <2>1. ledger' \in [Requests -> Entry] /\ uses' \in [Txs -> Nat]
    <3>1. ledger[c].charged \in Nat
      BY DEF Base, TypeOK, Entry
    <3> QED BY <3>1, CreditTyped DEF Base, Prolonged
  <2>2. payments' \subseteq Txs
    BY DEF PaysWith, Base, TypeOK, Prolonged
  <2> QED BY <1>1, <1>2, <2>1, <2>2 DEF Base, TypeOK, Prolonged
<1>4. ASSUME NEW p \in Requests PROVE Holds(p)'
  BY <1>1, <1>2, HoldsKept, DoneHolds DEF Prolonged
<1>5. ASSUME NEW d \in Requests PROVE Slot(d)'
  <2>1. refunds' = refunds
    BY DEF Prolonged
  <2>2. CASE d = c
    BY <1>1, <1>2, <2>2, NilAssumption DEF Slot, Base, Done
  <2>3. CASE d # c
    <3>1. ledger'[d] = ledger[d] /\ claims'[d] = claims[d]
      BY <1>2, <2>3 DEF Credit, Base, TypeOK, Prolonged
    <3> QED BY <1>1, <2>1, <3>1 DEF Base, Slot, Done
  <2> QED BY <2>2, <2>3
<1> QED BY <1>3, <1>4, <1>5 DEF Base

LEMMA LeftOverBase ==
    ASSUME Base, NEW q \in Requests, LeftOver(q)
    PROVE  Base'
<1>1. /\ requests' \in [Requests -> Request \cup {Idle, Done}] /\ requests'[q] = Done
      /\ \A p \in Requests : p # q => requests'[p] = requests[p]
  BY FinishTyped DEF Base, TypeOK, Finish, LeftOver
<1>2. requests[q].tx \in Txs
  BY Transferred DEF LeftOver, Base, Holds
<1>3. TypeOK'
  BY <1>1, <1>2 DEF Base, TypeOK, LeftOver, RecordPayment
<1>4. Kept
  BY DEF Kept, LeftOver
<1>5. ASSUME NEW p \in Requests PROVE Holds(p)'
  BY <1>1, <1>4, HoldsKept, DoneHolds DEF LeftOver
<1>6. ASSUME NEW d \in Requests PROVE Slot(d)'
  BY <1>1 DEF Base, Slot, LeftOver, Done
<1> QED BY <1>3, <1>5, <1>6 DEF Base

LEMMA EndedBase ==
    ASSUME Base, NEW E \in SUBSET Requests, NEW state \in {"cancelled", "expired"}, Ended(E, state)
    PROVE  Base'
<1>1. \A c \in E : claims[c] \in Claim /\ claims[c] # Nil
  BY LiveRows DEF Ended, Base
<1>2. /\ claims' \in [Requests -> Claim \cup {Nil}] /\ Kept
      /\ \A c \in Requests : claims[c] = Nil => claims'[c] = Nil
  BY <1>1, LeaveTyped, LeaveKeeps DEF Ended, Base
<1>3. TypeOK'
  BY <1>2 DEF Base, TypeOK, Ended
<1>4. ASSUME NEW p \in Requests PROVE Holds(p)'
  BY <1>2, HoldsKept DEF Ended
<1>5. ASSUME NEW d \in Requests PROVE Slot(d)'
  <2>1. claims[d] = Nil => refunds'[d] = refunds[d]
    BY <1>1 DEF Ended
  <2> QED BY <1>2, <2>1 DEF Base, Slot, Ended, Kept
<1> QED BY <1>3, <1>4, <1>5 DEF Base

LEMMA MovedBase ==
    ASSUME Base, NEW c \in Requests, Moved(c)
    PROVE  Base'
<1>1. TypeOK'
  BY DEF Base, TypeOK, Moved
<1>2. Kept
  BY DEF Kept, Moved
<1>3. ASSUME NEW p \in Requests PROVE Holds(p)'
  BY <1>2, HoldsKept DEF Moved
<1>4. ASSUME NEW d \in Requests PROVE Slot(d)'
  <2>1. claims[c] # Nil
    BY DEF Base, Slot, Moved
  <2> QED BY <2>1 DEF Base, Slot, Moved
<1> QED BY <1>1, <1>3, <1>4 DEF Base

LEMMA PayUploadRow ==
    ASSUME Base, NEW q \in Requests, PayUpload(q)
    PROVE  /\ requests[q].at = "verifying" /\ requests[q].tx \in Txs
           /\ requests' \in [Requests -> Request \cup {Idle, Done}]
           /\ requests'[q].at = "pinning" /\ requests'[q].tx = requests[q].tx
           /\ requests'[q].kind = "upload" /\ requests'[q].hours = requests[q].hours
           /\ requests'[q].copies = requests[q].copies /\ requests'[q].rate = requests[q].rate
           /\ requests'[q].quote = requests[q].quote /\ requests'[q] \in Request
           /\ \A p \in Requests : p # q => requests'[p] = requests[p]
           /\ transfers[requests[q].tx] # Nil
           /\ transfers[requests[q].tx].memo[1] = "upload"
           /\ transfers[requests[q].tx].memo[2] = q /\ requests'[q].ref = q
           /\ transfers[requests[q].tx].amount >= requests[q].quote
           /\ requests[q].tx \notin payments /\ payments' = payments \cup {requests[q].tx}
           /\ UNCHANGED <<now, config, transfers, claims, refunds, faults, ledger, uses>>
<1>1. /\ requests[q].at = "verifying" /\ requests[q].kind = "upload" /\ Covers(q)
      /\ requests[q].tx # Nil /\ transfers[requests[q].tx] # Nil
      /\ requests[q].tx \notin payments /\ payments' = payments \cup {requests[q].tx}
      /\ requests' = [requests EXCEPT ![q].at = "pinning"]
      /\ UNCHANGED <<now, config, transfers, claims, refunds, faults, ledger, uses>>
  BY DEF PayUpload, Buys, RecordPayment, Base, Holds
<1>2. requests[q] \in Request /\ requests[q].tx \in Txs
  BY <1>1, Transferred
<1>3. /\ requests[q].ref = q
      /\ transfers[requests[q].tx].memo[1] = "upload" /\ transfers[requests[q].tx].memo[2] = q
      /\ transfers[requests[q].tx].amount >= requests[q].quote
  <2>1. requests[q].ref = q
    BY <1>1 DEF Base, Holds
  <2> QED BY <1>1, <2>1 DEF Covers, Memo
<1> DEFINE r == [requests[q] EXCEPT !.at = "pinning"]
<1>4. /\ r \in Request /\ r.at = "pinning" /\ r.tx = requests[q].tx /\ r.kind = "upload"
      /\ r.hours = requests[q].hours /\ r.copies = requests[q].copies
      /\ r.rate = requests[q].rate /\ r.quote = requests[q].quote /\ r.ref = requests[q].ref
  BY <1>1, <1>2 DEF Request
<1>5. requests' = [requests EXCEPT ![q] = r]
  BY <1>1 DEF Base, TypeOK
<1> HIDE DEF r
<1>6. /\ requests'[q] = r /\ requests' \in [Requests -> Request \cup {Idle, Done}]
      /\ \A p \in Requests : p # q => requests'[p] = requests[p]
  BY <1>4, <1>5 DEF Base, TypeOK
<1> QED BY <1>1, <1>2, <1>3, <1>4, <1>6

LEMMA PayUploadBase ==
    ASSUME Base, NEW q \in Requests, PayUpload(q)
    PROVE  Base'
<1>1. TypeOK'
  BY PayUploadRow DEF Base, TypeOK
<1>2. Kept
  BY PayUploadRow DEF Kept
<1>3. ASSUME NEW p \in Requests PROVE Holds(p)'
  <2>1. CASE p = q
    BY <2>1, PayUploadRow DEF Holds
  <2>2. CASE p # q
    BY <1>2, <2>2, PayUploadRow, HoldsKept
  <2> QED BY <2>1, <2>2
<1>4. ASSUME NEW c \in Requests PROVE Slot(c)'
  BY PayUploadRow DEF Base, Slot
<1> QED BY <1>1, <1>3, <1>4 DEF Base

\* A crash: what is in memory is gone.
LEMMA RestartRows ==
    ASSUME Base, NEW new \in Configs, Restart(new)
    PROVE  /\ config' \in Configs /\ faults' = faults + 1 /\ faults' \in 0 .. MaxFaults
           /\ requests' \in [Requests -> Request \cup {Idle, Done}]
           /\ \A q \in Requests : IF requests[q].at \in {"verifying", "pinning"}
                                  THEN requests'[q] = Done ELSE requests'[q] = requests[q]
           /\ refunds' \in [Requests -> Refund]
           /\ \A c \in Requests :
                 /\ refunds'[c].row = refunds[c].row /\ refunds'[c].amount = refunds[c].amount
                 /\ refunds[c].due = "sending" =>
                       /\ refunds'[c].due = "closed"
                       /\ refunds'[c].sent \in {refunds[c].sent, refunds[c].sent + 1}
                 /\ refunds[c].due # "sending" => refunds'[c].sent = refunds[c].sent
                 /\ refunds[c].due = "owed" => refunds'[c].due = "lost"
                 /\ refunds[c].due \notin {"owed", "sending"} => refunds'[c] = refunds[c]
           /\ UNCHANGED <<now, transfers, claims, ledger, uses>>
<1>1. /\ config' = new /\ faults' = faults + 1 /\ faults < MaxFaults
      /\ requests' = [q \in Requests |-> IF requests[q].at \in {"verifying", "pinning"}
                                          THEN Done ELSE requests[q]]
      /\ UNCHANGED <<now, transfers, claims, ledger, uses>>
  BY DEF Restart
<1>2. PICK out \in SUBSET {c \in Requests : refunds[c].due = "sending"} :
          refunds' = [c \in Requests |->
             IF refunds[c].due = "owed" THEN [refunds[c] EXCEPT !.due = "lost"]
             ELSE IF refunds[c].due = "sending"
                  THEN [refunds[c] EXCEPT !.due = "closed",
                                          !.sent = IF c \in out THEN @ + 1 ELSE @]
                  ELSE refunds[c]]
  BY DEF Restart
<1>3. ASSUME NEW c \in Requests
      PROVE  /\ refunds'[c] \in Refund
             /\ refunds'[c].row = refunds[c].row /\ refunds'[c].amount = refunds[c].amount
             /\ refunds[c].due = "sending" =>
                   /\ refunds'[c].due = "closed"
                   /\ refunds'[c].sent \in {refunds[c].sent, refunds[c].sent + 1}
             /\ refunds[c].due # "sending" => refunds'[c].sent = refunds[c].sent
             /\ refunds[c].due = "owed" => refunds'[c].due = "lost"
             /\ refunds[c].due \notin {"owed", "sending"} => refunds'[c] = refunds[c]
  <2>1. refunds[c] \in Refund
    BY DEF Base, TypeOK
  <2>2. PICK n \in Nat : n = IF c \in out THEN refunds[c].sent + 1 ELSE refunds[c].sent
    BY <2>1 DEF Refund
  <2>3. refunds'[c] = IF refunds[c].due = "owed" THEN [refunds[c] EXCEPT !.due = "lost"]
                      ELSE IF refunds[c].due = "sending"
                           THEN [refunds[c] EXCEPT !.due = "closed", !.sent = n]
                           ELSE refunds[c]
    BY <1>2, <2>2
  <2> QED BY <2>1, <2>2, <2>3 DEF Refund
<1>4. refunds' \in [Requests -> Refund]
  BY <1>2, <1>3
<1>5. requests' \in [Requests -> Request \cup {Idle, Done}]
  BY <1>1 DEF Base, TypeOK
<1>6. config' \in Configs /\ faults' \in 0 .. MaxFaults
  BY <1>1, PaidAssumption DEF Base, TypeOK
<1> QED BY <1>1, <1>3, <1>4, <1>5, <1>6

LEMMA RestartBase ==
    ASSUME Base, NEW new \in Configs, Restart(new), payments' \subseteq Txs
    PROVE  Base'
<1>1. TypeOK'
  BY RestartRows DEF Base, TypeOK
<1>2. Kept
  BY RestartRows DEF Kept
<1>3. ASSUME NEW p \in Requests PROVE Holds(p)'
  <2>1. CASE requests'[p] = Done
    BY <2>1, DoneHolds
  <2>2. CASE requests'[p] = requests[p]
    BY <1>2, <2>2, RestartRows, HoldsKept
  <2> QED BY <2>1, <2>2, RestartRows
<1>4. ASSUME NEW c \in Requests PROVE Slot(c)'
  <2>1. requests[c].at = "done" => requests'[c].at = "done"
    BY RestartRows
  <2>2. refunds[c].due = "no" => refunds'[c].due = "no"
    BY RestartRows
  <2> QED BY <2>1, <2>2, RestartRows DEF Base, Slot
<1> QED BY <1>1, <1>3, <1>4 DEF Base

LEMMA TickBase ==
    ASSUME Base, Tick
    PROVE  Base'
<1>1. TypeOK'
  BY PaidAssumption DEF Base, TypeOK, Tick
<1>2. ASSUME NEW p \in Requests PROVE Holds(p)' /\ Slot(p)'
  BY DEF Base, Holds, Slot, Tick
<1> QED BY <1>1, <1>2 DEF Base

\* Every step is of one of the shapes.
Shaped ==
    \/ Tick
    \/ \E q \in Requests : Asked(q) /\ Holds(q)'
    \/ \E q \in Requests : PayUpload(q)
    \/ \E q \in Requests, row \in Claim, tx \in Txs \cup {Nil}, rate \in Nat : Bought(q, row, tx, rate)
    \/ \E q, c \in Requests, tx \in Txs \cup {Nil}, hours \in Nat : Prolonged(q, c, tx, hours)
    \/ \E q \in Requests : LeftOver(q)
    \/ \E E \in SUBSET Requests, state \in {"cancelled", "expired"} : Ended(E, state)
    \/ \E c \in Requests : Settle(c) \/ RecordThrows(c) \/ Sent(c) \/ NoKey(c) \/ SendFails(c)
    \/ \E new \in Configs :
          Crash(new) \/ \E q \in Requests : CrashAfterPayment(q, new)

LEMMA EveryStepIsShaped ==
    ASSUME Base, Next
    PROVE  Shaped
<1>1. ASSUME NEW q \in Requests, NEW size \in Sizes, NEW hours \in Hours, NEW copies \in Copies,
             NEW free \in BOOLEAN, Reserve(q, size, hours, copies, free)
      PROVE  Shaped
  BY <1>1, ReserveAsks DEF Shaped
<1>2. ASSUME NEW q \in Requests, NEW tx \in Txs, AskUpload(q, tx)
      PROVE  Shaped
  BY <1>2, AskUploadAsks DEF Shaped
<1>3. ASSUME NEW q \in Requests, NEW kind \in {"own_copy", "guardian"}, NEW hours \in Hours,
             NEW copies \in Copies, NEW tx \in Txs, AskClaim(q, kind, hours, copies, tx)
      PROVE  Shaped
  BY <1>3, AskClaimAsks DEF Shaped
<1>4. ASSUME NEW q \in Requests, NEW kind \in {"own_copy", "guardian"}, NEW hours \in Hours,
             NEW copies \in Copies, FreeClaim(q, kind, hours, copies)
      PROVE  Shaped
  BY <1>4, FreeClaimShape DEF Shaped
<1>5. ASSUME NEW q \in Requests, NEW c \in Requests, NEW hours \in Hours, NEW tx \in Txs,
             AskExtend(q, c, hours, tx)
      PROVE  Shaped
  BY <1>5, AskExtendAsks DEF Shaped
<1>6. ASSUME NEW q \in Requests, NEW c \in Requests, NEW hours \in Hours, FreeExtend(q, c, hours)
      PROVE  Shaped
  <2>1. BillableHours(hours) \in Nat
    BY BillableHoursType, PaidAssumption
  <2> QED BY <1>6, <2>1, FreeExtendShape DEF Shaped
<1>7. ASSUME NEW q \in Requests, AskFreeUpload(q)
      PROVE  Shaped
  BY <1>7, AskFreeUploadAsks DEF Shaped
<1>8. ASSUME NEW q \in Requests, Refuse(q) \/ NotConfirmed(q) \/ UploadFails(q)
      PROVE  Shaped
  BY <1>8, AnswerAsks DEF Shaped
<1>9. ASSUME NEW q \in Requests, BuyOwnCopy(q)
      PROVE  Shaped
  <2>1. CASE LeftOver(q)
    BY <2>1 DEF Shaped
  <2>2. CASE Bought(q, Hosting(q, config.rate, Paid(q)), requests[q].tx, requests[q].rate)
    <3>1. requests[q] \in Request
      BY <1>9, UnderWay DEF BuyOwnCopy, Buys, Base
    <3> QED BY <2>2, <3>1 DEF Shaped, Bought, Request
  <2> QED BY <1>9, <2>1, <2>2, BuyOwnCopyShape
<1>10. ASSUME NEW q \in Requests, BuyPledge(q)
      PROVE  Shaped
  <2>1. requests[q] \in Request
    BY <1>10, UnderWay DEF BuyPledge, Buys, Base
  <2> QED BY <1>10, <2>1, BuyPledgeShape DEF Shaped, Bought, Request
<1>11. ASSUME NEW q \in Requests, BuyExtension(q)
      PROVE  Shaped
  <2>1. requests[q] \in Request
    BY <1>11, UnderWay DEF BuyExtension, Buys, Base
  <2> QED BY <1>11, <2>1, BuyExtensionShape DEF Shaped, Request
<1>12. ASSUME NEW q \in Requests, PayUpload(q)
      PROVE  Shaped
  BY <1>12 DEF Shaped
<1>13. ASSUME NEW q \in Requests, Upload(q)
      PROVE  Shaped
  <2>1. requests[q] \in Request
    BY <1>13, UnderWay DEF Upload, Base
  <2> QED BY <1>13, <2>1, UploadShape DEF Shaped, Bought, Request
<1>14. ASSUME NEW c \in Requests, Cancel(c)
      PROVE  Shaped
  BY <1>14, CancelShape DEF Shaped
<1>15. ASSUME NEW policy \in {"prorata", "none"}, Takedown(policy)
      PROVE  Shaped
  BY <1>15, TakedownShape, LiveRows DEF Shaped, Base
<1>16. ASSUME NEW policy \in {"prorata", "none"}, NEW E \in SUBSET Requests, Ban(E, policy)
      PROVE  Shaped
  BY <1>16, BanShape DEF Shaped
<1>17. CASE Sweep
  BY <1>17, SweepShape DEF Shaped
<1> QED BY <1>1, <1>2, <1>3, <1>4, <1>5, <1>6, <1>7, <1>8, <1>9, <1>10, <1>11, <1>12, <1>13,
           <1>14, <1>15, <1>16, <1>17 DEF Next, Shaped

LEMMA BaseStep == Base /\ [Next]_vars => Base'
<1> SUFFICES ASSUME Base, [Next]_vars PROVE Base'
  OBVIOUS
<1>1. CASE UNCHANGED vars
  BY <1>1 DEF vars, Base, TypeOK, Holds, Slot
<1>2. CASE Next
  <2>1. ASSUME NEW c \in Requests, Settle(c) \/ RecordThrows(c) \/ Sent(c) \/ NoKey(c) \/ SendFails(c)
        PROVE  Base'
    BY <2>1, MovedShape, MovedBase
  <2>2. ASSUME NEW new \in Configs, Crash(new)
        PROVE  Base'
    BY <2>2, RestartBase DEF Crash, Base, TypeOK
  <2>3. ASSUME NEW new \in Configs, NEW q \in Requests, CrashAfterPayment(q, new)
        PROVE  Base'
    <3>1. payments' \subseteq Txs
      BY <2>3, Transferred DEF CrashAfterPayment, RecordPayment, Base, TypeOK, Holds
    <3> QED BY <2>3, <3>1, RestartBase DEF CrashAfterPayment
  <2> QED BY <1>2, <2>1, <2>2, <2>3, EveryStepIsShaped, TickBase, AskedBase, PayUploadBase,
             BoughtBase, ProlongedBase, LeftOverBase, EndedBase DEF Shaped
<1> QED BY <1>1, <1>2

\* Rows, requests, refunds and books keep their types whatever is asked, paid,
\* ended or lost, at any prices (server.js, quota.js).
THEOREM TypeCorrect == Spec => []TypeOK
<1>1. Base => TypeOK
  BY DEF Base
<1> QED BY BaseInit, BaseStep, <1>1, PTL DEF Spec

-----------------------------------------------------------------------------
(* One transfer, one purchase *)

\* A transfer that is not recorded has bought nothing, one that an upload still
\* holds has bought nothing yet, and no two uploads hold the same.
Spent ==
    /\ \A tx \in Txs : uses[tx] <= 1 /\ (tx \notin payments => uses[tx] = 0)
    /\ \A q \in Requests :
          requests[q].at = "pinning" /\ requests[q].tx # Nil =>
              requests[q].tx \in payments /\ uses[requests[q].tx] = 0
    /\ \A p, q \in Requests :
          /\ requests[p].at = "pinning" /\ requests[q].at = "pinning"
          /\ requests[p].tx # Nil /\ requests[p].tx = requests[q].tx
          => p = q

LEMMA CreditUses ==
    ASSUME Base, NEW c, NEW tx \in Txs \cup {Nil}, NEW hours, NEW rate, Credit(c, tx, hours, rate)
    PROVE  \A t \in Txs : uses'[t] = IF t = tx THEN uses[t] + 1 ELSE uses[t]
BY DEF Credit

LEMMA PaysSpent ==
    ASSUME Base, Spent, NEW q \in Requests, NEW tx \in Txs \cup {Nil}, PaysWith(q, tx),
           requests'[q] = Done, \A p \in Requests : p # q => requests'[p] = requests[p],
           \A t \in Txs : uses'[t] = IF t = tx THEN uses[t] + 1 ELSE uses[t]
    PROVE  Spent'
<1>1. tx # Nil => tx \in Txs /\ uses[tx] = 0 /\ tx \in payments'
  BY DEF PaysWith, Spent
<1>2. payments \subseteq payments'
  BY DEF PaysWith
<1>3. ASSUME NEW t \in Txs
      PROVE  uses'[t] <= 1 /\ (t \notin payments' => uses'[t] = 0)
  BY <1>1, <1>2, NilAssumption DEF Spent, Base, TypeOK
<1>4. ASSUME NEW p \in Requests, requests'[p].at = "pinning"
      PROVE  p # q /\ requests'[p] = requests[p] /\ requests[p].tx \in Txs \cup {Nil}
  <2>1. p # q
    BY <1>4 DEF Done
  <2> QED BY <1>4, <2>1, UnderWay DEF Request, Base
<1>5. ASSUME NEW p \in Requests, requests'[p].at = "pinning", requests'[p].tx # Nil
      PROVE  requests'[p].tx \in payments' /\ uses'[requests'[p].tx] = 0
  <2>1. requests[p].tx \in payments /\ uses[requests[p].tx] = 0
    BY <1>4, <1>5 DEF Spent
  <2>2. requests[p].tx # tx
    BY <1>4, <1>5, <2>1 DEF PaysWith, Spent
  <2> QED BY <1>2, <1>4, <1>5, <2>1, <2>2
<1>6. ASSUME NEW p \in Requests, NEW r \in Requests,
             requests'[p].at = "pinning", requests'[r].at = "pinning",
             requests'[p].tx # Nil, requests'[p].tx = requests'[r].tx
      PROVE  p = r
  BY <1>4, <1>6 DEF Spent
<1> QED BY <1>3, <1>5, <1>6 DEF Spent

LEMMA FinishOnly ==
    ASSUME Base, NEW q \in Requests, Finish(q)
    PROVE  requests'[q] = Done /\ \A p \in Requests : p # q => requests'[p] = requests[p]
BY DEF Base, TypeOK, Finish

\* Requests that are dropped, and a payment that is recorded and buys nothing.
LEMMA DroppedSpent ==
    ASSUME Base, Spent, payments \subseteq payments', uses' = uses,
           \A q \in Requests : requests'[q] = requests[q] \/ requests'[q] = Done
    PROVE  Spent'
<1>1. ASSUME NEW p \in Requests, requests'[p].at = "pinning"
      PROVE  requests'[p] = requests[p]
  BY <1>1 DEF Done
<1> QED BY <1>1 DEF Spent

LEMMA SpentStep ==
    ASSUME Base, Spent, [Next]_vars
    PROVE  Spent'
<1>1. CASE UNCHANGED vars
  BY <1>1 DEF vars, Spent
<1>2. CASE Tick
  BY <1>2 DEF Tick, Spent
<1>3. ASSUME NEW q \in Requests, Asked(q)
      PROVE  Spent'
  <2>1. payments' = payments /\ uses' = uses
    BY <1>3 DEF Asked
  <2>2. ASSUME NEW p \in Requests, requests'[p].at = "pinning", requests'[p].tx # Nil
        PROVE  requests'[p] = requests[p]
    BY <1>3, <2>2 DEF Asked
  <2> QED BY <2>1, <2>2 DEF Spent
<1>4. ASSUME NEW q \in Requests, PayUpload(q)
      PROVE  Spent'
  <2> DEFINE tx == requests[q].tx
  <2>1. /\ tx \in Txs /\ tx \notin payments /\ uses[tx] = 0 /\ payments' = payments \cup {tx}
        /\ uses' = uses /\ requests'[q].at = "pinning" /\ requests'[q].tx = tx
        /\ \A p \in Requests : p # q => requests'[p] = requests[p]
    BY <1>4, PayUploadRow DEF Spent
  <2>2. ASSUME NEW p \in Requests, p # q, requests'[p].at = "pinning", requests'[p].tx # Nil
        PROVE  requests'[p].tx \in payments /\ uses[requests'[p].tx] = 0 /\ requests'[p].tx # tx
    BY <2>1, <2>2 DEF Spent
  <2> HIDE DEF tx
  <2>3. ASSUME NEW p \in Requests, NEW r \in Requests,
               requests'[p].at = "pinning", requests'[r].at = "pinning",
               requests'[p].tx # Nil, requests'[p].tx = requests'[r].tx
        PROVE  p = r
    BY <2>1, <2>2, <2>3 DEF Spent
  <2>4. \A t \in Txs : uses'[t] <= 1 /\ (t \notin payments' => uses'[t] = 0)
    BY <2>1 DEF Spent
  <2>5. ASSUME NEW p \in Requests, requests'[p].at = "pinning", requests'[p].tx # Nil
        PROVE  requests'[p].tx \in payments' /\ uses'[requests'[p].tx] = 0
    BY <2>1, <2>2, <2>5
  <2> QED BY <2>3, <2>4, <2>5 DEF Spent
<1>5. ASSUME NEW q \in Requests, NEW row \in Claim, NEW tx \in Txs \cup {Nil}, NEW rate \in Nat,
             Bought(q, row, tx, rate)
      PROVE  Spent'
  BY <1>5, PaysSpent, CreditUses, FinishOnly DEF Bought
<1>6. ASSUME NEW q \in Requests, NEW c \in Requests, NEW tx \in Txs \cup {Nil}, NEW hours \in Nat,
             Prolonged(q, c, tx, hours)
      PROVE  Spent'
  BY <1>6, PaysSpent, CreditUses, FinishOnly DEF Prolonged
<1>7. ASSUME NEW q \in Requests, LeftOver(q)
      PROVE  Spent'
  BY <1>7, DroppedSpent, FinishOnly DEF LeftOver, RecordPayment
<1>8. ASSUME NEW E \in SUBSET Requests, NEW state \in {"cancelled", "expired"}, Ended(E, state)
      PROVE  Spent'
  BY <1>8 DEF Ended, Spent
<1>9. ASSUME NEW c \in Requests, Settle(c) \/ RecordThrows(c) \/ Sent(c) \/ NoKey(c) \/ SendFails(c)
      PROVE  Spent'
  BY <1>9, MovedShape DEF Moved, Spent
<1>10. ASSUME NEW new \in Configs, Crash(new)
      PROVE  Spent'
  BY <1>10, RestartRows, DroppedSpent DEF Crash
<1>11. ASSUME NEW new \in Configs, NEW q \in Requests, CrashAfterPayment(q, new)
      PROVE  Spent'
  BY <1>11, RestartRows, DroppedSpent DEF CrashAfterPayment, RecordPayment
<1> QED BY <1>1, <1>2, <1>3, <1>4, <1>5, <1>6, <1>7, <1>8, <1>9, <1>10, <1>11,
           EveryStepIsShaped DEF Shaped

\* A transfer buys at most one upload, own copy, pledge or extension, however many
\* requests present it at once (server.js:660-860, 1599-1997, quota.js:317-331).
THEOREM OneTransferOnePurchase == Spec => []PaymentBuysOneThing
<1>1. Init => Base /\ Spent
  BY BaseInit DEF Init, Spent, Idle
<1>2. Base /\ Spent /\ [Next]_vars => (Base /\ Spent)'
  BY BaseStep, SpentStep
<1>3. Base /\ Spent => PaymentBuysOneThing
  BY DEF Spent, PaymentBuysOneThing
<1> QED BY <1>1, <1>2, <1>3, PTL DEF Spec

-----------------------------------------------------------------------------
(* Timers *)

Timed ==
    \A c \in Requests : claims[c] # Nil =>
        /\ claims[c].hours = ledger[c].hours
        /\ claims[c].state = "active" =>
              \/ IsPermanent(claims[c].expiry)
              \/ claims[c].expiry = claims[c].start + claims[c].hours * Hour

\* A claim that leaves keeps its terms; a guardian that is promoted starts now.
LEMMA LeaveRows ==
    ASSUME TypeOK, NEW E \in SUBSET Requests, NEW state \in {"cancelled", "expired"},
           \A c \in E : claims[c] \in Claim, Leave(E, state), NEW d \in Requests, claims[d] # Nil
    PROVE  /\ claims'[d].hours = claims[d].hours /\ claims'[d].rate = claims[d].rate
           /\ claims'[d].copies = claims[d].copies /\ claims'[d].mb = claims[d].mb
           /\ claims'[d].paid = claims[d].paid
           /\ \/ claims'[d] = claims[d] /\ d \notin E
              \/ claims'[d].state = state /\ d \in E
              \/ /\ claims[d].state = "dormant" /\ claims'[d].state = "active" /\ d \notin E
                 /\ claims'[d].expiry = claims'[d].start + claims'[d].hours * Hour
<1> DEFINE closed == [c \in Requests |->
                        IF c \in E THEN [claims[c] EXCEPT !.state = state] ELSE claims[c]]
<1>1. claims[d] \in Claim
  BY DEF TypeOK
<1>2. /\ closed[d] \in Claim /\ closed[d].hours = claims[d].hours
      /\ closed[d].rate = claims[d].rate /\ closed[d].copies = claims[d].copies
      /\ closed[d].mb = claims[d].mb /\ closed[d].paid = claims[d].paid
      /\ (d \in E => closed[d].state = state) /\ (d \notin E => closed[d] = claims[d])
  BY <1>1 DEF Claim
<1>3. closed \in [Requests -> Claim \cup {Nil}]
  BY DEF TypeOK, Claim
<1>4. ASSUME NEW g \in InState("dormant") \ E, d = g,
             claims' = [closed EXCEPT ![g].state = "active", ![g].start = now,
                                      ![g].expiry = now + claims[g].hours * Hour]
      PROVE  /\ claims'[d].hours = claims[d].hours /\ claims'[d].rate = claims[d].rate
             /\ claims'[d].copies = claims[d].copies /\ claims'[d].mb = claims[d].mb
             /\ claims'[d].paid = claims[d].paid
             /\ claims[d].state = "dormant" /\ claims'[d].state = "active" /\ d \notin E
             /\ claims'[d].expiry = claims'[d].start + claims'[d].hours * Hour
  <2>1. PICK e \in Nat : e = now + claims[g].hours * Hour
    BY <1>1, <1>4, ProductIsNat, PricingAssumption DEF TypeOK, Claim
  <2>2. claims[d].state = "dormant" /\ d \notin E
    BY <1>4 DEF InState
  <2>3. claims' = [closed EXCEPT ![g].state = "active", ![g].start = now, ![g].expiry = e]
    BY <1>4, <2>1
  <2> HIDE DEF closed
  <2>4. /\ claims'[d].hours = claims[d].hours /\ claims'[d].rate = claims[d].rate
        /\ claims'[d].copies = claims[d].copies /\ claims'[d].mb = claims[d].mb
        /\ claims'[d].paid = claims[d].paid
        /\ claims'[d].state = "active" /\ claims'[d].expiry = e /\ claims'[d].start = now
    BY <1>2, <1>3, <1>4, <2>3 DEF Claim
  <2> QED BY <1>4, <2>1, <2>2, <2>4
<1>5. ASSUME NEW g \in InState("dormant") \ E, d # g,
             claims' = [closed EXCEPT ![g].state = "active", ![g].start = now,
                                      ![g].expiry = now + claims[g].hours * Hour]
      PROVE  claims'[d] = closed[d]
  <2> HIDE DEF closed
  <2> QED BY <1>3, <1>5
<1>6. \/ claims' = closed
      \/ \E g \in InState("dormant") \ E :
            claims' = [closed EXCEPT ![g].state = "active", ![g].start = now,
                                     ![g].expiry = now + claims[g].hours * Hour]
  BY DEF Leave
<1> HIDE DEF closed
<1> QED BY <1>2, <1>4, <1>5, <1>6

LEMMA MoreHours ==
    ASSUME NEW a \in Nat, NEW b \in Nat
    PROVE  (a + b) * Hour = a * Hour + b * Hour
BY PricingAssumption

LEMMA CreditEntry ==
    ASSUME Base, NEW c \in Requests, NEW tx, NEW hours \in Nat, NEW rate, Credit(c, tx, hours, rate)
    PROVE  /\ ledger'[c].hours = ledger[c].hours + hours
           /\ ledger'[c].in = ledger[c].in + (IF tx = Nil THEN 0 ELSE transfers[tx].amount)
           /\ ledger'[c].payments = ledger[c].payments + 1
           /\ ledger'[c].charged = rate
           /\ \A d \in Requests : d # c => ledger'[d] = ledger[d]
BY DEF Credit, Base, TypeOK

LEMMA TimedStep ==
    ASSUME Base, Timed, [Next]_vars
    PROVE  Timed'
<1>1. ASSUME claims' = claims, ledger' = ledger
      PROVE  Timed'
  BY <1>1 DEF Timed
<1>2. ASSUME NEW q \in Requests, NEW row \in Claim, NEW tx \in Txs \cup {Nil}, NEW rate \in Nat,
             Bought(q, row, tx, rate)
      PROVE  Timed'
  <2>1. claims[q] = Nil /\ ledger[q].hours = 0
    BY <1>2, BoughtBase DEF Base, Slot
  <2>2. claims'[q] = row /\ \A d \in Requests : d # q => claims'[d] = claims[d]
    BY <1>2 DEF Bought, Base, TypeOK
  <2>3. ledger'[q].hours = row.hours /\ \A d \in Requests : d # q => ledger'[d] = ledger[d]
    <3>1. Credit(q, tx, row.hours, rate) /\ row.hours \in Nat
      BY <1>2 DEF Bought, Claim
    <3>2. ledger'[q].hours = ledger[q].hours + row.hours /\ \A d \in Requests : d # q => ledger'[d] = ledger[d]
      BY <3>1, CreditEntry
    <3> QED BY <2>1, <3>1, <3>2
  <2>4. row.start = now /\ row.state = "active" =>
            IsPermanent(row.expiry) \/ row.expiry = row.start + row.hours * Hour
    BY <1>2 DEF Bought
  <2>5. row.start = now
    BY <1>2 DEF Bought
  <2> QED BY <2>2, <2>3, <2>4, <2>5 DEF Timed
<1>3. ASSUME NEW q \in Requests, NEW c \in Requests, NEW tx \in Txs \cup {Nil}, NEW hours \in Nat,
             Prolonged(q, c, tx, hours)
      PROVE  Timed'
  <2>1. /\ claims[c] # Nil /\ claims[c] \in Claim /\ claims[c].state = "active"
        /\ claims[c].hours = ledger[c].hours
        /\ IsPermanent(claims[c].expiry) \/ claims[c].expiry = claims[c].start + claims[c].hours * Hour
    BY <1>3, NilAssumption DEF Timed, Prolonged
  <2>2. /\ claims'[c].hours = claims[c].hours + hours /\ claims'[c].start = claims[c].start
        /\ claims'[c].expiry = claims[c].expiry + hours * Hour
        /\ \A d \in Requests : d # c => claims'[d] = claims[d]
    BY <1>3, ProlongedRow
  <2>3. ledger'[c].hours = ledger[c].hours + hours /\ \A d \in Requests : d # c => ledger'[d] = ledger[d]
    <3>1. Credit(c, tx, hours, ledger[c].charged)
      BY <1>3 DEF Prolonged
    <3> QED BY ZenonT(40), <3>1, CreditEntry
  <2>4. \/ IsPermanent(claims'[c].expiry)
        \/ claims'[c].expiry = claims'[c].start + claims'[c].hours * Hour
    <3>1. /\ claims[c].hours \in Nat /\ claims[c].start \in Nat /\ claims[c].expiry \in Nat
          /\ hours * Hour \in Nat /\ claims[c].hours * Hour \in Nat
      BY <2>1, ProductIsNat, PricingAssumption DEF Claim
    <3>2. (claims[c].hours + hours) * Hour = claims[c].hours * Hour + hours * Hour
      BY <3>1, MoreHours
    <3>3. CASE IsPermanent(claims[c].expiry)
      <4>1. claims[c].expiry + hours * Hour >= PermanentExpiry
        BY <3>1, <3>3, PricingAssumption DEF IsPermanent
      <4> QED BY <2>2, <4>1 DEF IsPermanent
    <3>4. CASE claims[c].expiry = claims[c].start + claims[c].hours * Hour
      BY <2>2, <3>1, <3>2, <3>4
    <3> QED BY <2>1, <3>3, <3>4
  <2>5. ASSUME NEW d \in Requests, claims'[d] # Nil, d # c
        PROVE  /\ claims'[d].hours = ledger'[d].hours
               /\ claims'[d].state = "active" =>
                     \/ IsPermanent(claims'[d].expiry)
                     \/ claims'[d].expiry = claims'[d].start + claims'[d].hours * Hour
    BY <2>2, <2>3, <2>5 DEF Timed
  <2>6. claims'[c].hours = ledger'[c].hours
    BY <2>1, <2>2, <2>3
  <2> QED BY <2>4, <2>5, <2>6 DEF Timed
<1>4. ASSUME NEW E \in SUBSET Requests, NEW state \in {"cancelled", "expired"}, Ended(E, state)
      PROVE  Timed'
  <2>1. \A c \in E : claims[c] \in Claim
    BY <1>4, LiveRows DEF Ended, Base
  <2>2. ASSUME NEW d \in Requests, claims'[d] # Nil
        PROVE  /\ claims'[d].hours = ledger'[d].hours
               /\ claims'[d].state = "active" =>
                     \/ IsPermanent(claims'[d].expiry)
                     \/ claims'[d].expiry = claims'[d].start + claims'[d].hours * Hour
    <3>1. claims[d] # Nil /\ ledger' = ledger
      BY <1>4, <2>1, <2>2, LeaveKeeps DEF Ended, Base
    <3>2. claims'[d].hours = claims[d].hours
      BY <1>4, <2>1, <3>1, LeaveRows DEF Ended, Base
    <3>3. claims'[d].state = "active" =>
             \/ claims'[d] = claims[d]
             \/ claims'[d].expiry = claims'[d].start + claims'[d].hours * Hour
      BY <1>4, <2>1, <3>1, LeaveRows DEF Ended, Base
    <3> QED BY <3>1, <3>2, <3>3 DEF Timed
  <2> QED BY <2>2 DEF Timed
<1>5. ASSUME NEW c \in Requests, Settle(c) \/ RecordThrows(c) \/ Sent(c) \/ NoKey(c) \/ SendFails(c)
      PROVE  Timed'
  BY <1>1, <1>5, MovedShape DEF Moved
<1>6. ASSUME NEW q \in Requests, PayUpload(q)
      PROVE  Timed'
  BY <1>1, <1>6, PayUploadRow
<1>7. ASSUME NEW new \in Configs, Crash(new) \/ \E q \in Requests : CrashAfterPayment(q, new)
      PROVE  Timed'
  BY <1>1, <1>7, RestartRows DEF Crash, CrashAfterPayment
<1>8. ASSUME NEW q \in Requests, Asked(q) \/ LeftOver(q)
      PROVE  Timed'
  BY <1>1, <1>8 DEF Asked, LeftOver
<1>9. CASE UNCHANGED vars \/ Tick
  BY <1>1, <1>9 DEF vars, Tick
<1> QED BY <1>2, <1>3, <1>4, <1>5, <1>6, <1>7, <1>8, <1>9, EveryStepIsShaped DEF Shaped

\* A running claim's timer is what was bought for it: extensions that race with
\* each other, and promotions, lose no hour and give none (quota.js:667-708).
THEOREM HoursAreKept == Spec => []TimerIsWhatWasBought
<1>1. Init => Base /\ Timed
  BY BaseInit DEF Init, Timed
<1>2. Base /\ Timed /\ [Next]_vars => (Base /\ Timed)'
  BY BaseStep, TimedStep
<1>3. Base /\ Timed => TimerIsWhatWasBought
  BY DEF Timed, TimerIsWhatWasBought, InState
<1> QED BY <1>1, <1>2, <1>3, PTL DEF Spec

-----------------------------------------------------------------------------
(* Refund rows *)

\* How far a refund is, against its row, what was sent, and the claim.
RefundRow(c) ==
    /\ refunds[c].due \in {"no", "owed", "lost"} =>
          refunds[c].row = "none" /\ refunds[c].sent = 0 /\ refunds[c].amount = 0
    /\ refunds[c].due = "sending" => refunds[c].row = "pending" /\ refunds[c].sent = 0
    /\ refunds[c].due = "lost" => faults > 0
    /\ refunds[c].due = "closed" =>
          /\ refunds[c].row # "none"
          /\ refunds[c].sent <= 1
          /\ refunds[c].row = "sent" => refunds[c].sent = 1
          /\ refunds[c].row = "skipped" => refunds[c].sent = 0
          /\ refunds[c].sent = 1 /\ refunds[c].row # "sent" => faults > 0
    /\ claims[c] # Nil /\ claims[c].state = "cancelled" => refunds[c].due # "no"
    /\ claims[c] # Nil /\ claims[c].state # "cancelled" => refunds[c].due = "no"

RefundRows == \A c \in Requests : RefundRow(c)

LEMMA RefundRowMoves ==
    ASSUME Base, RefundRows, NEW c \in Requests, Settle(c) \/ RecordThrows(c) \/ Sent(c) \/ NoKey(c) \/ SendFails(c)
    PROVE  RefundRow(c)'
<1>0. refunds[c] \in Refund /\ faults \in Nat /\ RefundRow(c)
  BY PaidAssumption DEF Base, TypeOK, RefundRows
<1>1. CASE Settle(c)
  <2> DEFINE amount == RefundAmount(claims[c], refunds[c].was, refunds[c].terms, now)
  <2>1. refunds'[c] = Booked(amount, "pending") /\ claims' = claims /\ refunds[c].due = "owed"
    BY <1>1 DEF Settle, Base, TypeOK
  <2> HIDE DEF amount
  <2>2. /\ refunds'[c].due = IF amount = 0 THEN "closed" ELSE "sending"
        /\ refunds'[c].row = IF amount = 0 THEN "skipped" ELSE "pending"
        /\ refunds'[c].sent = 0
    BY <2>1 DEF Booked, NoRefund
  <2>3. claims[c] # Nil /\ claims[c].state = "cancelled"
    BY <1>0, <2>1 DEF RefundRow, Base, Slot
  <2> QED BY <2>1, <2>2, <2>3 DEF RefundRow
<1>2. CASE Sent(c)
  <2>1. /\ refunds'[c].due = "closed" /\ refunds'[c].row = "sent"
        /\ refunds'[c].sent = refunds[c].sent + 1
        /\ claims' = claims /\ refunds[c].due = "sending"
    BY <1>0, <1>2 DEF Sent, Base, TypeOK, Refund
  <2> QED BY <1>0, <2>1 DEF RefundRow
<1>3. CASE NoKey(c)
  <2>1. /\ refunds'[c].due = "closed" /\ refunds'[c].row = refunds[c].row
        /\ refunds'[c].sent = refunds[c].sent
        /\ claims' = claims /\ refunds[c].due = "sending"
    BY <1>0, <1>3 DEF NoKey, Base, TypeOK, Refund
  <2> QED BY <1>0, <2>1 DEF RefundRow
<1>4. CASE SendFails(c)
  <2>1. PICK n \in {0, 1} : refunds' = [refunds EXCEPT ![c].due = "closed", ![c].row = "failed",
                                                       ![c].sent = @ + n]
    BY <1>4 DEF SendFails
  <2>2. /\ refunds'[c].due = "closed" /\ refunds'[c].row = "failed"
        /\ refunds'[c].sent = refunds[c].sent + n
    BY <1>0, <2>1 DEF Base, TypeOK, Refund
  <2>3. faults' > 0 /\ claims' = claims /\ refunds[c].due = "sending"
    BY <1>0, <1>4 DEF SendFails
  <2> QED BY <1>0, <2>2, <2>3 DEF RefundRow
<1>5. CASE RecordThrows(c)
  <2>1. /\ refunds'[c].due = "lost" /\ refunds'[c].row = refunds[c].row
        /\ refunds'[c].sent = refunds[c].sent /\ refunds'[c].amount = refunds[c].amount
        /\ claims' = claims /\ refunds[c].due = "owed"
    BY <1>0, <1>5 DEF RecordThrows, Base, TypeOK, Refund
  <2>2. faults' > 0
    BY <1>0, <1>5 DEF RecordThrows
  <2> QED BY <1>0, <2>1, <2>2 DEF RefundRow
<1> QED BY <1>1, <1>2, <1>3, <1>4, <1>5

LEMMA RefundRowsStep ==
    ASSUME Base, RefundRows, [Next]_vars
    PROVE  RefundRows'
<1>1. ASSUME claims' = claims, refunds' = refunds, faults' = faults
      PROVE  RefundRows'
  BY <1>1 DEF RefundRows, RefundRow
<1>2. ASSUME NEW q \in Requests, NEW row \in Claim, NEW tx \in Txs \cup {Nil}, NEW rate \in Nat,
             Bought(q, row, tx, rate)
      PROVE  RefundRows'
  <2>1. claims[q] = Nil /\ refunds[q].due = "no" /\ refunds' = refunds /\ faults' = faults
    BY <1>2, BoughtBase DEF Base, Slot, Bought
  <2>2. /\ claims'[q].state \in {"active", "dormant"}
        /\ \A d \in Requests : d # q => claims'[d] = claims[d]
    BY <1>2 DEF Bought, Base, TypeOK
  <2> QED BY <2>1, <2>2 DEF RefundRows, RefundRow
<1>3. ASSUME NEW q \in Requests, NEW c \in Requests, NEW tx \in Txs \cup {Nil}, NEW hours \in Nat,
             Prolonged(q, c, tx, hours)
      PROVE  RefundRows'
  <2>1. claims[c] # Nil /\ claims[c].state = "active" /\ refunds' = refunds /\ faults' = faults
    BY <1>3, NilAssumption DEF Prolonged
  <2>2. claims'[c].state = "active" /\ \A d \in Requests : d # c => claims'[d] = claims[d]
    BY <1>3, ProlongedRow
  <2> QED BY <2>1, <2>2 DEF RefundRows, RefundRow
<1>4. ASSUME NEW E \in SUBSET Requests, NEW state \in {"cancelled", "expired"}, Ended(E, state)
      PROVE  RefundRows'
  <2>1. \A c \in E : claims[c] \in Claim /\ claims[c] # Nil /\ claims[c].state # "cancelled"
    BY <1>4, LiveRows DEF Ended, Base
  <2>2. ASSUME NEW d \in Requests PROVE RefundRow(d)'
    <3>0. RefundRow(d) /\ faults' = faults
      BY <1>4 DEF RefundRows, Ended
    <3>1. CASE claims[d] = Nil
      <4>1. claims'[d] = Nil /\ d \notin E
        BY <1>4, <2>1, <3>1, LeaveKeeps DEF Ended, Base
      <4>2. refunds'[d] = refunds[d]
        BY <1>4, <4>1 DEF Ended
      <4> QED BY <3>0, <4>1, <4>2 DEF RefundRow
    <3>2. CASE claims[d] # Nil
      <4>1. \/ claims'[d] = claims[d] /\ d \notin E
            \/ claims'[d].state = state /\ d \in E
            \/ claims[d].state = "dormant" /\ claims'[d].state = "active" /\ d \notin E
        BY <1>4, <2>1, <3>2, LeaveRows DEF Ended, Base
      <4>2. CASE d \in E /\ state = "cancelled"
        <5>1. /\ refunds'[d].due = "owed" /\ refunds'[d].row = refunds[d].row
              /\ refunds'[d].sent = refunds[d].sent /\ refunds'[d].amount = refunds[d].amount
          BY <1>4, <4>2 DEF Ended
        <5>2. refunds[d].due = "no" /\ claims'[d].state = "cancelled"
          BY <2>1, <3>0, <4>1, <4>2 DEF RefundRow
        <5> QED BY <3>0, <5>1, <5>2 DEF RefundRow
      <4>3. CASE ~(d \in E /\ state = "cancelled")
        <5>1. refunds'[d] = refunds[d]
          BY <1>4, <4>3 DEF Ended
        <5>2. claims'[d].state = "cancelled" <=> claims[d].state = "cancelled"
          BY <2>1, <4>1, <4>3
        <5> QED BY <3>0, <3>2, <5>1, <5>2 DEF RefundRow
      <4> QED BY <4>2, <4>3
    <3> QED BY <3>1, <3>2
  <2> QED BY <2>2 DEF RefundRows
<1>5. ASSUME NEW c \in Requests, Settle(c) \/ RecordThrows(c) \/ Sent(c) \/ NoKey(c) \/ SendFails(c)
      PROVE  RefundRows'
  <2>1. RefundRow(c)'
    BY <1>5, RefundRowMoves
  <2>2. ASSUME NEW d \in Requests, d # c PROVE RefundRow(d)'
    <3>1. refunds'[d] = refunds[d] /\ claims' = claims /\ faults' \in {faults, faults + 1} /\ faults \in Nat
      BY <1>5, <2>2, MovedShape, PaidAssumption DEF Moved, Base, TypeOK
    <3> QED BY <3>1 DEF RefundRows, RefundRow
  <2> QED BY <2>1, <2>2 DEF RefundRows
<1>6. ASSUME NEW q \in Requests, PayUpload(q)
      PROVE  RefundRows'
  BY <1>1, <1>6, PayUploadRow
<1>7. ASSUME NEW new \in Configs, Crash(new) \/ \E q \in Requests : CrashAfterPayment(q, new)
      PROVE  RefundRows'
  <2>0. Restart(new)
    BY <1>7 DEF Crash, CrashAfterPayment
  <2>1. faults' > 0 /\ claims' = claims
    BY <2>0, RestartRows, PaidAssumption DEF Base, TypeOK
  <2>2. ASSUME NEW d \in Requests PROVE RefundRow(d)'
    <3>1. /\ refunds'[d].row = refunds[d].row /\ refunds'[d].amount = refunds[d].amount
          /\ refunds[d].due = "sending" =>
                /\ refunds'[d].due = "closed"
                /\ refunds'[d].sent \in {refunds[d].sent, refunds[d].sent + 1}
          /\ refunds[d].due # "sending" => refunds'[d].sent = refunds[d].sent
          /\ refunds[d].due = "owed" => refunds'[d].due = "lost"
          /\ refunds[d].due \notin {"owed", "sending"} => refunds'[d] = refunds[d]
      BY <2>0, RestartRows
    <3>2. RefundRow(d) /\ refunds[d] \in Refund
      BY DEF RefundRows, Base, TypeOK
    <3>3. CASE refunds[d].due = "sending"
      BY <2>1, <3>1, <3>2, <3>3 DEF RefundRow
    <3>4. CASE refunds[d].due = "owed"
      BY <2>1, <3>1, <3>2, <3>4 DEF RefundRow
    <3>5. CASE refunds[d].due \notin {"owed", "sending"}
      BY <2>1, <3>1, <3>2, <3>5 DEF RefundRow
    <3> QED BY <3>3, <3>4, <3>5
  <2> QED BY <2>2 DEF RefundRows
<1>8. ASSUME NEW q \in Requests, Asked(q) \/ LeftOver(q)
      PROVE  RefundRows'
  BY <1>1, <1>8 DEF Asked, LeftOver
<1>9. CASE UNCHANGED vars \/ Tick
  BY <1>1, <1>9 DEF vars, Tick
<1> QED BY <1>2, <1>3, <1>4, <1>5, <1>6, <1>7, <1>8, <1>9, EveryStepIsShaped DEF Shaped

LEMMA RefundRowsInit == Init => RefundRows
BY DEF Init, RefundRows, RefundRow, NoRefund

\* Refunds are sent at most once and their rows say so; only faults leave a doubt
\* or a claim without a row (server.js:279-311, quota.js:783-805).
THEOREM RefundRowsAreTrue == Spec => []RefundRowIsTrue
<1>1. Init => Base /\ RefundRows
  BY BaseInit, RefundRowsInit
<1>2. Base /\ RefundRows /\ [Next]_vars => (Base /\ RefundRows)'
  BY BaseStep, RefundRowsStep
<1>3. Base /\ RefundRows => RefundRowIsTrue
  <2> SUFFICES ASSUME Base, RefundRows, NEW c \in Requests
               PROVE  /\ claims[c] # Nil /\ claims[c].state = "cancelled" /\ refunds[c].row = "none" =>
                            refunds[c].due = "owed" \/ faults > 0
                      /\ refunds[c].sent <= 1
                      /\ refunds[c].row = "sent" => refunds[c].sent = 1
                      /\ refunds[c].sent = 1 =>
                            \/ refunds[c].row = "sent"
                            \/ refunds[c].row \in {"pending", "failed"} /\ faults > 0
    BY DEF RefundRowIsTrue
  <2>1. RefundRow(c) /\ refunds[c] \in Refund
    BY DEF RefundRows, Base, TypeOK
  <2> QED BY <2>1 DEF RefundRow, Refund
<1> QED BY <1>1, <1>2, <1>3, PTL DEF Spec

-----------------------------------------------------------------------------
(* Stranded payments *)

LEMMA FaultsNat == Base => faults \in Nat
BY PaidAssumption DEF Base, TypeOK

\* A payment that was recorded before and strands now was held by an upload.
LEMMA StrandedByUploads ==
    ASSUME Base, NEW tx \in Txs, tx \in payments, uses'[tx] >= uses[tx],
           ~Stranded(tx), Stranded(tx)'
    PROVE  PastHelp(tx)
<1>1. uses[tx] = 0
  BY DEF Stranded, Base, TypeOK
<1>2. PICK q \in Requests : requests[q].at = "pinning" /\ requests[q].tx = tx
  BY <1>1 DEF Stranded
<1>3. transfers[tx].memo[1] = "upload" /\ transfers[tx].memo[2] = q
  BY <1>2, NilAssumption DEF Base, Holds
<1> QED BY <1>2, <1>3 DEF PastHelp

\* A payment that buys something does not strand.
LEMMA PayingStrands ==
    ASSUME Base, Spent, NEW q \in Requests, NEW tx \in Txs \cup {Nil}, PaysWith(q, tx),
           \A t \in Txs : uses'[t] = IF t = tx THEN uses[t] + 1 ELSE uses[t],
           NEW t \in Txs, ~Stranded(t), Stranded(t)'
    PROVE  PastHelp(t)
<1>1. CASE t \in payments
  <2>1. uses'[t] >= uses[t]
    BY DEF Base, TypeOK
  <2> QED BY <1>1, <2>1, StrandedByUploads
<1>2. CASE t \notin payments /\ t = tx
  <2>1. uses'[t] = 1
    BY <1>2 DEF Spent
  <2> QED BY <2>1 DEF Stranded
<1>3. CASE t \notin payments /\ t # tx
  BY <1>3 DEF PaysWith, Stranded
<1> QED BY <1>1, <1>2, <1>3

\* A payment that buys nothing at once is an own copy's, and no host is left, or an
\* extension's, and its claim has ended.
LEMMA LeftOverStrands ==
    ASSUME Base, NEW q \in Requests, LeftOver(q), NEW tx \in Txs, ~Stranded(tx), Stranded(tx)'
    PROVE  PastHelp(tx)
<1>1. /\ payments' = payments \cup {requests[q].tx} /\ uses' = uses
      /\ requests[q].at = "verifying" /\ Covers(q)
      /\ requests[q].kind \in {"own_copy", "extend"}
  BY DEF LeftOver, RecordPayment
<1>2. CASE tx \in payments
  <2>1. uses'[tx] >= uses[tx]
    BY <1>1 DEF Base, TypeOK
  <2> QED BY <1>2, <2>1, StrandedByUploads
<1>3. CASE tx \notin payments
  <2>1. tx = requests[q].tx
    BY <1>1, <1>3 DEF Stranded
  <2>2. transfers[tx].memo = Memo(requests[q].kind, requests[q].ref)
    BY <1>1, <2>1 DEF Covers
  <2>3. CASE requests[q].kind = "own_copy"
    <3>1. ~Hosted
      BY <2>3 DEF LeftOver
    <3>2. transfers[tx].memo[1] = "own_copy"
      BY <2>2, <2>3 DEF Memo
    <3> QED BY <3>1, <3>2 DEF PastHelp
  <2>4. CASE requests[q].kind = "extend"
    <3>1. transfers[tx].memo[1] = "extend" /\ transfers[tx].memo[2] = requests[q].ref
      BY <2>2, <2>4 DEF Memo
    <3>2. requests[q] \in Request /\ requests[q].ref \in Requests
      BY <1>1, UnderWay DEF Base, Request
    <3>3. /\ claims[requests[q].ref] # Nil /\ claims[requests[q].ref].state # "dormant"
          /\ claims[requests[q].ref].state # "active"
      BY <1>1, <2>4 DEF Base, Holds, LeftOver
    <3>4. claims[requests[q].ref].state \in {"cancelled", "expired"}
      BY <3>2, <3>3 DEF Base, TypeOK, Claim
    <3> QED BY <3>1, <3>4 DEF PastHelp
  <2> QED BY <1>1, <2>3, <2>4
<1> QED BY <1>2, <1>3

LEMMA ServedStep ==
    ASSUME Base, Spent, [Next]_vars, faults' = faults,
           NEW tx \in Txs, ~Stranded(tx), Stranded(tx)'
    PROVE  PastHelp(tx)
<1>1. CASE UNCHANGED vars \/ Tick
  BY <1>1 DEF vars, Tick, Stranded
<1>2. ASSUME UNCHANGED <<payments, uses>>
      PROVE  PastHelp(tx)
  <2>1. tx \in payments /\ uses'[tx] >= uses[tx]
    BY <1>2 DEF Stranded, Base, TypeOK
  <2> QED BY <2>1, StrandedByUploads
<1>3. ASSUME NEW q \in Requests, Asked(q)
      PROVE  PastHelp(tx)
  BY <1>2, <1>3 DEF Asked
<1>4. ASSUME NEW q \in Requests, PayUpload(q)
      PROVE  PastHelp(tx)
  <2>1. CASE tx \in payments
    <3>1. uses'[tx] >= uses[tx]
      BY <1>4, PayUploadRow DEF Base, TypeOK
    <3> QED BY <2>1, <3>1, StrandedByUploads
  <2>2. CASE tx \notin payments
    <3>1. tx = requests[q].tx
      BY <1>4, <2>2, PayUploadRow DEF Stranded
    <3> QED BY <1>4, <3>1, PayUploadRow DEF Stranded
  <2> QED BY <2>1, <2>2
<1>5. ASSUME NEW q \in Requests, NEW row \in Claim, NEW t \in Txs \cup {Nil}, NEW rate \in Nat,
             Bought(q, row, t, rate)
      PROVE  PastHelp(tx)
  <2>1. PaysWith(q, t) /\ Credit(q, t, row.hours, rate)
    BY <1>5 DEF Bought
  <2>2. \A x \in Txs : uses'[x] = IF x = t THEN uses[x] + 1 ELSE uses[x]
    BY <2>1, CreditUses
  <2> QED BY <2>1, <2>2, PayingStrands
<1>6. ASSUME NEW q \in Requests, NEW c \in Requests, NEW t \in Txs \cup {Nil}, NEW hours \in Nat,
             Prolonged(q, c, t, hours)
      PROVE  PastHelp(tx)
  <2>1. PaysWith(q, t) /\ Credit(c, t, hours, ledger[c].charged)
    BY <1>6 DEF Prolonged
  <2>2. \A x \in Txs : uses'[x] = IF x = t THEN uses[x] + 1 ELSE uses[x]
    BY <2>1, CreditUses
  <2> QED BY <2>1, <2>2, PayingStrands
<1>7. ASSUME NEW q \in Requests, LeftOver(q)
      PROVE  PastHelp(tx)
  BY <1>7, LeftOverStrands
<1>8. ASSUME NEW E \in SUBSET Requests, NEW state \in {"cancelled", "expired"}, Ended(E, state)
      PROVE  PastHelp(tx)
  BY <1>2, <1>8 DEF Ended
<1>9. ASSUME NEW c \in Requests, Settle(c) \/ RecordThrows(c) \/ Sent(c) \/ NoKey(c) \/ SendFails(c)
      PROVE  PastHelp(tx)
  BY <1>2, <1>9, MovedShape DEF Moved
<1>10. ASSUME NEW new \in Configs, Crash(new) \/ \E q \in Requests : CrashAfterPayment(q, new)
       PROVE  PastHelp(tx)
  <2>1. faults' = faults + 1
    BY <1>10 DEF Crash, CrashAfterPayment, Restart
  <2> QED BY <2>1, FaultsNat
<1> QED BY <1>1, <1>3, <1>4, <1>5, <1>6, <1>7, <1>8, <1>9, <1>10, EveryStepIsShaped DEF Shaped

\* Short of a crash no step strands a recorded payment, but for an upload's that fails
\* after it, an own copy's without a host and an extension's of a claim that has ended
\* (server.js:806-864, 1599-1997).
THEOREM PaymentsAreServed == Spec => PaidIsServed
<1>1. Init => Base /\ Spent
  BY BaseInit DEF Init, Spent, Idle
<1>2. Base /\ Spent /\ [Next]_vars => (Base /\ Spent)'
  BY BaseStep, SpentStep
<1>3. Base /\ Spent /\ [Next]_vars =>
      [\A tx \in Txs : ~Stranded(tx) /\ Stranded(tx)' /\ faults' = faults => PastHelp(tx)]_vars
  BY ServedStep
<1> QED BY <1>1, <1>2, <1>3, PTL DEF Spec, PaidIsServed

-----------------------------------------------------------------------------
(* Deposits *)

\* What hours of the file are worth, in grains, before any rounding.
Worth(hours, rate, copies) == hours * BillableMB(Bytes) * rate * copies

LEMMA ProductMonotone ==
    ASSUME NEW a \in Nat, NEW b \in Nat, NEW c \in Nat, NEW d \in Nat, a <= b, c <= d
    PROVE  a * c <= b * d
<1>1. a * c <= b * c
  OBVIOUS
<1>2. b * c <= b * d
  OBVIOUS
<1>3. a * c \in Nat /\ b * c \in Nat /\ b * d \in Nat
  BY ProductIsNat
<1> QED BY <1>1, <1>2, <1>3

LEMMA MbType == BillableMB(Bytes) \in Nat
BY BillableMBType, PaidAssumption

LEMMA WorthType ==
    ASSUME NEW hours \in Nat, NEW rate \in Nat, NEW copies \in Nat
    PROVE  Worth(hours, rate, copies) \in Nat
BY MbType, ProductIsNat DEF Worth

LEMMA WorthMonotone ==
    ASSUME NEW h \in Nat, NEW hours \in Nat, h <= hours, NEW r \in Nat, NEW rate \in Nat, r <= rate,
           NEW copies \in Nat
    PROVE  Worth(h, r, copies) <= Worth(hours, rate, copies)
<1> DEFINE m == BillableMB(Bytes)
<1>0. m \in Nat
  BY MbType
<1> HIDE DEF m
<1>1. h * m \in Nat /\ hours * m \in Nat /\ h * m <= hours * m
  BY <1>0, ProductIsNat, ProductMonotone
<1>2. h * m * r \in Nat /\ hours * m * rate \in Nat /\ h * m * r <= hours * m * rate
  BY <1>1, ProductIsNat, ProductMonotone
<1>3. h * m * r * copies <= hours * m * rate * copies
  BY <1>2, ProductMonotone
<1> QED BY <1>3 DEF Worth, m

LEMMA Distributes ==
    ASSUME NEW a \in Nat, NEW b \in Nat, NEW c \in Nat
    PROVE  (a + b) * c = a * c + b * c
OBVIOUS

LEMMA WorthAdds ==
    ASSUME NEW h \in Nat, NEW hours \in Nat, NEW rate \in Nat, NEW copies \in Nat
    PROVE  Worth(h + hours, rate, copies) = Worth(h, rate, copies) + Worth(hours, rate, copies)
<1> DEFINE m == BillableMB(Bytes)
<1>0. m \in Nat
  BY MbType
<1> HIDE DEF m
<1>1. (h + hours) * m = h * m + hours * m /\ h * m \in Nat /\ hours * m \in Nat
  BY <1>0, Distributes, ProductIsNat
<1>2. (h * m + hours * m) * rate = h * m * rate + hours * m * rate
  BY <1>1, Distributes
<1>3. h * m * rate \in Nat /\ hours * m * rate \in Nat
  BY <1>1, ProductIsNat
<1>4. (h * m * rate + hours * m * rate) * copies = h * m * rate * copies + hours * m * rate * copies
  BY <1>3, Distributes
<1> QED BY <1>1, <1>2, <1>4 DEF Worth, m

\* A quote is short of what it sells by half a unit at most.
LEMMA QuoteBounds ==
    ASSUME NEW bytes \in Nat, bytes >= Bytes, NEW hours \in Nat, NEW copies \in Nat, NEW rate \in Nat
    PROVE  2 * Grain * Cost(bytes, hours, copies, rate) + Grain
              >= 2 * Worth(BillableHours(hours), rate, CappedCopies(copies))
<1> DEFINE m == BillableMB(Bytes)
           n == BillableMB(bytes)
           h == BillableHours(hours)
           k == CappedCopies(copies)
<1>1. m \in Nat /\ n \in Nat /\ m <= n /\ h \in Nat /\ k \in Nat
  BY BillableMBType, BillableMBMonotone, BillableHoursType, CappedCopiesType, PaidAssumption
<1>2. Cost(bytes, hours, copies, rate) = RoundCoins(n * h * rate * k)
  BY DEF Cost
<1>3. Worth(h, rate, k) = h * m * rate * k
  BY DEF Worth
<1> HIDE DEF m, n, h, k
<1>4. h * m \in Nat /\ n * h \in Nat /\ h * m <= n * h
  <2>1. h * m <= h * n /\ h * n = n * h
    BY <1>1, ProductMonotone
  <2> QED BY <1>1, <2>1, ProductIsNat
<1>5. h * m * rate \in Nat /\ n * h * rate \in Nat /\ h * m * rate <= n * h * rate
  BY <1>4, ProductMonotone, ProductIsNat
<1>6. h * m * rate * k \in Nat /\ n * h * rate * k \in Nat /\ h * m * rate * k <= n * h * rate * k
  BY <1>1, <1>5, ProductMonotone, ProductIsNat
<1> DEFINE w == h * m * rate * k
           g == n * h * rate * k
<1>7. RoundCoins(g) \in Nat /\ 2 * Grain * RoundCoins(g) + Grain >= 2 * g
  BY <1>6, RoundCoinsBounds
<1>8. 2 * Grain * RoundCoins(g) + Grain >= 2 * w
  <2>1. w \in Nat /\ g \in Nat /\ w <= g
    BY <1>6
  <2>2. 2 * Grain * RoundCoins(g) + Grain \in Nat
    BY <1>7, ProductIsNat, PricingAssumption
  <2> HIDE DEF w, g
  <2> QED BY <1>7, <2>1, <2>2
<1> QED BY <1>2, <1>3, <1>8 DEF h, k

LEMMA ExtendQuoteBounds ==
    ASSUME NEW claim \in Claim, claim.mb = BillableMB(Bytes), NEW hours \in Nat
    PROVE  2 * Grain * ExtendCost(claim, hours) + Grain
              >= 2 * Worth(BillableHours(hours), claim.rate, claim.copies)
<1> DEFINE m == BillableMB(Bytes)
           h == BillableHours(hours)
<1>1. m \in Nat /\ h \in Nat /\ claim.rate \in Nat /\ claim.copies \in Nat
  BY MbType, BillableHoursType DEF Claim
<1>2. ExtendCost(claim, hours) = RoundCoins(m * h * claim.rate * claim.copies)
  BY DEF ExtendCost
<1>3. Worth(h, claim.rate, claim.copies) = h * m * claim.rate * claim.copies
  BY DEF Worth
<1> HIDE DEF m, h
<1>4. h * m = m * h
  BY <1>1
<1>5. m * h * claim.rate * claim.copies \in Nat
  BY <1>1, ProductIsNat
<1> QED BY <1>2, <1>3, <1>4, <1>5, RoundCoinsBounds DEF h

\* A refund of an active claim is worth no more than its hours, and half a unit.
LEMMA RefundBounds ==
    ASSUME NEW claim \in Claim, NEW t \in Nat, CappedCopies(claim.copies) = claim.copies
    PROVE  2 * Grain * CalculateRefund(claim, t) <=
              2 * Worth(claim.hours, claim.rate, claim.copies) + Grain
<1> DEFINE h == AtLeast(0, claim.hours - HoursUsed(claim, t))
           w == Worth(h, claim.rate, claim.copies)
           full == Worth(claim.hours, claim.rate, claim.copies)
<1>1. h \in Nat /\ h <= claim.hours /\ claim.rate \in Nat /\ claim.copies \in Nat /\ claim.hours \in Nat
      /\ claim.bytes = Bytes
  BY UnusedHours DEF Claim
<1>2. CalculateRefund(claim, t) \in {0, NoDust(RoundCoins(w))}
  <2>1. BillableMB(claim.bytes) = BillableMB(Bytes)
    BY <1>1
  <2>2. w = h * BillableMB(claim.bytes) * claim.rate * CappedCopies(claim.copies)
    BY <2>1 DEF Worth
  <2>3. CalculateRefund(claim, t) \in
           {0, NoDust(RoundCoins(h * BillableMB(claim.bytes) * claim.rate * CappedCopies(claim.copies)))}
    BY DEF CalculateRefund
  <2> HIDE DEF w, h
  <2> QED BY <2>2, <2>3
<1> HIDE DEF h
<1>3. w \in Nat /\ full \in Nat /\ w <= full
  <2>1. w \in Nat
    BY <1>1, WorthType
  <2>2. full \in Nat
    BY <1>1, WorthType
  <2>3. PICK r \in Nat : r = claim.rate
    BY <1>1
  <2>4. PICK k \in Nat : k = claim.copies
    BY <1>1
  <2>5. PICK hours \in Nat : hours = claim.hours
    BY <1>1
  <2>6. h <= hours /\ r <= r
    BY <1>1, <2>5
  <2>7. Worth(h, r, k) <= Worth(hours, r, k)
    BY <1>1, <2>6, WorthMonotone
  <2> QED BY <2>1, <2>2, <2>3, <2>4, <2>5, <2>7
<1> HIDE DEF w, full
<1>4. RoundCoins(w) \in Nat /\ 2 * Grain * RoundCoins(w) <= 2 * w + Grain
  BY <1>3, RoundCoinsBounds
<1>5. CASE CalculateRefund(claim, t) = 0
  <2>1. 2 * Grain * 0 = 0
    BY PricingAssumption
  <2> QED BY <1>3, <1>5, <2>1, PricingAssumption DEF full
<1>6. CASE CalculateRefund(claim, t) = RoundCoins(w)
  <2>1. 2 * Grain * RoundCoins(w) \in Nat
    BY <1>4, ProductIsNat, PricingAssumption
  <2>2. 2 * Grain * RoundCoins(w) <= 2 * full + Grain
    BY <1>3, <1>4, <2>1, PricingAssumption
  <2> QED BY <1>6, <2>2 DEF full
<1> QED BY <1>2, <1>5, <1>6 DEF NoDust

\* A request's quote covers what it asks for, at the rate it was quoted.
Quoted(q) ==
    requests[q].at \in {"reserved", "verifying", "pinning"} =>
        /\ CappedCopies(requests[q].copies) = requests[q].copies
        /\ 2 * Grain * requests[q].quote + Grain
              >= 2 * Worth(requests[q].hours, requests[q].rate, requests[q].copies)
        /\ requests[q].kind # "extend" => requests[q].hours >= MinHours
        /\ requests[q].kind = "extend" =>
              /\ requests[q].rate = claims[requests[q].ref].rate
              /\ requests[q].copies = claims[requests[q].ref].copies
        /\ requests[q].at = "pinning" /\ requests[q].tx # Nil =>
              transfers[requests[q].tx].amount >= requests[q].quote

\* What was paid for a claim covers all its hours at its rate.
Deposited(c) ==
    claims[c] # Nil =>
        /\ claims[c].mb = BillableMB(Bytes)
        /\ CappedCopies(claims[c].copies) = claims[c].copies
        /\ claims[c].paid <= ledger[c].in
        /\ claims[c].rate <= ledger[c].charged =>
              2 * Grain * ledger[c].in + Grain * ledger[c].payments
                 >= 2 * Worth(claims[c].hours, claims[c].rate, claims[c].copies)

Backed(c) == claims[c] # Nil /\ claims[c].rate <= ledger[c].charged => Covered(c)

Deposits == \A c \in Requests : Quoted(c) /\ Deposited(c) /\ Backed(c)

\* Rows keep their rate and copies.
Terms ==
    \A c \in Requests : claims[c] # Nil =>
        claims'[c].rate = claims[c].rate /\ claims'[c].copies = claims[c].copies

LEMMA QuotedKept ==
    ASSUME Base, Terms, NEW q \in Requests, Quoted(q), requests'[q] = requests[q],
           \A tx \in Txs : transfers[tx] # Nil => transfers'[tx] = transfers[tx]
    PROVE  Quoted(q)'
<1>1. CASE requests[q].at \in {"reserved", "verifying", "pinning"}
  <2>1. requests[q] \in Request /\ requests[q].ref \in Requests /\ requests[q].tx \in Txs \cup {Nil}
    BY <1>1, UnderWay DEF Base, Request
  <2>2. requests[q].kind = "extend" => claims[requests[q].ref] # Nil
    BY <1>1 DEF Base, Holds
  <2>3. requests[q].kind = "extend" =>
           /\ claims'[requests[q].ref].rate = claims[requests[q].ref].rate
           /\ claims'[requests[q].ref].copies = claims[requests[q].ref].copies
    BY <2>1, <2>2 DEF Terms
  <2>4. requests[q].at = "pinning" /\ requests[q].tx # Nil =>
           transfers'[requests[q].tx] = transfers[requests[q].tx]
    BY <2>1 DEF Base, Holds
  <2> QED BY <2>3, <2>4 DEF Quoted
<1>2. CASE requests[q].at \notin {"reserved", "verifying", "pinning"}
  BY <1>2 DEF Quoted
<1> QED BY <1>1, <1>2

LEMMA DoneQuoted ==
    ASSUME NEW q \in Requests, requests'[q] = Done
    PROVE  Quoted(q)'
BY DEF Quoted, Done

\* Nothing is bought, nothing ends: only quotes are new.
LEMMA QuietDeposits ==
    ASSUME Base, Deposits, claims' = claims, ledger' = ledger, refunds' = refunds,
           \A q \in Requests : Quoted(q)'
    PROVE  Deposits'
BY DEF Deposits, Deposited, Backed, Covered

LEMMA AskedDeposits ==
    ASSUME Base, Deposits, NEW q \in Requests, Asked(q), Quoted(q)'
    PROVE  Deposits'
<1>1. claims' = claims /\ ledger' = ledger /\ refunds' = refunds
  BY DEF Asked
<1>2. Terms
  BY <1>1 DEF Terms
<1>3. ASSUME NEW p \in Requests, p # q PROVE Quoted(p)'
  BY <1>2, <1>3, QuotedKept DEF Asked, Deposits
<1> QED BY <1>1, <1>3, QuietDeposits

LEMMA ReserveQuoted ==
    ASSUME Base, NEW q \in Requests, NEW size \in Sizes, NEW hours \in Hours,
           NEW copies \in Copies, NEW free \in BOOLEAN, Reserve(q, size, hours, copies, free)
    PROVE  Quoted(q)'
<1> DEFINE rate == IF free THEN 0 ELSE config.rate
           hrs  == PricedHours(hours)
           r == requests'[q]
<1>1. rate \in Nat
  BY Rates
<1>2. hrs \in Nat /\ size \in Nat /\ copies \in Nat /\ size >= Bytes
  BY PricedHoursType, PaidAssumption DEF Base
<1>3. /\ r.at = "reserved" /\ r.kind = "upload" /\ r.hours = BillableHours(hrs)
      /\ r.copies = CappedCopies(copies) /\ r.quote = Cost(size, hrs, copies, rate) /\ r.rate = rate
  BY DEF Reserve, Base, TypeOK
<1> HIDE DEF rate, hrs
<1>4. 2 * Grain * r.quote + Grain >= 2 * Worth(r.hours, r.rate, r.copies)
  BY <1>1, <1>2, <1>3, QuoteBounds
<1>5. CappedCopies(r.copies) = r.copies /\ r.hours >= MinHours
  BY <1>2, <1>3, CappedOnce, BillableHoursType
<1> QED BY <1>3, <1>4, <1>5 DEF Quoted

LEMMA AskClaimQuoted ==
    ASSUME Base, NEW q \in Requests, NEW kind \in {"own_copy", "guardian"},
           NEW hours \in Hours, NEW copies \in Copies, NEW tx \in Txs,
           AskClaim(q, kind, hours, copies, tx)
    PROVE  Quoted(q)'
<1> DEFINE hrs == IF kind = "own_copy" THEN PricedHours(hours) ELSE hours
           r == requests'[q]
<1>1. hrs \in Nat /\ Bytes \in Nat /\ copies \in Nat /\ config.rate \in Nat /\ Bytes >= Bytes
  BY PricedHoursType, PaidAssumption, Rates DEF Base
<1>2. /\ r.at = "verifying" /\ r.kind = kind /\ r.hours = BillableHours(hrs)
      /\ r.copies = CappedCopies(copies) /\ r.quote = Cost(Bytes, hrs, copies, config.rate)
      /\ r.rate = config.rate
  BY DEF AskClaim, Base, TypeOK
<1> HIDE DEF hrs
<1>3. 2 * Grain * r.quote + Grain >= 2 * Worth(r.hours, r.rate, r.copies)
  BY <1>1, <1>2, QuoteBounds
<1>4. CappedCopies(r.copies) = r.copies /\ r.hours >= MinHours
  BY <1>1, <1>2, CappedOnce, BillableHoursType
<1> QED BY <1>2, <1>3, <1>4 DEF Quoted

LEMMA AskExtendQuoted ==
    ASSUME Base, Deposits, NEW q \in Requests, NEW c \in Requests, NEW hours \in Hours, NEW tx \in Txs,
           AskExtend(q, c, hours, tx)
    PROVE  Quoted(q)'
<1> DEFINE r == requests'[q]
<1>1. claims[c] \in Claim /\ claims[c] # Nil
  BY RowOf DEF Base, AskExtend, InState
<1>2. claims[c].mb = BillableMB(Bytes) /\ CappedCopies(claims[c].copies) = claims[c].copies
  BY <1>1 DEF Deposits, Deposited
<1>3. /\ r.at = "verifying" /\ r.kind = "extend" /\ r.ref = c /\ r.hours = BillableHours(hours)
      /\ r.copies = claims[c].copies /\ r.quote = ExtendCost(claims[c], hours)
      /\ r.rate = claims[c].rate /\ claims' = claims
  BY DEF AskExtend, Base, TypeOK
<1>4. hours \in Nat
  BY PaidAssumption
<1>5. 2 * Grain * r.quote + Grain >= 2 * Worth(r.hours, r.rate, r.copies)
  BY <1>1, <1>2, <1>3, <1>4, ExtendQuoteBounds
<1> QED BY <1>2, <1>3, <1>5 DEF Quoted

\* An upload takes its quote along from step to step.
LEMMA UploadQuoted ==
    ASSUME Base, Deposits, NEW q \in Requests, requests[q].at \in {"reserved", "verifying", "pinning"},
           requests[q].kind = "upload", NEW at \in {"reserved", "verifying", "pinning"},
           NEW tx, requests' = [requests EXCEPT ![q].at = at, ![q].tx = tx],
           at = "pinning" /\ tx # Nil => transfers'[tx].amount >= requests[q].quote
    PROVE  Quoted(q)'
<1>1. requests[q] \in Request
  BY UnderWay DEF Base
<1>2. /\ requests'[q].at = at /\ requests'[q].tx = tx /\ requests'[q].kind = "upload"
      /\ requests'[q].hours = requests[q].hours /\ requests'[q].rate = requests[q].rate
      /\ requests'[q].copies = requests[q].copies /\ requests'[q].quote = requests[q].quote
  BY <1>1 DEF Base, TypeOK, Request
<1>3. Quoted(q)
  BY DEF Deposits
<1> QED BY <1>2, <1>3 DEF Quoted

LEMMA AskUploadQuoted ==
    ASSUME Base, Deposits, NEW q \in Requests, NEW tx \in Txs, AskUpload(q, tx)
    PROVE  Quoted(q)'
<1>1. requests[q].at = "reserved" /\ requests[q].kind = "upload"
      /\ requests' = [requests EXCEPT ![q].at = "verifying", ![q].tx = tx]
  BY DEF AskUpload, Base, Holds
<1> QED BY <1>1, UploadQuoted

LEMMA AskFreeUploadQuoted ==
    ASSUME Base, Deposits, NEW q \in Requests, AskFreeUpload(q)
    PROVE  Quoted(q)'
<1>1. requests[q].at = "reserved" /\ requests[q].kind = "upload" /\ requests[q].tx = Nil
      /\ requests' = [requests EXCEPT ![q].at = "pinning"]
  BY DEF AskFreeUpload, Base, Holds
<1>2. requests[q] \in Request
  BY <1>1, UnderWay DEF Base
<1>3. /\ requests'[q].at = "pinning" /\ requests'[q].tx = Nil /\ requests'[q].kind = "upload"
      /\ requests'[q].hours = requests[q].hours /\ requests'[q].rate = requests[q].rate
      /\ requests'[q].copies = requests[q].copies /\ requests'[q].quote = requests[q].quote
  BY <1>1, <1>2 DEF Base, TypeOK, Request
<1>4. Quoted(q)
  BY DEF Deposits
<1> QED BY <1>1, <1>3, <1>4 DEF Quoted

LEMMA AnswerQuoted ==
    ASSUME Base, Deposits, NEW q \in Requests, Refuse(q) \/ NotConfirmed(q) \/ UploadFails(q)
    PROVE  Quoted(q)'
<1>1. CASE requests' = [requests EXCEPT ![q] = Done]
  BY <1>1, DoneQuoted DEF Base, TypeOK
<1>2. CASE /\ requests[q].at = "verifying" /\ requests[q].kind = "upload"
           /\ requests' = [requests EXCEPT ![q].at = "reserved", ![q].tx = Nil]
  BY <1>2, UploadQuoted
<1> QED BY <1>1, <1>2 DEF Refuse, NotConfirmed, UploadFails, Finish

LEMMA PayUploadDeposits ==
    ASSUME Base, Deposits, NEW q \in Requests, PayUpload(q)
    PROVE  Deposits'
<1>1. claims' = claims /\ ledger' = ledger /\ refunds' = refunds /\ transfers' = transfers
  BY PayUploadRow
<1>2. Terms
  BY <1>1 DEF Terms
<1>3. ASSUME NEW p \in Requests, p # q PROVE Quoted(p)'
  BY <1>1, <1>2, <1>3, PayUploadRow, QuotedKept DEF Deposits
<1>4. Quoted(q)'
  <2>1. /\ requests'[q].at = "pinning" /\ requests'[q].tx = requests[q].tx
        /\ requests'[q].kind = "upload" /\ requests'[q].hours = requests[q].hours
        /\ requests'[q].copies = requests[q].copies /\ requests'[q].rate = requests[q].rate
        /\ requests'[q].quote = requests[q].quote
        /\ transfers'[requests[q].tx].amount >= requests[q].quote
        /\ requests[q].at = "verifying" /\ requests[q].kind = "upload"
    BY <1>1, PayUploadRow DEF PayUpload, Buys
  <2>2. Quoted(q)
    BY DEF Deposits
  <2> QED BY <2>1, <2>2 DEF Quoted
<1> QED BY <1>1, <1>3, <1>4, QuietDeposits

\* What the transfer tx brings in.
Income(tx) == IF tx = Nil THEN 0 ELSE transfers[tx].amount

\* The row is paid for, if it is not dearer than it was quoted.
PaidFor(row, tx, rate) ==
    /\ row.mb = BillableMB(Bytes)
    /\ CappedCopies(row.copies) = row.copies
    /\ row.rate <= rate =>
          2 * Grain * Income(tx) + Grain >= 2 * Worth(row.hours, row.rate, row.copies)

LEMMA BoughtDeposits ==
    ASSUME Base, Deposits, RefundRows, NEW q \in Requests, NEW row \in Claim,
           NEW tx \in Txs \cup {Nil}, NEW rate \in Nat, Bought(q, row, tx, rate), PaidFor(row, tx, rate)
    PROVE  Deposits'
<1>1. /\ claims[q] = Nil /\ ledger[q].in = 0 /\ ledger[q].payments = 0 /\ refunds[q].amount = 0
      /\ refunds' = refunds /\ transfers' = transfers
  BY BoughtBase DEF Base, Slot, RefundRows, RefundRow, Bought
<1>2. claims'[q] = row /\ \A d \in Requests : d # q => claims'[d] = claims[d]
  BY DEF Bought, Base, TypeOK
<1>3. /\ ledger'[q].in = Income(tx) /\ ledger'[q].payments = 1 /\ ledger'[q].charged = rate
      /\ \A d \in Requests : d # q => ledger'[d] = ledger[d]
      /\ Income(tx) \in Nat
  <2>1. Credit(q, tx, row.hours, rate) /\ row.hours \in Nat
    BY DEF Bought, Claim
  <2>2. Income(tx) \in Nat
    BY PaidAssumption DEF Bought, Income, Transfer
  <2>3. /\ ledger'[q].in = ledger[q].in + Income(tx)
        /\ ledger'[q].payments = ledger[q].payments + 1 /\ ledger'[q].charged = rate
        /\ \A d \in Requests : d # q => ledger'[d] = ledger[d]
    <3>1. PICK h \in Nat : h = row.hours
      BY <2>1
    <3>2. Credit(q, tx, h, rate)
      BY <2>1, <3>1
    <3>3. /\ ledger'[q].in = ledger[q].in + (IF tx = Nil THEN 0 ELSE transfers[tx].amount)
          /\ ledger'[q].payments = ledger[q].payments + 1 /\ ledger'[q].charged = rate
          /\ \A d \in Requests : d # q => ledger'[d] = ledger[d]
      BY <3>2, CreditEntry
    <3> QED BY <3>3 DEF Income
  <2> QED BY <1>1, <2>2, <2>3
<1>4. Terms
  BY <1>1, <1>2 DEF Terms
<1>5. ASSUME NEW p \in Requests PROVE Quoted(p)'
  <2>1. requests'[q] = Done /\ \A d \in Requests : d # q => requests'[d] = requests[d]
    BY FinishOnly DEF Bought
  <2>2. CASE p = q
    BY <2>1, <2>2, DoneQuoted
  <2>3. CASE p # q
    BY <1>1, <1>4, <2>1, <2>3, QuotedKept DEF Deposits
  <2> QED BY <2>2, <2>3
<1>6. Deposited(q)' /\ Backed(q)'
  <2>1. row.paid = Income(tx)
    BY DEF Bought, Income
  <2>2. Grain * 1 = Grain /\ 2 * Grain * 0 = 0 /\ Grain \in Nat
    BY PricingAssumption
  <2>3. Deposited(q)'
    BY <1>2, <1>3, <2>1, <2>2 DEF Deposited, PaidFor
  <2>4. Covered(q)'
    <3>1. refunds'[q].amount = 0
      BY <1>1
    <3>2. 2 * Grain * Income(tx) \in Nat /\ Grain * (1 + 1) \in Nat
      BY <1>3, <2>2, ProductIsNat
    <3>3. 0 <= 2 * Grain * Income(tx) + Grain * (1 + 1)
      BY <3>2
    <3> QED BY <1>3, <2>2, <3>1, <3>3 DEF Covered
  <2> QED BY <2>3, <2>4 DEF Backed
<1>7. ASSUME NEW d \in Requests, d # q PROVE Deposited(d)' /\ Backed(d)'
  BY <1>1, <1>2, <1>3, <1>7 DEF Deposits, Deposited, Backed, Covered
<1> QED BY <1>5, <1>6, <1>7 DEF Deposits

\* A row with the request's copies, no more hours and paid with its transfer.
LEMMA RequestPays ==
    ASSUME Base, Deposits, NEW q \in Requests, requests[q].at \in {"verifying", "pinning"},
           requests[q].kind # "extend", requests[q].tx # Nil,
           transfers[requests[q].tx].amount >= requests[q].quote,
           NEW row \in Claim, row.mb = BillableMB(Bytes), row.copies = requests[q].copies,
           row.hours <= requests[q].hours
    PROVE  PaidFor(row, requests[q].tx, requests[q].rate)
<1>1. /\ requests[q] \in Request /\ requests[q].tx \in Txs
      /\ transfers[requests[q].tx] \in Transfer
  BY Transferred
<1>2. /\ requests[q].hours \in Nat /\ requests[q].rate \in Nat /\ requests[q].copies \in Nat
      /\ requests[q].quote \in Nat /\ row.hours \in Nat /\ row.rate \in Nat
  BY <1>1 DEF Request, Claim
<1>3. /\ CappedCopies(requests[q].copies) = requests[q].copies
      /\ 2 * Grain * requests[q].quote + Grain
            >= 2 * Worth(requests[q].hours, requests[q].rate, requests[q].copies)
  BY DEF Deposits, Quoted
<1>4. Income(requests[q].tx) \in Nat /\ Income(requests[q].tx) >= requests[q].quote
  BY <1>1, PaidAssumption DEF Income, Transfer
<1>5. PICK i \in Nat : i = Income(requests[q].tx)
  BY <1>4
<1>6. PICK u \in Nat : u = requests[q].quote
  BY <1>2
<1>7. 2 * Grain * u <= 2 * Grain * i /\ 2 * Grain * u \in Nat /\ 2 * Grain * i \in Nat
  <2>1. 2 * Grain \in Nat /\ u <= i
    BY <1>4, <1>5, <1>6, PricingAssumption
  <2> QED BY <2>1, ProductMonotone, ProductIsNat
<1>8. ASSUME row.rate <= requests[q].rate
      PROVE  2 * Grain * i + Grain >= 2 * Worth(row.hours, row.rate, row.copies)
  <2>1. Worth(row.hours, row.rate, row.copies) <= Worth(requests[q].hours, requests[q].rate, requests[q].copies)
    BY <1>2, <1>8, WorthMonotone
  <2>2. /\ Worth(row.hours, row.rate, row.copies) \in Nat
        /\ Worth(requests[q].hours, requests[q].rate, requests[q].copies) \in Nat
    BY <1>2, WorthType
  <2>3. 2 * Grain * u + Grain >= 2 * Worth(requests[q].hours, requests[q].rate, requests[q].copies)
    BY <1>3, <1>6
  <2> QED BY <1>7, <2>1, <2>2, <2>3, PricingAssumption
<1> QED BY <1>3, <1>5, <1>8 DEF PaidFor

LEMMA HostingHours ==
    ASSUME Base, Deposits, NEW q \in Requests, requests[q].at \in {"verifying", "pinning"},
           requests[q].kind # "extend"
    PROVE  (IF config.permanent THEN MinHours ELSE requests[q].hours) <= requests[q].hours
<1>1. requests[q].hours >= MinHours
  BY DEF Deposits, Quoted
<1>2. requests[q].hours \in Nat
  BY UnderWay DEF Base, Request
<1> QED BY <1>1, <1>2

LEMMA BuyOwnCopyDeposits ==
    ASSUME Base, Deposits, RefundRows, NEW q \in Requests, BuyOwnCopy(q), ~LeftOver(q)
    PROVE  Deposits'
<1> DEFINE row == Hosting(q, config.rate, Paid(q))
<1>1. /\ requests[q].at = "verifying" /\ requests[q].kind = "own_copy" /\ requests[q].tx # Nil
      /\ transfers[requests[q].tx].amount >= requests[q].quote
  BY DEF BuyOwnCopy, Buys, Covers, Base, Holds
<1>2. /\ requests[q].tx \in Txs \cup {Nil} /\ requests[q].rate \in Nat /\ Paid(q) \in Nat
      /\ config.rate \in Nat
  BY <1>1, Transferred, Rates DEF Request
<1>3. Bought(q, row, requests[q].tx, requests[q].rate)
  BY BuyOwnCopyShape
<1>4. /\ row \in Claim /\ row.mb = BillableMB(Bytes) /\ row.copies = requests[q].copies
      /\ row.hours <= requests[q].hours
  BY <1>1, <1>2, HostingShape, HostingHours
<1> HIDE DEF row
<1>5. PaidFor(row, requests[q].tx, requests[q].rate)
  BY <1>1, <1>4, RequestPays
<1> QED BY <1>2, <1>3, <1>4, <1>5, BoughtDeposits

LEMMA BuyPledgeDeposits ==
    ASSUME Base, Deposits, RefundRows, NEW q \in Requests, BuyPledge(q)
    PROVE  Deposits'
<1> DEFINE row == NewClaim(q, "dormant", requests[q].hours, now, config.rate, Paid(q))
<1>1. /\ requests[q].at = "verifying" /\ requests[q].kind = "guardian" /\ requests[q].tx # Nil
      /\ transfers[requests[q].tx].amount >= requests[q].quote
  BY DEF BuyPledge, Buys, Covers, Base, Holds
<1>2. requests[q].tx \in Txs \cup {Nil} /\ requests[q].rate \in Nat /\ requests[q].hours \in Nat
  BY <1>1, Transferred DEF Request
<1>3. Bought(q, row, requests[q].tx, requests[q].rate)
  BY BuyPledgeShape
<1>4. row.mb = BillableMB(Bytes) /\ row.copies = requests[q].copies /\ row.hours <= requests[q].hours
  BY <1>2 DEF NewClaim
<1>5. row \in Claim
  BY <1>3 DEF Bought
<1> HIDE DEF row
<1>6. PaidFor(row, requests[q].tx, requests[q].rate)
  BY <1>1, <1>4, <1>5, RequestPays
<1> QED BY <1>2, <1>3, <1>5, <1>6, BoughtDeposits

\* A rate of zero is worth nothing.
LEMMA FreePays ==
    ASSUME NEW row \in Claim, row.rate = 0, row.mb = BillableMB(Bytes),
           CappedCopies(row.copies) = row.copies, NEW rate
    PROVE  PaidFor(row, Nil, rate)
<1>1. row.hours \in Nat /\ row.copies \in Nat /\ row.hours * BillableMB(Bytes) \in Nat
  BY MbType, ProductIsNat DEF Claim
<1>2. Worth(row.hours, 0, row.copies) = 0
  BY <1>1 DEF Worth
<1>3. Income(Nil) = 0
  BY DEF Income
<1>4. 2 * Grain * 0 + Grain >= 2 * 0
  BY PricingAssumption
<1> QED BY <1>2, <1>3, <1>4 DEF PaidFor

LEMMA UploadDeposits ==
    ASSUME Base, Deposits, RefundRows, NEW q \in Requests, Upload(q)
    PROVE  Deposits'
<1> DEFINE row == Hosting(q, LockedRate(q), PaidUp(q))
<1>1. requests[q].at = "pinning" /\ requests[q].kind = "upload"
  BY DEF Upload, Base, Holds
<1>2. /\ Bought(q, row, requests[q].tx, requests[q].rate)
      /\ LockedRate(q) \in Nat /\ PaidUp(q) \in Nat
  BY UploadShape
<1>3. requests[q].tx \in Txs \cup {Nil} /\ requests[q].rate \in Nat
  BY <1>1, UnderWay DEF Base, Request
<1>4. /\ row \in Claim /\ row.mb = BillableMB(Bytes) /\ row.copies = requests[q].copies
      /\ row.hours <= requests[q].hours /\ row.rate = LockedRate(q)
  BY <1>1, <1>2, HostingShape, HostingHours
<1> HIDE DEF row
<1>5. PaidFor(row, requests[q].tx, requests[q].rate)
  <2>1. CASE requests[q].tx = Nil
    <3>1. row.rate = 0 /\ CappedCopies(row.copies) = row.copies
      BY <1>1, <1>4, <2>1 DEF LockedRate, Deposits, Quoted
    <3>2. PaidFor(row, Nil, requests[q].rate)
      BY <1>4, <3>1, FreePays
    <3> QED BY <2>1, <3>2
  <2>2. CASE requests[q].tx # Nil
    <3>1. transfers[requests[q].tx].amount >= requests[q].quote
      BY <1>1, <2>2 DEF Deposits, Quoted
    <3> QED BY <1>1, <1>4, <2>2, <3>1, RequestPays
  <2> QED BY <2>1, <2>2
<1> QED BY <1>2, <1>3, <1>4, <1>5, BoughtDeposits

LEMMA FreeClaimDeposits ==
    ASSUME Base, Deposits, RefundRows, NEW q \in Requests, NEW kind \in {"own_copy", "guardian"},
           NEW hours \in Hours, NEW copies \in Copies, FreeClaim(q, kind, hours, copies)
    PROVE  Deposits'
<1>1. PICK row \in Claim : row.rate = 0 /\ Bought(q, row, Nil, 0)
  BY FreeClaimShape
<1>2. row.mb = BillableMB(Bytes) /\ row.copies = CappedCopies(copies)
  <2>1. claims'[q] = row
    BY <1>1 DEF Bought, Base, TypeOK
  <2>2. claims'[q].mb = BillableMB(Bytes) /\ claims'[q].copies = CappedCopies(copies)
    BY DEF FreeClaim, FreeRow, Base, TypeOK
  <2> QED BY <2>1, <2>2
<1>3. CappedCopies(row.copies) = row.copies
  BY <1>2, CappedOnce, PaidAssumption
<1>4. PaidFor(row, Nil, 0)
  BY <1>1, <1>2, <1>3, FreePays
<1> QED BY <1>1, <1>4, BoughtDeposits

LEMMA ProlongedBooks ==
    ASSUME Base, NEW q \in Requests, NEW c \in Requests, NEW tx \in Txs \cup {Nil},
           NEW hours \in Nat, Prolonged(q, c, tx, hours)
    PROVE  /\ ledger'[c].in = ledger[c].in + Income(tx)
           /\ ledger'[c].payments = ledger[c].payments + 1
           /\ ledger'[c].charged = ledger[c].charged
           /\ \A d \in Requests : d # c => ledger'[d] = ledger[d]
<1>1. PICK rate \in Nat : rate = ledger[c].charged
  BY DEF Base, TypeOK, Entry
<1>2. Credit(c, tx, hours, rate)
  BY <1>1 DEF Prolonged
<1>3. /\ ledger'[c].in = ledger[c].in + (IF tx = Nil THEN 0 ELSE transfers[tx].amount)
      /\ ledger'[c].payments = ledger[c].payments + 1 /\ ledger'[c].charged = rate
      /\ \A d \in Requests : d # c => ledger'[d] = ledger[d]
  BY <1>2, CreditEntry
<1> QED BY <1>1, <1>3 DEF Income

LEMMA ProlongedDeposits ==
    ASSUME Base, Deposits, RefundRows, NEW q \in Requests, NEW c \in Requests,
           NEW tx \in Txs \cup {Nil}, NEW hours \in Nat, Prolonged(q, c, tx, hours),
           2 * Grain * Income(tx) + Grain >= 2 * Worth(hours, claims[c].rate, claims[c].copies)
    PROVE  Deposits'
<1>1. claims[c] \in Claim /\ claims[c] # Nil /\ claims[c].state = "active"
      /\ refunds' = refunds /\ transfers' = transfers
  BY NilAssumption DEF Prolonged
<1>2. refunds[c].amount = 0
  BY <1>1 DEF RefundRows, RefundRow
<1>3. /\ claims'[c].hours = claims[c].hours + hours /\ claims'[c].rate = claims[c].rate
      /\ claims'[c].mb = claims[c].mb /\ claims'[c].copies = claims[c].copies
      /\ claims'[c].paid = claims[c].paid
      /\ \A d \in Requests : d # c => claims'[d] = claims[d]
  BY ProlongedRow
<1>4. Income(tx) \in Nat
  BY PaidAssumption DEF Prolonged, Income, Transfer
<1>5. /\ ledger'[c].in = ledger[c].in + Income(tx) /\ ledger'[c].payments = ledger[c].payments + 1
      /\ ledger'[c].charged = ledger[c].charged
      /\ \A d \in Requests : d # c => ledger'[d] = ledger[d]
  BY ProlongedBooks
<1>6. Terms
  BY <1>3 DEF Terms
<1>7. ASSUME NEW p \in Requests PROVE Quoted(p)'
  <2>1. requests'[q] = Done /\ \A d \in Requests : d # q => requests'[d] = requests[d]
    BY FinishOnly DEF Prolonged
  <2>2. CASE p = q
    BY <2>1, <2>2, DoneQuoted
  <2>3. CASE p # q
    BY <1>1, <1>6, <2>1, <2>3, QuotedKept DEF Deposits
  <2> QED BY <2>2, <2>3
<1>8. PICK i \in Nat : i = ledger[c].in
  BY DEF Base, TypeOK, Entry
<1>9. PICK n \in Nat : n = ledger[c].payments
  BY DEF Base, TypeOK, Entry
<1>10. PICK j \in Nat : j = Income(tx)
  BY <1>4
<1>11. /\ 2 * Grain * (i + j) = 2 * Grain * i + 2 * Grain * j
       /\ Grain * (n + 1) = Grain * n + Grain
       /\ 2 * Grain * i \in Nat /\ 2 * Grain * j \in Nat /\ Grain * n \in Nat /\ Grain \in Nat
       /\ Grain * (n + 1 + 1) \in Nat /\ 2 * Grain * (i + j) \in Nat
  <2>1. Grain \in Nat /\ 2 * Grain \in Nat
    BY PricingAssumption
  <2>2. 2 * Grain * i \in Nat /\ 2 * Grain * j \in Nat /\ Grain * n \in Nat
        /\ Grain * (n + 1 + 1) \in Nat /\ 2 * Grain * (i + j) \in Nat
    BY <2>1, ProductIsNat
  <2>3. (i + j) * (2 * Grain) = i * (2 * Grain) + j * (2 * Grain) /\ (n + 1) * Grain = n * Grain + 1 * Grain
    BY <2>1, Distributes
  <2> QED BY <2>1, <2>2, <2>3
<1>12. Deposited(c)'
  <2>1. /\ claims[c].hours \in Nat /\ claims[c].rate \in Nat /\ claims[c].copies \in Nat
        /\ claims[c].paid \in Nat
    BY <1>1 DEF Claim
  <2>2. /\ claims[c].mb = BillableMB(Bytes) /\ CappedCopies(claims[c].copies) = claims[c].copies
        /\ claims[c].paid <= i
        /\ claims[c].rate <= ledger[c].charged =>
              2 * Grain * i + Grain * n
                 >= 2 * Worth(claims[c].hours, claims[c].rate, claims[c].copies)
    BY <1>1, <1>8, <1>9 DEF Deposits, Deposited
  <2>3. Worth(claims[c].hours + hours, claims[c].rate, claims[c].copies)
           = Worth(claims[c].hours, claims[c].rate, claims[c].copies)
             + Worth(hours, claims[c].rate, claims[c].copies)
    BY <2>1, WorthAdds
  <2>4. /\ Worth(claims[c].hours, claims[c].rate, claims[c].copies) \in Nat
        /\ Worth(hours, claims[c].rate, claims[c].copies) \in Nat
    BY <2>1, WorthType
  <2>5. 2 * Grain * j + Grain >= 2 * Worth(hours, claims[c].rate, claims[c].copies)
    BY <1>10
  <2>6. claims[c].rate <= ledger[c].charged =>
           2 * Grain * (i + j) + Grain * (n + 1)
              >= 2 * Worth(claims[c].hours + hours, claims[c].rate, claims[c].copies)
    BY <1>11, <2>2, <2>3, <2>4, <2>5
  <2>7. claims[c].paid <= i + j
    BY <2>1, <2>2
  <2> QED BY <1>3, <1>5, <1>8, <1>9, <1>10, <2>2, <2>6, <2>7 DEF Deposited
<1>13. Backed(c)'
  <2>1. refunds'[c].amount = 0 /\ 2 * Grain * 0 = 0
    BY <1>1, <1>2, PricingAssumption
  <2>2. 0 <= 2 * Grain * (i + j) + Grain * (n + 1 + 1)
    BY <1>11
  <2> QED BY <1>5, <1>8, <1>9, <1>10, <2>1, <2>2 DEF Backed, Covered
<1>14. ASSUME NEW d \in Requests, d # c PROVE Deposited(d)' /\ Backed(d)'
  BY <1>1, <1>3, <1>5, <1>14 DEF Deposits, Deposited, Backed, Covered
<1> QED BY <1>7, <1>12, <1>13, <1>14 DEF Deposits

LEMMA BuyExtensionDeposits ==
    ASSUME Base, Deposits, RefundRows, NEW q \in Requests, BuyExtension(q), ~LeftOver(q)
    PROVE  Deposits'
<1>1. /\ Prolonged(q, requests[q].ref, requests[q].tx, requests[q].hours)
      /\ Covers(q) /\ requests[q].at = "verifying" /\ requests[q].kind = "extend"
  BY BuyExtensionShape
<1>2. requests[q].tx # Nil
  BY <1>1 DEF Base, Holds
<1>3. /\ requests[q].ref \in Requests /\ requests[q].tx \in Txs /\ requests[q].hours \in Nat
      /\ requests[q].quote \in Nat /\ requests[q].rate \in Nat /\ requests[q].copies \in Nat
      /\ transfers[requests[q].tx] \in Transfer
  BY <1>1, <1>2, Transferred DEF Request
<1>4. PICK c \in Requests : c = requests[q].ref
  BY <1>3
<1>5. PICK tx \in Txs : tx = requests[q].tx
  BY <1>3
<1>6. PICK h \in Nat : h = requests[q].hours
  BY <1>3
<1>7. PICK u \in Nat : u = requests[q].quote
  BY <1>3
<1>8. /\ 2 * Grain * u + Grain >= 2 * Worth(h, claims[c].rate, claims[c].copies)
      /\ requests[q].rate = claims[c].rate /\ requests[q].copies = claims[c].copies
  BY <1>1, <1>4, <1>6, <1>7 DEF Deposits, Quoted
<1>9. PICK i \in Nat : i = Income(tx) /\ u <= i
  <2>1. transfers[tx].amount \in Nat /\ transfers[tx].amount >= u
    BY <1>1, <1>3, <1>5, <1>7, PaidAssumption DEF Covers, Transfer
  <2>2. Income(tx) = transfers[tx].amount
    BY NilAssumption DEF Income
  <2> QED BY <2>1, <2>2
<1>10. 2 * Grain * i + Grain >= 2 * Worth(h, claims[c].rate, claims[c].copies)
  <2>1. 2 * Grain \in Nat /\ Grain \in Nat
    BY PricingAssumption
  <2>2. 2 * Grain * u <= 2 * Grain * i /\ 2 * Grain * u \in Nat /\ 2 * Grain * i \in Nat
    BY <1>9, <2>1, ProductMonotone, ProductIsNat
  <2>3. Worth(h, claims[c].rate, claims[c].copies) \in Nat
    BY <1>3, <1>8, WorthType
  <2> QED BY <1>8, <2>1, <2>2, <2>3
<1>11. Prolonged(q, c, tx, h)
  BY <1>1, <1>4, <1>5, <1>6
<1> QED BY <1>9, <1>10, <1>11, ProlongedDeposits

LEMMA FreeExtendDeposits ==
    ASSUME Base, Deposits, RefundRows, NEW q \in Requests, NEW c \in Requests,
           NEW hours \in Hours, FreeExtend(q, c, hours)
    PROVE  Deposits'
<1>1. PICK h \in Nat : h = BillableHours(hours)
  BY BillableHoursType, PaidAssumption
<1>2. Prolonged(q, c, Nil, h)
  BY <1>1, FreeExtendShape
<1>3. claims[c] \in Claim /\ claims[c] # Nil
  BY <1>2, NilAssumption DEF Prolonged
<1>4. claims[c].mb = BillableMB(Bytes)
  BY <1>3 DEF Deposits, Deposited
<1>5. 2 * Grain * ExtendCost(claims[c], hours) + Grain
         >= 2 * Worth(BillableHours(hours), claims[c].rate, claims[c].copies)
  BY <1>3, <1>4, ExtendQuoteBounds, PaidAssumption
<1>6. ExtendCost(claims[c], hours) = 0 /\ Income(Nil) = 0
  BY DEF FreeExtend, Income
<1>7. 2 * Grain * Income(Nil) + Grain >= 2 * Worth(h, claims[c].rate, claims[c].copies)
  BY <1>1, <1>5, <1>6
<1> QED BY <1>2, <1>7, ProlongedDeposits

LEMMA LeftOverDeposits ==
    ASSUME Base, Deposits, NEW q \in Requests, LeftOver(q)
    PROVE  Deposits'
<1>1. claims' = claims /\ ledger' = ledger /\ refunds' = refunds /\ transfers' = transfers
  BY DEF LeftOver
<1>2. requests'[q] = Done /\ \A d \in Requests : d # q => requests'[d] = requests[d]
  BY FinishOnly DEF LeftOver
<1>3. Terms
  BY <1>1 DEF Terms
<1>4. ASSUME NEW p \in Requests PROVE Quoted(p)'
  <2>1. CASE p = q
    BY <1>2, <2>1, DoneQuoted
  <2>2. CASE p # q
    BY <1>1, <1>2, <1>3, <2>2, QuotedKept DEF Deposits
  <2> QED BY <2>1, <2>2
<1> QED BY <1>1, <1>4, QuietDeposits

\* A claim that ends keeps its terms and its deposit.
LEMMA EndedDeposits ==
    ASSUME Base, Deposits, NEW E \in SUBSET Requests, NEW state \in {"cancelled", "expired"},
           Ended(E, state)
    PROVE  Deposits'
<1>1. \A c \in E : claims[c] \in Claim /\ claims[c] # Nil
  BY LiveRows DEF Ended, Base
<1>2. requests' = requests /\ transfers' = transfers /\ ledger' = ledger /\ Leave(E, state)
  BY DEF Ended
<1>3. ASSUME NEW d \in Requests, claims[d] # Nil
      PROVE  /\ claims'[d].hours = claims[d].hours /\ claims'[d].rate = claims[d].rate
             /\ claims'[d].copies = claims[d].copies /\ claims'[d].mb = claims[d].mb
             /\ claims'[d].paid = claims[d].paid
  BY <1>1, <1>2, <1>3, LeaveRows DEF Base
<1>4. Terms
  BY <1>3 DEF Terms
<1>5. ASSUME NEW p \in Requests PROVE Quoted(p)'
  BY <1>2, <1>4, QuotedKept DEF Deposits
<1>6. ASSUME NEW d \in Requests PROVE Deposited(d)' /\ Backed(d)'
  <2>1. CASE claims[d] = Nil
    <3>1. claims'[d] = Nil
      BY <1>1, <1>2, <2>1, LeaveKeeps DEF Base
    <3> QED BY <3>1 DEF Deposited, Backed
  <2>2. CASE claims[d] # Nil
    <3>1. refunds'[d].amount = refunds[d].amount
      BY DEF Ended
    <3> QED BY <1>2, <1>3, <2>2, <3>1 DEF Deposits, Deposited, Backed, Covered
  <2> QED BY <2>1, <2>2
<1> QED BY <1>5, <1>6 DEF Deposits

\* The rows of claims stay; refunds keep their amount, or get one that is backed.
LEMMA RefundedDeposits ==
    ASSUME Base, Deposits, claims' = claims, ledger' = ledger, transfers' = transfers,
           \A q \in Requests : requests'[q] = Done \/ requests'[q] = requests[q],
           \A c \in Requests : refunds'[c].amount = refunds[c].amount \/ Backed(c)'
    PROVE  Deposits'
<1>1. Terms
  BY DEF Terms
<1>2. ASSUME NEW p \in Requests PROVE Quoted(p)'
  <2>1. CASE requests'[p] = Done
    BY <2>1, DoneQuoted
  <2>2. CASE requests'[p] = requests[p]
    BY <1>1, <2>2, QuotedKept DEF Deposits
  <2> QED BY <2>1, <2>2
<1>3. ASSUME NEW d \in Requests PROVE Deposited(d)' /\ Backed(d)'
  BY DEF Deposits, Deposited, Backed, Covered
<1> QED BY <1>2, <1>3 DEF Deposits

LEMMA SettledIsBacked ==
    ASSUME Base, Deposits, RefundRows, NEW c \in Requests, Settle(c)
    PROVE  Backed(c)'
<1>1. /\ refunds[c].due = "owed" /\ refunds[c] \in Refund /\ now \in Nat
      /\ claims' = claims /\ ledger' = ledger
  BY PaidAssumption DEF Settle, Base, TypeOK
<1>2. claims[c] # Nil /\ claims[c] \in Claim
  BY <1>1 DEF Base, Slot, TypeOK
<1>3. PICK a \in Int : a = RefundAmount(claims[c], refunds[c].was, refunds[c].terms, now)
  BY <1>1, <1>2, RefundAmountType DEF Refund
<1>4. refunds'[c].amount = a
  BY <1>3 DEF Settle, Booked, NoRefund, Base, TypeOK
<1>5. a \in {0, CalculateRefund(claims[c], now), CalculateDormantRefund(claims[c], 0),
             CalculateDormantRefund(claims[c], FeePct)}
  BY <1>1, <1>2, <1>3, RefundAmountCases DEF Refund
<1>6. PICK i \in Nat : i = ledger[c].in
  BY DEF Base, TypeOK, Entry
<1>7. PICK n \in Nat : n = ledger[c].payments
  BY DEF Base, TypeOK, Entry
<1>8. /\ 2 * Grain * i \in Nat /\ Grain * n \in Nat /\ Grain * (n + 1) = Grain * n + Grain
      /\ Grain \in Nat /\ 2 * Grain \in Nat /\ Grain * (n + 1) \in Nat
  <2>1. Grain \in Nat /\ 2 * Grain \in Nat
    BY PricingAssumption
  <2>2. 2 * Grain * i \in Nat /\ Grain * n \in Nat /\ Grain * (n + 1) \in Nat
    BY <2>1, ProductIsNat
  <2>3. (n + 1) * Grain = n * Grain + 1 * Grain
    BY <2>1, Distributes
  <2> QED BY <2>1, <2>2, <2>3
<1>9. claims[c].paid <= i /\ CappedCopies(claims[c].copies) = claims[c].copies
  BY <1>2, <1>6 DEF Deposits, Deposited
<1>10. ASSUME a <= i
       PROVE  2 * Grain * a <= 2 * Grain * i + Grain * (n + 1)
  <2>1. CASE a \in Nat
    <3>1. 2 * Grain * a <= 2 * Grain * i /\ 2 * Grain * a \in Nat
      BY <1>8, <1>10, <2>1, ProductMonotone, ProductIsNat
    <3> QED BY <1>8, <3>1
  <2>2. CASE a \notin Nat
    <3>1. PICK b \in Nat : b = -a
      BY <2>2
    <3>2. 2 * Grain * b \in Nat
      BY <1>8, ProductIsNat
    <3>3. 2 * Grain * a = -(2 * Grain * b)
      BY <1>8, <3>1
    <3> QED BY <1>8, <3>2, <3>3
  <2> QED BY <2>1, <2>2
<1>11. ASSUME claims[c].rate <= ledger[c].charged, a = CalculateRefund(claims[c], now)
       PROVE  2 * Grain * a <= 2 * Grain * i + Grain * (n + 1)
  <2>1. PICK w \in Nat : w = Worth(claims[c].hours, claims[c].rate, claims[c].copies)
    BY <1>2, WorthType DEF Claim
  <2>2. 2 * Grain * i + Grain * n >= 2 * w
    BY <1>2, <1>6, <1>7, <1>11, <2>1 DEF Deposits, Deposited
  <2>3. 2 * Grain * a <= 2 * w + Grain /\ a \in Nat
    BY <1>1, <1>2, <1>9, <1>11, <2>1, RefundBounds, CalculateRefundType
  <2>4. 2 * Grain * a \in Nat
    BY <1>8, <2>3, ProductIsNat
  <2> QED BY <1>8, <2>2, <2>3, <2>4
<1>12. ASSUME claims[c].rate <= ledger[c].charged
       PROVE  2 * Grain * a <= 2 * Grain * i + Grain * (n + 1)
  <2>1. CalculateDormantRefund(claims[c], 0) <= claims[c].paid
    BY <1>2, DormantRefundBounds
  <2>2. CalculateDormantRefund(claims[c], FeePct) <= claims[c].paid
    BY <1>2, DormantRefundBounds, PricingAssumption
  <2>3. claims[c].paid \in Nat
    BY <1>2 DEF Claim
  <2>4. a = CalculateRefund(claims[c], now) \/ a <= i
    BY <1>5, <1>9, <2>1, <2>2, <2>3
  <2> QED BY <1>10, <1>11, <1>12, <2>4
<1> QED BY <1>1, <1>4, <1>6, <1>7, <1>12 DEF Backed, Covered

LEMMA AmountKept ==
    ASSUME Base, NEW c \in Requests, RecordThrows(c) \/ Sent(c) \/ NoKey(c) \/ SendFails(c)
    PROVE  refunds'[c].amount = refunds[c].amount
<1>1. refunds[c] \in Refund /\ refunds \in [Requests -> Refund]
  BY DEF Base, TypeOK
<1>2. CASE Sent(c)
  BY <1>1, <1>2 DEF Sent, Refund
<1>3. CASE NoKey(c)
  BY <1>1, <1>3 DEF NoKey, Refund
<1>4. CASE SendFails(c)
  BY <1>1, <1>4 DEF SendFails, Refund
<1>5. CASE RecordThrows(c)
  BY <1>1, <1>5 DEF RecordThrows, Refund
<1> QED BY <1>2, <1>3, <1>4, <1>5

LEMMA DepositsInit == Init => Deposits
<1> SUFFICES ASSUME Init, NEW c \in Requests PROVE Quoted(c) /\ Deposited(c) /\ Backed(c)
  BY DEF Deposits
<1>1. requests[c].at = "idle" /\ claims[c] = Nil
  BY DEF Init, Idle
<1> QED BY <1>1 DEF Quoted, Deposited, Backed

LEMMA DepositsStep ==
    ASSUME Base, RefundRows, Deposits, [Next]_vars
    PROVE  Deposits'
<1>1. ASSUME NEW q \in Requests, NEW size \in Sizes, NEW hours \in Hours, NEW copies \in Copies,
             NEW free \in BOOLEAN, Reserve(q, size, hours, copies, free)
      PROVE  Deposits'
  BY <1>1, ReserveAsks, ReserveQuoted, AskedDeposits
<1>2. ASSUME NEW q \in Requests, NEW tx \in Txs, AskUpload(q, tx)
      PROVE  Deposits'
  BY <1>2, AskUploadAsks, AskUploadQuoted, AskedDeposits
<1>3. ASSUME NEW q \in Requests, NEW kind \in {"own_copy", "guardian"}, NEW hours \in Hours,
             NEW copies \in Copies, NEW tx \in Txs, AskClaim(q, kind, hours, copies, tx)
      PROVE  Deposits'
  BY <1>3, AskClaimAsks, AskClaimQuoted, AskedDeposits
<1>4. ASSUME NEW q \in Requests, NEW kind \in {"own_copy", "guardian"}, NEW hours \in Hours,
             NEW copies \in Copies, FreeClaim(q, kind, hours, copies)
      PROVE  Deposits'
  BY <1>4, FreeClaimDeposits
<1>5. ASSUME NEW q \in Requests, NEW c \in Requests, NEW hours \in Hours, NEW tx \in Txs,
             AskExtend(q, c, hours, tx)
      PROVE  Deposits'
  BY <1>5, AskExtendAsks, AskExtendQuoted, AskedDeposits
<1>6. ASSUME NEW q \in Requests, NEW c \in Requests, NEW hours \in Hours, FreeExtend(q, c, hours)
      PROVE  Deposits'
  BY <1>6, FreeExtendDeposits
<1>7. ASSUME NEW q \in Requests, AskFreeUpload(q)
      PROVE  Deposits'
  BY <1>7, AskFreeUploadAsks, AskFreeUploadQuoted, AskedDeposits
<1>8. ASSUME NEW q \in Requests, Refuse(q) \/ NotConfirmed(q) \/ UploadFails(q)
      PROVE  Deposits'
  BY <1>8, AnswerAsks, AnswerQuoted, AskedDeposits
<1>9. ASSUME NEW q \in Requests, BuyOwnCopy(q) \/ BuyPledge(q) \/ BuyExtension(q)
      PROVE  Deposits'
  BY <1>9, BuyOwnCopyDeposits, BuyPledgeDeposits, BuyExtensionDeposits, LeftOverDeposits
<1>10. ASSUME NEW q \in Requests, PayUpload(q) \/ Upload(q)
       PROVE  Deposits'
  BY <1>10, PayUploadDeposits, UploadDeposits
<1>11. ASSUME NEW E \in SUBSET Requests, NEW state \in {"cancelled", "expired"}, Ended(E, state)
       PROVE  Deposits'
  BY <1>11, EndedDeposits
<1>12. ASSUME NEW c \in Requests, Cancel(c)
       PROVE  Deposits'
  BY <1>11, <1>12, CancelShape
<1>13. ASSUME NEW policy \in {"prorata", "none"}, Takedown(policy)
       PROVE  Deposits'
  BY <1>11, <1>13, TakedownShape, LiveRows DEF Base
<1>14. ASSUME NEW policy \in {"prorata", "none"}, NEW E \in SUBSET Requests, Ban(E, policy)
       PROVE  Deposits'
  BY <1>11, <1>14, BanShape
<1>15. CASE Sweep
  BY <1>11, <1>15, SweepShape
<1>16. ASSUME NEW c \in Requests, Settle(c) \/ RecordThrows(c) \/ Sent(c) \/ NoKey(c) \/ SendFails(c)
       PROVE  Deposits'
  <2>1. /\ \A d \in Requests : d # c => refunds'[d] = refunds[d]
        /\ UNCHANGED <<requests, transfers, claims, ledger>>
    BY <1>16, MovedShape DEF Moved
  <2>2. refunds'[c].amount = refunds[c].amount \/ Backed(c)'
    BY <1>16, SettledIsBacked, AmountKept
  <2> QED BY <2>1, <2>2, RefundedDeposits
<1>17. ASSUME NEW new \in Configs, Crash(new) \/ \E q \in Requests : CrashAfterPayment(q, new)
       PROVE  Deposits'
  <2>1. Restart(new)
    BY <1>17 DEF Crash, CrashAfterPayment
  <2>2. /\ claims' = claims /\ ledger' = ledger /\ transfers' = transfers
        /\ \A q \in Requests : requests'[q] = Done \/ requests'[q] = requests[q]
        /\ \A c \in Requests : refunds'[c].amount = refunds[c].amount
    BY <2>1, RestartRows
  <2> QED BY <2>2, RefundedDeposits
<1>18. CASE Tick \/ UNCHANGED vars
  BY <1>18, RefundedDeposits DEF Tick, vars
<1> QED BY <1>1, <1>2, <1>3, <1>4, <1>5, <1>6, <1>7, <1>8, <1>9, <1>10, <1>12, <1>13, <1>14,
           <1>15, <1>16, <1>17, <1>18 DEF Next

\* Whatever was bought, extended, promoted, banned or repriced, a refund is covered
\* by what was paid for the claim, up to half a unit of rounding an amount, if the
\* row's rate is the one that was charged (server.js:320-338, pricing.js:118-146).
THEOREM RefundsStayWithinDeposits == Spec => []RefundWithinDeposit
<1>1. Init => Base /\ RefundRows /\ Deposits
  BY BaseInit, RefundRowsInit, DepositsInit
<1>2. Base /\ RefundRows /\ Deposits /\ [Next]_vars => (Base /\ RefundRows /\ Deposits)'
  BY BaseStep, RefundRowsStep, DepositsStep
<1>3. Deposits => RefundWithinDeposit
  BY DEF Deposits, Backed, RefundWithinDeposit
<1> QED BY <1>1, <1>2, <1>3, PTL DEF Spec

-----------------------------------------------------------------------------
(* Waiting *)

\* Division by a whole number keeps the order of its dividends.
LEMMA DivMonotone ==
    ASSUME NEW a \in Int, NEW b \in Int, a <= b, NEW d \in Nat \ {0}
    PROVE  a \div d \in Int /\ b \div d \in Int /\ a \div d <= b \div d
<1> DEFINE p == a \div d
           q == b \div d
<1>1. /\ p \in Int /\ q \in Int
      /\ d * p <= a /\ a < d * p + d
      /\ d * q <= b /\ b < d * q + d
  OBVIOUS
<1> HIDE DEF p, q
<1>2. p <= q
  <2> SUFFICES ASSUME q + 1 <= p
               PROVE  FALSE
    BY <1>1
  <2>1. d * (q + 1) <= d * p
    BY <1>1
  <2>2. d * (q + 1) = d * q + d
    BY <1>1
  <2>3. d * p \in Int /\ d * q \in Int
    BY <1>1
  <2> QED BY <1>1, <2>1, <2>2, <2>3
<1> QED BY <1>1, <1>2 DEF p, q

\* More grains never round to fewer coins.
LEMMA RoundCoinsMonotone ==
    ASSUME NEW g \in Nat, NEW h \in Nat, g <= h
    PROVE  RoundCoins(g) <= RoundCoins(h)
<1> DEFINE a == 2 * g + Grain
           b == 2 * h + Grain
           d == 2 * Grain
<1>1. a \in Int /\ b \in Int /\ a <= b /\ d \in Nat \ {0}
  BY PricingAssumption
<1>2. RoundCoins(g) = a \div d /\ RoundCoins(h) = b \div d
  BY DEF RoundCoins
<1> HIDE DEF a, b, d
<1> QED BY <1>1, <1>2, DivMonotone

\* The longer a claim has run, the more of its hours are used up.
LEMMA HoursUsedMonotone ==
    ASSUME NEW claim \in Claim, NEW t \in Nat, NEW later \in Nat, t <= later
    PROVE  HoursUsed(claim, t) <= HoursUsed(claim, later)
<1> DEFINE a == t - claim.start + Hour - 1
           b == later - claim.start + Hour - 1
<1>1. a \in Int /\ b \in Int /\ a <= b /\ Hour \in Nat \ {0}
  BY PricingAssumption DEF Claim
<1>2. /\ HoursUsed(claim, t) = AtLeast(1, a \div Hour)
      /\ HoursUsed(claim, later) = AtLeast(1, b \div Hour)
  BY DEF HoursUsed, CeilDiv
<1> HIDE DEF a, b
<1>3. a \div Hour \in Int /\ b \div Hour \in Int /\ a \div Hour <= b \div Hour
  BY <1>1, DivMonotone
<1> QED BY <1>2, <1>3 DEF AtLeast

\* Nobody gains by waiting: the refund of a claim that runs on never grows, so that
\* of the requests that race to end it none is better served by coming second, and
\* a settlement that reads the clock late never pays more (pricing.js:127-140).
THEOREM RefundNeverGrows ==
    ASSUME NEW claim \in Claim, NEW t \in Nat, NEW later \in Nat, t <= later
    PROVE  CalculateRefund(claim, later) <= CalculateRefund(claim, t)
<1> DEFINE Left(n) == AtLeast(0, claim.hours - HoursUsed(claim, n))
           Value(n) == Left(n) * BillableMB(claim.bytes) * claim.rate * CappedCopies(claim.copies)
           m == BillableMB(claim.bytes)
           k == CappedCopies(claim.copies)
           r == claim.rate
           x == Left(later)
           y == Left(t)
<1>1. x \in Nat /\ y \in Nat /\ x <= y
  <2>1. HoursUsed(claim, t) \in Int /\ HoursUsed(claim, later) \in Int
    BY HoursUsedBounds
  <2> QED BY <2>1, HoursUsedMonotone, UnusedHours DEF AtLeast, Claim
<1>2. m \in Nat /\ k \in Nat /\ r \in Nat
  BY BillableMBType, CappedCopiesType, PaidAssumption DEF Claim
<1>3. Value(later) \in Nat /\ Value(t) \in Nat /\ Value(later) <= Value(t)
  <2> HIDE DEF m, k, r, x, y
  <2>1. x * m \in Nat /\ y * m \in Nat /\ x * m <= y * m
    BY <1>1, <1>2, ProductIsNat, ProductMonotone
  <2>2. x * m * r \in Nat /\ y * m * r \in Nat /\ x * m * r <= y * m * r
    BY <1>2, <2>1, ProductIsNat, ProductMonotone
  <2>3. x * m * r * k \in Nat /\ y * m * r * k \in Nat /\ x * m * r * k <= y * m * r * k
    BY <1>2, <2>2, ProductIsNat, ProductMonotone
  <2> QED BY <2>3 DEF m, k, r, x, y
<1>4. \A n \in {t, later} :
         CalculateRefund(claim, n) = IF IsPermanent(claim.expiry) THEN 0 ELSE NoDust(RoundCoins(Value(n)))
  BY DEF CalculateRefund
<1> HIDE DEF Value
<1>5. /\ RoundCoins(Value(later)) \in Nat /\ RoundCoins(Value(t)) \in Nat
      /\ RoundCoins(Value(later)) <= RoundCoins(Value(t))
  BY <1>3, RoundCoinsBounds, RoundCoinsMonotone
<1>6. NoDust(RoundCoins(Value(later))) <= NoDust(RoundCoins(Value(t)))
  BY <1>5, PricingAssumption DEF NoDust
<1> QED BY <1>4, <1>6
=============================================================================
