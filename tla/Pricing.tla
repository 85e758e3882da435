------------------------------- MODULE Pricing -------------------------------
(***************************************************************************)
(* src/pricing.js: pure functions of sizes, times and amounts.             *)
(*                                                                         *)
(* A coin amount is a number of RATE_FLOOR units (0.001 coins).  A rate    *)
(* may be finer: it counts Grains, Grain of them to one unit, so that the  *)
(* rounding of an amount can be seen.  Time is in ticks, Hour to the hour. *)
(***************************************************************************)
EXTENDS Integers

CONSTANTS
    MBDivisor,        \* bytes to the (decimal) megabyte
    MinHours,         \* PRICE_MIN_HOURS
    NodeCount,        \* NODE_COUNT
    MinRefund,        \* MIN_REFUND
    FeePct,           \* GUARDIAN_CANCEL_FEE_PCT
    Grain,            \* how many grains make one unit of RATE_FLOOR
    Hour,             \* HOUR_MS
    PermanentExpiry   \* PERMANENT_EXPIRY_TS

ASSUME PricingAssumption ==
    /\ {MBDivisor, MinHours, NodeCount, MinRefund, Grain, Hour, PermanentExpiry}
          \subseteq Nat \ {0}
    /\ FeePct \in 0 .. 100

AtLeast(low, n) == IF n < low THEN low ELSE n
AtMost(high, n) == IF n > high THEN high ELSE n
CeilDiv(n, d)   == (n + d - 1) \div d

IsPermanent(ts) == ts >= PermanentExpiry

BillableMB(bytes) == AtLeast(1, CeilDiv(bytes, MBDivisor))

BillableHours(hours) == AtLeast(MinHours, hours)

CappedCopies(copies) == AtMost(NodeCount, AtLeast(1, copies))

\* The nearest unit, halves up (Number.toFixed).
RoundCoins(grains) == (2 * grains + Grain) \div (2 * Grain)

\* calculateCost, total
Cost(bytes, hours, copies, rate) ==
    RoundCoins(BillableMB(bytes) * BillableHours(hours) * rate * CappedCopies(copies))

\* POST /claims/extend quotes from the claim's row.
ExtendCost(claim, hours) ==
    RoundCoins(claim.mb * BillableHours(hours) * claim.rate * claim.copies)

\* At least one hour is used up.
HoursUsed(claim, now) == AtLeast(1, CeilDiv(now - claim.start, Hour))

NoDust(amount) == IF amount < MinRefund THEN 0 ELSE amount

\* An active claim that ends early gets its unused hours back, at its own rate.
CalculateRefund(claim, now) ==
    IF IsPermanent(claim.expiry) THEN 0
    ELSE NoDust(RoundCoins(AtLeast(0, claim.hours - HoursUsed(claim, now))
                    * BillableMB(claim.bytes) * claim.rate * CappedCopies(claim.copies)))

\* A guardian that never took over gets everything back, less the fee.
CalculateDormantRefund(claim, pct) ==
    NoDust(claim.paid - ((2 * claim.paid * pct + 100) \div 200))

\* terms: how the claim came to end, "cancel" by its owner, or by an admin
\* "prorata", "none", or "innocent" (a guardian of a file taken down).
RefundAmount(claim, was, terms, now) ==
    CASE terms = "none" -> 0
      [] terms = "innocent" -> CalculateDormantRefund(claim, 0)
      [] terms = "prorata" /\ was = "dormant" -> CalculateDormantRefund(claim, 0)
      [] terms = "cancel" /\ was = "dormant" -> CalculateDormantRefund(claim, FeePct)
      [] OTHER -> CalculateRefund(claim, now)
=============================================================================
