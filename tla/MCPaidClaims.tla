----------------------------- MODULE MCPaidClaims -----------------------------
(* An instance of PaidClaims for TLC.  Sizes, prices and the grain are chosen    *)
(* so that no quote comes out even and the cap on copies bites.                  *)
EXTENDS PaidClaims, TLC

CONSTANTS t1, t2

TwoTxs   == {t1, t2}
Metered  == [rate |-> 8, permanent |-> FALSE]
Forever  == [rate |-> 17, permanent |-> TRUE]
Settings == {Metered, Forever}
AnyTx    == Permutations(TwoTxs)
=============================================================================
