--------------------------- MODULE MCHostingLedger ---------------------------
(***************************************************************************)
(* TLC instances of the hosting ledger.  Accounts, CIDs and row names are  *)
(* interchangeable; pledge order and time are numbers.                     *)
(***************************************************************************)
EXTENDS LedgerImplementsQueue, TLC

CONSTANTS a1, a2, c1, c2, k1, k2, k3, k4

OneCid      == {c1}
TwoCids     == {c1, c2}
OneAccount  == {a1}
TwoAccounts == {a1, a2}
TwoRows     == {k1, k2}
ThreeRows   == {k1, k2, k3}
FourRows    == {k1, k2, k3, k4}

Symmetry == Permutations(Accounts) \cup Permutations(Cids) \cup Permutations(Ids)
=============================================================================
