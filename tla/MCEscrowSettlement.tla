------------------------- MODULE MCEscrowSettlement -------------------------
(* EscrowSettlement with a few claims. *)
EXTENDS EscrowSettlement

CONSTANTS c1, c2

OneRef  == {c1}
TwoRefs == {c1, c2}
=============================================================================
