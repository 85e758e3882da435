----------------------------- MODULE MCUploadFlow -----------------------------
(* Instances of UploadFlow for TLC.  Reservations, transfers and requests are *)
(* interchangeable, so the runs without liveness use their symmetry.          *)
EXTENDS UploadFlow, TLC

CONSTANTS a1, r1, r2, t1, t2, q1, q2

OneAccount      == {a1}
OneReservation  == {r1}
TwoReservations == {r1, r2}
OneTx           == {t1}
TwoTxs          == {t1, t2}
OneRequest      == {q1}
TwoRequests     == {q1, q2}

Symmetry == Permutations(TwoReservations) \cup Permutations(TwoTxs)
                \cup Permutations(TwoRequests)
=============================================================================
