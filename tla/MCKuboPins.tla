------------------------------ MODULE MCKuboPins ------------------------------
(* Instances of KuboPins for TLC.  Hostings and CIDs are interchangeable.     *)
EXTENDS KuboPins, TLC

CONSTANTS c1, c2, h1, h2, h3

OneCid        == {c1}
TwoCids       == {c1, c2}
TwoHostings   == {h1, h2}
ThreeHostings == {h1, h2, h3}

Symmetry == Permutations(ThreeHostings) \cup Permutations(TwoCids)
=============================================================================
