-------------------------- MODULE MCReleaseConsents --------------------------
(* An instance of ReleaseConsents for TLC: an owner and two recipients.  Orders *)
(* never touch each other, so one is enough.                                    *)
EXTENDS ReleaseConsents

CONSTANTS alice, bob, carol, o1

People      == {alice, bob, carol}
OneOrder    == {o1}
Uploaders   == {alice}
Offered     == {[type |-> "any_of", addresses |-> {bob, carol}],
                [type |-> "all_of", addresses |-> {bob, carol}],
                [type |-> "all_of", addresses |-> {}]}

=============================================================================
