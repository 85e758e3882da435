--------------------------- MODULE ReleaseConsents ---------------------------
(***************************************************************************)
(* Who may tell the gate to stop hosting.  An order carries a release      *)
(* policy (src/release-policy.js); its owner may always release it, the    *)
(* recipients of an any_of policy one alone, those of an all_of policy     *)
(* only together.  Their consents arrive over time, as signed releases or  *)
(* as receipts that prove the file was decrypted (POST /claims/release and *)
(* /claims/receipt in src/server.js), while the claim may also be          *)
(* cancelled, expire, be voided or change hands.                           *)
(*                                                                         *)
(* A handler awaits the proof of the signature; from there to the end of   *)
(* the claim it runs without an await, but in up to three commits, and a   *)
(* crash may cut it between any two.  Which claims of a CID are active and *)
(* who is promoted when one ends is HostingLedger's: here a claim waiting  *)
(* in a queue may become active at any time, and an active one end.        *)
(***************************************************************************)
EXTENDS Naturals

CONSTANTS
    Accounts,
    Orders,     \* order ids
    Owners,     \* the accounts that upload or pledge
    MaxRequests,\* bound: requests to release or to confirm receipt
    Policies,   \* release_policy objects a client may send
    Nil,        \* no such row
    MaxFaults   \* bound: crashes and unreachable chains

PolicyType == {"owner_only", "any_of", "all_of"}
Policy     == [type: PolicyType, addresses: SUBSET Accounts]

ASSUME ReleaseAssumption ==
    /\ Policies \subseteq Policy
    /\ Owners \subseteq Accounts
    /\ {MaxRequests, MaxFaults} \subseteq Nat

VARIABLES
    orders,    \* per order id its row, with the state of its one claim
    consents,  \* release_consents: per order, who consented
    receipts,  \* receipts: per order, who proved decryption
    requests,  \* the requests, numbered as they arrive
    faults,
    acted,     \* per order, who really signed a release or a sound receipt
               \*   (history)
    cut        \* orders whose request died between two of its commits (history)

vars == <<orders, consents, receipts, requests, faults, acted, cut>>

\* A claim that ends is 'cancelled' or 'expired'; its pin's status_reason says
\* whether that was a release.
Order == [owner: Accounts, policy: Policy, commitment: BOOLEAN,
          claim: {"active", "dormant", "released", "over"}]

ASSUME NilAssumption == Nil \notin Order

Requests == 1 .. MaxRequests

Idle    == [at |-> "idle"]
Request == [at: {"checking"}, kind: {"release", "receipt"}, order: Orders,
            by: Accounts, genuine: BOOLEAN, proof: BOOLEAN]
Answered == [at: {"refused", "waiting", "closed", "ended", "lost"}, order: Orders]

TypeOK ==
    /\ orders \in [Orders -> Order \cup {Nil}]
    /\ consents \in [Orders -> SUBSET Accounts]
    /\ receipts \in [Orders -> SUBSET Accounts]
    /\ requests \in [Requests -> Request \cup Answered \cup {Idle}]
    /\ faults \in 0 .. MaxFaults
    /\ acted \in [Orders -> SUBSET Accounts]
    /\ cut \subseteq Orders

-----------------------------------------------------------------------------
(* src/release-policy.js *)

\* normalizeReleasePolicy throws on a policy of recipients without recipients.
Normal(p) == p.type = "owner_only" \/ p.addresses # {}

OwnerOnly == [type |-> "owner_only", addresses |-> {}]

\* evaluateRelease, authorized: may this account act on the policy at all?
MayRelease(p, owner, who) ==
    who = owner \/ (p.type # "owner_only" /\ who \in p.addresses)

Counts_AnyPolicy(p, owner, who) == who # owner

\* evaluateRelease, records_consent
Counts(p, owner, who) == who # owner /\ p.type = "all_of"

Ends_Stored(p, owner, who, have) ==
    who = owner \/ p.type = "any_of" \/ p.addresses \subseteq have
Ends_Some(p, owner, who, have) ==
    who = owner \/ p.type = "any_of" \/ p.addresses \cap (have \cup {who}) # {}
Ends_FreshOnly(p, owner, who, have) ==
    \/ who = owner
    \/ p.type = "any_of"
    \/ who \notin have /\ p.addresses \subseteq have \cup {who}

\* evaluateRelease, ends: is the threshold met, this releaser included?
Ends(p, owner, who, have) ==
    who = owner \/ p.type = "any_of" \/ p.addresses \subseteq have \cup {who}

-----------------------------------------------------------------------------
(* The orders, and what else happens to them *)

Placed(o) == orders[o] # Nil
Active(o) == Placed(o) /\ orders[o].claim = "active"

\* /upload stores the policy of its body; an own copy or a pledge is owner_only.
Place(o, a, p, commitment, claim) ==
    /\ ~Placed(o)
    /\ Normal(p)
    /\ claim = "dormant" => p = OwnerOnly /\ ~commitment
    /\ orders' = [orders EXCEPT ![o] =
                    [owner |-> a, policy |-> p, commitment |-> commitment, claim |-> claim]]
    /\ UNCHANGED <<consents, receipts, requests, faults, acted, cut>>

EndClaim(o, how) == orders' = [orders EXCEPT ![o].claim = how]

\* reconcileCidAfterEnd for another order of the CID makes this guardian the host.
Promote(o) ==
    /\ Placed(o)
    /\ orders[o].claim = "dormant"
    /\ orders' = [orders EXCEPT ![o].claim = "active"]
    /\ UNCHANGED <<consents, receipts, requests, faults, acted, cut>>

\* Cancelled, deleted, expired, or voided by a ban or a takedown.
EndOtherwise(o) ==
    /\ Placed(o)
    /\ orders[o].claim \in {"active", "dormant"}
    /\ EndClaim(o, "over")
    /\ UNCHANGED <<consents, receipts, requests, faults, acted, cut>>

-----------------------------------------------------------------------------
(* POST /claims/release and POST /claims/receipt *)

\* The account in the body may be anybody's (then the proof is never looked at),
\* the proof of decryption may be made up, and a request may be sent again.  Order ids are random, so
\* nobody names one that is not placed (the code answers that with not_found).
Send(q, kind, o, a, genuine, proof) ==
    /\ requests[q].at = "idle"
    /\ \A p \in 1 .. q - 1 : requests[p].at # "idle"
    /\ Placed(o)
    /\ kind = "release" \/ ~genuine => ~proof
    /\ requests' = [requests EXCEPT ![q] =
                      [at |-> "checking", kind |-> kind, order |-> o, by |-> a,
                       genuine |-> genuine, proof |-> proof]]
    /\ acted' = [acted EXCEPT ![o] =
                   IF genuine /\ (kind = "receipt" => proof /\ orders[o].commitment)
                   THEN @ \cup {a} ELSE @]
    /\ UNCHANGED <<orders, consents, receipts, faults, cut>>

Answer(q, outcome) ==
    requests' = [requests EXCEPT ![q] = [at |-> outcome, order |-> requests[q].order]]

\* verifySignedUserRequest cannot reach the chain and fails closed.
Unreachable(q) ==
    /\ faults < MaxFaults
    /\ requests[q].at = "checking"
    /\ Answer(q, "lost")
    /\ faults' = faults + 1
    /\ UNCHANGED <<orders, consents, receipts, acted, cut>>

\* The signature is by the account's posting key, and a receipt reproduces the
\* hash that the uploader committed to.
Proven(q) ==
    LET r == requests[q]
    IN r.genuine /\ (r.kind = "receipt" => orders[r.order].commitment /\ r.proof)

Unproven(q) ==
    /\ requests[q].at = "checking"
    /\ ~Proven(q)
    /\ Answer(q, "refused")
    /\ UNCHANGED <<orders, consents, receipts, faults, acted, cut>>

\* recordReceipt: INSERT OR IGNORE, whatever the policy says of the account.
RecordReceipt(q) ==
    LET r == requests[q]
    IN receipts' = [receipts EXCEPT ![r.order] =
                      IF r.kind = "receipt" THEN @ \cup {r.by} ELSE @]

RecordConsent_ReleaseOnly(q) ==
    LET r == requests[q]
        d == orders[r.order]
    IN consents' = [consents EXCEPT ![r.order] =
                      IF Counts(d.policy, d.owner, r.by) /\ r.kind = "release"
                      THEN @ \cup {r.by} ELSE @]

\* recordReleaseConsent: INSERT OR IGNORE.
RecordConsent(q) ==
    LET r == requests[q]
        d == orders[r.order]
    IN consents' = [consents EXCEPT ![r.order] =
                      IF Counts(d.policy, d.owner, r.by) THEN @ \cup {r.by} ELSE @]

\* The request is proven and the policy lets its account act.
Heard(q) ==
    LET r == requests[q]
    IN /\ r.at = "checking"
       /\ Proven(q)
       /\ MayRelease(orders[r.order].policy, orders[r.order].owner, r.by)

\* With this request, are there enough of them?
Decides(q) ==
    LET r == requests[q]
        d == orders[r.order]
    IN Ends(d.policy, d.owner, r.by, consents[r.order])

\* The account has no say: a release is refused, a receipt kept as a record.
NoSay(q) ==
    LET r == requests[q]
    IN /\ r.at = "checking"
       /\ Proven(q)
       /\ ~MayRelease(orders[r.order].policy, orders[r.order].owner, r.by)
       /\ RecordReceipt(q)
       /\ Answer(q, "refused")
       /\ UNCHANGED <<orders, consents, faults, acted, cut>>

\* all_of, and some recipient has still to agree.
Wait(q) ==
    /\ Heard(q)
    /\ ~Decides(q)
    /\ RecordReceipt(q)
    /\ RecordConsent(q)
    /\ Answer(q, "waiting")
    /\ UNCHANGED <<orders, faults, acted, cut>>

\* Enough, but the order has no active claim: it ended before, or it queues.
AlreadyClosed(q) ==
    /\ Heard(q)
    /\ Decides(q)
    /\ ~Active(requests[q].order)
    /\ RecordReceipt(q)
    /\ RecordConsent(q)
    /\ Answer(q, "closed")
    /\ UNCHANGED <<orders, faults, acted, cut>>

Release_NoLook(q) ==
    /\ Heard(q)
    /\ Decides(q)
    /\ RecordReceipt(q)
    /\ RecordConsent(q)
    /\ EndClaim(requests[q].order, "released")
    /\ Answer(q, "ended")
    /\ UNCHANGED <<faults, acted, cut>>

\* Enough: endActiveClaimForRelease.  The refund and the unpin that follow are
\* PaidClaims' and KuboPins'.
Release(q) ==
    /\ Heard(q)
    /\ Decides(q)
    /\ Active(requests[q].order)
    /\ RecordReceipt(q)
    /\ RecordConsent(q)
    /\ EndClaim(requests[q].order, "released")
    /\ Answer(q, "ended")
    /\ UNCHANGED <<faults, acted, cut>>

\* The process dies.  Requests live in its memory.
Die ==
    /\ faults < MaxFaults
    /\ faults' = faults + 1
    /\ requests' = [q \in Requests |->
                      IF requests[q].at = "checking"
                      THEN [at |-> "lost", order |-> requests[q].order]
                      ELSE requests[q]]
    /\ UNCHANGED <<orders, acted>>

Crash == Die /\ UNCHANGED <<consents, receipts, cut>>

\* ... after recordReceipt has committed.
CrashAfterReceipt(q) ==
    /\ requests[q].at = "checking"
    /\ requests[q].kind = "receipt"
    /\ Proven(q)
    /\ RecordReceipt(q)
    /\ Die
    /\ UNCHANGED <<consents, cut>>

\* ... after recordReleaseConsent has committed, before the claim is ended.
CrashAfterConsent(q) ==
    /\ Heard(q)
    /\ Active(requests[q].order)
    /\ RecordReceipt(q)
    /\ RecordConsent(q)
    /\ cut' = cut \cup {requests[q].order}
    /\ Die

-----------------------------------------------------------------------------

Init ==
    /\ orders = [o \in Orders |-> Nil]
    /\ consents = [o \in Orders |-> {}]
    /\ receipts = [o \in Orders |-> {}]
    /\ requests = [q \in Requests |-> Idle]
    /\ faults = 0
    /\ acted = [o \in Orders |-> {}]
    /\ cut = {}

Decide(q) == NoSay(q) \/ Wait(q) \/ AlreadyClosed(q) \/ Release(q)

Next ==
    \/ \E o \in Orders, a \in Owners, p \in Policies \cup {OwnerOnly},
          commitment \in BOOLEAN, claim \in {"active", "dormant"} :
             Place(o, a, p, commitment, claim)
    \/ \E o \in Orders : Promote(o) \/ EndOtherwise(o)
    \/ \E q \in Requests, kind \in {"release", "receipt"}, o \in Orders, a \in Accounts,
          genuine, proof \in BOOLEAN : Send(q, kind, o, a, genuine, proof)
    \/ \E q \in Requests :
          Unreachable(q) \/ Unproven(q) \/ Decide(q)
             \/ CrashAfterReceipt(q) \/ CrashAfterConsent(q)
    \/ Crash

Spec == Init /\ [][Next]_vars

\* A handler whose chain lookup was answered goes on.
FairSpec == Spec /\ \A q \in Requests : WF_vars(Unproven(q) \/ Decide(q))

-----------------------------------------------------------------------------
(* Properties *)

\* What the policy asks for, said of the people: the owner, one recipient, or
\* all of them.
Accepts(d, who) ==
    \/ d.owner \in who
    \/ d.policy.type = "any_of" /\ d.policy.addresses \cap who # {}
    \/ d.policy.type = "all_of" /\ d.policy.addresses \subseteq who

\* Nobody's file stops being hosted by release unless the people its policy names
\* really asked for that, each with a signature of their own (server.js:1365-1386).
ReleasedWithAuthority ==
    \A o \in Orders :
        Placed(o) /\ orders[o].claim = "released" => Accepts(orders[o], acted[o])

\* Consent is counted for recipients that gave it, and for them alone: what the
\* tables say of an order is what its recipients did (quota.js:531-536, 547-552).
RecordsAreTrue ==
    \A o \in Orders :
        /\ consents[o] \subseteq acted[o]
        /\ receipts[o] \subseteq acted[o]
        /\ consents[o] # {} => /\ orders[o].policy.type = "all_of"
                               /\ consents[o] \subseteq orders[o].policy.addresses

Unanimous(o) ==
    /\ Placed(o)
    /\ orders[o].policy.type = "all_of"
    /\ orders[o].policy.addresses \subseteq consents[o]

\* The last consent ends the claim, in whatever order the consents come and
\* whichever of the two requests brings them.  Only a crash between its two
\* commits leaves an order hosted that everybody released (server.js:1384-1405).
UnanimousIsReleased ==
    \A o \in Orders : Unanimous(o) /\ Active(o) => o \in cut

\* The refund of a released claim is settled by the one request that ended it,
\* however many reach the threshold (server.js:1400-1406).
EndedOnce ==
    \A q1, q2 \in Requests :
        requests[q1].at = "ended" /\ requests[q2].at = "ended"
           /\ requests[q1].order = requests[q2].order => q1 = q2

\* A crash in between is healed by the next request that is heard, a repeated
\* one too: consents are kept, and the releaser is counted again
\* (release-policy.js:54-58).
RetryHeals ==
    [][\A q \in Requests :
          /\ requests[q].at = "checking"
          /\ requests'[q].at \in {"waiting", "closed", "ended"}
          => ~(Unanimous(requests[q].order) /\ Active(requests[q].order))']_vars

\* A request of people who may release an order, that got lost on its way.
Lost(o) == \E q \in Requests : requests[q].at = "lost" /\ requests[q].order = o

\* When enough of them have asked, hosting under an uploader's policy ends, unless
\* the chain could not be reached or the node died on one of their requests.  (An
\* owner who releases a guardian in the queue is told it is closed already; it is
\* not, and its turn still comes: server.js:1400-1403.)
EnoughIsEnough ==
    \A o \in Orders :
        Placed(o) /\ orders[o].policy.type # "owner_only" /\ Accepts(orders[o], acted[o])
           ~> ~Active(o) \/ Lost(o)
=============================================================================
