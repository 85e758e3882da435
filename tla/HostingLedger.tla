---------------------------- MODULE HostingLedger ----------------------------
(***************************************************************************)
(* The hosting ledger of an ipfs-gate node: the rows of the SQLite tables  *)
(* pins, claims, banned_accounts and blocked_cids, and the transactions of *)
(* src/quota.js and src/moderation.js that change them.  Every action is   *)
(* one synchronous segment of a request handler of src/server.js (Node     *)
(* runs one at a time), so it is atomic; what a handler did before its     *)
(* last await is not, and StaleChecks says whether other requests may run  *)
(* in between.                                                             *)
(*                                                                         *)
(* A claim owns at most one pin during its life, so a pin row carries the  *)
(* name of the claim it was inserted for: claims.pin_id is NULL exactly    *)
(* when that pin has status "none".  An orphan is a pin whose claim row    *)
(* was never written.                                                      *)
(***************************************************************************)
EXTENDS Naturals, FiniteSets

CONSTANTS
    Accounts,          \* Hive accounts
    Cids,              \* content identifiers
    Ids,               \* names for claim rows (and the pin rows they own)
    Nil,               \* the value of a column that was never written
    Hours,             \* hours_requested a client may ask for
    MaxTime,           \* bound: the clock stops here
    MaxExpiry,         \* bound: no extension reaches past this
    PermanentExpiry,   \* pricing.PERMANENT_EXPIRY_TS
    HostingPermanent,  \* HOSTING_MODE=permanent
    StaleChecks,       \* may a ban, takedown or expiry overtake a request
                       \*   between its checks and its commit?
    MaxOrphans         \* bound: pins left without a claim row

ASSUME LedgerAssumption ==
    /\ IsFiniteSet(Ids)
    /\ Hours \subseteq Nat \ {0}
    /\ {MaxTime, MaxExpiry, PermanentExpiry, MaxOrphans} \subseteq Nat
    /\ PermanentExpiry > MaxTime
    /\ PermanentExpiry > MaxExpiry
    /\ HostingPermanent \in BOOLEAN
    /\ StaleChecks \in BOOLEAN
    /\ Nil \notin Accounts \cup Cids

VARIABLES
    now,         \* quota.now(), in hours
    pins,        \* the pins table
    claims,      \* the claims table
    banned,      \* banned_accounts with unbanned_at NULL
    registry,    \* per CID, its row of blocked_cids
    refundsDue   \* how often each claim was handed to a caller that settles
                 \*   its refund

vars == <<now, pins, claims, banned, registry, refundsDue>>

PinStatus  == {"none", "active", "expired", "banned", "takedown"}
ClaimState == {"none", "active", "dormant", "cancelled", "expired"}
BlockRow   == {"none", "blocked", "unblocked"}
ClaimKind  == {"none", "original", "own_copy", "guardian"}

Pin == [status: PinStatus, cid: Cids \cup {Nil}, uploader: Accounts \cup {Nil},
        expires: Nat]

Claim == [state: ClaimState, kind: ClaimKind, cid: Cids \cup {Nil},
          owner: Accounts \cup {Nil}, pledged: Nat, expiry: Nat, slot: Nat]

NoPin == [status |-> "none", cid |-> Nil, uploader |-> Nil, expires |-> 0]

NoClaim == [state |-> "none", kind |-> "none", cid |-> Nil, owner |-> Nil,
            pledged |-> 0, expiry |-> 0, slot |-> 0]

TypeOK ==
    /\ now \in Nat
    /\ pins \in [Ids -> Pin]
    /\ claims \in [Ids -> Claim]
    /\ banned \subseteq Accounts
    /\ registry \in [Cids -> BlockRow]
    /\ refundsDue \in [Ids -> Nat]

-----------------------------------------------------------------------------
(* Queries *)

\* isCidBlocked: a row whose unblocked_at is NULL.
Blocked(c) == registry[c] = "blocked"

Unused(k) == pins[k].status = "none" /\ claims[k].state = "none"

IsActivePin(P, k, c) == P[k].status = "active" /\ P[k].cid = c

HasActivePin(P, c) == \E k \in Ids : IsActivePin(P, k, c)

\* pins rows are never deleted, so a CID that was live once still has one.
EverHosted(c) == \E k \in Ids : pins[k].status # "none" /\ pins[k].cid = c

IsDormant(C, k, c) == C[k].state = "dormant" /\ C[k].cid = c

Live(k) == claims[k].state \in {"active", "dormant"}

Orphan(k) == claims[k].state = "none" /\ pins[k].status # "none"

\* Mutant: the slot after the guardians still queued, not after all there ever were.
IsNextPledgeOrder_QueuedOnly(c, s) ==
    LET slots == {claims[k].slot : k \in {j \in Ids : IsDormant(claims, j, c)}}
    IN  /\ \A t \in slots : t < s
        /\ s = 1 \/ s - 1 \in slots

\* s = MAX(pledge_order) + 1 over the guardian claims of c, whatever their state.
IsNextPledgeOrder(c, s) ==
    LET slots == {claims[k].slot : k \in {j \in Ids :
                    claims[j].kind = "guardian" /\ claims[j].cid = c}}
    IN  /\ \A t \in slots : t < s
        /\ s = 1 \/ s - 1 \in slots

IsPermanent(t) == t >= PermanentExpiry

\* paid_hours is kept only while it is still to be turned into an expiry (a
\* dormant guardian's pledge); of a host it matters to refund amounts alone.

\* The expiry an upload or an own copy is given.
ExpiryFor(h) == IF HostingPermanent THEN PermanentExpiry ELSE now + h

ActivePin(c, a, exp) ==
    [status |-> "active", cid |-> c, uploader |-> a, expires |-> exp]

ActiveClaim(kind, c, a, exp) ==
    [state |-> "active", kind |-> kind, cid |-> c, owner |-> a,
     pledged |-> 0, expiry |-> exp, slot |-> 0]

DormantClaim(c, a, h, s) ==
    [state |-> "dormant", kind |-> "guardian", cid |-> c, owner |-> a,
     pledged |-> h, expiry |-> now, slot |-> s]

-----------------------------------------------------------------------------
(* Ending a host.  P and C are the tables after the ending updates of the   *)
(* transaction, cs the CIDs it reconciles.                                  *)

\* Mutant: the newest pledge goes first.
Heads_LastInLine(P, C, cs) ==
    {k \in Ids :
        /\ C[k].state = "dormant"
        /\ C[k].cid \in cs
        /\ ~HasActivePin(P, C[k].cid)
        /\ \A j \in Ids : IsDormant(C, j, C[k].cid) => C[k].slot >= C[j].slot}

\* The dormant guardians that take the baton: of a CID of cs with no active pin
\* left, the one first in pledge order.
Heads(P, C, cs) ==
    {k \in Ids :
        /\ C[k].state = "dormant"
        /\ C[k].cid \in cs
        /\ ~HasActivePin(P, C[k].cid)
        /\ \A j \in Ids : IsDormant(C, j, C[k].cid) => C[k].slot <= C[j].slot}

\* The claim row of a guardian that becomes a host, its timer starting now.
Activated(r) ==
    [r EXCEPT !.state = "active", !.expiry = now + r.pledged, !.pledged = 0]

\* A promotion inserts a pin and flips the claim.
ReconcileCids(P, C, cs) ==
    LET heads == Heads(P, C, cs)
    IN  /\ pins' = [k \in Ids |->
                      IF k \in heads
                      THEN ActivePin(C[k].cid, C[k].owner, now + C[k].pledged)
                      ELSE P[k]]
        /\ claims' = [k \in Ids |->
                        IF k \in heads
                        THEN Activated(C[k]) ELSE C[k]]

\* The active pins of the set S of rows get status s.
EndPins(S, s) ==
    [k \in Ids |-> IF k \in S /\ pins[k].status = "active"
                   THEN [pins[k] EXCEPT !.status = s] ELSE pins[k]]

EndClaims(S, s) ==
    [k \in Ids |-> IF k \in S THEN [claims[k] EXCEPT !.state = s] ELSE claims[k]]

\* The claims of S go back to the caller, whose job is to refund them.
HandOver(S) ==
    refundsDue' = [k \in Ids |-> IF k \in S THEN refundsDue[k] + 1
                                 ELSE refundsDue[k]]

-----------------------------------------------------------------------------
(* Requests of users *)

Tick ==
    /\ now < MaxTime
    /\ now' = now + 1
    /\ UNCHANGED <<pins, claims, banned, registry, refundsDue>>

\* The account check of a request; stale when a ban may have overtaken it.
MayCommit(a) == StaleChecks \/ a \notin banned

\* Mutant: the block list is consulted before the bytes are pinned, not after.
Upload_NoBlockCheck(k, c, a, h) ==
    /\ Unused(k) /\ MayCommit(a)
    /\ pins' = [pins EXCEPT ![k] = ActivePin(c, a, ExpiryFor(h))]
    /\ claims' = [claims EXCEPT
                    ![k] = ActiveClaim("original", c, a, ExpiryFor(h))]
    /\ UNCHANGED <<now, banned, registry, refundsDue>>

\* POST /upload after the bytes are in Kubo: block list, createPin,
\* createOrderWithClaim.
Upload(k, c, a, h) ==
    /\ Unused(k) /\ MayCommit(a)
    /\ ~Blocked(c)
    /\ LET kind == IF HasActivePin(pins, c) THEN "own_copy" ELSE "original"
       IN  /\ pins' = [pins EXCEPT ![k] = ActivePin(c, a, ExpiryFor(h))]
           /\ claims' = [claims EXCEPT
                           ![k] = ActiveClaim(kind, c, a, ExpiryFor(h))]
    /\ UNCHANGED <<now, banned, registry, refundsDue>>

\* The process dies, or createOrderWithClaim throws, after createPin
\* (server.js:872-900), or the row is older than the claims table: an active pin
\* no claim owns.
OrphanPin(k, c, a, h) ==
    /\ Unused(k) /\ MayCommit(a)
    /\ ~Blocked(c)
    /\ Cardinality({j \in Ids : Orphan(j)}) < MaxOrphans
    /\ pins' = [pins EXCEPT ![k] = ActivePin(c, a, ExpiryFor(h))]
    /\ UNCHANGED <<now, claims, banned, registry, refundsDue>>

\* POST /own-copy after its payment: refused unless the CID still has a host.
OwnCopy(k, c, a, h) ==
    /\ Unused(k) /\ MayCommit(a)
    /\ HasActivePin(pins, c)
    /\ pins' = [pins EXCEPT ![k] = ActivePin(c, a, ExpiryFor(h))]
    /\ claims' = [claims EXCEPT
                    ![k] = ActiveClaim("own_copy", c, a, ExpiryFor(h))]
    /\ UNCHANGED <<now, banned, registry, refundsDue>>

\* POST /guardian/pledge after its payment.  The handler saw the CID hosted
\* before it awaited the payment and does not look again.
Pledge(k, c, a, h) ==
    /\ Unused(k) /\ MayCommit(a)
    /\ HasActivePin(pins, c) \/ (StaleChecks /\ EverHosted(c))
    /\ \E s \in 1..Cardinality(Ids) :
          /\ IsNextPledgeOrder(c, s)
          /\ claims' = [claims EXCEPT ![k] = DormantClaim(c, a, h, s)]
    /\ UNCHANGED <<now, pins, banned, registry, refundsDue>>

\* Mutant: the linked pin keeps its old expiry.
ExtendClaim_PinForgotten(k, h) ==
    /\ claims[k].state = "active"
    /\ ~IsPermanent(claims[k].expiry)
    /\ claims[k].expiry + h <= MaxExpiry
    /\ claims' = [claims EXCEPT ![k].expiry = @ + h]
    /\ UNCHANGED <<now, pins, banned, registry, refundsDue>>

\* POST /claims/extend: the claim and its pin move in lockstep.
ExtendClaim(k, h) ==
    /\ claims[k].state = "active"
    /\ ~IsPermanent(claims[k].expiry)
    /\ claims[k].expiry + h <= MaxExpiry
    /\ claims' = [claims EXCEPT ![k].expiry = @ + h]
    /\ pins' = [pins EXCEPT ![k].expires =
                  IF pins[k].status = "active" THEN claims[k].expiry + h ELSE @]
    /\ UNCHANGED <<now, banned, registry, refundsDue>>

\* Mutant: no status lock, a double click cancels twice.
CancelDormant_NoStatusLock(k) ==
    /\ claims[k].kind = "guardian" /\ pins[k].status = "none"
    /\ claims' = EndClaims({k}, "cancelled")
    /\ HandOver({k})
    /\ UNCHANGED <<now, pins, banned, registry>>

\* POST /claims/cancel of a guardian that never hosted: no pin, no reconcile.
CancelDormant(k) ==
    /\ claims[k].state = "dormant"
    /\ claims' = EndClaims({k}, "cancelled")
    /\ HandOver({k})
    /\ UNCHANGED <<now, pins, banned, registry>>

\* Mutant: the claim ends without a look at the queue.
CancelActive_NoReconcile(k) ==
    /\ claims[k].state = "active"
    /\ pins' = EndPins({k}, "expired")
    /\ claims' = EndClaims({k}, "cancelled")
    /\ HandOver({k})
    /\ UNCHANGED <<now, banned, registry>>

\* POST /claims/cancel, /uploads/delete and /admin/pins/delete of an active
\* claim, and endActiveClaimForRelease when a release policy is met.
CancelActive(k) ==
    /\ claims[k].state = "active"
    /\ ReconcileCids(EndPins({k}, "expired"), EndClaims({k}, "cancelled"),
                     {claims[k].cid})
    /\ HandOver({k})
    /\ UNCHANGED <<now, banned, registry>>

\* POST /uploads/delete by an account with no active claim on the CID: its
\* pins end, nothing is reconciled.
RemovePinForUploader(c, a) ==
    /\ \A k \in Ids : ~(claims[k].state = "active" /\ claims[k].cid = c
                          /\ claims[k].owner = a)
    /\ LET mine == {k \in Ids : IsActivePin(pins, k, c) /\ pins[k].uploader = a}
       IN  mine # {} /\ pins' = EndPins(mine, "expired")
    /\ UNCHANGED <<now, claims, banned, registry, refundsDue>>

-----------------------------------------------------------------------------
(* The sweeper and the administrator *)

\* quota.sweep: claims past their timer end with their pins, then every other
\* pin past its own clock, then each CID that lost a pin is reconciled.  (The
\* code finds those CIDs by status_changed_at = t: no other transaction is taken
\* to expire a pin in the same millisecond.)
Sweep ==
    LET late  == {k \in Ids : claims[k].state = "active" /\ claims[k].expiry < now}
        stale == {k \in Ids : pins[k].status = "active"
                                /\ (k \in late \/ pins[k].expires < now)}
    IN  /\ late \cup stale # {}
        /\ ReconcileCids(EndPins(stale, "expired"), EndClaims(late, "expired"),
                         {pins[k].cid : k \in stale})
        /\ UNCHANGED <<now, banned, registry, refundsDue>>

\* Mutant: queued guardians of the account are overlooked.
BanAccount_ActiveOnly(a) ==
    LET voided == {k \in Ids : claims[k].state = "active" /\ claims[k].owner = a}
        mine   == {k \in Ids : pins[k].uploader = a}
    IN  /\ banned' = banned \cup {a}
        /\ ReconcileCids(EndPins(mine, "banned"), EndClaims(voided, "cancelled"),
                         {claims[k].cid : k \in voided})
        /\ HandOver(voided)
        /\ UNCHANGED <<now, registry>>

\* Mutant: every CID the account hosted is given up.
BanAccount_NoReconcile(a) ==
    LET voided == {k \in Ids : Live(k) /\ claims[k].owner = a}
        mine   == {k \in Ids : pins[k].uploader = a}
    IN  /\ banned' = banned \cup {a}
        /\ pins' = EndPins(mine, "banned")
        /\ claims' = EndClaims(voided, "cancelled")
        /\ HandOver(voided)
        /\ UNCHANGED <<now, registry>>

\* Mutant: queued guardians are voided and never refunded.
BanAccount_SettlesActive(a) ==
    LET voided == {k \in Ids : Live(k) /\ claims[k].owner = a}
        mine   == {k \in Ids : pins[k].uploader = a}
        active == {k \in voided : claims[k].state = "active"}
    IN  /\ banned' = banned \cup {a}
        /\ ReconcileCids(EndPins(mine, "banned"), EndClaims(voided, "cancelled"),
                         {claims[k].cid : k \in active})
        /\ HandOver(active)
        /\ UNCHANGED <<now, registry>>

\* POST /admin/ban: void the account's claims, end its pins, reconcile the
\* CIDs of the claims that were active.
BanAccount(a) ==
    LET voided == {k \in Ids : Live(k) /\ claims[k].owner = a}
        mine   == {k \in Ids : pins[k].uploader = a}
        cs     == {claims[k].cid : k \in {j \in voided : claims[j].state = "active"}}
    IN  /\ banned' = banned \cup {a}
        /\ ReconcileCids(EndPins(mine, "banned"), EndClaims(voided, "cancelled"), cs)
        /\ HandOver(voided)
        /\ UNCHANGED <<now, registry>>

UnbanAccount(a) ==
    /\ a \in banned
    /\ banned' = banned \ {a}
    /\ UNCHANGED <<now, pins, claims, registry, refundsDue>>

\* takedownCid: block the CID, void its claims and its whole queue, end its pins.
VoidCid(c) ==
    /\ registry' = [registry EXCEPT ![c] = "blocked"]
    /\ claims' = EndClaims({k \in Ids : Live(k) /\ claims[k].cid = c}, "cancelled")
    /\ pins' = EndPins({k \in Ids : pins[k].cid = c}, "takedown")
    /\ UNCHANGED <<now, banned>>

\* POST /admin/takedown: the handler settles every voided claim.
TakedownCid(c) ==
    /\ VoidCid(c)
    /\ HandOver({k \in Ids : Live(k) /\ claims[k].cid = c})

\* One entry of POST /admin/takedowns/import: the voided claims are dropped.
ImportTakedown(c) ==
    /\ registry[c] = "none"
    /\ VoidCid(c)
    /\ UNCHANGED refundsDue

UntakedownCid(c) ==
    /\ Blocked(c)
    /\ registry' = [registry EXCEPT ![c] = "unblocked"]
    /\ UNCHANGED <<now, pins, claims, banned, refundsDue>>

-----------------------------------------------------------------------------
Init ==
    /\ now = 0
    /\ pins = [k \in Ids |-> NoPin]
    /\ claims = [k \in Ids |-> NoClaim]
    /\ banned = {}
    /\ registry = [c \in Cids |-> "none"]
    /\ refundsDue = [k \in Ids |-> 0]

UserNext ==
    \/ \E k \in Ids, c \in Cids, a \in Accounts, h \in Hours :
          \/ Upload(k, c, a, h)
          \/ OrphanPin(k, c, a, h)
          \/ OwnCopy(k, c, a, h)
          \/ Pledge(k, c, a, h)
    \/ \E k \in Ids, h \in Hours : ExtendClaim(k, h)
    \/ \E k \in Ids : CancelDormant(k) \/ CancelActive(k)
    \/ \E c \in Cids, a \in Accounts : RemovePinForUploader(c, a)

AdminNext ==
    \/ \E a \in Accounts : BanAccount(a) \/ UnbanAccount(a)
    \/ \E c \in Cids : TakedownCid(c) \/ ImportTakedown(c) \/ UntakedownCid(c)

Next == Tick \/ UserNext \/ Sweep \/ AdminNext

Spec == Init /\ [][Next]_vars

-----------------------------------------------------------------------------
(* What the ledger promises *)

Hosted(c) == HasActivePin(pins, c)

\* A claim that hosts owns an active pin for the same CID and account with the
\* same expiry, and no pin outlives the claim it was made for
\* (extendClaim's lockstep, quota.js:661-681; every end of a claim expires its
\* pin in the same transaction).
PinMirrorsClaim ==
    \A k \in Ids :
        /\ claims[k].state = "active" =>
              pins[k] = ActivePin(claims[k].cid, claims[k].owner, claims[k].expiry)
        /\ pins[k].status = "active" => claims[k].state \in {"active", "none"}

\* A CID in takedown has no active pin, hence nothing to serve, extend or copy:
\* not through a request that was checked before the takedown and commits after
\* it, and not by promoting a guardian pledged meanwhile (server.js:841-846,
\* moderation.js:139-165).
BlockedIsNeverHosted ==
    \A c \in Cids : Blocked(c) => ~Hosted(c)

\* A queue position is never shared, so "first in line" names one guardian
\* (nextPledgeOrder inside the transaction, quota.js:481-484).
QueueSlotsDistinct ==
    \A j, k \in Ids :
        /\ claims[j].kind = "guardian" /\ claims[k].kind = "guardian"
        /\ claims[j].cid = claims[k].cid
        /\ claims[j].slot = claims[k].slot
        => j = k

\* A claim is handed out for a refund at most once, only when it was cut short,
\* and never after its time ran out, whatever races the cancel (the status lock
\* of cancelClaim, quota.js:726-729, 753-760).
RefundedAtMostOnce ==
    \A k \in Ids :
        /\ refundsDue[k] <= 1
        /\ refundsDue[k] = 1 => claims[k].state = "cancelled"

\* A voided claim was handed to the caller that settles it, by whatever path it
\* ended, unless its CID is on the block list's record: an import voids claims
\* too, and its handler settles none of them (moderation.js:135-137, "Refund
\* execution is the CALLER's job"; server.js:2281-2289).
VoidedClaimsAreSettled ==
    \A k \in Ids :
        claims[k].state = "cancelled" =>
            \/ refundsDue[k] = 1
            \/ claims[k].cid \in {c \in Cids : registry[c] # "none"}

\* "Pinned while: any active claim exists OR any dormant backstop exists"
\* (ipfs-gate-cohosting-backstop.md:125): no guardian waits behind a CID that
\* nobody hosts.
NobodyQueuesBehindNothing ==
    \A k \in Ids : claims[k].state = "dormant" => Hosted(claims[k].cid)

\* A ban leaves the account with nothing: no claim, queued or hosting, and no
\* pin (moderation.js:32-36).
BannedHoldsNothing ==
    \A k \in Ids :
        /\ Live(k) => claims[k].owner \notin banned
        /\ pins[k].status = "active" => pins[k].uploader \notin banned

\* A guardian takes the baton only when its CID has no other host left, ahead of
\* everyone still queued, and alone (reconcileCidAfterEnd, quota.js:701-723).
BatonGoesToFirstInLine ==
    [][\A k \in Ids :
          claims[k].state = "dormant" /\ claims'[k].state = "active" =>
            /\ \A j \in Ids \ {k} : ~IsActivePin(pins', j, claims[k].cid)
            /\ \A j \in Ids \ {k} :
                  IsDormant(claims', j, claims[k].cid) => claims[k].slot < claims[j].slot
      ]_vars

\* When the last host of a CID ends, by cancel, release, expiry, ban or takedown,
\* nobody is left waiting in its queue: a guardian took over or all were voided
\* (quota.js:686-699).
BatonIsNeverDropped ==
    [][\A c \in Cids :
          Hosted(c) /\ ~HasActivePin(pins', c) =>
            \A k \in Ids : ~IsDormant(claims', k, c)]_vars
=============================================================================
