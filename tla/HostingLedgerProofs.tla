------------------------- MODULE HostingLedgerProofs -------------------------
(***************************************************************************)
(* Theorems about the hosting ledger, for any number of accounts, CIDs,    *)
(* rows, hours and clock ticks.                                            *)
(***************************************************************************)
EXTENDS HostingLedger, FiniteSetTheorems, TLAPS

-----------------------------------------------------------------------------
(* Types *)

LEMMA EndPinsType ==
    ASSUME TypeOK, NEW S, NEW s \in PinStatus
    PROVE  EndPins(S, s) \in [Ids -> Pin]
  BY DEF TypeOK, EndPins, Pin

LEMMA EndClaimsType ==
    ASSUME TypeOK, NEW S, NEW s \in ClaimState
    PROVE  EndClaims(S, s) \in [Ids -> Claim]
  BY DEF TypeOK, EndClaims, Claim

LEMMA HandOverType ==
    ASSUME TypeOK, NEW S, HandOver(S)
    PROVE  refundsDue' \in [Ids -> Nat]
  BY DEF TypeOK, HandOver

LEMMA ActivatedClaim ==
    ASSUME now \in Nat, NEW r \in Claim
    PROVE  /\ Activated(r) \in Claim
           /\ Activated(r).state = "active" /\ Activated(r).kind = r.kind
           /\ Activated(r).cid = r.cid /\ Activated(r).owner = r.owner
           /\ Activated(r).slot = r.slot
           /\ Activated(r).expiry = now + r.pledged
<1>1. r.pledged \in Nat /\ now + r.pledged \in Nat
  BY DEF Claim
<1>2. Activated(r) \in Claim
  BY <1>1 DEF Activated, Claim, ClaimState
<1>3. QED
  BY <1>2 DEF Activated, Claim

LEMMA ActivePinFields ==
    ASSUME NEW c, NEW a, NEW e
    PROVE  /\ ActivePin(c, a, e).status = "active" /\ ActivePin(c, a, e).cid = c
           /\ ActivePin(c, a, e).uploader = a /\ ActivePin(c, a, e).expires = e
           /\ c \in Cids \cup {Nil} /\ a \in Accounts \cup {Nil} /\ e \in Nat
                => ActivePin(c, a, e) \in Pin
  BY DEF ActivePin, Pin, PinStatus

\* A reconciled row is the row before, or a promotion of it.
LEMMA ReconcileRows ==
    ASSUME NEW P, NEW C, NEW cs, ReconcileCids(P, C, cs), NEW k \in Ids
    PROVE  \/ /\ k \in Heads(P, C, cs)
              /\ pins'[k] = ActivePin(C[k].cid, C[k].owner, now + C[k].pledged)
              /\ claims'[k] = Activated(C[k])
           \/ /\ k \notin Heads(P, C, cs)
              /\ pins'[k] = P[k]
              /\ claims'[k] = C[k]
<1> DEFINE H == Heads(P, C, cs)
<1> HIDE DEF H
<1>1. QED
  BY DEF ReconcileCids, H

LEMMA ReconcileType ==
    ASSUME now \in Nat, NEW P \in [Ids -> Pin], NEW C \in [Ids -> Claim], NEW cs,
           ReconcileCids(P, C, cs)
    PROVE  pins' \in [Ids -> Pin] /\ claims' \in [Ids -> Claim]
<1> DEFINE H == Heads(P, C, cs)
<1>1. \A k \in Ids : P[k] \in Pin /\ C[k] \in Claim
  OBVIOUS
<1> HIDE DEF H
<1>2. \A k \in Ids : ActivePin(C[k].cid, C[k].owner, now + C[k].pledged) \in Pin
  BY <1>1, ActivePinFields DEF Claim
<1>3. \A k \in Ids : Activated(C[k]) \in Claim
  BY <1>1, ActivatedClaim
<1>4. QED
  BY <1>1, <1>2, <1>3 DEF ReconcileCids, H

LEMMA ExpiryForType ==
    ASSUME now \in Nat, NEW h \in Hours
    PROVE  ExpiryFor(h) \in Nat
  BY LedgerAssumption DEF ExpiryFor

LEMMA NextPledgeOrderType ==
    ASSUME NEW s \in 1..Cardinality(Ids)
    PROVE  s \in Nat
  OBVIOUS

(***************************************************************************)
(* Type correctness.                                                       *)
(***************************************************************************)
LEMMA TypeStep == TypeOK /\ [Next]_vars => TypeOK'
<1> SUFFICES ASSUME TypeOK, [Next]_vars PROVE TypeOK'
  OBVIOUS
<1> USE DEF BlockRow
<1>1. CASE Tick
  BY <1>1 DEF Tick, TypeOK
<1>2. ASSUME NEW k \in Ids, NEW c \in Cids, NEW a \in Accounts, NEW h \in Hours
      PROVE  /\ Upload(k, c, a, h) => TypeOK'
             /\ OrphanPin(k, c, a, h) => TypeOK'
             /\ OwnCopy(k, c, a, h) => TypeOK'
             /\ Pledge(k, c, a, h) => TypeOK'
  <2>1. /\ ActivePin(c, a, ExpiryFor(h)) \in Pin
        /\ \A kind \in ClaimKind : ActiveClaim(kind, c, a, ExpiryFor(h)) \in Claim
    BY ExpiryForType, ActivePinFields DEF TypeOK, ActiveClaim, Claim, ClaimState
  <2>2. \A s \in 1..Cardinality(Ids) : DormantClaim(c, a, h, s) \in Claim
    BY NextPledgeOrderType, LedgerAssumption
       DEF TypeOK, DormantClaim, Claim, ClaimState, ClaimKind
  <2>3. Upload(k, c, a, h) => TypeOK'
    BY <2>1 DEF Upload, TypeOK, ClaimKind
  <2>4. OrphanPin(k, c, a, h) => TypeOK'
    BY <2>1 DEF OrphanPin, TypeOK
  <2>5. OwnCopy(k, c, a, h) => TypeOK'
    BY <2>1 DEF OwnCopy, TypeOK, ClaimKind
  <2>6. Pledge(k, c, a, h) => TypeOK'
    BY <2>2 DEF Pledge, TypeOK
  <2>7. QED
    BY <2>3, <2>4, <2>5, <2>6
<1>3. ASSUME NEW k \in Ids, NEW h \in Hours, ExtendClaim(k, h)
      PROVE  TypeOK'
  <2>1. claims[k].expiry + h \in Nat
    BY LedgerAssumption DEF TypeOK, Claim
  <2>2. claims' \in [Ids -> Claim]
    BY <1>3, <2>1 DEF ExtendClaim, TypeOK, Claim
  <2>3. pins' \in [Ids -> Pin]
    BY <1>3, <2>1 DEF ExtendClaim, TypeOK, Pin
  <2>4. QED
    BY <1>3, <2>2, <2>3 DEF ExtendClaim, TypeOK
<1>4. ASSUME NEW k \in Ids, CancelDormant(k)
      PROVE  TypeOK'
  BY <1>4, EndClaimsType, HandOverType DEF CancelDormant, TypeOK, ClaimState
<1>5. ASSUME NEW k \in Ids, CancelActive(k)
      PROVE  TypeOK'
  <2>1. /\ EndPins({k}, "expired") \in [Ids -> Pin]
        /\ EndClaims({k}, "cancelled") \in [Ids -> Claim]
    BY EndPinsType, EndClaimsType DEF PinStatus, ClaimState
  <2>2. pins' \in [Ids -> Pin] /\ claims' \in [Ids -> Claim]
    BY <1>5, <2>1, ReconcileType DEF CancelActive, TypeOK
  <2>3. QED
    BY <1>5, <2>2, HandOverType DEF CancelActive, TypeOK
<1>6. ASSUME NEW c \in Cids, NEW a \in Accounts, RemovePinForUploader(c, a)
      PROVE  TypeOK'
  BY <1>6, EndPinsType DEF RemovePinForUploader, TypeOK, PinStatus
<1>7. CASE Sweep
  <2>1. \A S : /\ EndPins(S, "expired") \in [Ids -> Pin]
               /\ EndClaims(S, "expired") \in [Ids -> Claim]
    BY EndPinsType, EndClaimsType DEF PinStatus, ClaimState
  <2>2. pins' \in [Ids -> Pin] /\ claims' \in [Ids -> Claim]
    BY <1>7, <2>1, ReconcileType DEF Sweep, TypeOK
  <2>3. QED
    BY <1>7, <2>2 DEF Sweep, TypeOK
<1>8. ASSUME NEW a \in Accounts, BanAccount(a)
      PROVE  TypeOK'
  <2>1. \A S : /\ EndPins(S, "banned") \in [Ids -> Pin]
               /\ EndClaims(S, "cancelled") \in [Ids -> Claim]
    BY EndPinsType, EndClaimsType DEF PinStatus, ClaimState
  <2>2. pins' \in [Ids -> Pin] /\ claims' \in [Ids -> Claim]
    BY <1>8, <2>1, ReconcileType DEF BanAccount, TypeOK
  <2>3. QED
    BY <1>8, <2>2, HandOverType DEF BanAccount, TypeOK
<1>9. ASSUME NEW a \in Accounts, UnbanAccount(a)
      PROVE  TypeOK'
  BY <1>9 DEF UnbanAccount, TypeOK
<1>10. ASSUME NEW c \in Cids, VoidCid(c), refundsDue' \in [Ids -> Nat]
       PROVE  TypeOK'
  BY <1>10, EndPinsType, EndClaimsType DEF VoidCid, TypeOK, PinStatus, ClaimState
<1>11. ASSUME NEW c \in Cids, TakedownCid(c) \/ ImportTakedown(c)
       PROVE  TypeOK'
  BY <1>10, <1>11, HandOverType DEF TakedownCid, ImportTakedown, TypeOK
<1>12. ASSUME NEW c \in Cids, UntakedownCid(c)
       PROVE  TypeOK'
  BY <1>12 DEF UntakedownCid, TypeOK
<1>13. CASE UNCHANGED vars
  BY <1>13 DEF vars, TypeOK
<1>14. QED
  BY <1>1, <1>2, <1>3, <1>4, <1>5, <1>6, <1>7, <1>8, <1>9, <1>11, <1>12, <1>13
     DEF Next, UserNext, AdminNext

LEMMA TypeInit == Init => TypeOK
  BY DEF Init, TypeOK, NoPin, NoClaim, Pin, Claim, PinStatus, ClaimState,
         ClaimKind, BlockRow

\* The tables keep their types whatever requests, sweeps and moderation do.
THEOREM TypeCorrect == Spec => []TypeOK
  BY TypeInit, TypeStep, PTL DEF Spec

-----------------------------------------------------------------------------
(***************************************************************************)
(* Pins mirror claims, and a CID in takedown is never hosted.  Both are    *)
(* stated of a pair of tables, because a transaction that ends hosts is    *)
(* seen twice: before it reconciles and after.                             *)
(***************************************************************************)
Mirrors(P, C) ==
    \A k \in Ids :
        /\ C[k].state = "active" =>
              P[k] = ActivePin(C[k].cid, C[k].owner, C[k].expiry)
        /\ P[k].status = "active" => C[k].state \in {"active", "none"}

NotHosted(P, c) == ~HasActivePin(P, c)

\* The inductive invariant.
IInv == TypeOK /\ PinMirrorsClaim /\ BlockedIsNeverHosted

LEMMA PinMirrorsClaimIsMirrors == PinMirrorsClaim <=> Mirrors(pins, claims)
  BY DEF PinMirrorsClaim, Mirrors

LEMMA BlockedIsNotHosted ==
    BlockedIsNeverHosted <=> \A c \in Cids : Blocked(c) => NotHosted(pins, c)
  BY DEF BlockedIsNeverHosted, NotHosted, Hosted

\* A hosting claim makes its CID hosted; so it is not blocked.
LEMMA ActiveClaimIsHosted ==
    ASSUME IInv, NEW k \in Ids, claims[k].state = "active"
    PROVE  /\ IsActivePin(pins, k, claims[k].cid)
           /\ pins[k].uploader = claims[k].owner
           /\ pins[k].expires = claims[k].expiry
           /\ \A c \in Cids : c = claims[k].cid => ~Blocked(c)
  BY ActivePinFields
     DEF IInv, PinMirrorsClaim, IsActivePin, BlockedIsNeverHosted, Hosted,
         HasActivePin

\* Reconciling keeps the mirror.
LEMMA ReconcileMirrors ==
    ASSUME now \in Nat, NEW P \in [Ids -> Pin], NEW C \in [Ids -> Claim], NEW cs,
           Mirrors(P, C), ReconcileCids(P, C, cs)
    PROVE  Mirrors(pins', claims')
<1> SUFFICES ASSUME NEW k \in Ids
             PROVE  /\ claims'[k].state = "active" =>
                         pins'[k] = ActivePin(claims'[k].cid, claims'[k].owner,
                                              claims'[k].expiry)
                    /\ pins'[k].status = "active" =>
                         claims'[k].state \in {"active", "none"}
  BY DEF Mirrors
<1>1. C[k] \in Claim
  OBVIOUS
<1>2. CASE /\ pins'[k] = ActivePin(C[k].cid, C[k].owner, now + C[k].pledged)
           /\ claims'[k] = Activated(C[k])
  BY <1>1, <1>2, ActivatedClaim
<1>3. CASE pins'[k] = P[k] /\ claims'[k] = C[k]
  BY <1>3 DEF Mirrors
<1>4. QED
  BY <1>2, <1>3, ReconcileRows

\* Reconciling hosts no CID outside of cs.
LEMMA ReconcileHostsOnly ==
    ASSUME NEW P, NEW C, NEW cs, ReconcileCids(P, C, cs), NEW c,
           NotHosted(P, c), c \notin cs
    PROVE  NotHosted(pins', c)
<1> SUFFICES ASSUME NEW k \in Ids, IsActivePin(pins', k, c)
             PROVE  FALSE
  BY DEF NotHosted, HasActivePin
<1>1. CASE /\ k \in Heads(P, C, cs)
           /\ pins'[k] = ActivePin(C[k].cid, C[k].owner, now + C[k].pledged)
  BY <1>1, ActivePinFields DEF Heads, IsActivePin
<1>2. CASE pins'[k] = P[k]
  BY <1>2 DEF NotHosted, HasActivePin, IsActivePin
<1>3. QED
  BY <1>1, <1>2, ReconcileRows

\* Ending pins hosts nothing.
LEMMA EndPinsHostsNothing ==
    ASSUME TypeOK, NEW S, NEW s \in PinStatus \ {"active"}, NEW c, NotHosted(pins, c)
    PROVE  NotHosted(EndPins(S, s), c)
  BY DEF NotHosted, HasActivePin, IsActivePin, EndPins, TypeOK, Pin

\* Ending a set of claims together with their pins keeps the mirror.
LEMMA EndTogetherMirrors ==
    ASSUME IInv,
           NEW S \in SUBSET Ids, NEW s \in PinStatus \ {"active"},
           NEW V \in SUBSET Ids, NEW v \in {"cancelled", "expired"},
           \A k \in V : Live(k),
           \A k \in Ids : claims[k].state = "active" => (k \in S <=> k \in V)
    PROVE  Mirrors(EndPins(S, s), EndClaims(V, v))
<1> SUFFICES ASSUME NEW k \in Ids
             PROVE  /\ EndClaims(V, v)[k].state = "active" =>
                         EndPins(S, s)[k] = ActivePin(EndClaims(V, v)[k].cid,
                                              EndClaims(V, v)[k].owner,
                                              EndClaims(V, v)[k].expiry)
                    /\ EndPins(S, s)[k].status = "active" =>
                         EndClaims(V, v)[k].state \in {"active", "none"}
  BY DEF Mirrors
<1>1. /\ pins[k] \in Pin /\ claims[k] \in Claim
      /\ claims[k].state = "active" =>
           pins[k] = ActivePin(claims[k].cid, claims[k].owner, claims[k].expiry)
      /\ pins[k].status = "active" => claims[k].state \in {"active", "none"}
  BY DEF IInv, TypeOK, PinMirrorsClaim
<1>2. EndClaims(V, v)[k] = IF k \in V THEN [claims[k] EXCEPT !.state = v]
                           ELSE claims[k]
  BY DEF EndClaims
<1>3. EndPins(S, s)[k] = IF k \in S /\ pins[k].status = "active"
                         THEN [pins[k] EXCEPT !.status = s] ELSE pins[k]
  BY DEF EndPins
<1>4. CASE claims[k].state = "active"
  <2>1. CASE k \in V
    <3>1. EndClaims(V, v)[k].state = v
      BY <1>1, <1>2, <2>1 DEF Claim
    <3>2. EndPins(S, s)[k].status = s
      BY <1>1, <1>3, <1>4, <2>1, ActivePinFields DEF Pin
    <3>3. QED
      BY <3>1, <3>2
  <2>2. CASE k \notin V
    BY <1>1, <1>2, <1>3, <1>4, <2>2
  <2>3. QED
    BY <2>1, <2>2
<1>5. CASE claims[k].state # "active"
  <2>1. EndClaims(V, v)[k].state # "active"
    BY <1>1, <1>2, <1>5 DEF Claim
  <2>2. ASSUME EndPins(S, s)[k].status = "active"
        PROVE  EndClaims(V, v)[k].state \in {"active", "none"}
    <3>1. pins[k].status = "active"
      BY <1>1, <1>3, <2>2 DEF Pin
    <3>2. claims[k].state = "none" /\ k \notin V
      BY <1>1, <1>5, <3>1 DEF Live
    <3>3. QED
      BY <1>2, <3>2
  <2>3. QED
    BY <2>1, <2>2
<1>6. QED
  BY <1>4, <1>5

\* What the three transactions that end hosts and reconcile have in common.
LEMMA EndAndReconcile ==
    ASSUME IInv,
           NEW S \in SUBSET Ids, NEW s \in PinStatus \ {"active"},
           NEW V \in SUBSET Ids, NEW v \in {"cancelled", "expired"}, NEW cs,
           \A k \in V : Live(k),
           \A k \in Ids : claims[k].state = "active" => (k \in S <=> k \in V),
           \A c \in Cids : c \in cs => ~Blocked(c),
           ReconcileCids(EndPins(S, s), EndClaims(V, v), cs),
           UNCHANGED registry
    PROVE  PinMirrorsClaim' /\ BlockedIsNeverHosted'
<1>1. TypeOK /\ now \in Nat
  BY DEF IInv, TypeOK
<1>2. EndPins(S, s) \in [Ids -> Pin] /\ EndClaims(V, v) \in [Ids -> Claim]
  BY <1>1, EndPinsType, EndClaimsType DEF ClaimState
<1>3. Mirrors(EndPins(S, s), EndClaims(V, v))
  BY EndTogetherMirrors
<1>4. Mirrors(pins', claims')
  BY <1>1, <1>2, <1>3, ReconcileMirrors
<1>5. ASSUME NEW c \in Cids, Blocked(c)
      PROVE  NotHosted(pins', c)
  <2>1. NotHosted(EndPins(S, s), c)
    BY <1>1, <1>5, EndPinsHostsNothing, BlockedIsNotHosted DEF IInv
  <2>2. QED
    BY <1>5, <2>1, ReconcileHostsOnly
<1>6. QED
  BY <1>4, <1>5 DEF PinMirrorsClaim, Mirrors, BlockedIsNeverHosted, Hosted,
                    NotHosted, Blocked

LEMMA MirrorStep ==
    ASSUME IInv, [Next]_vars
    PROVE  PinMirrorsClaim' /\ BlockedIsNeverHosted'
<1> USE DEF IInv
<1>1. ASSUME UNCHANGED <<pins, claims>>, \A c \in Cids : Blocked(c)' => Blocked(c)
      PROVE  PinMirrorsClaim' /\ BlockedIsNeverHosted'
  BY <1>1 DEF PinMirrorsClaim, BlockedIsNeverHosted, Hosted, HasActivePin, IsActivePin
<1>2. ASSUME NEW k \in Ids, NEW c \in Cids, NEW a \in Accounts, NEW e,
             NEW kind,
             Unused(k), ~Blocked(c), UNCHANGED registry,
             pins' = [pins EXCEPT ![k] = ActivePin(c, a, e)],
             \/ UNCHANGED claims
             \/ claims' = [claims EXCEPT ![k] = ActiveClaim(kind, c, a, e)]
      PROVE  PinMirrorsClaim' /\ BlockedIsNeverHosted'
  <2>1. /\ \A j \in Ids \ {k} : pins'[j] = pins[j] /\ claims'[j] = claims[j]
        /\ pins'[k] = ActivePin(c, a, e)
        /\ claims'[k] = claims[k] \/ claims'[k] = ActiveClaim(kind, c, a, e)
    BY <1>2 DEF TypeOK
  <2>2. PinMirrorsClaim'
    BY <1>2, <2>1 DEF PinMirrorsClaim, Unused, ActiveClaim
  <2>3. BlockedIsNeverHosted'
    BY <1>2, <2>1, ActivePinFields
       DEF BlockedIsNeverHosted, Hosted, HasActivePin, IsActivePin, Blocked
  <2>4. QED
    BY <2>2, <2>3
<1>3. ASSUME NEW k \in Ids, NEW c \in Cids, NEW a \in Accounts, NEW h \in Hours
      PROVE  /\ Upload(k, c, a, h) => PinMirrorsClaim' /\ BlockedIsNeverHosted'
             /\ OrphanPin(k, c, a, h) => PinMirrorsClaim' /\ BlockedIsNeverHosted'
             /\ OwnCopy(k, c, a, h) => PinMirrorsClaim' /\ BlockedIsNeverHosted'
             /\ Pledge(k, c, a, h) => PinMirrorsClaim' /\ BlockedIsNeverHosted'
  <2>1. Upload(k, c, a, h) => PinMirrorsClaim' /\ BlockedIsNeverHosted'
    BY <1>2 DEF Upload
  <2>2. OrphanPin(k, c, a, h) => PinMirrorsClaim' /\ BlockedIsNeverHosted'
    BY <1>2 DEF OrphanPin
  <2>3. OwnCopy(k, c, a, h) => PinMirrorsClaim' /\ BlockedIsNeverHosted'
    BY <1>2 DEF OwnCopy, BlockedIsNeverHosted, Hosted
  <2>4. Pledge(k, c, a, h) => PinMirrorsClaim' /\ BlockedIsNeverHosted'
    BY DEF Pledge, Unused, PinMirrorsClaim, DormantClaim, BlockedIsNeverHosted,
           Hosted, HasActivePin, IsActivePin, Blocked, TypeOK
  <2>5. QED
    BY <2>1, <2>2, <2>3, <2>4
<1>4. ASSUME NEW k \in Ids, NEW h \in Hours, ExtendClaim(k, h)
      PROVE  PinMirrorsClaim' /\ BlockedIsNeverHosted'
  <2> DEFINE e == claims[k].expiry + h
  <2>1. pins[k] = ActivePin(claims[k].cid, claims[k].owner, claims[k].expiry)
    BY <1>4 DEF ExtendClaim, PinMirrorsClaim
  <2>2. /\ pins'[k] = ActivePin(claims[k].cid, claims[k].owner, e)
        /\ \A j \in Ids \ {k} : pins'[j] = pins[j]
    BY <1>4, <2>1 DEF ExtendClaim, TypeOK, ActivePin
  <2>3. /\ claims'[k].state = "active" /\ claims'[k].cid = claims[k].cid
        /\ claims'[k].owner = claims[k].owner /\ claims'[k].expiry = e
        /\ \A j \in Ids \ {k} : claims'[j] = claims[j]
    BY <1>4 DEF ExtendClaim, TypeOK, Claim
  <2>4. PinMirrorsClaim'
    BY <2>2, <2>3 DEF PinMirrorsClaim
  <2>5. BlockedIsNeverHosted'
    BY <1>4, <2>1, <2>2, ActivePinFields
       DEF ExtendClaim, BlockedIsNeverHosted, Hosted, HasActivePin, IsActivePin,
           Blocked
  <2>6. QED
    BY <2>4, <2>5
<1>5. ASSUME NEW k \in Ids, CancelDormant(k)
      PROVE  PinMirrorsClaim' /\ BlockedIsNeverHosted'
  <2>1. /\ claims[k].state = "dormant" /\ pins[k].status # "active"
        /\ claims'[k].state = "cancelled"
        /\ \A j \in Ids \ {k} : claims'[j] = claims[j]
    BY <1>5 DEF CancelDormant, EndClaims, TypeOK, Claim, PinMirrorsClaim
  <2>2. QED
    BY <1>5, <2>1 DEF CancelDormant, PinMirrorsClaim, BlockedIsNeverHosted,
                      Hosted, HasActivePin, IsActivePin, Blocked
<1>6. ASSUME NEW k \in Ids, CancelActive(k)
      PROVE  PinMirrorsClaim' /\ BlockedIsNeverHosted'
  <2> DEFINE S == {k}
             cs == {claims[k].cid}
  <2>1. ReconcileCids(EndPins(S, "expired"), EndClaims(S, "cancelled"), cs)
        /\ UNCHANGED registry
    BY <1>6 DEF CancelActive
  <2>2. \A j \in S : Live(j)
    BY <1>6 DEF CancelActive, Live
  <2>3. \A c \in Cids : c \in cs => ~Blocked(c)
    BY <1>6, ActiveClaimIsHosted DEF CancelActive
  <2>4. S \in SUBSET Ids
    OBVIOUS
  <2> HIDE DEF S, cs
  <2>5. QED
    BY <2>1, <2>2, <2>3, <2>4, EndAndReconcile DEF PinStatus
<1>7. ASSUME NEW c \in Cids, NEW a \in Accounts, RemovePinForUploader(c, a)
      PROVE  PinMirrorsClaim' /\ BlockedIsNeverHosted'
  <2> DEFINE mine == {k \in Ids : IsActivePin(pins, k, c) /\ pins[k].uploader = a}
  <2>1. \A k \in Ids : claims[k].state = "active" => k \notin mine
    BY <1>7, ActiveClaimIsHosted DEF RemovePinForUploader, IsActivePin
  <2>2. /\ \A k \in Ids : k \notin mine => pins'[k] = pins[k]
        /\ \A k \in mine : pins'[k].status = "expired"
        /\ UNCHANGED <<claims, registry>>
    BY <1>7 DEF RemovePinForUploader, EndPins, TypeOK, Pin, IsActivePin
  <2> HIDE DEF mine
  <2>3. QED
    BY <2>1, <2>2 DEF PinMirrorsClaim, BlockedIsNeverHosted, Hosted, HasActivePin,
                      IsActivePin, Blocked
<1>8. CASE Sweep
  <2> DEFINE late  == {k \in Ids : claims[k].state = "active" /\ claims[k].expiry < now}
             stale == {k \in Ids : pins[k].status = "active"
                                     /\ (k \in late \/ pins[k].expires < now)}
  <2>1. \A k \in Ids : claims[k].state = "active" => (k \in stale <=> k \in late)
    BY ActiveClaimIsHosted DEF IsActivePin
  <2>2. \A c \in Cids : c \in {pins[k].cid : k \in stale} => ~Blocked(c)
    BY DEF BlockedIsNeverHosted, Hosted, HasActivePin, IsActivePin
  <2>3. \A k \in late : Live(k)
    BY DEF Live
  <2>4. ReconcileCids(EndPins(stale, "expired"), EndClaims(late, "expired"),
                      {pins[k].cid : k \in stale})
        /\ UNCHANGED registry
    BY <1>8 DEF Sweep
  <2>5. stale \in SUBSET Ids /\ late \in SUBSET Ids
    OBVIOUS
  <2> HIDE DEF stale, late
  <2>6. QED
    BY <2>1, <2>2, <2>3, <2>4, <2>5, EndAndReconcile DEF PinStatus
<1>9. ASSUME NEW a \in Accounts, BanAccount(a)
      PROVE  PinMirrorsClaim' /\ BlockedIsNeverHosted'
  <2> DEFINE voided == {k \in Ids : Live(k) /\ claims[k].owner = a}
             mine   == {k \in Ids : pins[k].uploader = a}
             cs     == {claims[k].cid : k \in {j \in voided : claims[j].state = "active"}}
  <2>1. \A k \in Ids : claims[k].state = "active" => (k \in mine <=> k \in voided)
    BY ActiveClaimIsHosted DEF Live
  <2>2. \A c \in Cids : c \in cs => ~Blocked(c)
    BY ActiveClaimIsHosted
  <2>3. \A k \in voided : Live(k)
    OBVIOUS
  <2>4. ReconcileCids(EndPins(mine, "banned"), EndClaims(voided, "cancelled"), cs)
        /\ UNCHANGED registry
    BY <1>9 DEF BanAccount
  <2>5. mine \in SUBSET Ids /\ voided \in SUBSET Ids
    OBVIOUS
  <2> HIDE DEF mine, voided, cs
  <2>6. QED
    BY <2>1, <2>2, <2>3, <2>4, <2>5, EndAndReconcile DEF PinStatus
<1>10. ASSUME NEW c \in Cids, VoidCid(c)
       PROVE  PinMirrorsClaim' /\ BlockedIsNeverHosted'
  <2> DEFINE S == {k \in Ids : pins[k].cid = c}
             V == {k \in Ids : Live(k) /\ claims[k].cid = c}
  <2>1. \A k \in Ids : claims[k].state = "active" => (k \in S <=> k \in V)
    BY ActiveClaimIsHosted DEF Live, IsActivePin
  <2>2. pins' = EndPins(S, "takedown") /\ claims' = EndClaims(V, "cancelled")
    BY <1>10 DEF VoidCid
  <2>3. S \in SUBSET Ids /\ V \in SUBSET Ids /\ \A k \in V : Live(k)
    OBVIOUS
  <2>4. \A k \in Ids : ~IsActivePin(EndPins(S, "takedown"), k, c)
    BY DEF IsActivePin, EndPins, TypeOK, Pin
  <2> HIDE DEF S, V
  <2>5. Mirrors(pins', claims')
    BY <2>1, <2>2, <2>3, EndTogetherMirrors DEF PinStatus
  <2>6. \A d \in Cids : NotHosted(pins, d) => NotHosted(pins', d)
    BY <2>2, EndPinsHostsNothing DEF PinStatus
  <2>7. \A d \in Cids : Blocked(d)' => d = c \/ Blocked(d)
    BY <1>10 DEF VoidCid, Blocked, TypeOK
  <2>8. BlockedIsNeverHosted'
    BY <2>2, <2>4, <2>6, <2>7
       DEF BlockedIsNeverHosted, Hosted, NotHosted, HasActivePin
  <2>9. QED
    BY <2>5, <2>8 DEF PinMirrorsClaim, Mirrors
<1>11. ASSUME NEW c \in Cids, UntakedownCid(c)
       PROVE  \A d \in Cids : Blocked(d)' => Blocked(d)
  BY <1>11 DEF UntakedownCid, Blocked, TypeOK
<1>12. CASE Tick \/ (\E a \in Accounts : UnbanAccount(a))
            \/ (\E c \in Cids : UntakedownCid(c)) \/ UNCHANGED vars
  BY <1>1, <1>11, <1>12 DEF Tick, UnbanAccount, UntakedownCid, vars, Blocked
<1>13. CASE UserNext
  BY <1>3, <1>4, <1>5, <1>6, <1>7, <1>13 DEF UserNext
<1>14. CASE AdminNext
  BY <1>9, <1>10, <1>12, <1>14 DEF AdminNext, TakedownCid, ImportTakedown
<1>15. QED
  BY <1>8, <1>12, <1>13, <1>14 DEF Next

LEMMA LedgerInvariant == Spec => []IInv
<1>1. Init => IInv
  BY TypeInit DEF Init, IInv, PinMirrorsClaim, BlockedIsNeverHosted, Hosted,
                  HasActivePin, IsActivePin, NoPin, NoClaim, Blocked
<1>2. IInv /\ [Next]_vars => IInv'
  BY TypeStep, MirrorStep DEF IInv
<1>3. QED
  BY <1>1, <1>2, PTL DEF Spec

\* A hosting claim and its pin agree about CID, account and expiry at all times.
THEOREM PinsMirrorClaims == Spec => []PinMirrorsClaim
  BY LedgerInvariant, PTL DEF IInv

\* No interleaving of uploads, pledges, sweeps, bans and takedowns hosts a CID
\* that is in takedown.
THEOREM BlockedStaysDown == Spec => []BlockedIsNeverHosted
  BY LedgerInvariant, PTL DEF IInv

-----------------------------------------------------------------------------
(* Refunds *)

\* Reconciling revives no claim that has ended.
LEMMA ReconcileKeepsCancelled ==
    ASSUME NEW P, NEW C, NEW cs, ReconcileCids(P, C, cs), NEW k \in Ids,
           C[k].state = "cancelled"
    PROVE  claims'[k].state = "cancelled"
  BY ReconcileRows DEF Heads

\* Claims cut short, each handed over once.
LEMMA HandedOverOnce ==
    ASSUME TypeOK, RefundedAtMostOnce, NEW V \in SUBSET Ids, \A k \in V : Live(k),
           \A k \in Ids : EndClaims(V, "cancelled")[k].state = "cancelled"
                            => claims'[k].state = "cancelled",
           HandOver(V)
    PROVE  RefundedAtMostOnce'
<1> SUFFICES ASSUME NEW k \in Ids
             PROVE  /\ refundsDue'[k] <= 1
                    /\ refundsDue'[k] = 1 => claims'[k].state = "cancelled"
  BY DEF RefundedAtMostOnce
<1>1. /\ refundsDue[k] \in Nat /\ refundsDue[k] <= 1
      /\ refundsDue[k] = 1 => claims[k].state = "cancelled"
      /\ claims[k] \in Claim
  BY DEF TypeOK, RefundedAtMostOnce
<1>2. EndClaims(V, "cancelled")[k] = IF k \in V
                                     THEN [claims[k] EXCEPT !.state = "cancelled"]
                                     ELSE claims[k]
  BY DEF EndClaims
<1>3. refundsDue'[k] = IF k \in V THEN refundsDue[k] + 1 ELSE refundsDue[k]
  BY DEF HandOver
<1>4. CASE k \in V
  <2>1. refundsDue[k] = 0
    BY <1>1, <1>4 DEF Live
  <2>2. claims'[k].state = "cancelled"
    BY <1>1, <1>2, <1>4 DEF Claim
  <2>3. QED
    BY <1>3, <1>4, <2>1, <2>2
<1>5. CASE k \notin V
  BY <1>1, <1>2, <1>3, <1>5
<1>6. QED
  BY <1>4, <1>5

\* Nothing is handed over, and no claim that has ended is revived.
LEMMA NothingHandedOver ==
    ASSUME RefundedAtMostOnce, UNCHANGED refundsDue,
           \A k \in Ids : claims[k].state = "cancelled" => claims'[k].state = "cancelled"
    PROVE  RefundedAtMostOnce'
  BY DEF RefundedAtMostOnce

LEMMA RefundStep == TypeOK /\ RefundedAtMostOnce /\ [Next]_vars => RefundedAtMostOnce'
<1> SUFFICES ASSUME TypeOK, RefundedAtMostOnce, [Next]_vars PROVE RefundedAtMostOnce'
  OBVIOUS
<1>1. ASSUME NEW k \in Ids, NEW c \in Cids, NEW a \in Accounts, NEW h \in Hours,
             Upload(k, c, a, h) \/ OwnCopy(k, c, a, h) \/ Pledge(k, c, a, h)
      PROVE  RefundedAtMostOnce'
  <2>1. /\ claims[k].state = "none" /\ UNCHANGED refundsDue
        /\ \A j \in Ids \ {k} : claims'[j] = claims[j]
    BY <1>1 DEF Upload, OwnCopy, Pledge, Unused, TypeOK
  <2>2. QED
    BY <2>1, NothingHandedOver
<1>2. ASSUME NEW k \in Ids, NEW h \in Hours, ExtendClaim(k, h)
      PROVE  RefundedAtMostOnce'
  <2>1. /\ claims[k].state = "active" /\ UNCHANGED refundsDue
        /\ \A j \in Ids \ {k} : claims'[j] = claims[j]
    BY <1>2 DEF ExtendClaim, TypeOK
  <2>2. QED
    BY <2>1, NothingHandedOver
<1>3. ASSUME NEW k \in Ids, CancelDormant(k)
      PROVE  RefundedAtMostOnce'
  <2> DEFINE V == {k}
  <2>1. /\ claims' = EndClaims(V, "cancelled") /\ HandOver(V)
        /\ V \in SUBSET Ids /\ \A j \in V : Live(j)
    BY <1>3 DEF CancelDormant, Live
  <2> HIDE DEF V
  <2>2. QED
    BY <2>1, HandedOverOnce
<1>4. ASSUME NEW k \in Ids, CancelActive(k)
      PROVE  RefundedAtMostOnce'
  <2> DEFINE V == {k}
             cs == {claims[k].cid}
  <2>1. /\ ReconcileCids(EndPins(V, "expired"), EndClaims(V, "cancelled"), cs)
        /\ HandOver(V) /\ V \in SUBSET Ids /\ \A j \in V : Live(j)
    BY <1>4 DEF CancelActive, Live
  <2> HIDE DEF V, cs
  <2>2. QED
    BY <2>1, HandedOverOnce, ReconcileKeepsCancelled
<1>5. CASE Sweep
  <2> DEFINE late  == {k \in Ids : claims[k].state = "active" /\ claims[k].expiry < now}
             stale == {k \in Ids : pins[k].status = "active"
                                     /\ (k \in late \/ pins[k].expires < now)}
             cs    == {pins[k].cid : k \in stale}
  <2>1. /\ ReconcileCids(EndPins(stale, "expired"), EndClaims(late, "expired"), cs)
        /\ UNCHANGED refundsDue
    BY <1>5 DEF Sweep
  <2>2. \A k \in Ids : claims[k].state = "cancelled"
                         => EndClaims(late, "expired")[k].state = "cancelled"
    BY DEF EndClaims
  <2> HIDE DEF late, stale, cs
  <2>3. QED
    BY <2>1, <2>2, NothingHandedOver, ReconcileKeepsCancelled
<1>6. ASSUME NEW a \in Accounts, BanAccount(a)
      PROVE  RefundedAtMostOnce'
  <2> DEFINE V    == {k \in Ids : Live(k) /\ claims[k].owner = a}
             mine == {k \in Ids : pins[k].uploader = a}
             cs   == {claims[k].cid : k \in {j \in V : claims[j].state = "active"}}
  <2>1. /\ ReconcileCids(EndPins(mine, "banned"), EndClaims(V, "cancelled"), cs)
        /\ HandOver(V)
    BY <1>6 DEF BanAccount
  <2>2. V \in SUBSET Ids /\ \A j \in V : Live(j)
    OBVIOUS
  <2> HIDE DEF V, mine, cs
  <2>3. QED
    BY <2>1, <2>2, HandedOverOnce, ReconcileKeepsCancelled
<1>7. ASSUME NEW c \in Cids, TakedownCid(c) \/ ImportTakedown(c)
      PROVE  RefundedAtMostOnce'
  <2> DEFINE V == {k \in Ids : Live(k) /\ claims[k].cid = c}
  <2>1. /\ claims' = EndClaims(V, "cancelled")
        /\ HandOver(V) \/ UNCHANGED refundsDue
    BY <1>7 DEF TakedownCid, ImportTakedown, VoidCid
  <2>2. V \in SUBSET Ids /\ \A j \in V : Live(j)
    OBVIOUS
  <2>3. \A k \in Ids : claims[k].state = "cancelled"
                         => EndClaims(V, "cancelled")[k].state = "cancelled"
    BY DEF EndClaims, TypeOK, Claim
  <2> HIDE DEF V
  <2>4. QED
    BY <2>1, <2>2, <2>3, HandedOverOnce, NothingHandedOver
<1>8. ASSUME UNCHANGED <<claims, refundsDue>>
      PROVE  RefundedAtMostOnce'
  BY <1>8 DEF RefundedAtMostOnce
<1>9. CASE UserNext
  BY <1>1, <1>2, <1>3, <1>4, <1>8, <1>9
     DEF UserNext, OrphanPin, RemovePinForUploader
<1>10. CASE AdminNext
  BY <1>6, <1>7, <1>8, <1>10 DEF AdminNext, UnbanAccount, UntakedownCid
<1>11. CASE Tick \/ UNCHANGED vars
  BY <1>8, <1>11 DEF Tick, vars
<1>12. QED
  BY <1>5, <1>9, <1>10, <1>11 DEF Next

\* Cancels, releases, bans and takedowns together hand a claim over for its
\* refund at most once, and a claim that ran out its time never.
THEOREM RefundsAreNotRepeated == Spec => []RefundedAtMostOnce
<1>1. Init => RefundedAtMostOnce
  BY DEF Init, RefundedAtMostOnce
<1>2. QED
  BY <1>1, TypeCorrect, RefundStep, PTL DEF Spec

-----------------------------------------------------------------------------
(* Every refund finds its caller *)

\* Reconciling cancels nothing.
LEMMA ReconcileCancelsNothing ==
    ASSUME now \in Nat, NEW P, NEW C \in [Ids -> Claim], NEW cs, ReconcileCids(P, C, cs),
           NEW k \in Ids, claims'[k].state = "cancelled"
    PROVE  claims'[k] = C[k]
<1>1. C[k] \in Claim
  OBVIOUS
<1>2. claims'[k] = Activated(C[k]) => claims'[k].state = "active"
  BY <1>1, ActivatedClaim
<1>3. QED
  BY <1>2, ReconcileRows

\* The claims that are newly cancelled are in V, and V is handed over or its CIDs
\* are on the block list's record.
LEMMA SettledOrRecorded ==
    ASSUME TypeOK, RefundedAtMostOnce, VoidedClaimsAreSettled,
           NEW V \in SUBSET Ids, \A k \in V : Live(k),
           \A k \in Ids : claims'[k].state = "cancelled" =>
              \/ k \in V
              \/ claims[k].state = "cancelled" /\ claims'[k].cid = claims[k].cid,
           \A c \in Cids : registry[c] # "none" => registry'[c] # "none",
           \/ HandOver(V)
           \/ /\ UNCHANGED refundsDue
              /\ \A k \in V : claims'[k].cid \in {c \in Cids : registry'[c] # "none"}
    PROVE  VoidedClaimsAreSettled'
<1> SUFFICES ASSUME NEW k \in Ids, claims'[k].state = "cancelled"
             PROVE  \/ refundsDue'[k] = 1
                    \/ claims'[k].cid \in {c \in Cids : registry'[c] # "none"}
  BY DEF VoidedClaimsAreSettled
<1>1. HandOver(V) => refundsDue'[k] = IF k \in V THEN refundsDue[k] + 1 ELSE refundsDue[k]
  BY DEF HandOver
<1>2. CASE k \in V
  <2>1. refundsDue[k] \in Nat /\ refundsDue[k] <= 1 /\ refundsDue[k] # 1
    BY <1>2 DEF TypeOK, RefundedAtMostOnce, Live
  <2>2. refundsDue[k] = 0
    BY <2>1
  <2>3. QED
    BY <1>1, <1>2, <2>2
<1>3. CASE k \notin V
  <2>1. \/ refundsDue[k] = 1
        \/ claims[k].cid \in {c \in Cids : registry[c] # "none"}
    BY <1>3 DEF VoidedClaimsAreSettled
  <2>2. refundsDue'[k] = refundsDue[k] /\ claims'[k].cid = claims[k].cid
    BY <1>1, <1>3
  <2>3. QED
    BY <2>1, <2>2
<1>4. QED
  BY <1>2, <1>3

\* Nothing is newly cancelled.
LEMMA NothingCancelled ==
    ASSUME VoidedClaimsAreSettled, UNCHANGED <<refundsDue, registry>>,
           \A k \in Ids : claims'[k].state = "cancelled" =>
              claims[k].state = "cancelled" /\ claims'[k].cid = claims[k].cid
    PROVE  VoidedClaimsAreSettled'
  BY DEF VoidedClaimsAreSettled

LEMMA CancelledRows ==
    ASSUME TypeOK, NEW V
    PROVE  /\ EndClaims(V, "cancelled") \in [Ids -> Claim]
           /\ \A k \in Ids :
                /\ EndClaims(V, "cancelled")[k].cid = claims[k].cid
                /\ EndClaims(V, "cancelled")[k].state = "cancelled" =>
                      k \in V \/ claims[k].state = "cancelled"
<1>1. EndClaims(V, "cancelled") \in [Ids -> Claim]
  BY EndClaimsType DEF ClaimState
<1>2. \A k \in Ids : claims[k] \in Claim
  BY DEF TypeOK
<1>3. QED
  BY <1>1, <1>2 DEF EndClaims, Claim

LEMMA SettledStep ==
    TypeOK /\ RefundedAtMostOnce /\ VoidedClaimsAreSettled /\ [Next]_vars
        => VoidedClaimsAreSettled'
<1> SUFFICES ASSUME TypeOK, RefundedAtMostOnce, VoidedClaimsAreSettled, [Next]_vars
             PROVE  VoidedClaimsAreSettled'
  OBVIOUS
<1>a. now \in Nat /\ \A k \in Ids : claims[k] \in Claim
  BY DEF TypeOK
<1>b. ASSUME NEW V, NEW P, NEW cs,
             ReconcileCids(P, EndClaims(V, "cancelled"), cs)
      PROVE  \A k \in Ids : claims'[k].state = "cancelled" =>
                \/ k \in V
                \/ claims[k].state = "cancelled" /\ claims'[k].cid = claims[k].cid
  BY <1>a, <1>b, CancelledRows, ReconcileCancelsNothing
<1>1. ASSUME NEW k \in Ids, NEW c \in Cids, NEW a \in Accounts, NEW h \in Hours,
             Upload(k, c, a, h) \/ OwnCopy(k, c, a, h) \/ Pledge(k, c, a, h)
      PROVE  VoidedClaimsAreSettled'
  <2>1. /\ claims'[k].state # "cancelled" /\ UNCHANGED <<refundsDue, registry>>
        /\ \A j \in Ids \ {k} : claims'[j] = claims[j]
    BY <1>1 DEF Upload, OwnCopy, Pledge, TypeOK, ActiveClaim, DormantClaim
  <2>2. QED
    BY <2>1, NothingCancelled
<1>2. ASSUME NEW k \in Ids, NEW h \in Hours, ExtendClaim(k, h)
      PROVE  VoidedClaimsAreSettled'
  <2>1. /\ claims'[k].state = "active" /\ UNCHANGED <<refundsDue, registry>>
        /\ \A j \in Ids \ {k} : claims'[j] = claims[j]
    BY <1>2, <1>a DEF ExtendClaim, TypeOK, Claim
  <2>2. QED
    BY <2>1, NothingCancelled
<1>3. ASSUME NEW k \in Ids, CancelDormant(k)
      PROVE  VoidedClaimsAreSettled'
  <2> DEFINE V == {k}
  <2>1. /\ claims' = EndClaims(V, "cancelled") /\ HandOver(V) /\ registry' = registry
        /\ V \in SUBSET Ids /\ \A j \in V : Live(j)
    BY <1>3 DEF CancelDormant, Live
  <2> HIDE DEF V
  <2>2. QED
    BY <2>1, CancelledRows, SettledOrRecorded
<1>4. ASSUME NEW k \in Ids, CancelActive(k)
      PROVE  VoidedClaimsAreSettled'
  <2> DEFINE V == {k}
             cs == {claims[k].cid}
  <2>1. /\ ReconcileCids(EndPins(V, "expired"), EndClaims(V, "cancelled"), cs)
        /\ HandOver(V) /\ V \in SUBSET Ids /\ \A j \in V : Live(j)
        /\ registry' = registry
    BY <1>4 DEF CancelActive, Live
  <2> HIDE DEF V, cs
  <2>2. QED
    BY <1>b, <2>1, SettledOrRecorded
<1>5. CASE Sweep
  <2> DEFINE late  == {k \in Ids : claims[k].state = "active" /\ claims[k].expiry < now}
             stale == {k \in Ids : pins[k].status = "active"
                                     /\ (k \in late \/ pins[k].expires < now)}
             cs    == {pins[k].cid : k \in stale}
  <2>1. /\ ReconcileCids(EndPins(stale, "expired"), EndClaims(late, "expired"), cs)
        /\ UNCHANGED <<refundsDue, registry>>
    BY <1>5 DEF Sweep
  <2> HIDE DEF late, stale, cs
  <2>2. EndClaims(late, "expired") \in [Ids -> Claim]
    BY EndClaimsType DEF ClaimState
  <2>3. \A k \in Ids : EndClaims(late, "expired")[k].state = "cancelled"
                           => EndClaims(late, "expired")[k] = claims[k]
    BY <1>a DEF EndClaims, Claim
  <2>4. QED
    BY <1>a, <2>1, <2>2, <2>3, ReconcileCancelsNothing, NothingCancelled
<1>6. ASSUME NEW a \in Accounts, BanAccount(a)
      PROVE  VoidedClaimsAreSettled'
  <2> DEFINE V    == {k \in Ids : Live(k) /\ claims[k].owner = a}
             mine == {k \in Ids : pins[k].uploader = a}
             cs   == {claims[k].cid : k \in {j \in V : claims[j].state = "active"}}
  <2>1. /\ ReconcileCids(EndPins(mine, "banned"), EndClaims(V, "cancelled"), cs)
        /\ HandOver(V) /\ registry' = registry
    BY <1>6 DEF BanAccount
  <2>2. V \in SUBSET Ids /\ \A j \in V : Live(j)
    OBVIOUS
  <2> HIDE DEF V, mine, cs
  <2>3. QED
    BY <1>b, <2>1, <2>2, SettledOrRecorded
<1>7. ASSUME NEW c \in Cids, TakedownCid(c) \/ ImportTakedown(c)
      PROVE  VoidedClaimsAreSettled'
  <2> DEFINE V == {k \in Ids : Live(k) /\ claims[k].cid = c}
  <2>1. /\ claims' = EndClaims(V, "cancelled")
        /\ HandOver(V) \/ UNCHANGED refundsDue
        /\ registry' = [registry EXCEPT ![c] = "blocked"]
    BY <1>7 DEF TakedownCid, ImportTakedown, VoidCid
  <2>2. V \in SUBSET Ids /\ \A j \in V : Live(j) /\ claims[j].cid = c
    OBVIOUS
  <2>3. /\ registry'[c] = "blocked"
        /\ \A d \in Cids : registry[d] # "none" => registry'[d] # "none"
    <3>1. registry \in [Cids -> BlockRow]
      BY DEF TypeOK
    <3>2. registry'[c] = "blocked"
      BY <2>1, <3>1
    <3>3. \A d \in Cids : registry'[d] = registry[d] \/ registry'[d] = "blocked"
      BY <2>1, <3>1
    <3>4. QED
      BY <3>2, <3>3
  <2> HIDE DEF V
  <2>4. \A k \in V : claims'[k].cid = c
    BY <2>1, <2>2, CancelledRows
  <2>5. QED
    BY ZenonT(40), <2>1, <2>2, <2>3, <2>4, CancelledRows, SettledOrRecorded
<1>8. ASSUME UNCHANGED <<claims, refundsDue, registry>>
      PROVE  VoidedClaimsAreSettled'
  BY <1>8 DEF VoidedClaimsAreSettled
<1>9. ASSUME NEW c \in Cids, UntakedownCid(c)
      PROVE  VoidedClaimsAreSettled'
  <2>1. UNCHANGED <<claims, refundsDue>>
    BY <1>9 DEF UntakedownCid
  <2>2. \A d \in Cids : registry[d] # "none" => registry'[d] # "none"
    BY <1>9 DEF UntakedownCid, TypeOK
  <2>3. QED
    BY <2>1, <2>2 DEF VoidedClaimsAreSettled
<1>10. CASE UserNext
  BY ZenonT(40), <1>1, <1>2, <1>3, <1>4, <1>8, <1>10
     DEF UserNext, OrphanPin, RemovePinForUploader
<1>11. CASE AdminNext
  BY <1>6, <1>7, <1>8, <1>9, <1>11 DEF AdminNext, UnbanAccount
<1>12. CASE Tick \/ UNCHANGED vars
  BY <1>8, <1>12 DEF Tick, vars
<1>13. QED
  BY <1>5, <1>10, <1>11, <1>12 DEF Next

\* Whatever path cancels a claim hands it over for its refund; only a takedown
\* that was imported may drop it (moderation.js:135-137, server.js:2281-2289).
THEOREM RefundsFindTheirCaller == Spec => []VoidedClaimsAreSettled
<1>1. Init => RefundedAtMostOnce /\ VoidedClaimsAreSettled
  BY DEF Init, RefundedAtMostOnce, VoidedClaimsAreSettled, NoClaim
<1>2. QED
  BY <1>1, TypeCorrect, RefundStep, SettledStep, PTL DEF Spec
=============================================================================
