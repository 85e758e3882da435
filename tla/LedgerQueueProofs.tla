-------------------------- MODULE LedgerQueueProofs --------------------------
(***************************************************************************)
(* Theorems about the queue of guardians: positions are never shared, the  *)
(* baton goes to whoever is first in line and is never dropped, nobody     *)
(* queues behind nothing, a banned account holds nothing, and the ledger as *)
(* a whole implements the hosting queue.                                   *)
(***************************************************************************)
EXTENDS HostingLedgerProofs, LedgerImplementsQueue, WellFoundedInduction

\* Only guardians wait.
WaitersAreGuardians ==
    \A k \in Ids : claims[k].state = "dormant" => claims[k].kind = "guardian"

\* The inductive invariant.
QInv == TypeOK /\ QueueSlotsDistinct /\ WaitersAreGuardians

\* What identifies a queued claim is the same in the two tables, and nobody
\* starts to wait in the second.
SameQueue(C, D) ==
    \A k \in Ids :
        /\ D[k].kind = C[k].kind /\ D[k].cid = C[k].cid /\ D[k].slot = C[k].slot
        /\ D[k].state = "dormant" => C[k].state = "dormant"

LEMMA EndClaimsQueue ==
    ASSUME TypeOK, NEW V, NEW v \in {"cancelled", "expired"}
    PROVE  /\ EndClaims(V, v) \in [Ids -> Claim]
           /\ SameQueue(claims, EndClaims(V, v))
<1>1. EndClaims(V, v) \in [Ids -> Claim]
  BY EndClaimsType DEF ClaimState
<1>2. SameQueue(claims, EndClaims(V, v))
  BY DEF SameQueue, EndClaims, TypeOK, Claim
<1>3. QED
  BY <1>1, <1>2

LEMMA ReconcileQueue ==
    ASSUME now \in Nat, NEW P, NEW C \in [Ids -> Claim], NEW cs,
           ReconcileCids(P, C, cs)
    PROVE  SameQueue(C, claims')
<1> SUFFICES ASSUME NEW k \in Ids
             PROVE  /\ claims'[k].kind = C[k].kind /\ claims'[k].cid = C[k].cid
                    /\ claims'[k].slot = C[k].slot
                    /\ claims'[k].state = "dormant" => C[k].state = "dormant"
  BY DEF SameQueue
<1>1. C[k] \in Claim
  OBVIOUS
<1>2. CASE claims'[k] = Activated(C[k])
  BY <1>1, <1>2, ActivatedClaim
<1>3. CASE claims'[k] = C[k]
  BY <1>3
<1>4. QED
  BY <1>2, <1>3, ReconcileRows

\* How each step of the ledger treats the claims: a row is filled in, extended
\* or ended, or hosts end and their CIDs are reconciled.
LEMMA StepKinds ==
    ASSUME TypeOK, [Next]_vars
    PROVE  \/ \E k \in Ids, c \in Cids, a \in Accounts, h \in Hours :
                 Upload(k, c, a, h) \/ OwnCopy(k, c, a, h) \/ Pledge(k, c, a, h)
           \/ \E k \in Ids, h \in Hours : ExtendClaim(k, h)
           \/ claims' = claims
           \/ \E V \in SUBSET Ids : claims' = EndClaims(V, "cancelled")
           \/ \E S \in SUBSET Ids, s \in PinStatus, V \in SUBSET Ids,
                 v \in {"cancelled", "expired"}, cs \in SUBSET (Cids \cup {Nil}) :
                 ReconcileCids(EndPins(S, s), EndClaims(V, v), cs)
<1> DEFINE Ends == \E S \in SUBSET Ids, s \in PinStatus, V \in SUBSET Ids,
                 v \in {"cancelled", "expired"}, cs \in SUBSET (Cids \cup {Nil}) :
                 ReconcileCids(EndPins(S, s), EndClaims(V, v), cs)
<1>1. ASSUME NEW S \in SUBSET Ids, NEW s \in PinStatus, NEW V \in SUBSET Ids,
             NEW v \in {"cancelled", "expired"}, NEW cs \in SUBSET (Cids \cup {Nil}),
             ReconcileCids(EndPins(S, s), EndClaims(V, v), cs)
      PROVE  Ends
  BY <1>1
<1>2. \A k \in Ids : claims[k].cid \in Cids \cup {Nil} /\ pins[k].cid \in Cids \cup {Nil}
  BY DEF TypeOK, Claim, Pin
<1>3. ASSUME NEW k \in Ids, CancelActive(k)
      PROVE  Ends
  <2> DEFINE S == {k}
             cs == {claims[k].cid}
  <2>1. ReconcileCids(EndPins(S, "expired"), EndClaims(S, "cancelled"), cs)
    BY <1>3 DEF CancelActive
  <2>2. S \in SUBSET Ids /\ cs \in SUBSET (Cids \cup {Nil})
    BY <1>2
  <2> HIDE DEF S, cs
  <2>3. QED
    BY <1>1, <2>1, <2>2 DEF PinStatus
<1>4. CASE Sweep
  <2> DEFINE late  == {k \in Ids : claims[k].state = "active" /\ claims[k].expiry < now}
             stale == {k \in Ids : pins[k].status = "active"
                                     /\ (k \in late \/ pins[k].expires < now)}
             cs    == {pins[k].cid : k \in stale}
  <2>1. ReconcileCids(EndPins(stale, "expired"), EndClaims(late, "expired"), cs)
    BY <1>4 DEF Sweep
  <2>2. stale \in SUBSET Ids /\ late \in SUBSET Ids
    OBVIOUS
  <2>3. cs \in SUBSET (Cids \cup {Nil})
    BY <1>2
  <2> HIDE DEF stale, late, cs
  <2>4. QED
    BY <1>1, <2>1, <2>2, <2>3 DEF PinStatus
<1>5. ASSUME NEW a \in Accounts, BanAccount(a)
      PROVE  Ends
  <2> DEFINE voided == {k \in Ids : Live(k) /\ claims[k].owner = a}
             mine   == {k \in Ids : pins[k].uploader = a}
             cs     == {claims[k].cid : k \in {j \in voided : claims[j].state = "active"}}
  <2>1. ReconcileCids(EndPins(mine, "banned"), EndClaims(voided, "cancelled"), cs)
    BY <1>5 DEF BanAccount
  <2>2. mine \in SUBSET Ids /\ voided \in SUBSET Ids
    OBVIOUS
  <2>3. cs \in SUBSET (Cids \cup {Nil})
    BY <1>2
  <2> HIDE DEF mine, voided, cs
  <2>4. QED
    BY <1>1, <2>1, <2>2, <2>3 DEF PinStatus
<1>6. ASSUME NEW c \in Cids, VoidCid(c)
      PROVE  \E V \in SUBSET Ids : claims' = EndClaims(V, "cancelled")
  BY <1>6 DEF VoidCid
<1>7. ASSUME NEW k \in Ids, CancelDormant(k)
      PROVE  \E V \in SUBSET Ids : claims' = EndClaims(V, "cancelled")
  <2>1. claims' = EndClaims({k}, "cancelled") /\ {k} \in SUBSET Ids
    BY <1>7 DEF CancelDormant
  <2>2. QED
    BY <2>1
<1>8. CASE AdminNext
  BY <1>5, <1>6, <1>8 DEF AdminNext, UnbanAccount, TakedownCid, ImportTakedown,
                          UntakedownCid
<1>9. CASE UserNext
  BY <1>3, <1>7, <1>9 DEF UserNext, OrphanPin, RemovePinForUploader
<1>10. CASE Tick \/ UNCHANGED vars
  BY <1>10 DEF Tick, vars
<1>11. QED
  BY <1>4, <1>8, <1>9, <1>10 DEF Next

-----------------------------------------------------------------------------
(* Positions are never shared. *)

LEMMA SameQueueKeeps ==
    ASSUME QueueSlotsDistinct, WaitersAreGuardians, SameQueue(claims, claims')
    PROVE  QueueSlotsDistinct' /\ WaitersAreGuardians'
  BY DEF QueueSlotsDistinct, WaitersAreGuardians, SameQueue

LEMMA QueueStep == QInv /\ [Next]_vars => QInv'
<1> SUFFICES ASSUME QInv, [Next]_vars PROVE QueueSlotsDistinct' /\ WaitersAreGuardians'
  BY TypeStep DEF QInv
<1> USE DEF QInv
<1>1. ASSUME NEW k \in Ids, NEW c \in Cids, NEW a \in Accounts, NEW h \in Hours,
             NEW kind \in {"original", "own_copy"}, Unused(k),
             claims' = [claims EXCEPT ![k] = ActiveClaim(kind, c, a, ExpiryFor(h))]
      PROVE  QueueSlotsDistinct' /\ WaitersAreGuardians'
  <2>1. /\ claims'[k].kind = kind /\ claims'[k].state = "active"
        /\ \A j \in Ids \ {k} : claims'[j] = claims[j]
    BY <1>1 DEF TypeOK, ActiveClaim
  <2>2. QED
    BY <2>1 DEF QueueSlotsDistinct, WaitersAreGuardians
<1>2. ASSUME NEW k \in Ids, NEW c \in Cids, NEW a \in Accounts, NEW h \in Hours,
             Pledge(k, c, a, h)
      PROVE  QueueSlotsDistinct' /\ WaitersAreGuardians'
  <2>1. PICK s \in 1..Cardinality(Ids) :
             /\ IsNextPledgeOrder(c, s)
             /\ claims' = [claims EXCEPT ![k] = DormantClaim(c, a, h, s)]
    BY <1>2 DEF Pledge
  <2>2. /\ claims'[k].kind = "guardian" /\ claims'[k].cid = c /\ claims'[k].slot = s
        /\ \A j \in Ids \ {k} : claims'[j] = claims[j]
    BY <2>1 DEF TypeOK, DormantClaim
  <2>3. \A j \in Ids : claims[j].kind = "guardian" /\ claims[j].cid = c
                         => claims[j].slot < s
    BY <2>1 DEF IsNextPledgeOrder
  <2>4. s \in Nat /\ \A j \in Ids : claims[j].slot \in Nat
    BY NextPledgeOrderType DEF TypeOK, Claim
  <2>5. QueueSlotsDistinct'
    BY <2>2, <2>3, <2>4 DEF QueueSlotsDistinct
  <2>6. WaitersAreGuardians'
    BY <2>2 DEF WaitersAreGuardians
  <2>7. QED
    BY <2>5, <2>6
<1>3. ASSUME NEW k \in Ids, NEW h \in Hours, ExtendClaim(k, h)
      PROVE  SameQueue(claims, claims')
  BY <1>3 DEF ExtendClaim, SameQueue, TypeOK, Claim
<1>4. ASSUME NEW V \in SUBSET Ids, claims' = EndClaims(V, "cancelled")
      PROVE  SameQueue(claims, claims')
  BY <1>4, EndClaimsQueue
<1>5. ASSUME NEW S \in SUBSET Ids, NEW s \in PinStatus, NEW V \in SUBSET Ids,
             NEW v \in {"cancelled", "expired"}, NEW cs \in SUBSET (Cids \cup {Nil}),
             ReconcileCids(EndPins(S, s), EndClaims(V, v), cs)
      PROVE  SameQueue(claims, claims')
  <2>1. SameQueue(claims, EndClaims(V, v)) /\ EndClaims(V, v) \in [Ids -> Claim]
    BY EndClaimsQueue
  <2>2. SameQueue(EndClaims(V, v), claims')
    BY <1>5, <2>1, ReconcileQueue DEF TypeOK
  <2>3. QED
    BY <2>1, <2>2 DEF SameQueue
<1>6. CASE claims' = claims
  BY <1>6 DEF QueueSlotsDistinct, WaitersAreGuardians
<1>7. ASSUME NEW k \in Ids, NEW c \in Cids, NEW a \in Accounts, NEW h \in Hours,
             Upload(k, c, a, h) \/ OwnCopy(k, c, a, h)
      PROVE  QueueSlotsDistinct' /\ WaitersAreGuardians'
  BY <1>1, <1>7 DEF Upload, OwnCopy
<1>8. QED
  BY <1>2, <1>3, <1>4, <1>5, <1>6, <1>7, SameQueueKeeps, StepKinds

LEMMA QueueInvariant == Spec => []QInv
<1>1. Init => QInv
  BY TypeInit DEF Init, QInv, QueueSlotsDistinct, WaitersAreGuardians, NoClaim
<1>2. QED
  BY <1>1, QueueStep, PTL DEF Spec

\* No two guardians of a CID ever share a queue position.
THEOREM SlotsAreDistinct == Spec => []QueueSlotsDistinct
<1>1. QInv => QueueSlotsDistinct
  BY DEF QInv
<1>2. QED
  BY <1>1, QueueInvariant, PTL

-----------------------------------------------------------------------------
(* The baton. *)

BatonStep ==
    \A k \in Ids :
        claims[k].state = "dormant" /\ claims'[k].state = "active" =>
          /\ \A j \in Ids \ {k} : ~IsActivePin(pins', j, claims[k].cid)
          /\ \A j \in Ids \ {k} :
                IsDormant(claims', j, claims[k].cid) => claims[k].slot < claims[j].slot

\* A promotion made while hosts end satisfies BatonStep: the new host was first
\* in its queue when the CID had no pin left.
LEMMA PromotionIsFair ==
    ASSUME QInv,
           NEW S \in SUBSET Ids, NEW s \in PinStatus, NEW V \in SUBSET Ids,
           NEW v \in {"cancelled", "expired"}, NEW cs,
           ReconcileCids(EndPins(S, s), EndClaims(V, v), cs)
    PROVE  BatonStep
<1> DEFINE P == EndPins(S, s)
           C == EndClaims(V, v)
<1>1. /\ C \in [Ids -> Claim] /\ SameQueue(claims, C)
  BY EndClaimsQueue DEF QInv
<1>2. ReconcileCids(P, C, cs) /\ now \in Nat
  BY DEF QInv, TypeOK
<1> HIDE DEF P, C
<1>3. SameQueue(C, claims')
  BY <1>1, <1>2, ReconcileQueue
<1> SUFFICES ASSUME NEW k \in Ids, claims[k].state = "dormant",
                    claims'[k].state = "active"
             PROVE  /\ \A j \in Ids \ {k} : ~IsActivePin(pins', j, claims[k].cid)
                    /\ \A j \in Ids \ {k} : IsDormant(claims', j, claims[k].cid)
                                               => claims[k].slot < claims[j].slot
  BY DEF BatonStep
<1>4. C[k].state # "active"
  BY DEF C, EndClaims, QInv, TypeOK, Claim
<1>5. k \in Heads(P, C, cs)
  BY <1>2, <1>4, ReconcileRows
<1>6. /\ C[k].cid = claims[k].cid
      /\ C[k].state = "dormant"
      /\ ~HasActivePin(P, C[k].cid)
      /\ \A j \in Ids : IsDormant(C, j, C[k].cid) => C[k].slot <= C[j].slot
  BY <1>1, <1>5 DEF Heads, SameQueue
<1>7. /\ \A j \in Ids : C[j].slot = claims[j].slot /\ C[j].cid = claims[j].cid
                        /\ claims[j].slot \in Nat
      /\ \A j \in Ids : C[j].state = "dormant" => claims[j].kind = "guardian"
  BY <1>1 DEF SameQueue, QInv, WaitersAreGuardians, TypeOK, Claim
<1>8. ASSUME NEW j \in Ids \ {k}, IsDormant(C, j, claims[k].cid)
      PROVE  claims[k].slot < claims[j].slot
  <2>1. claims[k].slot <= claims[j].slot
    BY <1>6, <1>7, <1>8
  <2>2. claims[k].slot # claims[j].slot
    BY <1>6, <1>7, <1>8 DEF QInv, QueueSlotsDistinct, IsDormant
  <2>3. QED
    BY <1>7, <2>1, <2>2
<1>9. ASSUME NEW j \in Ids \ {k}, IsActivePin(pins', j, claims[k].cid)
      PROVE  FALSE
  <2>1. CASE pins'[j] = P[j]
    BY <1>6, <1>9, <2>1 DEF HasActivePin, IsActivePin
  <2>2. CASE /\ j \in Heads(P, C, cs)
             /\ pins'[j] = ActivePin(C[j].cid, C[j].owner, now + C[j].pledged)
    <3>1. C[j].cid = claims[k].cid /\ C[j].state = "dormant"
      BY <1>9, <2>2, ActivePinFields DEF Heads, IsActivePin
    <3>2. C[j].slot <= C[k].slot
      BY <1>6, <2>2, <3>1 DEF Heads, IsDormant
    <3>3. claims[k].slot < claims[j].slot
      BY <1>8, <3>1 DEF IsDormant
    <3>4. QED
      BY <1>7, <3>2, <3>3
  <2>3. QED
    BY <1>2, <2>1, <2>2, ReconcileRows
<1>10. \A j \in Ids : IsDormant(claims', j, claims[k].cid) => IsDormant(C, j, claims[k].cid)
  BY <1>3 DEF SameQueue, IsDormant
<1>11. QED
  BY <1>8, <1>9, <1>10

LEMMA BatonStepHolds == QInv /\ [Next]_vars => BatonStep
<1> SUFFICES ASSUME QInv, [Next]_vars PROVE BatonStep
  OBVIOUS
<1>1. ASSUME NEW k \in Ids, NEW c \in Cids, NEW a \in Accounts, NEW h \in Hours,
             Upload(k, c, a, h) \/ OwnCopy(k, c, a, h) \/ Pledge(k, c, a, h)
      PROVE  BatonStep
  <2>1. claims[k].state = "none" /\ \A j \in Ids \ {k} : claims'[j] = claims[j]
    BY <1>1 DEF Upload, OwnCopy, Pledge, Unused, QInv, TypeOK
  <2>2. QED
    BY <2>1 DEF BatonStep
<1>2. ASSUME NEW k \in Ids, NEW h \in Hours, ExtendClaim(k, h)
      PROVE  BatonStep
  <2>1. claims[k].state = "active" /\ \A j \in Ids \ {k} : claims'[j] = claims[j]
    BY <1>2 DEF ExtendClaim, QInv, TypeOK
  <2>2. QED
    BY <2>1 DEF BatonStep
<1>3. CASE claims' = claims
  BY <1>3 DEF BatonStep
<1>4. ASSUME NEW V \in SUBSET Ids, claims' = EndClaims(V, "cancelled")
      PROVE  BatonStep
  <2>1. \A k \in Ids : claims[k].state = "dormant" => claims'[k].state # "active"
    BY <1>4 DEF EndClaims, QInv, TypeOK, Claim
  <2>2. QED
    BY <2>1 DEF BatonStep
<1>5. QED
  BY <1>1, <1>2, <1>3, <1>4, PromotionIsFair, StepKinds DEF QInv

\* A guardian becomes a host only when its CID has no other pin left, and ahead
\* of everyone who is still queued for it.
THEOREM BatonIsFair == Spec => BatonGoesToFirstInLine
<1>1. BatonStep =>
        \A k \in Ids :
          claims[k].state = "dormant" /\ claims'[k].state = "active" =>
            /\ \A j \in Ids \ {k} : ~IsActivePin(pins', j, claims[k].cid)
            /\ \A j \in Ids \ {k} :
                  IsDormant(claims', j, claims[k].cid) => claims[k].slot < claims[j].slot
  BY DEF BatonStep
<1>2. QED
  BY <1>1, BatonStepHolds, QueueInvariant, PTL DEF Spec, BatonGoesToFirstInLine

-----------------------------------------------------------------------------
(* A banned account holds nothing. *)

\* BannedHoldsNothing of a pair of tables: nothing live is in the name of B.
HoldsNothing(P, C, B) ==
    \A k \in Ids :
        /\ C[k].state \in {"active", "dormant"} => C[k].owner \notin B
        /\ P[k].status = "active" => P[k].uploader \notin B

LEMMA BannedIsHoldsNothing ==
    /\ BannedHoldsNothing <=> HoldsNothing(pins, claims, banned)
    /\ BannedHoldsNothing' <=> HoldsNothing(pins', claims', banned')
  BY DEF BannedHoldsNothing, HoldsNothing, Live

\* A promotion gives a queued account what it already held a place for.
LEMMA ReconcileHoldsNothing ==
    ASSUME now \in Nat, NEW P, NEW C \in [Ids -> Claim], NEW cs, NEW B,
           HoldsNothing(P, C, B), ReconcileCids(P, C, cs)
    PROVE  HoldsNothing(pins', claims', B)
<1> SUFFICES ASSUME NEW k \in Ids
             PROVE  /\ claims'[k].state \in {"active", "dormant"}
                         => claims'[k].owner \notin B
                    /\ pins'[k].status = "active" => pins'[k].uploader \notin B
  BY DEF HoldsNothing
<1>1. C[k] \in Claim
  OBVIOUS
<1>2. CASE /\ k \in Heads(P, C, cs)
           /\ pins'[k] = ActivePin(C[k].cid, C[k].owner, now + C[k].pledged)
           /\ claims'[k] = Activated(C[k])
  <2>1. C[k].state = "dormant"
    BY <1>2 DEF Heads
  <2>2. QED
    BY <1>1, <1>2, <2>1, ActivatedClaim, ActivePinFields DEF HoldsNothing
<1>3. CASE pins'[k] = P[k] /\ claims'[k] = C[k]
  BY <1>3 DEF HoldsNothing
<1>4. QED
  BY <1>2, <1>3, ReconcileRows

\* Ending rows gives nobody anything.
LEMMA EndHoldsNothing ==
    ASSUME TypeOK, NEW S, NEW s \in PinStatus \ {"active"},
           NEW V, NEW v \in {"cancelled", "expired"}, NEW B,
           HoldsNothing(pins, claims, B)
    PROVE  HoldsNothing(EndPins(S, s), EndClaims(V, v), B)
<1> SUFFICES ASSUME NEW k \in Ids
             PROVE  /\ EndClaims(V, v)[k].state \in {"active", "dormant"}
                         => EndClaims(V, v)[k].owner \notin B
                    /\ EndPins(S, s)[k].status = "active"
                         => EndPins(S, s)[k].uploader \notin B
  BY DEF HoldsNothing
<1>1. /\ EndClaims(V, v)[k].owner = claims[k].owner
      /\ EndClaims(V, v)[k].state \in {"active", "dormant"}
           => claims[k].state \in {"active", "dormant"}
  BY DEF EndClaims, TypeOK, Claim
<1>2. /\ EndPins(S, s)[k].uploader = pins[k].uploader
      /\ EndPins(S, s)[k].status = "active" => pins[k].status = "active"
  BY DEF EndPins, TypeOK, Pin
<1>3. QED
  BY <1>1, <1>2 DEF HoldsNothing

LEMMA EndReconcileHoldsNothing ==
    ASSUME TypeOK, NEW S, NEW s \in PinStatus \ {"active"},
           NEW V, NEW v \in {"cancelled", "expired"}, NEW cs, NEW B,
           HoldsNothing(EndPins(S, s), EndClaims(V, v), B),
           ReconcileCids(EndPins(S, s), EndClaims(V, v), cs)
    PROVE  HoldsNothing(pins', claims', B)
<1>1. now \in Nat /\ EndClaims(V, v) \in [Ids -> Claim]
  BY EndClaimsType DEF TypeOK, ClaimState
<1>2. QED
  BY <1>1, ReconcileHoldsNothing

LEMMA BannedStep ==
    ASSUME ~StaleChecks, TypeOK, BannedHoldsNothing, [Next]_vars
    PROVE  BannedHoldsNothing'
<1> SUFFICES HoldsNothing(pins', claims', banned')
  BY BannedIsHoldsNothing
<1>0. HoldsNothing(pins, claims, banned)
  BY BannedIsHoldsNothing
<1>1. ASSUME NEW k \in Ids, NEW c \in Cids, NEW a \in Accounts, NEW h \in Hours,
             Upload(k, c, a, h) \/ OrphanPin(k, c, a, h) \/ OwnCopy(k, c, a, h)
               \/ Pledge(k, c, a, h)
      PROVE  HoldsNothing(pins', claims', banned')
  <2>1. a \notin banned /\ banned' = banned
    BY <1>1 DEF Upload, OrphanPin, OwnCopy, Pledge, MayCommit
  <2>2. \A j \in Ids \ {k} : pins'[j] = pins[j] /\ claims'[j] = claims[j]
    BY <1>1 DEF Upload, OrphanPin, OwnCopy, Pledge, TypeOK
  <2>3. claims'[k].owner = a \/ claims'[k] = claims[k]
    BY <1>1 DEF Upload, OrphanPin, OwnCopy, Pledge, TypeOK, ActiveClaim, DormantClaim
  <2>4. pins'[k].uploader = a \/ pins'[k] = pins[k]
    BY <1>1 DEF Upload, OrphanPin, OwnCopy, Pledge, TypeOK, ActivePin
  <2>5. QED
    BY <1>0, <2>1, <2>2, <2>3, <2>4 DEF HoldsNothing
<1>2. ASSUME NEW k \in Ids, NEW h \in Hours, ExtendClaim(k, h)
      PROVE  HoldsNothing(pins', claims', banned')
  <2>1. \A j \in Ids : /\ claims'[j].owner = claims[j].owner
                       /\ claims'[j].state = claims[j].state
    BY <1>2 DEF ExtendClaim, TypeOK, Claim
  <2>2. \A j \in Ids : /\ pins'[j].uploader = pins[j].uploader
                       /\ pins'[j].status = pins[j].status
    BY <1>2 DEF ExtendClaim, TypeOK, Pin
  <2>3. QED
    BY <1>0, <1>2, <2>1, <2>2 DEF HoldsNothing, ExtendClaim
<1>3. ASSUME NEW k \in Ids, CancelDormant(k)
      PROVE  HoldsNothing(pins', claims', banned')
  <2>1. \A j \in Ids : /\ claims'[j].owner = claims[j].owner
                       /\ claims'[j].state \in {"active", "dormant"}
                            => claims[j].state \in {"active", "dormant"}
    BY <1>3 DEF CancelDormant, EndClaims, TypeOK, Claim
  <2>2. QED
    BY <1>0, <1>3, <2>1 DEF HoldsNothing, CancelDormant
<1>4. ASSUME NEW k \in Ids, CancelActive(k)
      PROVE  HoldsNothing(pins', claims', banned')
  <2>1. HoldsNothing(EndPins({k}, "expired"), EndClaims({k}, "cancelled"), banned)
    BY <1>0, EndHoldsNothing DEF PinStatus
  <2>2. /\ ReconcileCids(EndPins({k}, "expired"), EndClaims({k}, "cancelled"),
                         {claims[k].cid})
        /\ banned' = banned
    BY <1>4 DEF CancelActive
  <2>3. QED
    BY <2>1, <2>2, EndReconcileHoldsNothing DEF PinStatus
<1>5. ASSUME NEW c \in Cids, NEW a \in Accounts, RemovePinForUploader(c, a)
      PROVE  HoldsNothing(pins', claims', banned')
  <2>1. \A j \in Ids : /\ pins'[j].uploader = pins[j].uploader
                       /\ pins'[j].status = "active" => pins[j].status = "active"
    BY <1>5 DEF RemovePinForUploader, EndPins, TypeOK, Pin
  <2>2. QED
    BY <1>0, <1>5, <2>1 DEF HoldsNothing, RemovePinForUploader
<1>6. CASE Sweep
  <2> DEFINE late  == {k \in Ids : claims[k].state = "active" /\ claims[k].expiry < now}
             stale == {k \in Ids : pins[k].status = "active"
                                     /\ (k \in late \/ pins[k].expires < now)}
             cs    == {pins[k].cid : k \in stale}
  <2>1. /\ ReconcileCids(EndPins(stale, "expired"), EndClaims(late, "expired"), cs)
        /\ banned' = banned
    BY <1>6 DEF Sweep
  <2> HIDE DEF stale, late, cs
  <2>2. HoldsNothing(EndPins(stale, "expired"), EndClaims(late, "expired"), banned)
    BY <1>0, EndHoldsNothing DEF PinStatus
  <2>3. QED
    BY <2>1, <2>2, EndReconcileHoldsNothing DEF PinStatus
<1>7. ASSUME NEW a \in Accounts, BanAccount(a)
      PROVE  HoldsNothing(pins', claims', banned')
  <2> DEFINE voided == {k \in Ids : Live(k) /\ claims[k].owner = a}
             mine   == {k \in Ids : pins[k].uploader = a}
             cs     == {claims[k].cid : k \in {j \in voided : claims[j].state = "active"}}
  <2>1. /\ ReconcileCids(EndPins(mine, "banned"), EndClaims(voided, "cancelled"), cs)
        /\ banned' = banned \cup {a}
    BY <1>7 DEF BanAccount
  <2>2. ASSUME NEW k \in Ids
        PROVE  /\ EndClaims(voided, "cancelled")[k].state \in {"active", "dormant"}
                    => claims[k].owner # a
               /\ EndPins(mine, "banned")[k].status = "active"
                    => pins[k].uploader # a
    BY DEF EndClaims, EndPins, Live, TypeOK, Claim, Pin
  <2> HIDE DEF voided, mine, cs
  <2>3. HoldsNothing(EndPins(mine, "banned"), EndClaims(voided, "cancelled"), banned)
    BY <1>0, EndHoldsNothing DEF PinStatus
  <2>4. ASSUME NEW k \in Ids
        PROVE  /\ EndClaims(voided, "cancelled")[k].owner = claims[k].owner
               /\ EndPins(mine, "banned")[k].uploader = pins[k].uploader
    BY DEF EndClaims, EndPins, TypeOK, Claim, Pin
  <2>5. HoldsNothing(EndPins(mine, "banned"), EndClaims(voided, "cancelled"), banned')
    BY <2>1, <2>2, <2>3, <2>4 DEF HoldsNothing
  <2>6. QED
    BY <2>1, <2>5, EndReconcileHoldsNothing DEF PinStatus
<1>8. ASSUME NEW c \in Cids, VoidCid(c)
      PROVE  HoldsNothing(pins', claims', banned')
  <2> DEFINE S == {k \in Ids : pins[k].cid = c}
             V == {k \in Ids : Live(k) /\ claims[k].cid = c}
  <2>1. /\ pins' = EndPins(S, "takedown") /\ claims' = EndClaims(V, "cancelled")
        /\ banned' = banned
    BY <1>8 DEF VoidCid
  <2> HIDE DEF S, V
  <2>2. QED
    BY <1>0, <2>1, EndHoldsNothing DEF PinStatus
<1>9. CASE AdminNext
  BY <1>0, <1>7, <1>8, <1>9
     DEF AdminNext, UnbanAccount, TakedownCid, ImportTakedown, UntakedownCid, HoldsNothing
<1>10. CASE UserNext
  BY <1>1, <1>2, <1>3, <1>4, <1>5, <1>10 DEF UserNext
<1>11. CASE Tick \/ UNCHANGED vars
  BY <1>0, <1>11 DEF Tick, vars
<1>12. QED
  BY <1>6, <1>9, <1>10, <1>11 DEF Next

\* When no ban overtakes a request, a banned account has no claim, queued or
\* hosting, and no pin, until it is unbanned: a hand-over gives it nothing
\* either, since the ban ended its place in every queue.
THEOREM BannedAreOut == ~StaleChecks => (Spec => []BannedHoldsNothing)
<1> SUFFICES ASSUME ~StaleChecks PROVE Spec => []BannedHoldsNothing
  OBVIOUS
<1>1. Init => BannedHoldsNothing
  BY DEF Init, BannedHoldsNothing
<1>2. TypeOK /\ BannedHoldsNothing /\ [Next]_vars => BannedHoldsNothing'
  BY BannedStep
<1>3. QED
  BY <1>1, <1>2, TypeCorrect, PTL DEF Spec

-----------------------------------------------------------------------------
(* The baton is never dropped.  What an orphan pin does to a queue is not  *)
(* covered: no pin is without its claim.                                   *)

NoOrphans ==
    \A k \in Ids : claims[k].state = "none" => pins[k].status # "active"

\* Then every active pin belongs to a claim that hosts.
LEMMA PinHasItsClaim ==
    ASSUME IInv, NoOrphans, NEW k \in Ids, pins[k].status = "active"
    PROVE  /\ claims[k].state = "active" /\ claims[k].cid = pins[k].cid
           /\ claims[k].owner = pins[k].uploader
<1>1. claims[k].state = "active"
  BY DEF IInv, NoOrphans, PinMirrorsClaim
<1>2. QED
  BY <1>1, ActiveClaimIsHosted DEF IsActivePin

LEMMA NoOrphansReconcile ==
    ASSUME IInv, NoOrphans, NEW S, NEW s \in PinStatus \ {"active"},
           NEW V, NEW v \in {"cancelled", "expired"}, NEW cs,
           ReconcileCids(EndPins(S, s), EndClaims(V, v), cs)
    PROVE  NoOrphans'
<1> SUFFICES ASSUME NEW k \in Ids, claims'[k].state = "none"
             PROVE  pins'[k].status # "active"
  BY DEF NoOrphans
<1> DEFINE P == EndPins(S, s)
           C == EndClaims(V, v)
<1>1. now \in Nat /\ C \in [Ids -> Claim]
  BY EndClaimsType DEF IInv, TypeOK, ClaimState
<1>2. C[k].state = "none" => claims[k].state = "none"
  BY DEF EndClaims, IInv, TypeOK, Claim
<1>3. P[k].status = "active" => pins[k].status = "active"
  BY DEF EndPins, IInv, TypeOK, Pin
<1>4. ReconcileCids(P, C, cs)
  OBVIOUS
<1> HIDE DEF P, C
<1>5. Activated(C[k]).state = "active"
  BY <1>1, ActivatedClaim
<1>6. claims'[k] = C[k] /\ pins'[k] = P[k]
  BY <1>4, <1>5, ReconcileRows
<1>7. QED
  BY <1>2, <1>3, <1>6 DEF NoOrphans

LEMMA NoOrphansStep ==
    ASSUME MaxOrphans = 0, IInv, NoOrphans, [Next]_vars
    PROVE  NoOrphans'
<1>1. ASSUME NEW k \in Ids, NEW c \in Cids, NEW a \in Accounts, NEW h \in Hours,
             Upload(k, c, a, h) \/ OwnCopy(k, c, a, h) \/ Pledge(k, c, a, h)
      PROVE  NoOrphans'
  <2>1. claims'[k].state # "none"
    BY <1>1 DEF Upload, OwnCopy, Pledge, IInv, TypeOK, ActiveClaim, DormantClaim
  <2>2. \A j \in Ids \ {k} : pins'[j] = pins[j] /\ claims'[j] = claims[j]
    BY <1>1 DEF Upload, OwnCopy, Pledge, IInv, TypeOK
  <2>3. QED
    BY <2>1, <2>2 DEF NoOrphans
<1>2. ASSUME NEW k \in Ids, NEW c \in Cids, NEW a \in Accounts, NEW h \in Hours,
             OrphanPin(k, c, a, h)
      PROVE  FALSE
  <2> DEFINE O == {j \in Ids : Orphan(j)}
  <2>1. IsFiniteSet(O)
    BY LedgerAssumption, FS_Subset
  <2>2. Cardinality(O) \in Nat
    BY <2>1, FS_CardinalityType
  <2>3. Cardinality(O) < 0
    BY <1>2 DEF OrphanPin
  <2>4. QED
    BY <2>2, <2>3
<1>3. ASSUME \A j \in Ids : claims'[j].state = "none" => claims[j].state = "none",
             \A j \in Ids : pins'[j].status = "active" => pins[j].status = "active"
      PROVE  NoOrphans'
  BY <1>3 DEF NoOrphans
<1>4. ASSUME NEW k \in Ids, NEW h \in Hours, ExtendClaim(k, h)
      PROVE  NoOrphans'
  <2>1. \A j \in Ids : claims'[j].state = claims[j].state
    BY <1>4 DEF ExtendClaim, IInv, TypeOK, Claim
  <2>2. \A j \in Ids : pins'[j].status = pins[j].status
    BY <1>4 DEF ExtendClaim, IInv, TypeOK, Pin
  <2>3. QED
    BY <1>3, <2>1, <2>2
<1>5. ASSUME NEW k \in Ids, CancelDormant(k)
      PROVE  NoOrphans'
  <2>1. \A j \in Ids : claims'[j].state = "none" => claims[j].state = "none"
    BY <1>5 DEF CancelDormant, EndClaims, IInv, TypeOK, Claim
  <2>2. QED
    BY <1>3, <1>5, <2>1 DEF CancelDormant
<1>6. ASSUME NEW k \in Ids, CancelActive(k)
      PROVE  NoOrphans'
  BY <1>6, NoOrphansReconcile DEF CancelActive, PinStatus
<1>7. ASSUME NEW c \in Cids, NEW a \in Accounts, RemovePinForUploader(c, a)
      PROVE  NoOrphans'
  <2>1. \A j \in Ids : pins'[j].status = "active" => pins[j].status = "active"
    BY <1>7 DEF RemovePinForUploader, EndPins, IInv, TypeOK, Pin
  <2>2. QED
    BY <1>3, <1>7, <2>1 DEF RemovePinForUploader
<1>8. CASE Sweep
  BY <1>8, NoOrphansReconcile DEF Sweep, PinStatus
<1>9. ASSUME NEW a \in Accounts, BanAccount(a)
      PROVE  NoOrphans'
  BY <1>9, NoOrphansReconcile DEF BanAccount, PinStatus
<1>10. ASSUME NEW c \in Cids, VoidCid(c)
       PROVE  NoOrphans'
  <2>1. \A j \in Ids : claims'[j].state = "none" => claims[j].state = "none"
    BY <1>10 DEF VoidCid, EndClaims, IInv, TypeOK, Claim
  <2>2. \A j \in Ids : pins'[j].status = "active" => pins[j].status = "active"
    BY <1>10 DEF VoidCid, EndPins, IInv, TypeOK, Pin
  <2>3. QED
    BY <1>3, <2>1, <2>2
<1>11. CASE AdminNext
  BY <1>3, <1>9, <1>10, <1>11
     DEF AdminNext, UnbanAccount, TakedownCid, ImportTakedown, UntakedownCid
<1>12. CASE UserNext
  BY <1>1, <1>2, <1>4, <1>5, <1>6, <1>7, <1>12 DEF UserNext
<1>13. CASE Tick \/ UNCHANGED vars
  BY <1>3, <1>13 DEF Tick, vars
<1>14. QED
  BY <1>8, <1>11, <1>12, <1>13 DEF Next

\* The pins of a ledger without orphans, as an invariant.
OInv == IInv /\ NoOrphans

LEMMA OrphanInvariant == MaxOrphans = 0 => (Spec => []OInv)
<1> SUFFICES ASSUME MaxOrphans = 0 PROVE Spec => []OInv
  OBVIOUS
<1>1. Init => NoOrphans
  BY DEF Init, NoOrphans, NoPin
<1>2. IInv /\ NoOrphans /\ [Next]_vars => NoOrphans'
  BY NoOrphansStep
<1>3. QED
  BY <1>1, <1>2, LedgerInvariant, PTL DEF Spec, OInv

\* Every queue that is not empty has a first in line.
LEMMA FirstInLine ==
    ASSUME NEW C \in [Ids -> Claim], NEW c, NEW k \in Ids, IsDormant(C, k, c)
    PROVE  \E m \in Ids : /\ IsDormant(C, m, c)
                          /\ \A j \in Ids : IsDormant(C, j, c) => C[m].slot <= C[j].slot
<1> DEFINE T == {C[j].slot : j \in {i \in Ids : IsDormant(C, i, c)}}
           R == {ss \in Nat \X Nat : ss[1] < ss[2]}
<1>1. \A j \in Ids : C[j].slot \in Nat
  BY DEF Claim
<1>2. T \subseteq Nat /\ C[k].slot \in T
  BY <1>1
<1>3. R = OpToRel(<, Nat)
  BY DEF OpToRel
<1>4. IsWellFoundedOn(R, Nat)
  BY <1>3, NatLessThanWellFounded
<1>5. PICK x \in T : \A y \in T : ~ (<<y, x>> \in R)
  <2> HIDE DEF R, T
  <2>1. T # {} /\ T \subseteq Nat
    BY <1>2
  <2>2. QED
    BY <1>4, <2>1, WFMin
<1>6. PICK m \in Ids : IsDormant(C, m, c) /\ x = C[m].slot
  OBVIOUS
<1>7. ASSUME NEW j \in Ids, IsDormant(C, j, c)
      PROVE  C[m].slot <= C[j].slot
  <2>1. C[j].slot \in T
    BY <1>7
  <2>2. C[j].slot \in Nat /\ C[m].slot \in Nat
    BY <1>1
  <2>3. ~ (<<C[j].slot, C[m].slot>> \in R)
    BY <1>5, <1>6, <2>1
  <2>4. QED
    BY <2>2, <2>3
<1>8. QED
  BY <1>6, <1>7

\* Whoever still waits after a reconciliation has a host, if its CID kept a pin
\* or was among the CIDs that were reconciled.
LEMMA ReconcileServesQueue ==
    ASSUME now \in Nat, NEW P, NEW C \in [Ids -> Claim], NEW cs, Mirrors(P, C),
           ReconcileCids(P, C, cs), NEW c, HasActivePin(P, c) \/ c \in cs,
           NEW k \in Ids, IsDormant(claims', k, c)
    PROVE  HasActivePin(pins', c)
<1>1. IsDormant(C, k, c)
  BY ReconcileQueue DEF SameQueue, IsDormant
<1>2. CASE HasActivePin(P, c)
  <2>1. PICK j \in Ids : IsActivePin(P, j, c)
    BY <1>2 DEF HasActivePin
  <2>2. j \notin Heads(P, C, cs)
    BY <2>1 DEF Heads, Mirrors, IsActivePin
  <2>3. pins'[j] = P[j]
    BY <2>2, ReconcileRows
  <2>4. QED
    BY <2>1, <2>3 DEF HasActivePin, IsActivePin
<1>3. CASE ~HasActivePin(P, c) /\ c \in cs
  <2>1. PICK m \in Ids : /\ IsDormant(C, m, c)
                         /\ \A j \in Ids : IsDormant(C, j, c) => C[m].slot <= C[j].slot
    BY <1>1, FirstInLine
  <2>2. m \in Heads(P, C, cs)
    BY <1>3, <2>1 DEF Heads, IsDormant
  <2>3. pins'[m] = ActivePin(C[m].cid, C[m].owner, now + C[m].pledged)
    BY <2>2, ReconcileRows
  <2>4. QED
    BY <2>1, <2>3, ActivePinFields DEF HasActivePin, IsActivePin, IsDormant
<1>4. QED
  BY <1>2, <1>3

\* The three transactions that end hosts and reconcile: those of its pins that
\* a CID loses, it loses to a transaction that reconciles it.
LEMMA EndServesQueue ==
    ASSUME IInv,
           NEW S \in SUBSET Ids, NEW s \in PinStatus \ {"active"},
           NEW V \in SUBSET Ids, NEW v \in {"cancelled", "expired"}, NEW cs,
           \A i \in V : Live(i),
           \A i \in Ids : claims[i].state = "active" => (i \in S <=> i \in V),
           \A i \in S : pins[i].status = "active" => pins[i].cid \in cs,
           ReconcileCids(EndPins(S, s), EndClaims(V, v), cs),
           NEW c, Hosted(c), NEW k \in Ids, IsDormant(claims', k, c)
    PROVE  HasActivePin(pins', c)
<1> DEFINE P == EndPins(S, s)
           C == EndClaims(V, v)
<1>1. now \in Nat /\ C \in [Ids -> Claim]
  BY EndClaimsType DEF IInv, TypeOK, ClaimState
<1>2. Mirrors(P, C)
  BY EndTogetherMirrors
<1>3. PICK i \in Ids : IsActivePin(pins, i, c)
  BY DEF Hosted, HasActivePin
<1>4. HasActivePin(P, c) \/ c \in cs
  <2>1. CASE i \in S
    BY <1>3, <2>1 DEF IsActivePin
  <2>2. CASE i \notin S
    <3>1. P[i] = pins[i]
      BY <2>2 DEF EndPins
    <3>2. QED
      BY <1>3, <3>1 DEF HasActivePin, IsActivePin
  <2>3. QED
    BY <2>1, <2>2
<1>5. ReconcileCids(P, C, cs)
  OBVIOUS
<1> HIDE DEF P, C
<1>6. QED
  BY <1>1, <1>2, <1>4, <1>5, ReconcileServesQueue

\* No step leaves somebody waiting for a CID that it takes the last host from.
LEMMA ServedStep ==
    ASSUME OInv, [Next]_vars, NEW c, Hosted(c), NEW k \in Ids,
           IsDormant(claims', k, c)
    PROVE  HasActivePin(pins', c)
<1> USE DEF OInv
<1>1. PICK i \in Ids : IsActivePin(pins, i, c)
  BY DEF Hosted, HasActivePin
<1>2. claims[i].state = "active" /\ claims[i].cid = c
  BY <1>1, PinHasItsClaim DEF IsActivePin
<1>3. ASSUME NEW j \in Ids, NEW d \in Cids, NEW a \in Accounts, NEW h \in Hours,
             Upload(j, d, a, h) \/ OrphanPin(j, d, a, h) \/ OwnCopy(j, d, a, h)
               \/ Pledge(j, d, a, h)
      PROVE  HasActivePin(pins', c)
  <2>1. i # j
    BY <1>1, <1>3 DEF Upload, OrphanPin, OwnCopy, Pledge, Unused, IsActivePin
  <2>2. pins'[i] = pins[i]
    BY <1>3, <2>1 DEF Upload, OrphanPin, OwnCopy, Pledge, IInv, TypeOK
  <2>3. QED
    BY <1>1, <2>2 DEF HasActivePin, IsActivePin
<1>4. ASSUME NEW j \in Ids, NEW h \in Hours, ExtendClaim(j, h)
      PROVE  HasActivePin(pins', c)
  <2>1. pins'[i].status = pins[i].status /\ pins'[i].cid = pins[i].cid
    BY <1>4 DEF ExtendClaim, IInv, TypeOK, Pin
  <2>2. QED
    BY <1>1, <2>1 DEF HasActivePin, IsActivePin
<1>5. ASSUME pins' = pins
      PROVE  HasActivePin(pins', c)
  BY <1>1, <1>5 DEF HasActivePin
<1>6. ASSUME NEW j \in Ids, CancelActive(j)
      PROVE  HasActivePin(pins', c)
  <2> DEFINE S == {j}
             cs == {claims[j].cid}
  <2>1. ReconcileCids(EndPins(S, "expired"), EndClaims(S, "cancelled"), cs)
    BY <1>6 DEF CancelActive
  <2>2. S \in SUBSET Ids /\ \A x \in S : Live(x)
    BY <1>6 DEF CancelActive, Live
  <2>3. \A x \in S : pins[x].status = "active" => pins[x].cid \in cs
    BY PinHasItsClaim
  <2> HIDE DEF S, cs
  <2>4. QED
    BY <2>1, <2>2, <2>3, EndServesQueue DEF PinStatus
<1>7. ASSUME NEW d \in Cids, NEW a \in Accounts, RemovePinForUploader(d, a)
      PROVE  FALSE
  <2>1. PICK x \in Ids : IsActivePin(pins, x, d) /\ pins[x].uploader = a
    BY <1>7 DEF RemovePinForUploader
  <2>2. claims[x].state = "active" /\ claims[x].cid = d /\ claims[x].owner = a
    BY <2>1, PinHasItsClaim DEF IsActivePin
  <2>3. QED
    BY <1>7, <2>2 DEF RemovePinForUploader
<1>8. CASE Sweep
  <2> DEFINE late  == {x \in Ids : claims[x].state = "active" /\ claims[x].expiry < now}
             stale == {x \in Ids : pins[x].status = "active"
                                     /\ (x \in late \/ pins[x].expires < now)}
             cs    == {pins[x].cid : x \in stale}
  <2>1. ReconcileCids(EndPins(stale, "expired"), EndClaims(late, "expired"), cs)
    BY <1>8 DEF Sweep
  <2>2. \A x \in Ids : claims[x].state = "active" => (x \in stale <=> x \in late)
    BY ActiveClaimIsHosted DEF IsActivePin
  <2>3. /\ stale \in SUBSET Ids /\ late \in SUBSET Ids
        /\ \A x \in late : Live(x)
        /\ \A x \in stale : pins[x].status = "active" => pins[x].cid \in cs
    BY DEF Live
  <2> HIDE DEF stale, late, cs
  <2>4. QED
    BY <2>1, <2>2, <2>3, EndServesQueue DEF PinStatus
<1>9. ASSUME NEW a \in Accounts, BanAccount(a)
      PROVE  HasActivePin(pins', c)
  <2> DEFINE voided == {x \in Ids : Live(x) /\ claims[x].owner = a}
             mine   == {x \in Ids : pins[x].uploader = a}
             cs     == {claims[x].cid : x \in {j \in voided : claims[j].state = "active"}}
  <2>1. ReconcileCids(EndPins(mine, "banned"), EndClaims(voided, "cancelled"), cs)
    BY <1>9 DEF BanAccount
  <2>2. \A x \in Ids : claims[x].state = "active" => (x \in mine <=> x \in voided)
    BY ActiveClaimIsHosted DEF Live
  <2>3. ASSUME NEW x \in mine, pins[x].status = "active"
        PROVE  pins[x].cid \in cs
    <3>1. claims[x].state = "active" /\ claims[x].cid = pins[x].cid
          /\ claims[x].owner = pins[x].uploader
      BY <2>3, PinHasItsClaim
    <3>2. x \in {j \in voided : claims[j].state = "active"}
      BY <2>3, <3>1 DEF Live
    <3>3. QED
      BY <3>1, <3>2
  <2>4. mine \in SUBSET Ids /\ voided \in SUBSET Ids /\ \A x \in voided : Live(x)
    OBVIOUS
  <2> HIDE DEF mine, voided, cs
  <2>5. QED
    BY <2>1, <2>2, <2>3, <2>4, EndServesQueue DEF PinStatus
<1>10. ASSUME NEW d \in Cids, VoidCid(d)
       PROVE  HasActivePin(pins', c)
  <2>1. claims[k].cid = claims'[k].cid /\ claims[k].state = "dormant"
        /\ ~(Live(k) /\ claims[k].cid = d)
    BY <1>10 DEF VoidCid, EndClaims, IsDormant, IInv, TypeOK, Claim
  <2>2. c # d
    BY <2>1 DEF IsDormant, Live
  <2>3. pins'[i] = pins[i]
    BY <1>1, <1>10, <2>2 DEF VoidCid, EndPins, IsActivePin
  <2>4. QED
    BY <1>1, <2>3 DEF HasActivePin, IsActivePin
<1>11. CASE AdminNext
  BY <1>5, <1>9, <1>10, <1>11
     DEF AdminNext, UnbanAccount, TakedownCid, ImportTakedown, UntakedownCid
<1>12. CASE UserNext
  BY <1>3, <1>4, <1>5, <1>6, <1>7, <1>12 DEF UserNext, CancelDormant
<1>13. CASE Tick \/ UNCHANGED vars
  BY <1>5, <1>13 DEF Tick, vars
<1>14. QED
  BY <1>8, <1>11, <1>12, <1>13 DEF Next

\* When the last host of a CID ends, whichever way, nobody is left waiting in
\* its queue, also when requests are overtaken between check and commit: the
\* first in line hosts, or the whole queue was voided.
THEOREM BatonIsKept == MaxOrphans = 0 => (Spec => BatonIsNeverDropped)
<1> SUFFICES ASSUME MaxOrphans = 0 PROVE Spec => BatonIsNeverDropped
  OBVIOUS
<1>1. OInv /\ [Next]_vars =>
        \A c \in Cids : Hosted(c) /\ ~HasActivePin(pins', c) =>
          \A k \in Ids : ~IsDormant(claims', k, c)
  BY ServedStep
<1>2. QED
  BY <1>1, OrphanInvariant, PTL DEF Spec, BatonIsNeverDropped

\* When a pledge's host cannot end before the pledge commits, every queued
\* guardian waits behind somebody who hosts.
THEOREM QueuesHaveHosts ==
    ~StaleChecks /\ MaxOrphans = 0 => (Spec => []NobodyQueuesBehindNothing)
<1> SUFFICES ASSUME ~StaleChecks, MaxOrphans = 0
             PROVE  Spec => []NobodyQueuesBehindNothing
  OBVIOUS
<1>1. Init => NobodyQueuesBehindNothing
  BY DEF Init, NobodyQueuesBehindNothing, NoClaim
<1>2. ASSUME OInv, NobodyQueuesBehindNothing, [Next]_vars
      PROVE  NobodyQueuesBehindNothing'
  <2> SUFFICES ASSUME NEW k \in Ids, claims'[k].state = "dormant"
               PROVE  HasActivePin(pins', claims'[k].cid)
    BY DEF NobodyQueuesBehindNothing, Hosted
  <2> DEFINE c == claims'[k].cid
  <2>1. CASE claims[k].state = "dormant" /\ claims[k].cid = c
    <3>1. Hosted(c) /\ IsDormant(claims', k, c)
      BY <1>2, <2>1 DEF NobodyQueuesBehindNothing, IsDormant
    <3> HIDE DEF c
    <3>2. HasActivePin(pins', c)
      BY <1>2, <3>1, ServedStep
    <3>3. QED
      BY <3>2 DEF c
  <2>2. CASE ~(claims[k].state = "dormant" /\ claims[k].cid = c)
    <3>1. PICK d \in Cids, a \in Accounts, h \in Hours : Pledge(k, d, a, h)
      <4>1. TypeOK
        BY <1>2 DEF OInv, IInv
      <4>2. ~SameQueue(claims, claims')
        BY <2>2 DEF SameQueue
      <4>3. ASSUME NEW j \in Ids, NEW d \in Cids, NEW a \in Accounts, NEW h \in Hours,
                   Upload(j, d, a, h) \/ OwnCopy(j, d, a, h)
            PROVE  FALSE
        <5>1. claims'[j].state = "active" /\ \A i \in Ids \ {j} : claims'[i] = claims[i]
          BY <4>1, <4>3 DEF Upload, OwnCopy, TypeOK, ActiveClaim
        <5>2. QED
          BY <2>2, <5>1
      <4>4. ASSUME NEW j \in Ids, NEW h \in Hours, ExtendClaim(j, h)
            PROVE  FALSE
        <5>1. SameQueue(claims, claims')
          BY <4>1, <4>4 DEF ExtendClaim, SameQueue, TypeOK, Claim
        <5>2. QED
          BY <4>2, <5>1
      <4>5. ASSUME NEW S \in SUBSET Ids, NEW s \in PinStatus, NEW V \in SUBSET Ids,
                   NEW v \in {"cancelled", "expired"}, NEW cs \in SUBSET (Cids \cup {Nil}),
                   ReconcileCids(EndPins(S, s), EndClaims(V, v), cs)
            PROVE  FALSE
        <5>1. SameQueue(claims, EndClaims(V, v)) /\ EndClaims(V, v) \in [Ids -> Claim]
          BY <4>1, EndClaimsQueue
        <5>2. SameQueue(EndClaims(V, v), claims')
          BY <4>1, <4>5, <5>1, ReconcileQueue DEF TypeOK
        <5>3. QED
          BY <4>2, <5>1, <5>2 DEF SameQueue
      <4>6. ASSUME NEW V \in SUBSET Ids, claims' = EndClaims(V, "cancelled")
            PROVE  FALSE
        BY <4>1, <4>2, <4>6, EndClaimsQueue
      <4>7. ASSUME NEW j \in Ids, NEW d \in Cids, NEW a \in Accounts, NEW h \in Hours,
                   Pledge(j, d, a, h)
            PROVE  j = k
        <5>1. \A i \in Ids \ {j} : claims'[i] = claims[i]
          BY <4>1, <4>7 DEF Pledge, TypeOK
        <5>2. QED
          BY <2>2, <5>1
      <4>8. claims' # claims
        BY <2>2
      <4>9. QED
        BY <1>2, <4>1, <4>3, <4>4, <4>5, <4>6, <4>7, <4>8, StepKinds
    <3>2. HasActivePin(pins, d) /\ pins' = pins
      BY <3>1 DEF Pledge
    <3>3. claims'[k].cid = d
      BY <1>2, <3>1 DEF Pledge, DormantClaim, OInv, IInv, TypeOK
    <3>4. QED
      BY <3>2, <3>3
  <2>3. QED
    BY <2>1, <2>2
<1>3. QED
  BY <1>1, <1>2, OrphanInvariant, PTL DEF Spec

-----------------------------------------------------------------------------
(* The ledger implements the hosting queue.                                 *)

\* The baton of the hosting queue, read in the rows.
BatonOf(c, gone) ==
    {k \in Ids :
        /\ HostsOf(c) # {} /\ HostsOf(c) \ gone = {}
        /\ k \in LineOf(c) \ gone
        /\ \A j \in LineOf(c) \ gone : <<j, k>> \notin AheadOf(c)}

LEMMA BatonInRows ==
    ASSUME NEW c \in Cids, NEW gone
    PROVE  Queue!Baton(c, gone) = BatonOf(c, gone)
  BY DEF BatonOf, LineOf, Queue!Baton, Queue!First, Queue!Stay, Queue!Rest

\* A step of the ledger is a leave of the queue when each file's rows change as
\* its hosts and its line do.
LEMMA LeaveInRows ==
    ASSUME NEW gone \in SUBSET Ids, gone # {},
           \A k \in gone : \E c \in Cids : k \in HostsOf(c) \/ k \in LineOf(c),
           Over' = Over \cup gone,
           \A c \in Cids :
              /\ HostsOf(c)' = (HostsOf(c) \ gone) \cup BatonOf(c, gone)
              /\ LineOf(c)' = (LineOf(c) \ gone) \ BatonOf(c, gone)
              /\ AheadOf(c)' = {p \in AheadOf(c) : p[1] \in LineOf(c)' /\ p[2] \in LineOf(c)'}
    PROVE  Queue!Leave(gone)
<1>1. \A k \in gone : Queue!Present(k)
  BY DEF Queue!Present
<1>2. \A c \in Cids : Queue!Baton(c, gone) = BatonOf(c, gone)
  BY BatonInRows
<1>3. \A c \in Cids : /\ Queue!Stay(c, gone) = HostsOf(c) \ gone
                      /\ Queue!Rest(c, gone) = LineOf(c) \ gone
  BY DEF Queue!Stay, Queue!Rest
<1>4. [c \in Cids |-> HostsOf(c)'] = [c \in Cids |-> Queue!Stay(c, gone) \cup Queue!Baton(c, gone)]
  BY <1>2, <1>3
<1>5. [c \in Cids |-> LineOf(c)'] = [c \in Cids |-> Queue!Rest(c, gone) \ Queue!Baton(c, gone)]
  BY <1>2, <1>3
<1>6. [c \in Cids |-> AheadOf(c)'] =
        [c \in Cids |-> {p \in [d \in Cids |-> AheadOf(d)][c] :
              /\ p[1] \in [d \in Cids |-> LineOf(d)'][c]
              /\ p[2] \in [d \in Cids |-> LineOf(d)'][c]}]
  OBVIOUS
<1>7. QED
  BY <1>1, <1>4, <1>5, <1>6 DEF Queue!Leave

\* The queue does not see a step that keeps each row's state, file and position.
SameRows == \A k \in Ids : /\ claims'[k].state = claims[k].state
                           /\ claims'[k].cid = claims[k].cid
                           /\ claims'[k].slot = claims[k].slot

LEMMA SameRowsStutter ==
    ASSUME SameRows
    PROVE  UNCHANGED Queue!vars
<1>1. \A c \in Cids : HostsOf(c)' = HostsOf(c)
  BY DEF SameRows, HostsOf
<1>2. \A c \in Cids : LineOf(c)' = LineOf(c)
  BY DEF SameRows, LineOf, IsDormant
<1>3. ASSUME NEW c \in Cids
      PROVE  AheadOf(c)' = AheadOf(c)
  <2>1. LineOf(c)' = LineOf(c) /\ LineOf(c) \subseteq Ids
    BY <1>2 DEF LineOf
  <2>2. QED
    BY <2>1 DEF SameRows, AheadOf
<1>4. Over' = Over
  BY DEF SameRows, Over
<1>5. QED
  BY <1>1, <1>2, <1>3, <1>4 DEF Queue!vars

LEMMA RowsStart == Init => Queue!Init
<1> SUFFICES ASSUME Init PROVE Queue!Init
  OBVIOUS
<1>1. \A k \in Ids : claims[k].state = "none"
  BY DEF Init, NoClaim
<1>2. \A c \in Cids : HostsOf(c) = {} /\ LineOf(c) = {}
  BY <1>1 DEF HostsOf, LineOf, IsDormant
<1>3. \A c \in Cids : AheadOf(c) = {}
  BY <1>2 DEF AheadOf
<1>4. Over = {}
  BY <1>1 DEF Over
<1>5. QED
  BY <1>2, <1>3, <1>4 DEF Queue!Init

\* Only files have claims.
ClaimsNameFiles == \A k \in Ids : Live(k) => claims[k].cid \in Cids

\* In which row a step fills in a claim and what it leaves in the others.
LEMMA FilledRow ==
    ASSUME TypeOK, NEW k \in Ids, Unused(k), NEW r \in Claim,
           claims' = [claims EXCEPT ![k] = r]
    PROVE  /\ claims[k].state = "none" /\ claims'[k] = r
           /\ \A j \in Ids \ {k} : claims'[j] = claims[j]
  BY DEF TypeOK, Unused

\* A claim that hosts from its first day joins the hosts.
LEMMA JoinStep ==
    ASSUME TypeOK, NEW k \in Ids, NEW c \in Cids, NEW r \in Claim, Unused(k),
           r.state = "active", r.cid = c, claims' = [claims EXCEPT ![k] = r]
    PROVE  Queue!Join(k, c)
<1>1. /\ claims[k].state = "none" /\ claims'[k] = r
      /\ \A j \in Ids \ {k} : claims'[j] = claims[j]
  BY FilledRow
<1>2. Queue!New(k)
  BY <1>1 DEF Queue!New, Queue!Present, HostsOf, LineOf, IsDormant, Over
<1>3. HostsOf(c)' = HostsOf(c) \cup {k}
  BY <1>1 DEF HostsOf
<1>4. \A d \in Cids \ {c} : HostsOf(d)' = HostsOf(d)
  BY <1>1 DEF HostsOf
<1>5. ASSUME NEW d \in Cids
      PROVE  LineOf(d)' = LineOf(d) /\ k \notin LineOf(d)
  BY <1>1 DEF LineOf, IsDormant
<1>6. ASSUME NEW d \in Cids
      PROVE  AheadOf(d)' = AheadOf(d)
  <2>1. LineOf(d)' = LineOf(d) /\ LineOf(d) \subseteq Ids \ {k}
    BY <1>5 DEF LineOf
  <2>2. QED
    BY <1>1, <2>1 DEF AheadOf
<1>7. Over' = Over
  BY <1>1 DEF Over
<1>8. [d \in Cids |-> HostsOf(d)'] =
        [[d \in Cids |-> HostsOf(d)] EXCEPT ![c] = @ \cup {k}]
  BY <1>3, <1>4
<1>9. QED
  BY <1>2, <1>5, <1>6, <1>7, <1>8 DEF Queue!Join

\* A pledge goes to the end of the line: everyone queued has a smaller position.
LEMMA GuardStep ==
    ASSUME OInv, WaitersAreGuardians, NEW k \in Ids, NEW c \in Cids,
           NEW a \in Accounts, NEW h \in Hours, Pledge(k, c, a, h)
    PROVE  Queue!Guard(k, c)
<1>1. PICK s \in 1..Cardinality(Ids) :
           /\ IsNextPledgeOrder(c, s)
           /\ claims' = [claims EXCEPT ![k] = DormantClaim(c, a, h, s)]
  BY DEF Pledge
<1>2. TypeOK
  BY DEF OInv, IInv
<1>3. /\ claims'[k].state = "dormant" /\ claims'[k].cid = c /\ claims'[k].slot = s
      /\ \A j \in Ids \ {k} : claims'[j] = claims[j]
      /\ claims[k].state = "none"
  BY <1>1, <1>2 DEF DormantClaim, TypeOK, Pledge, Unused
<1>4. s \in Nat /\ \A j \in Ids : claims[j].slot \in Nat
  BY <1>2, NextPledgeOrderType DEF TypeOK, Claim
<1>5. LineOf(c) \subseteq Ids \ {k}
  BY <1>3 DEF LineOf, IsDormant
<1>6. \A j \in LineOf(c) : claims[j].slot < s
  BY <1>1 DEF LineOf, IsDormant, IsNextPledgeOrder, WaitersAreGuardians
<1>7. Queue!New(k)
  BY <1>3 DEF Queue!New, Queue!Present, HostsOf, LineOf, IsDormant, Over
<1>8. HostsOf(c) # {} \/ StaleChecks
  <2>1. CASE HasActivePin(pins, c)
    <3>1. PICK i \in Ids : pins[i].status = "active" /\ pins[i].cid = c
      BY <2>1 DEF HasActivePin, IsActivePin
    <3>2. i \in HostsOf(c)
      BY <3>1, PinHasItsClaim DEF HostsOf, OInv
    <3>3. QED
      BY <3>2
  <2>2. QED
    BY <2>1 DEF Pledge
<1>9. ASSUME NEW d \in Cids
      PROVE  HostsOf(d)' = HostsOf(d)
  BY <1>3 DEF HostsOf
<1>10. Over' = Over
  BY <1>3 DEF Over
<1>11. LineOf(c)' = LineOf(c) \cup {k}
  BY <1>3 DEF LineOf, IsDormant
<1>12. \A d \in Cids \ {c} : LineOf(d)' = LineOf(d) /\ k \notin LineOf(d)
  BY <1>3 DEF LineOf, IsDormant
<1>13. ASSUME NEW d \in Cids \ {c}
       PROVE  AheadOf(d)' = AheadOf(d)
  <2>1. LineOf(d)' = LineOf(d) /\ LineOf(d) \subseteq Ids \ {k}
    BY <1>12 DEF LineOf
  <2>2. QED
    BY <1>3, <2>1 DEF AheadOf
<1>14. AheadOf(c)' = AheadOf(c) \cup (LineOf(c) \X {k})
  <2>1. ASSUME NEW i \in LineOf(c) \cup {k}, NEW j \in LineOf(c) \cup {k}
        PROVE  claims'[i].slot < claims'[j].slot <=>
                 \/ i \in LineOf(c) /\ j \in LineOf(c) /\ claims[i].slot < claims[j].slot
                 \/ i \in LineOf(c) /\ j = k
    <3>1. CASE i \in LineOf(c) /\ j \in LineOf(c)
      BY <1>3, <1>5, <3>1
    <3>2. CASE i \in LineOf(c) /\ j = k
      BY <1>3, <1>4, <1>5, <1>6, <3>2
    <3>3. CASE i = k /\ j \in LineOf(c)
      BY <1>3, <1>4, <1>5, <1>6, <3>3
    <3>4. CASE i = k /\ j = k
      BY <1>3, <1>4, <1>5, <3>4
    <3>5. QED
      BY <3>1, <3>2, <3>3, <3>4
  <2>2. QED
    BY <1>11, <2>1 DEF AheadOf
<1>15. [d \in Cids |-> LineOf(d)'] =
         [[d \in Cids |-> LineOf(d)] EXCEPT ![c] = @ \cup {k}]
  BY <1>11, <1>12
<1>16. [d \in Cids |-> AheadOf(d)'] =
         [[d \in Cids |-> AheadOf(d)] EXCEPT
            ![c] = @ \cup ([d \in Cids |-> LineOf(d)][c] \X {k})]
  BY <1>13, <1>14
<1>17. QED
  BY <1>7, <1>8, <1>9, <1>10, <1>15, <1>16 DEF Queue!Guard

\* What the three transactions that end hosts and reconcile have in common: V is
\* the claims they end, S the pins, cs the files that lose a claim that hosted.
EndsTogether(S, V, cs) ==
    /\ \A i \in V : Live(i)
    /\ \A i \in Ids : claims[i].state = "active" => (i \in S <=> i \in V)
    /\ \A i \in V : claims[i].state = "active" => claims[i].cid \in cs
    /\ \A c \in cs : \E i \in V : claims[i].state = "active" /\ claims[i].cid = c

\* The guardians that reconcileCidAfterEnd promotes are the ones the queue hands
\* the baton to: a file has no pin left exactly when all its hosts are gone, and
\* the smallest position is the one nobody is ahead of.
LEMMA HeadsAreBatons ==
    ASSUME OInv, WaitersAreGuardians,
           NEW S \in SUBSET Ids, NEW s \in PinStatus \ {"active"},
           NEW V \in SUBSET Ids, NEW v \in {"cancelled", "expired"}, NEW cs,
           EndsTogether(S, V, cs), NEW c \in Cids, NEW k \in Ids
    PROVE  k \in BatonOf(c, V) <=>
             k \in Heads(EndPins(S, s), EndClaims(V, v), cs) /\ claims[k].cid = c
<1> DEFINE P == EndPins(S, s)
           C == EndClaims(V, v)
<1>1. TypeOK /\ IInv /\ NoOrphans
  BY DEF OInv, IInv
<1>2. \A j \in Ids : claims[j].slot \in Nat /\ claims[j].state \in ClaimState
  BY <1>1 DEF TypeOK, Claim
<1>3. /\ \A j \in Ids : C[j].cid = claims[j].cid /\ C[j].slot = claims[j].slot
      /\ \A j \in Ids : C[j].state = "dormant" <=> claims[j].state = "dormant" /\ j \notin V
  BY <1>1 DEF EndClaims, TypeOK, Claim
<1>4. \A j \in Ids : IsDormant(C, j, c) <=> j \in LineOf(c) \ V
  BY <1>3 DEF IsDormant, LineOf
<1>5. HasActivePin(P, c) <=> HostsOf(c) \ V # {}
  <2>1. ASSUME NEW j \in Ids
        PROVE  IsActivePin(P, j, c) <=> j \in HostsOf(c) \ V
    <3>1. P[j].status = "active" <=> pins[j].status = "active" /\ j \notin S
      BY <1>1 DEF EndPins, TypeOK, Pin
    <3>2. P[j].cid = pins[j].cid
      BY <1>1 DEF EndPins, TypeOK, Pin
    <3>3. CASE claims[j].state = "active"
      <4>1. pins[j].status = "active" /\ pins[j].cid = claims[j].cid
        BY <1>1, <3>3, ActiveClaimIsHosted DEF IsActivePin
      <4>2. j \in S <=> j \in V
        BY <3>3 DEF EndsTogether
      <4>3. QED
        BY <3>1, <3>2, <3>3, <4>1, <4>2 DEF IsActivePin, HostsOf
    <3>4. CASE claims[j].state # "active"
      <4>1. pins[j].status # "active"
        BY <1>1, <3>4, PinHasItsClaim
      <4>2. QED
        BY <3>1, <3>4, <4>1 DEF IsActivePin, HostsOf
    <3>5. QED
      BY <3>3, <3>4
  <2>2. HostsOf(c) \subseteq Ids
    BY DEF HostsOf
  <2> HIDE DEF P
  <2>3. QED
    BY <2>1, <2>2 DEF HasActivePin
<1>6. c \in cs <=> \E i \in V : i \in HostsOf(c)
  BY DEF EndsTogether, HostsOf
<1>7. ASSUME NEW i \in Ids, NEW j \in Ids, i \in LineOf(c), j \in LineOf(c)
      PROVE  <<j, i>> \notin AheadOf(c) <=> claims[i].slot <= claims[j].slot
  BY <1>2, <1>7 DEF AheadOf
<1>8. k \in Heads(P, C, cs) /\ claims[k].cid = c <=>
        /\ k \in LineOf(c) \ V
        /\ c \in cs
        /\ ~HasActivePin(P, c)
        /\ \A j \in Ids : j \in LineOf(c) \ V => claims[k].slot <= claims[j].slot
  <2> HIDE DEF P, C
  <2>1. k \in Heads(P, C, cs) /\ claims[k].cid = c <=>
          /\ C[k].state = "dormant" /\ C[k].cid = c
          /\ c \in cs
          /\ ~HasActivePin(P, c)
          /\ \A j \in Ids : IsDormant(C, j, c) => C[k].slot <= C[j].slot
    BY <1>3 DEF Heads
  <2>2. C[k].state = "dormant" /\ C[k].cid = c <=> k \in LineOf(c) \ V
    BY <1>4 DEF IsDormant
  <2>3. QED
    BY <1>3, <1>4, <2>1, <2>2
<1>9. HostsOf(c) # {} /\ HostsOf(c) \ V = {} <=> c \in cs /\ ~HasActivePin(P, c)
  <2> HIDE DEF P
  <2>1. QED
    BY <1>5, <1>6
<1>10. LineOf(c) \subseteq Ids
  BY DEF LineOf
<1>11. k \in LineOf(c) =>
         ((\A j \in LineOf(c) \ V : <<j, k>> \notin AheadOf(c)) <=>
          (\A j \in Ids : j \in LineOf(c) \ V => claims[k].slot <= claims[j].slot))
  BY <1>7, <1>10
<1> HIDE DEF P, C
<1>12. k \in BatonOf(c, V) <=>
        /\ HostsOf(c) # {} /\ HostsOf(c) \ V = {}
        /\ k \in LineOf(c) \ V
        /\ \A j \in LineOf(c) \ V : <<j, k>> \notin AheadOf(c)
  BY DEF BatonOf
<1>13. k \in BatonOf(c, V) <=> k \in Heads(P, C, cs) /\ claims[k].cid = c
  BY <1>8, <1>9, <1>11, <1>12
<1>14. QED
  BY <1>13 DEF P, C

\* A transaction that ends hosts and reconciles is one leave of the queue.
LEMMA ReconcileIsLeave ==
    ASSUME OInv, WaitersAreGuardians, ClaimsNameFiles,
           NEW S \in SUBSET Ids, NEW s \in PinStatus \ {"active"},
           NEW V \in SUBSET Ids, NEW v \in {"cancelled", "expired"}, NEW cs,
           EndsTogether(S, V, cs),
           ReconcileCids(EndPins(S, s), EndClaims(V, v), cs)
    PROVE  Queue!Leave(V) \/ UNCHANGED Queue!vars
<1> DEFINE C == EndClaims(V, v)
           H == Heads(EndPins(S, s), C, cs)
<1>1. TypeOK /\ now \in Nat
  BY DEF OInv, IInv, TypeOK
<1>2. C \in [Ids -> Claim]
  BY <1>1, EndClaimsType DEF ClaimState
<1>3. ASSUME NEW k \in Ids
      PROVE  /\ k \in V => k \notin H /\ claims'[k].state = v
             /\ k \notin V /\ k \notin H => claims'[k].state = claims[k].state
             /\ k \in H => k \notin V /\ claims[k].state = "dormant"
                                      /\ claims'[k].state = "active"
             /\ claims'[k].cid = claims[k].cid /\ claims'[k].slot = claims[k].slot
  <2>1. /\ k \in V => C[k].state = v
        /\ k \notin V => C[k].state = claims[k].state
        /\ C[k].cid = claims[k].cid /\ C[k].slot = claims[k].slot
    BY <1>1 DEF EndClaims, TypeOK, Claim
  <2>2. k \in H => C[k].state = "dormant"
    BY DEF Heads
  <2>3. k \in H => k \notin V /\ claims[k].state = "dormant"
    BY <2>1, <2>2
  <2>4. /\ k \in H => claims'[k] = Activated(C[k])
        /\ k \notin H => claims'[k] = C[k]
    BY ReconcileRows
  <2>5. /\ Activated(C[k]).state = "active"
        /\ Activated(C[k]).cid = C[k].cid /\ Activated(C[k]).slot = C[k].slot
    BY <1>1, <1>2, ActivatedClaim
  <2> HIDE DEF C, H
  <2>6. QED
    BY <2>1, <2>3, <2>4, <2>5
<1>4. \A c \in Cids, k \in Ids : k \in BatonOf(c, V) <=> k \in H /\ claims[k].cid = c
  BY HeadsAreBatons
<1> HIDE DEF C, H
<1>5. CASE V = {}
  <2>1. cs = {}
    BY <1>5 DEF EndsTogether
  <2>2. H = {}
    BY <2>1 DEF H, Heads
  <2>3. SameRows
    BY <1>3, <1>5, <2>2 DEF SameRows
  <2>4. QED
    BY <2>3, SameRowsStutter
<1>6. CASE V # {}
  <2>1. \A k \in V : \E c \in Cids : k \in HostsOf(c) \/ k \in LineOf(c)
    BY DEF EndsTogether, Live, ClaimsNameFiles, HostsOf, LineOf, IsDormant
  <2>2. ASSUME NEW k \in Ids
        PROVE  k \in Over' <=> k \in Over \/ k \in V
    BY <1>3 DEF Over
  <2>3. Over' = Over \cup V
    BY <2>2 DEF Over
  <2>4. ASSUME NEW c \in Cids
        PROVE  HostsOf(c)' = (HostsOf(c) \ V) \cup BatonOf(c, V)
    <3>1. ASSUME NEW k \in Ids
          PROVE  k \in HostsOf(c)' <=> (k \in HostsOf(c) /\ k \notin V) \/ k \in BatonOf(c, V)
      <4>1. k \in BatonOf(c, V) <=> k \in H /\ claims[k].cid = c
        BY <1>4
      <4>2. QED
        BY <1>3, <4>1 DEF HostsOf
    <3>2. BatonOf(c, V) \subseteq Ids /\ HostsOf(c) \subseteq Ids /\ HostsOf(c)' \subseteq Ids
      BY DEF BatonOf, HostsOf
    <3>3. QED
      BY <3>1, <3>2
  <2>5. ASSUME NEW c \in Cids
        PROVE  LineOf(c)' = (LineOf(c) \ V) \ BatonOf(c, V)
    <3>1. ASSUME NEW k \in Ids
          PROVE  k \in LineOf(c)' <=> k \in LineOf(c) /\ k \notin V /\ k \notin BatonOf(c, V)
      <4>1. k \in BatonOf(c, V) <=> k \in H /\ claims[k].cid = c
        BY <1>4
      <4>2. QED
        BY <1>3, <4>1 DEF LineOf, IsDormant
    <3>2. LineOf(c) \subseteq Ids /\ LineOf(c)' \subseteq Ids
      BY DEF LineOf
    <3>3. QED
      BY <3>1, <3>2
  <2>6. ASSUME NEW c \in Cids
        PROVE  AheadOf(c)' = {p \in AheadOf(c) : p[1] \in LineOf(c)' /\ p[2] \in LineOf(c)'}
    <3>1. LineOf(c)' \subseteq LineOf(c) /\ LineOf(c) \subseteq Ids
      BY <2>5 DEF LineOf
    <3>2. \A k \in Ids : claims'[k].slot = claims[k].slot
      BY <1>3
    <3>3. QED
      BY <3>1, <3>2 DEF AheadOf
  <2>7. QED
    BY <1>6, <2>1, <2>3, <2>4, <2>5, <2>6, LeaveInRows
<1>7. QED
  BY <1>5, <1>6

\* A transaction that only ends claims is a leave of the queue too, provided that
\* no file whose last host goes keeps a line.
LEMMA EndIsLeave ==
    ASSUME TypeOK, ClaimsNameFiles, NEW V \in SUBSET Ids, \A i \in V : Live(i),
           claims' = EndClaims(V, "cancelled"),
           \A c \in Cids : HostsOf(c) \subseteq HostsOf(c) \ V \/ LineOf(c) \subseteq V
    PROVE  Queue!Leave(V) \/ UNCHANGED Queue!vars
<1>1. ASSUME NEW k \in Ids
      PROVE  /\ k \in V => claims'[k].state = "cancelled"
             /\ k \notin V => claims'[k].state = claims[k].state
             /\ claims'[k].cid = claims[k].cid /\ claims'[k].slot = claims[k].slot
  BY DEF EndClaims, TypeOK, Claim
<1>2. CASE V = {}
  <2>1. SameRows
    BY <1>1, <1>2 DEF SameRows
  <2>2. QED
    BY <2>1, SameRowsStutter
<1>3. CASE V # {}
  <2>1. \A k \in V : \E c \in Cids : k \in HostsOf(c) \/ k \in LineOf(c)
    BY DEF Live, ClaimsNameFiles, HostsOf, LineOf, IsDormant
  <2>2. Over' = Over \cup V
    BY <1>1 DEF Over
  <2>3. ASSUME NEW c \in Cids
        PROVE  BatonOf(c, V) = {}
    BY DEF BatonOf
  <2>4. ASSUME NEW c \in Cids
        PROVE  HostsOf(c)' = HostsOf(c) \ V
    BY <1>1 DEF HostsOf
  <2>5. ASSUME NEW c \in Cids
        PROVE  LineOf(c)' = LineOf(c) \ V
    BY <1>1 DEF LineOf, IsDormant
  <2>6. ASSUME NEW c \in Cids
        PROVE  AheadOf(c)' = {p \in AheadOf(c) : p[1] \in LineOf(c)' /\ p[2] \in LineOf(c)'}
    <3>1. LineOf(c)' \subseteq LineOf(c) /\ LineOf(c) \subseteq Ids
      BY <2>5 DEF LineOf
    <3>2. QED
      BY <1>1, <3>1 DEF AheadOf
  <2>7. QED
    BY <1>3, <2>1, <2>2, <2>3, <2>4, <2>5, <2>6, LeaveInRows
<1>4. QED
  BY <1>2, <1>3

\* Every step of the ledger is a step of the hosting queue or invisible to it.
LEMMA QueueSimulates ==
    ASSUME OInv, WaitersAreGuardians, ClaimsNameFiles, [Next]_vars
    PROVE  [Queue!Next]_Queue!vars
<1>1. IInv /\ NoOrphans /\ TypeOK
  BY DEF OInv, IInv
<1>2. ASSUME NEW V \in SUBSET Ids, Queue!Leave(V) \/ UNCHANGED Queue!vars
      PROVE  [Queue!Next]_Queue!vars
  BY <1>2 DEF Queue!Next
<1>3. ASSUME NEW k \in Ids, NEW c \in Cids, NEW a \in Accounts, NEW h \in Hours,
             Upload(k, c, a, h) \/ OwnCopy(k, c, a, h)
      PROVE  [Queue!Next]_Queue!vars
  <2>1. PICK kind \in {"original", "own_copy"} :
             claims' = [claims EXCEPT ![k] = ActiveClaim(kind, c, a, ExpiryFor(h))]
    BY <1>3 DEF Upload, OwnCopy
  <2> DEFINE r == ActiveClaim(kind, c, a, ExpiryFor(h))
  <2>2. ExpiryFor(h) \in Nat
    BY <1>1, LedgerAssumption DEF ExpiryFor, TypeOK
  <2>3. r \in Claim /\ r.state = "active" /\ r.cid = c
    BY <2>2 DEF ActiveClaim, Claim, ClaimState, ClaimKind
  <2>4. Unused(k) /\ claims' = [claims EXCEPT ![k] = r]
    BY <1>3, <2>1 DEF Upload, OwnCopy
  <2> HIDE DEF r
  <2>5. Queue!Join(k, c)
    BY <1>1, <2>3, <2>4, JoinStep
  <2>6. QED
    BY <2>5 DEF Queue!Next
<1>4. ASSUME NEW k \in Ids, NEW c \in Cids, NEW a \in Accounts, NEW h \in Hours,
             Pledge(k, c, a, h)
      PROVE  [Queue!Next]_Queue!vars
  <2>1. Queue!Guard(k, c)
    BY <1>4, GuardStep
  <2>2. QED
    BY <2>1 DEF Queue!Next
<1>5. ASSUME claims' = claims
      PROVE  [Queue!Next]_Queue!vars
  BY <1>5, SameRowsStutter DEF SameRows
<1>6. ASSUME NEW k \in Ids, NEW h \in Hours, ExtendClaim(k, h)
      PROVE  [Queue!Next]_Queue!vars
  <2>1. SameRows
    BY <1>1, <1>6 DEF ExtendClaim, SameRows, TypeOK, Claim
  <2>2. QED
    BY <2>1, SameRowsStutter
<1>7. ASSUME NEW k \in Ids, CancelDormant(k)
      PROVE  [Queue!Next]_Queue!vars
  <2> DEFINE V == {k}
  <2>1. claims' = EndClaims(V, "cancelled") /\ V \in SUBSET Ids /\ \A i \in V : Live(i)
    BY <1>7 DEF CancelDormant, Live
  <2>2. \A c \in Cids : HostsOf(c) \subseteq HostsOf(c) \ V
    BY <1>7 DEF CancelDormant, HostsOf
  <2> HIDE DEF V
  <2>3. QED
    BY <1>1, <1>2, <2>1, <2>2, EndIsLeave
<1>8. ASSUME NEW d \in Cids, VoidCid(d)
      PROVE  [Queue!Next]_Queue!vars
  <2> DEFINE V == {k \in Ids : Live(k) /\ claims[k].cid = d}
  <2>1. claims' = EndClaims(V, "cancelled") /\ V \in SUBSET Ids /\ \A i \in V : Live(i)
    BY <1>8 DEF VoidCid
  <2>2. ASSUME NEW c \in Cids
        PROVE  HostsOf(c) \subseteq HostsOf(c) \ V \/ LineOf(c) \subseteq V
    BY DEF HostsOf, LineOf, IsDormant, Live
  <2> HIDE DEF V
  <2>3. QED
    BY <1>1, <1>2, <2>1, <2>2, EndIsLeave
<1>9. ASSUME NEW k \in Ids, CancelActive(k)
      PROVE  [Queue!Next]_Queue!vars
  <2> DEFINE S == {k}
             cs == {claims[k].cid}
  <2>1. ReconcileCids(EndPins(S, "expired"), EndClaims(S, "cancelled"), cs)
    BY <1>9 DEF CancelActive
  <2>2. S \in SUBSET Ids /\ EndsTogether(S, S, cs)
    BY <1>9 DEF CancelActive, Live, EndsTogether
  <2> HIDE DEF S, cs
  <2>3. QED
    BY <1>2, <2>1, <2>2, ReconcileIsLeave DEF PinStatus
<1>10. CASE Sweep
  <2> DEFINE late  == {x \in Ids : claims[x].state = "active" /\ claims[x].expiry < now}
             stale == {x \in Ids : pins[x].status = "active"
                                     /\ (x \in late \/ pins[x].expires < now)}
             cs    == {pins[x].cid : x \in stale}
  <2>1. ReconcileCids(EndPins(stale, "expired"), EndClaims(late, "expired"), cs)
    BY <1>10 DEF Sweep
  <2>2. ASSUME NEW x \in Ids
        PROVE  /\ x \in stale <=> x \in late
               /\ x \in late => pins[x].cid = claims[x].cid
    <3>1. CASE claims[x].state = "active"
      BY <1>1, <3>1, ActiveClaimIsHosted DEF IsActivePin
    <3>2. CASE claims[x].state # "active"
      BY <1>1, <3>2, PinHasItsClaim
    <3>3. QED
      BY <3>1, <3>2
  <2>3. /\ stale \in SUBSET Ids /\ late \in SUBSET Ids
        /\ \A x \in late : claims[x].state = "active"
        /\ \A x \in stale : pins[x].cid \in cs
        /\ \A c \in cs : \E x \in stale : pins[x].cid = c
    OBVIOUS
  <2> HIDE DEF stale, late, cs
  <2>4. EndsTogether(stale, late, cs)
    BY <2>2, <2>3 DEF EndsTogether, Live
  <2>5. QED
    BY <1>2, <2>1, <2>3, <2>4, ReconcileIsLeave DEF PinStatus
<1>11. ASSUME NEW a \in Accounts, BanAccount(a)
       PROVE  [Queue!Next]_Queue!vars
  <2> DEFINE voided == {x \in Ids : Live(x) /\ claims[x].owner = a}
             mine   == {x \in Ids : pins[x].uploader = a}
             cs     == {claims[x].cid : x \in {j \in voided : claims[j].state = "active"}}
  <2>1. ReconcileCids(EndPins(mine, "banned"), EndClaims(voided, "cancelled"), cs)
    BY <1>11 DEF BanAccount
  <2>2. \A x \in Ids : claims[x].state = "active" => (x \in mine <=> x \in voided)
    BY <1>1, ActiveClaimIsHosted DEF Live
  <2>3. EndsTogether(mine, voided, cs)
    BY <2>2 DEF EndsTogether
  <2>4. mine \in SUBSET Ids /\ voided \in SUBSET Ids
    OBVIOUS
  <2> HIDE DEF mine, voided, cs
  <2>5. QED
    BY <1>2, <2>1, <2>3, <2>4, ReconcileIsLeave DEF PinStatus
<1>12. CASE AdminNext
  BY <1>5, <1>8, <1>11, <1>12
     DEF AdminNext, UnbanAccount, TakedownCid, ImportTakedown, UntakedownCid
<1>13. CASE UserNext
  BY <1>3, <1>4, <1>5, <1>6, <1>7, <1>9, <1>13
     DEF UserNext, OrphanPin, RemovePinForUploader
<1>14. CASE Tick \/ UNCHANGED vars
  BY <1>5, <1>14 DEF Tick, vars
<1>15. QED
  BY <1>10, <1>12, <1>13, <1>14 DEF Next

LEMMA NamesStep ==
    ASSUME TypeOK, ClaimsNameFiles, [Next]_vars
    PROVE  ClaimsNameFiles'
<1>1. ASSUME \A k \in Ids : claims'[k].cid = claims[k].cid /\ (Live(k)' => Live(k))
      PROVE  ClaimsNameFiles'
  BY <1>1 DEF ClaimsNameFiles
<1>2. ASSUME NEW k \in Ids, NEW c \in Cids, NEW a \in Accounts, NEW h \in Hours,
             Upload(k, c, a, h) \/ OwnCopy(k, c, a, h) \/ Pledge(k, c, a, h)
      PROVE  ClaimsNameFiles'
  <2>1. claims'[k].cid = c /\ \A j \in Ids \ {k} : claims'[j] = claims[j]
    BY <1>2 DEF Upload, OwnCopy, Pledge, ActiveClaim, DormantClaim, TypeOK
  <2>2. QED
    BY <2>1 DEF ClaimsNameFiles, Live
<1>3. ASSUME NEW k \in Ids, NEW h \in Hours, ExtendClaim(k, h)
      PROVE  ClaimsNameFiles'
  <2>1. \A j \in Ids : claims'[j].cid = claims[j].cid /\ claims'[j].state = claims[j].state
    BY <1>3 DEF ExtendClaim, TypeOK, Claim
  <2>2. QED
    BY <1>1, <2>1 DEF Live
<1>4. ASSUME NEW V, NEW v \in {"cancelled", "expired"}, NEW k \in Ids
      PROVE  /\ EndClaims(V, v)[k].cid = claims[k].cid
             /\ EndClaims(V, v)[k].state \in {"active", "dormant"} => Live(k)
  BY DEF EndClaims, Live, TypeOK, Claim
<1>5. ASSUME NEW V \in SUBSET Ids, claims' = EndClaims(V, "cancelled")
      PROVE  ClaimsNameFiles'
  <2>1. ASSUME NEW k \in Ids
        PROVE  claims'[k].cid = claims[k].cid /\ (Live(k)' => Live(k))
    BY <1>4, <1>5 DEF Live
  <2>2. QED
    BY <1>1, <2>1
<1>6. ASSUME NEW S \in SUBSET Ids, NEW s \in PinStatus, NEW V \in SUBSET Ids,
             NEW v \in {"cancelled", "expired"}, NEW cs \in SUBSET (Cids \cup {Nil}),
             ReconcileCids(EndPins(S, s), EndClaims(V, v), cs)
      PROVE  ClaimsNameFiles'
  <2> DEFINE C == EndClaims(V, v)
  <2>1. C \in [Ids -> Claim] /\ now \in Nat
    BY EndClaimsQueue DEF TypeOK
  <2>2. ASSUME NEW k \in Ids
        PROVE  claims'[k].cid = claims[k].cid /\ (Live(k)' => Live(k))
    <3>1. /\ C[k].cid = claims[k].cid
          /\ C[k].state \in {"active", "dormant"} => Live(k)
      BY <1>4
    <3>2. \/ C[k].state = "dormant" /\ claims'[k] = Activated(C[k])
          \/ claims'[k] = C[k]
      BY <1>6, ReconcileRows DEF Heads
    <3>3. Activated(C[k]).cid = C[k].cid
      BY <2>1, ActivatedClaim
    <3> HIDE DEF C
    <3>4. QED
      BY <3>1, <3>2, <3>3 DEF Live
  <2>3. QED
    BY <1>1, <2>2
<1>7. ASSUME claims' = claims
      PROVE  ClaimsNameFiles'
  BY <1>1, <1>7 DEF Live
<1>8. QED
  BY <1>2, <1>3, <1>5, <1>6, <1>7, StepKinds

\* For any number of accounts, files and claims, and also when requests are
\* overtaken between check and commit, the rows of a ledger without orphans behave
\* as a set of hosts per file with a line of guardians behind it, where the first
\* in line becomes the host in the step in which the last host goes.
THEOREM LedgerKeepsQueue == MaxOrphans = 0 => (Spec => ImplementsQueue)
<1> SUFFICES ASSUME MaxOrphans = 0 PROVE Spec => ImplementsQueue
  OBVIOUS
<1>1. Init => ClaimsNameFiles
  BY DEF Init, ClaimsNameFiles, Live, NoClaim
<1>2. QInv /\ ClaimsNameFiles /\ [Next]_vars => ClaimsNameFiles'
  BY NamesStep DEF QInv
<1>3. OInv /\ QInv /\ ClaimsNameFiles /\ [Next]_vars => [Queue!Next]_Queue!vars
  BY QueueSimulates DEF QInv
<1>4. QED
  BY <1>1, <1>2, <1>3, RowsStart, OrphanInvariant, QueueInvariant, PTL
     DEF Spec, ImplementsQueue, Queue!Spec
=============================================================================
