------------------------ MODULE ReleaseConsentsProofs ------------------------
(***************************************************************************)
(* Theorems about ReleaseConsents, for any accounts, orders, policies and  *)
(* number of requests and faults.                                          *)
(***************************************************************************)
EXTENDS ReleaseConsents, TLAPS

\* A request under verification has its fields, a finished one its order.
LEMMA Fields ==
    ASSUME TypeOK, NEW q \in Requests
    PROVE  /\ requests[q].at = "checking" => requests[q] \in Request
           /\ requests[q].at \in {"ended", "lost"} => requests[q] \in Answered
  BY DEF TypeOK, Request, Answered, Idle

LEMMA PlacedRow ==
    ASSUME TypeOK, NEW o \in Orders, Placed(o)
    PROVE  orders[o] \in Order
  BY DEF TypeOK, Placed

\* The records an action writes are of their types.
LEMMA AnswerTyped ==
    ASSUME TypeOK, NEW q \in Requests, requests[q].at = "checking",
           NEW out \in {"refused", "waiting", "closed", "ended", "lost"}, Answer(q, out)
    PROVE  requests' \in [Requests -> Request \cup Answered \cup {Idle}]
  BY Fields DEF TypeOK, Answer, Request, Answered

LEMMA EndTyped ==
    ASSUME TypeOK, NEW o \in Orders, Placed(o), NEW how \in {"released", "over"},
           EndClaim(o, how)
    PROVE  orders' \in [Orders -> Order \cup {Nil}]
  BY PlacedRow DEF TypeOK, EndClaim, Order

LEMMA DieTyped ==
    ASSUME TypeOK, Die
    PROVE  /\ requests' \in [Requests -> Request \cup Answered \cup {Idle}]
           /\ faults' \in 0 .. MaxFaults
           /\ orders' = orders
           /\ acted' = acted
  BY Fields, ReleaseAssumption DEF TypeOK, Die, Request, Answered

LEMMA RecordsTyped ==
    ASSUME TypeOK, NEW q \in Requests, requests[q].at = "checking"
    PROVE  /\ RecordReceipt(q) => receipts' \in [Orders -> SUBSET Accounts]
           /\ RecordConsent(q) => consents' \in [Orders -> SUBSET Accounts]
  BY Fields DEF TypeOK, RecordReceipt, RecordConsent, Request

LEMMA TypeInit == Init => TypeOK
  BY ReleaseAssumption DEF Init, TypeOK, Idle

LEMMA TypeStep == TypeOK /\ [Next]_vars => TypeOK'
<1> SUFFICES ASSUME TypeOK, [Next]_vars PROVE TypeOK'
  OBVIOUS
<1>1. ASSUME NEW o \in Orders, NEW a \in Owners, NEW p \in Policies \cup {OwnerOnly},
             NEW commitment \in BOOLEAN, NEW claim \in {"active", "dormant"},
             Place(o, a, p, commitment, claim)
      PROVE  TypeOK'
  <2>1. [owner |-> a, policy |-> p, commitment |-> commitment, claim |-> claim] \in Order
    BY ReleaseAssumption DEF Order, Policy, PolicyType, OwnerOnly
  <2>2. QED
    BY <1>1, <2>1 DEF TypeOK, Place
<1>2. ASSUME NEW o \in Orders, Promote(o) PROVE TypeOK'
  BY <1>2, PlacedRow DEF TypeOK, Promote, Order
<1>3. ASSUME NEW o \in Orders, EndOtherwise(o) PROVE TypeOK'
  BY <1>3, EndTyped DEF TypeOK, EndOtherwise
<1>4. ASSUME NEW q \in Requests, NEW kind \in {"release", "receipt"}, NEW o \in Orders,
             NEW a \in Accounts, NEW genuine \in BOOLEAN, NEW proof \in BOOLEAN,
             Send(q, kind, o, a, genuine, proof)
      PROVE  TypeOK'
  <2>1. [at |-> "checking", kind |-> kind, order |-> o, by |-> a,
         genuine |-> genuine, proof |-> proof] \in Request
    BY DEF Request
  <2>2. acted' \in [Orders -> SUBSET Accounts]
    BY <1>4 DEF TypeOK, Send
  <2>3. requests' \in [Requests -> Request \cup Answered \cup {Idle}]
    BY <1>4, <2>1 DEF TypeOK, Send
  <2>4. QED
    BY <1>4, <2>2, <2>3 DEF TypeOK, Send
<1>5. ASSUME NEW q \in Requests, Unreachable(q) PROVE TypeOK'
  <2>1. requests' \in [Requests -> Request \cup Answered \cup {Idle}]
    BY <1>5, AnswerTyped DEF Unreachable
  <2>2. faults' \in 0 .. MaxFaults
    BY <1>5, ReleaseAssumption DEF TypeOK, Unreachable
  <2>3. QED
    BY <1>5, <2>1, <2>2 DEF TypeOK, Unreachable
<1>6. ASSUME NEW q \in Requests, Unproven(q) PROVE TypeOK'
  BY <1>6, AnswerTyped DEF TypeOK, Unproven
<1>7. ASSUME NEW q \in Requests, NoSay(q) PROVE TypeOK'
  BY <1>7, AnswerTyped, RecordsTyped DEF TypeOK, NoSay
<1>8. ASSUME NEW q \in Requests, Wait(q) PROVE TypeOK'
  BY <1>8, AnswerTyped, RecordsTyped DEF TypeOK, Wait, Heard
<1>9. ASSUME NEW q \in Requests, AlreadyClosed(q) PROVE TypeOK'
  BY <1>9, AnswerTyped, RecordsTyped DEF TypeOK, AlreadyClosed, Heard
<1>10. ASSUME NEW q \in Requests, Release(q) PROVE TypeOK'
  <2>1. requests[q].order \in Orders /\ Placed(requests[q].order)
    BY <1>10, Fields DEF Release, Heard, Active, Request
  <2>2. orders' \in [Orders -> Order \cup {Nil}]
    BY <1>10, <2>1, EndTyped DEF Release
  <2>3. QED
    BY <1>10, <2>2, AnswerTyped, RecordsTyped DEF TypeOK, Release, Heard
<1>11. ASSUME NEW q \in Requests, CrashAfterReceipt(q) PROVE TypeOK'
  BY <1>11, DieTyped, RecordsTyped DEF TypeOK, CrashAfterReceipt
<1>12. ASSUME NEW q \in Requests, CrashAfterConsent(q) PROVE TypeOK'
  <2>1. requests[q].order \in Orders
    BY <1>12, Fields DEF CrashAfterConsent, Heard, Request
  <2>2. QED
    BY <1>12, <2>1, DieTyped, RecordsTyped DEF TypeOK, CrashAfterConsent, Heard
<1>13. CASE Crash
  BY <1>13, DieTyped DEF TypeOK, Crash
<1>14. CASE UNCHANGED vars
  BY <1>14 DEF TypeOK, vars
<1>15. QED
  BY <1>1, <1>2, <1>3, <1>4, <1>5, <1>6, <1>7, <1>8, <1>9, <1>10, <1>11, <1>12, <1>13,
     <1>14 DEF Next, Decide

\* The rows of orders, consents, receipts and requests keep their types under
\* every step of every handler and every crash.
THEOREM TypeCorrect == Spec => []TypeOK
  BY TypeInit, TypeStep, PTL DEF Spec

-----------------------------------------------------------------------------
(***************************************************************************)
(* The safety invariants are not inductive alone.  A request under way     *)
(* names a placed order and, if it would pass the checks, its account has  *)
(* really acted; the request that ended an order left it released; and a   *)
(* claim in the queue is one that only its owner may release, so that a    *)
(* promotion cannot make a unanimous order active.                         *)
(***************************************************************************)

RequestsHonest ==
    \A q \in Requests : requests[q].at = "checking" =>
        /\ Placed(requests[q].order)
        /\ Proven(q) => requests[q].by \in acted[requests[q].order]

EndedIsReleased ==
    \A q \in Requests : requests[q].at = "ended" =>
        Placed(requests[q].order) /\ orders[requests[q].order].claim = "released"

QueueIsOwnerOnly ==
    \A o \in Orders :
        Placed(o) /\ orders[o].claim = "dormant" => orders[o].policy.type = "owner_only"

UnplacedIsBlank ==
    \A o \in Orders : ~Placed(o) => consents[o] = {} /\ receipts[o] = {}

RInv ==
    /\ TypeOK
    /\ RequestsHonest
    /\ EndedIsReleased
    /\ EndedOnce
    /\ QueueIsOwnerOnly
    /\ UnplacedIsBlank
    /\ RecordsAreTrue
    /\ ReleasedWithAuthority
    /\ UnanimousIsReleased

LEMMA RInit == Init => RInv
<1> SUFFICES ASSUME Init PROVE RInv
  OBVIOUS
<1>1. \A q \in Requests : requests[q].at = "idle"
  BY DEF Init, Idle
<1>2. \A o \in Orders : ~Placed(o) /\ consents[o] = {} /\ receipts[o] = {} /\ acted[o] = {}
  BY DEF Init, Placed
<1>3. TypeOK
  BY TypeInit
<1>4. RecordsAreTrue
  BY <1>2 DEF RecordsAreTrue
<1>5. RequestsHonest /\ EndedIsReleased /\ EndedOnce
  BY <1>1 DEF RequestsHonest, EndedIsReleased, EndedOnce
<1>6. QueueIsOwnerOnly /\ UnplacedIsBlank /\ ReleasedWithAuthority /\ UnanimousIsReleased
  BY <1>2 DEF QueueIsOwnerOnly, UnplacedIsBlank, ReleasedWithAuthority, UnanimousIsReleased,
              Unanimous
<1>7. QED
  BY <1>3, <1>4, <1>5, <1>6 DEF RInv

\* A step that only answers requests, without ending a claim, keeps the
\* invariant if it keeps the two tables true and complete.
LEMMA AnsweringKeeps ==
    ASSUME RInv, TypeOK', UNCHANGED <<orders, acted>>,
           \A p \in Requests : \/ requests'[p] = requests[p]
                               \/ requests'[p].at \in {"refused", "waiting", "closed", "lost"},
           RecordsAreTrue', UnplacedIsBlank', UnanimousIsReleased'
    PROVE  RInv'
<1>1. RequestsHonest'
  <2> SUFFICES ASSUME NEW q \in Requests, requests'[q].at = "checking"
               PROVE  /\ Placed(requests[q].order)'
                      /\ Proven(q)' => requests'[q].by \in acted'[requests'[q].order]
    BY DEF RequestsHonest
  <2>1. requests'[q] = requests[q]
    OBVIOUS
  <2>2. QED
    BY <2>1 DEF RInv, RequestsHonest, Placed, Proven
<1>2. EndedIsReleased'
  <2> SUFFICES ASSUME NEW q \in Requests, requests'[q].at = "ended"
               PROVE  Placed(requests[q].order)' /\ orders'[requests'[q].order].claim = "released"
    BY DEF EndedIsReleased
  <2>1. requests'[q] = requests[q]
    OBVIOUS
  <2>2. QED
    BY <2>1 DEF RInv, EndedIsReleased, Placed
<1>3. EndedOnce'
  <2> SUFFICES ASSUME NEW q1 \in Requests, NEW q2 \in Requests,
                      requests'[q1].at = "ended", requests'[q2].at = "ended",
                      requests'[q1].order = requests'[q2].order
               PROVE  q1 = q2
    BY DEF EndedOnce
  <2>1. requests'[q1] = requests[q1] /\ requests'[q2] = requests[q2]
    OBVIOUS
  <2>2. QED
    BY <2>1 DEF RInv, EndedOnce
<1>4. QueueIsOwnerOnly' /\ ReleasedWithAuthority'
  BY DEF RInv, QueueIsOwnerOnly, ReleasedWithAuthority, Placed, Accepts
<1>5. QED
  BY <1>1, <1>2, <1>3, <1>4 DEF RInv

\* ... and a step that leaves the tables alone keeps it in any case.
LEMMA QuietKeeps ==
    ASSUME RInv, TypeOK', UNCHANGED <<orders, acted, consents, receipts, cut>>,
           \A p \in Requests : \/ requests'[p] = requests[p]
                               \/ requests'[p].at \in {"refused", "waiting", "closed", "lost"}
    PROVE  RInv'
<1>1. RecordsAreTrue' /\ UnplacedIsBlank' /\ UnanimousIsReleased'
  BY DEF RInv, RecordsAreTrue, UnplacedIsBlank, UnanimousIsReleased, Unanimous, Active, Placed
<1>2. QED
  BY <1>1, AnsweringKeeps

\* What a request that is heard may write keeps the tables true.
LEMMA RecordingIsTrue ==
    ASSUME RInv, NEW q \in Requests, requests[q].at = "checking", Proven(q),
           UNCHANGED <<orders, acted>>,
           RecordReceipt(q) \/ UNCHANGED receipts,
           \/ UNCHANGED consents
           \/ Heard(q) /\ RecordConsent(q)
    PROVE  RecordsAreTrue' /\ UnplacedIsBlank'
<1> DEFINE r == requests[q]
           o == r.order
           d == orders[o]
<1>1. r \in Request /\ o \in Orders /\ Placed(o) /\ r.by \in acted[o]
  BY Fields DEF RInv, RequestsHonest, Request
<1>2. \A x \in Orders : /\ \/ consents'[x] = consents[x]
                            \/ /\ x = o
                               /\ consents'[x] = consents[x] \cup {r.by}
                               /\ d.policy.type = "all_of"
                               /\ r.by \in d.policy.addresses
                         /\ \/ receipts'[x] = receipts[x]
                            \/ x = o /\ receipts'[x] = receipts[x] \cup {r.by}
  BY <1>1 DEF RInv, TypeOK, RecordReceipt, RecordConsent, Counts, Heard, MayRelease
<1> HIDE DEF r, o, d
<1>3. RecordsAreTrue'
  <2> SUFFICES ASSUME NEW x \in Orders
               PROVE  /\ consents'[x] \subseteq acted'[x]
                      /\ receipts'[x] \subseteq acted'[x]
                      /\ consents'[x] # {} => /\ orders'[x].policy.type = "all_of"
                                              /\ consents'[x] \subseteq orders'[x].policy.addresses
    BY DEF RecordsAreTrue
  <2>1. /\ consents[x] \subseteq acted[x]
        /\ receipts[x] \subseteq acted[x]
        /\ consents[x] # {} => /\ orders[x].policy.type = "all_of"
                               /\ consents[x] \subseteq orders[x].policy.addresses
    BY DEF RInv, RecordsAreTrue
  <2>2. d = orders[o]
    BY DEF d
  <2>3. QED
    BY <1>1, <1>2, <2>1, <2>2
<1>4. UnplacedIsBlank'
  BY <1>1, <1>2 DEF RInv, UnplacedIsBlank, Placed
<1>5. QED
  BY <1>3, <1>4

LEMMA AnswerFrame ==
    ASSUME TypeOK, NEW q \in Requests, NEW out, Answer(q, out)
    PROVE  \A p \in Requests :
              \/ p # q /\ requests'[p] = requests[p]
              \/ p = q /\ requests'[p].at = out /\ requests'[p].order = requests[q].order
  BY DEF TypeOK, Answer

LEMMA DieFrame ==
    ASSUME TypeOK, Die
    PROVE  /\ \A p \in Requests : requests'[p] = requests[p] \/ requests'[p].at = "lost"
           /\ UNCHANGED <<orders, acted>>
  BY DEF TypeOK, Die

-----------------------------------------------------------------------------
(* One lemma per group of actions *)

\* A new order has no consents, and a policy of recipients has recipients.
LEMMA PlaceKeeps ==
    ASSUME RInv, TypeOK', NEW o \in Orders, NEW a \in Owners,
           NEW p \in Policies \cup {OwnerOnly}, NEW commitment \in BOOLEAN,
           NEW claim \in {"active", "dormant"}, Place(o, a, p, commitment, claim)
    PROVE  RInv'
<1> DEFINE row == [owner |-> a, policy |-> p, commitment |-> commitment, claim |-> claim]
<1>1. /\ orders' = [orders EXCEPT ![o] = row]
      /\ ~Placed(o)
      /\ UNCHANGED <<consents, receipts, requests, acted, cut>>
      /\ row.claim = claim /\ row.policy = p
  BY DEF Place
<1>2. \A x \in Orders : x # o => orders'[x] = orders[x]
  BY <1>1 DEF RInv, TypeOK
<1>3. orders'[o] = row
  BY <1>1 DEF RInv, TypeOK
<1>4. /\ p.type # "owner_only" => p.addresses # {}
      /\ claim = "dormant" => p.type = "owner_only"
  BY DEF Place, Normal, OwnerOnly
<1>5. consents[o] = {} /\ receipts[o] = {}
  BY <1>1 DEF RInv, UnplacedIsBlank
<1> HIDE DEF row
<1>6. \A q \in Requests : requests[q].at = "checking" =>
         requests[q].order \in Orders \ {o} /\ Placed(requests[q].order)
  BY <1>1, Fields DEF RInv, RequestsHonest, Request
<1>7. \A q \in Requests : requests[q].at = "ended" =>
         requests[q].order \in Orders \ {o} /\ Placed(requests[q].order)
  BY <1>1, Fields DEF RInv, EndedIsReleased, Answered
<1>8. RequestsHonest'
  BY <1>1, <1>2, <1>6 DEF RInv, RequestsHonest, Placed, Proven
<1>9. EndedIsReleased'
  BY <1>1, <1>2, <1>7 DEF RInv, EndedIsReleased, Placed
<1>10. EndedOnce'
  BY <1>1 DEF RInv, EndedOnce
<1>11. QueueIsOwnerOnly'
  BY <1>1, <1>2, <1>3, <1>4 DEF RInv, QueueIsOwnerOnly, Placed
<1>12. UnplacedIsBlank'
  BY <1>1, <1>2, <1>5 DEF RInv, UnplacedIsBlank, Placed
<1>13. RecordsAreTrue'
  BY <1>1, <1>2, <1>5 DEF RInv, RecordsAreTrue
<1>14. ReleasedWithAuthority'
  BY <1>1, <1>2, <1>3 DEF RInv, ReleasedWithAuthority, Placed, Accepts
<1>15. UnanimousIsReleased'
  <2> SUFFICES ASSUME NEW x \in Orders, Unanimous(x)', Active(x)' PROVE x \in cut'
    BY DEF UnanimousIsReleased
  <2>1. CASE x = o
    BY <1>1, <1>3, <1>4, <1>5, <2>1 DEF Unanimous
  <2>2. CASE x # o
    BY <1>1, <1>2, <2>2 DEF RInv, UnanimousIsReleased, Unanimous, Active, Placed
  <2>3. QED
    BY <2>1, <2>2
<1>16. QED
  BY <1>8, <1>9, <1>10, <1>11, <1>12, <1>13, <1>14, <1>15 DEF RInv

\* Only the claim of the order o changes, and not from "released"; the caller
\* accounts for what the new state asks for.
LEMMA ClaimChangeKeeps ==
    ASSUME RInv, TypeOK', NEW o \in Orders, NEW to \in {"active", "released", "over"},
           Placed(o), orders[o].claim \in {"active", "dormant"},
           orders' = [orders EXCEPT ![o].claim = to],
           UNCHANGED <<acted, cut>>,
           RequestsHonest', EndedIsReleased', EndedOnce',
           to = "active" => UNCHANGED <<consents, receipts>>
                             /\ orders[o].claim = "dormant",
           to = "released" => Accepts(orders[o], acted[o]),
           \A x \in Orders \ {o} : consents'[x] = consents[x],
           RecordsAreTrue', UnplacedIsBlank'
    PROVE  RInv'
<1>1. orders[o] \in Order
  BY PlacedRow DEF RInv
<1>2. \A x \in Orders : x # o => orders'[x] = orders[x]
  BY DEF RInv, TypeOK
<1>3. orders'[o].claim = to /\ orders'[o].policy = orders[o].policy
      /\ orders'[o].owner = orders[o].owner
  BY <1>1 DEF RInv, TypeOK, Order
<1>5. QueueIsOwnerOnly'
  BY <1>2, <1>3 DEF RInv, QueueIsOwnerOnly, Placed
<1>6. ReleasedWithAuthority'
  <2> SUFFICES ASSUME NEW x \in Orders, Placed(x)', orders'[x].claim = "released"
               PROVE  Accepts(orders[x], acted[x])'
    BY DEF ReleasedWithAuthority
  <2>1. CASE x = o
    BY <1>3, <2>1 DEF Accepts
  <2>2. CASE x # o
    BY <1>2, <2>2 DEF RInv, ReleasedWithAuthority, Accepts, Placed
  <2>3. QED
    BY <2>1, <2>2
<1>7. UnanimousIsReleased'
  <2> SUFFICES ASSUME NEW x \in Orders, Unanimous(x)', Active(x)' PROVE x \in cut'
    BY DEF UnanimousIsReleased
  <2>1. CASE x = o
    <3>1. to = "active"
      BY <1>3, <2>1 DEF Active
    <3>2. orders[o].policy.type = "owner_only"
      BY <3>1 DEF RInv, QueueIsOwnerOnly
    <3>3. QED
      BY <1>3, <2>1, <3>2 DEF Unanimous
  <2>2. CASE x # o
    BY <1>2, <2>2 DEF RInv, UnanimousIsReleased, Unanimous, Active, Placed
  <2>3. QED
    BY <2>1, <2>2
<1>8. QED
  BY <1>5, <1>6, <1>7 DEF RInv

\* Promotions and ends that are not releases.
LEMMA OtherChangeKeeps ==
    ASSUME RInv, TypeOK', NEW o \in Orders, Promote(o) \/ EndOtherwise(o)
    PROVE  RInv'
<1>1. PICK to \in {"active", "over"} :
         /\ orders' = [orders EXCEPT ![o].claim = to]
         /\ to = "active" => orders[o].claim = "dormant"
  BY DEF Promote, EndOtherwise, EndClaim
<1>2. /\ Placed(o)
      /\ orders[o].claim \in {"active", "dormant"}
      /\ UNCHANGED <<consents, receipts, requests, acted, cut>>
  BY DEF Promote, EndOtherwise
<1>3. orders[o] \in Order
  BY <1>2, PlacedRow DEF RInv
<1>4. \A x \in Orders : x # o => orders'[x] = orders[x]
  BY <1>1 DEF RInv, TypeOK
<1>5. /\ orders'[o].policy = orders[o].policy
      /\ orders'[o].commitment = orders[o].commitment
      /\ orders'[o] \in Order
  BY <1>1, <1>3 DEF RInv, TypeOK, Order
<1>6. Placed(o)'
  BY <1>5, NilAssumption DEF Placed
<1>7. \A x \in Orders : Placed(x)' <=> Placed(x)
  BY <1>2, <1>4, <1>6 DEF Placed
<1>8. RequestsHonest'
  <2> SUFFICES ASSUME NEW q \in Requests, requests'[q].at = "checking"
               PROVE  /\ Placed(requests[q].order)'
                      /\ Proven(q)' => requests'[q].by \in acted'[requests'[q].order]
    BY DEF RequestsHonest
  <2>1. requests[q] \in Request /\ Placed(requests[q].order) /\ requests[q].order \in Orders
    BY <1>2, Fields DEF RInv, RequestsHonest, Request
  <2>2. orders'[requests[q].order].commitment = orders[requests[q].order].commitment
    BY <1>4, <1>5, <2>1
  <2>3. QED
    BY <1>2, <1>7, <2>1, <2>2 DEF RInv, RequestsHonest, Proven, Placed
<1>9. EndedIsReleased'
  <2> SUFFICES ASSUME NEW q \in Requests, requests'[q].at = "ended"
               PROVE  Placed(requests[q].order)' /\ orders'[requests'[q].order].claim = "released"
    BY DEF EndedIsReleased
  <2>1. /\ requests[q].order \in Orders
        /\ Placed(requests[q].order)
        /\ orders[requests[q].order].claim = "released"
    BY <1>2, Fields DEF RInv, EndedIsReleased, Answered
  <2>2. QED
    BY <1>2, <1>4, <2>1 DEF Placed
<1>10. EndedOnce'
  BY <1>2 DEF RInv, EndedOnce
<1>11. RecordsAreTrue'
  BY <1>2, <1>4, <1>5 DEF RInv, RecordsAreTrue
<1>12. UnplacedIsBlank'
  BY <1>2, <1>7 DEF RInv, UnplacedIsBlank
<1>13. QED
  BY <1>1, <1>2, <1>8, <1>9, <1>10, <1>11, <1>12, ClaimChangeKeeps

\* A request that would pass the checks is noted in acted as it is sent.
LEMMA SendKeeps ==
    ASSUME RInv, TypeOK', NEW q \in Requests, NEW kind \in {"release", "receipt"},
           NEW o \in Orders, NEW a \in Accounts, NEW genuine \in BOOLEAN,
           NEW proof \in BOOLEAN, Send(q, kind, o, a, genuine, proof)
    PROVE  RInv'
<1> DEFINE req == [at |-> "checking", kind |-> kind, order |-> o, by |-> a,
                   genuine |-> genuine, proof |-> proof]
<1>1. /\ requests'[q] = req
      /\ \A p \in Requests : p # q => requests'[p] = requests[p]
      /\ UNCHANGED <<orders, consents, receipts, cut>>
      /\ Placed(o)
  BY DEF Send, RInv, TypeOK
<1>2. /\ req.at = "checking" /\ req.kind = kind /\ req.order = o /\ req.by = a
      /\ req.genuine = genuine /\ req.proof = proof
  OBVIOUS
<1>3. \A x \in Orders : acted[x] \subseteq acted'[x]
  BY DEF Send, RInv, TypeOK
<1>4. ASSUME genuine, kind = "receipt" => proof /\ orders[o].commitment
      PROVE  a \in acted'[o]
  BY <1>4 DEF Send, RInv, TypeOK
<1> HIDE DEF req
<1>5. RequestsHonest'
  <2> SUFFICES ASSUME NEW p \in Requests, requests'[p].at = "checking"
               PROVE  /\ Placed(requests[p].order)'
                      /\ Proven(p)' => requests'[p].by \in acted'[requests'[p].order]
    BY DEF RequestsHonest
  <2>1. CASE p = q
    <3>1. Placed(requests[p].order)'
      BY <1>1, <1>2, <2>1 DEF Placed
    <3>2. ASSUME Proven(p)' PROVE genuine /\ (kind = "receipt" => proof /\ orders[o].commitment)
      BY <1>1, <1>2, <2>1, <3>2 DEF Proven
    <3>3. QED
      BY <1>1, <1>2, <1>4, <2>1, <3>1, <3>2
  <2>2. CASE p # q
    <3>1. requests[p] \in Request /\ requests[p].order \in Orders
      BY <1>1, <2>2, Fields DEF RInv, Request
    <3>2. QED
      BY <1>1, <1>3, <2>2, <3>1 DEF RInv, RequestsHonest, Placed, Proven
  <2>3. QED
    BY <2>1, <2>2
<1>6. EndedIsReleased'
  BY <1>1, <1>2 DEF RInv, EndedIsReleased, Placed
<1>7. EndedOnce'
  BY <1>1, <1>2 DEF RInv, EndedOnce
<1>8. QueueIsOwnerOnly' /\ UnplacedIsBlank' /\ UnanimousIsReleased'
  BY <1>1 DEF RInv, QueueIsOwnerOnly, UnplacedIsBlank, UnanimousIsReleased, Unanimous,
              Active, Placed
<1>9. RecordsAreTrue'
  BY <1>1, <1>3 DEF RInv, RecordsAreTrue
<1>10. ReleasedWithAuthority'
  BY <1>1, <1>3 DEF RInv, ReleasedWithAuthority, Accepts, Placed
<1>11. QED
  BY <1>5, <1>6, <1>7, <1>8, <1>9, <1>10 DEF RInv

\* Requests that are answered without any effect.
LEMMA RefusalKeeps ==
    ASSUME RInv, TypeOK', NEW q \in Requests, Unreachable(q) \/ Unproven(q)
    PROVE  RInv'
<1>1. PICK out \in {"refused", "lost"} : Answer(q, out)
  BY DEF Unreachable, Unproven
<1>2. UNCHANGED <<orders, acted, consents, receipts, cut>>
  BY DEF Unreachable, Unproven
<1>3. \A p \in Requests : \/ requests'[p] = requests[p]
                          \/ requests'[p].at \in {"refused", "waiting", "closed", "lost"}
  <2>1. TypeOK
    BY DEF RInv
  <2>2. QED
    BY <1>1, <2>1, AnswerFrame
<1>4. QED
  BY <1>2, <1>3, QuietKeeps

\* The handler's answers short of ending the claim.  A request that waits does
\* so because a recipient is still missing, itself counted.
LEMMA DecisionKeeps ==
    ASSUME RInv, TypeOK', NEW q \in Requests, NoSay(q) \/ Wait(q) \/ AlreadyClosed(q)
    PROVE  RInv'
<1>1. /\ requests[q].at = "checking" /\ Proven(q)
      /\ UNCHANGED <<orders, acted, cut>>
      /\ RecordReceipt(q)
      /\ UNCHANGED consents \/ (Heard(q) /\ RecordConsent(q))
  BY DEF NoSay, Wait, AlreadyClosed, Heard
<1>2. PICK o \in Orders : o = requests[q].order
  BY <1>1, Fields DEF RInv, Request
<1>3. RecordsAreTrue' /\ UnplacedIsBlank'
  BY <1>1, RecordingIsTrue
<1>4. PICK out \in {"refused", "waiting", "closed"} : Answer(q, out)
  BY DEF NoSay, Wait, AlreadyClosed
<1>5. \A p \in Requests : \/ requests'[p] = requests[p]
                          \/ requests'[p].at \in {"refused", "waiting", "closed", "lost"}
  <2>1. TypeOK
    BY DEF RInv
  <2>2. QED
    BY <1>4, <2>1, AnswerFrame
<1>6. \A x \in Orders : x # o => consents'[x] = consents[x]
  BY <1>1, <1>2 DEF RInv, TypeOK, RecordConsent
<1>7. Unanimous(o)' /\ Active(o)' => Unanimous(o)
  <2>1. CASE UNCHANGED consents
    BY <1>1, <2>1 DEF Unanimous, Placed
  <2>2. CASE Wait(q)
    <3>1. consents'[o] \subseteq consents[o] \cup {requests[q].by}
      BY <1>2, <2>2 DEF Wait, RecordConsent, RInv, TypeOK
    <3>2. ~(orders[o].policy.addresses \subseteq consents[o] \cup {requests[q].by})
      BY <1>2, <2>2 DEF Wait, Decides, Ends
    <3>3. QED
      BY <1>1, <3>1, <3>2 DEF Unanimous
  <2>3. CASE AlreadyClosed(q)
    BY <1>1, <1>2, <2>3 DEF AlreadyClosed, Active, Placed
  <2>4. QED
    BY <2>1, <2>2, <2>3 DEF NoSay
<1>8. UnanimousIsReleased'
  <2> SUFFICES ASSUME NEW x \in Orders, Unanimous(x)', Active(x)' PROVE x \in cut'
    BY DEF UnanimousIsReleased
  <2>1. Active(x)
    BY <1>1 DEF Active, Placed
  <2>2. Unanimous(x)
    <3>1. CASE x = o
      BY <1>7, <3>1
    <3>2. CASE x # o
      BY <1>1, <1>6, <3>2 DEF Unanimous, Placed
    <3>3. QED
      BY <3>1, <3>2
  <2>3. QED
    BY <1>1, <2>1, <2>2 DEF RInv, UnanimousIsReleased
<1>9. QED
  BY <1>1, <1>3, <1>5, <1>8, AnsweringKeeps

\* The consents and the request that decides are those of people who acted, and
\* together they are what the policy asks for.
LEMMA DecisionHasAuthority ==
    ASSUME RInv, NEW q \in Requests, Heard(q), Decides(q)
    PROVE  Accepts(orders[requests[q].order], acted[requests[q].order])
<1>1. PICK o \in Orders : o = requests[q].order
  BY Fields DEF RInv, Heard, Request
<1>2. PICK a \in Accounts : a = requests[q].by
  BY Fields DEF RInv, Heard, Request
<1>3. a \in acted[o] /\ consents[o] \subseteq acted[o]
  BY <1>1, <1>2 DEF RInv, Heard, RequestsHonest, RecordsAreTrue
<1>4. PICK d \in Order : d = orders[o]
  BY <1>1, PlacedRow DEF RInv, Heard, RequestsHonest
<1>5. /\ a = d.owner \/ (d.policy.type # "owner_only" /\ a \in d.policy.addresses)
      /\ \/ a = d.owner
         \/ d.policy.type = "any_of"
         \/ d.policy.addresses \subseteq consents[o] \cup {a}
  BY <1>1, <1>2, <1>4 DEF Heard, Decides, MayRelease, Ends
<1>6. d.policy.type \in {"owner_only", "any_of", "all_of"}
  BY DEF Order, Policy, PolicyType
<1>7. Accepts(d, acted[o])
  BY <1>3, <1>5, <1>6 DEF Accepts
<1>8. QED
  BY <1>1, <1>4, <1>7

LEMMA ReleaseKeeps ==
    ASSUME RInv, TypeOK', NEW q \in Requests, Release(q)
    PROVE  RInv'
<1>1. PICK o \in Orders : o = requests[q].order
  BY Fields DEF RInv, Release, Heard, Request
<1>2. /\ requests[q].at = "checking" /\ Proven(q) /\ Heard(q) /\ Decides(q)
      /\ Placed(o) /\ orders[o].claim = "active"
      /\ orders' = [orders EXCEPT ![o].claim = "released"]
      /\ RecordReceipt(q) /\ RecordConsent(q)
      /\ Answer(q, "ended")
      /\ UNCHANGED <<acted, cut>>
  BY <1>1 DEF Release, Heard, Active, EndClaim
<1>3. Accepts(orders[o], acted[o])
  BY <1>1, <1>2, DecisionHasAuthority
<1>4. orders[o] \in Order
  BY <1>2, PlacedRow DEF RInv
<1>5. \A x \in Orders : x # o => orders'[x] = orders[x]
  BY <1>2 DEF RInv, TypeOK
<1>6. /\ orders'[o].policy = orders[o].policy
      /\ orders'[o].commitment = orders[o].commitment
      /\ orders'[o].claim = "released"
      /\ orders'[o] \in Order
  BY <1>2, <1>4 DEF RInv, TypeOK, Order
<1>7. \A x \in Orders : Placed(x)' <=> Placed(x)
  BY <1>2, <1>5, <1>6, NilAssumption DEF Placed
<1>8. /\ \A p \in Requests : p # q => requests'[p] = requests[p]
      /\ requests'[q].at = "ended" /\ requests'[q].order = o
  <2>1. TypeOK
    BY DEF RInv
  <2>2. QED
    BY <1>1, <1>2, <2>1, AnswerFrame
<1>9. \A x \in Orders \ {o} : consents'[x] = consents[x]
  BY <1>1, <1>2 DEF RInv, TypeOK, RecordConsent
<1>10. RequestsHonest'
  <2> SUFFICES ASSUME NEW p \in Requests, requests'[p].at = "checking"
               PROVE  /\ Placed(requests[p].order)'
                      /\ Proven(p)' => requests'[p].by \in acted'[requests'[p].order]
    BY DEF RequestsHonest
  <2>1. p # q
    BY <1>8
  <2>2. requests'[p] = requests[p] /\ requests[p] \in Request /\ requests[p].order \in Orders
    BY <1>8, <2>1, Fields DEF RInv, Request
  <2>3. orders'[requests[p].order].commitment = orders[requests[p].order].commitment
    BY <1>5, <1>6, <2>2
  <2>4. QED
    BY <1>2, <1>7, <2>2, <2>3 DEF RInv, RequestsHonest, Proven, Placed
<1>11. \A p \in Requests : p # q /\ requests'[p].at = "ended" =>
          /\ requests[p].at = "ended"
          /\ requests'[p].order = requests[p].order
          /\ requests[p].order \in Orders \ {o}
          /\ Placed(requests[p].order)
          /\ orders[requests[p].order].claim = "released"
  BY <1>2, <1>8, Fields DEF RInv, EndedIsReleased, Answered
<1>12. EndedIsReleased'
  <2> SUFFICES ASSUME NEW p \in Requests, requests'[p].at = "ended"
               PROVE  Placed(requests[p].order)' /\ orders'[requests'[p].order].claim = "released"
    BY DEF EndedIsReleased
  <2>1. CASE p = q
    BY <1>2, <1>6, <1>7, <1>8, <2>1 DEF Placed
  <2>2. CASE p # q
    BY <1>5, <1>7, <1>11, <2>2 DEF Placed
  <2>3. QED
    BY <2>1, <2>2
<1>13. EndedOnce'
  <2> SUFFICES ASSUME NEW q1 \in Requests, NEW q2 \in Requests,
                      requests'[q1].at = "ended", requests'[q2].at = "ended",
                      requests'[q1].order = requests'[q2].order
               PROVE  q1 = q2
    BY DEF EndedOnce
  <2>1. CASE q1 = q \/ q2 = q
    BY <1>8, <1>11, <2>1
  <2>2. CASE q1 # q /\ q2 # q
    BY <1>11, <2>2 DEF RInv, EndedOnce
  <2>3. QED
    BY <2>1, <2>2
<1>14. RecordsAreTrue'
  <2> SUFFICES ASSUME NEW x \in Orders
               PROVE  /\ consents'[x] \subseteq acted'[x]
                      /\ receipts'[x] \subseteq acted'[x]
                      /\ consents'[x] # {} => /\ orders'[x].policy.type = "all_of"
                                              /\ consents'[x] \subseteq orders'[x].policy.addresses
    BY DEF RecordsAreTrue
  <2>1. orders'[x].policy = orders[x].policy
    BY <1>5, <1>6
  <2>2. requests[q].by \in acted[o]
    BY <1>1, <1>2 DEF RInv, RequestsHonest
  <2>3. /\ \/ consents'[x] = consents[x]
           \/ /\ x = o
              /\ consents'[x] = consents[x] \cup {requests[q].by}
              /\ orders[o].policy.type = "all_of"
              /\ requests[q].by \in orders[o].policy.addresses
        /\ \/ receipts'[x] = receipts[x]
           \/ x = o /\ receipts'[x] = receipts[x] \cup {requests[q].by}
    BY <1>1, <1>2 DEF RInv, TypeOK, RecordReceipt, RecordConsent, Counts, Heard, MayRelease
  <2>4. /\ consents[x] \subseteq acted[x]
        /\ receipts[x] \subseteq acted[x]
        /\ consents[x] # {} => /\ orders[x].policy.type = "all_of"
                               /\ consents[x] \subseteq orders[x].policy.addresses
    BY DEF RInv, RecordsAreTrue
  <2>5. QED
    BY <1>2, <2>1, <2>2, <2>3, <2>4
<1>15. UnplacedIsBlank'
  <2>1. \A x \in Orders \ {o} : receipts'[x] = receipts[x]
    BY <1>1, <1>2 DEF RInv, TypeOK, RecordReceipt
  <2>2. QED
    BY <1>2, <1>7, <1>9, <2>1 DEF RInv, UnplacedIsBlank
<1>16. QED
  BY <1>2, <1>3, <1>9, <1>10, <1>12, <1>13, <1>14, <1>15, ClaimChangeKeeps

\* Crashes, wherever they cut the request that is being handled.
LEMMA CrashKeeps ==
    ASSUME RInv, TypeOK',
           Crash \/ \E q \in Requests : CrashAfterReceipt(q) \/ CrashAfterConsent(q)
    PROVE  RInv'
<1>1. Die
  BY DEF Crash, CrashAfterReceipt, CrashAfterConsent
<1>2. /\ \A p \in Requests : \/ requests'[p] = requests[p]
                             \/ requests'[p].at \in {"refused", "waiting", "closed", "lost"}
      /\ UNCHANGED <<orders, acted>>
  BY <1>1, DieFrame DEF RInv
<1>3. CASE Crash
  BY <1>2, <1>3, QuietKeeps DEF Crash
<1>4. ASSUME NEW q \in Requests, CrashAfterReceipt(q) PROVE RInv'
  <2>1. RecordsAreTrue' /\ UnplacedIsBlank'
    BY <1>2, <1>4, RecordingIsTrue DEF CrashAfterReceipt
  <2>2. UnanimousIsReleased'
    BY <1>2, <1>4 DEF RInv, CrashAfterReceipt, UnanimousIsReleased, Unanimous, Active, Placed
  <2>3. QED
    BY <1>2, <2>1, <2>2, AnsweringKeeps
<1>5. ASSUME NEW q \in Requests, CrashAfterConsent(q) PROVE RInv'
  <2>1. RecordsAreTrue' /\ UnplacedIsBlank'
    BY <1>2, <1>5, RecordingIsTrue DEF CrashAfterConsent, Heard
  <2>2. PICK o \in Orders : o = requests[q].order
    BY <1>5, Fields DEF RInv, CrashAfterConsent, Heard, Request
  <2>3. /\ cut' = cut \cup {o}
        /\ \A x \in Orders \ {o} : consents'[x] = consents[x]
    BY <1>5, <2>2 DEF RInv, TypeOK, CrashAfterConsent, RecordConsent
  <2>4. UnanimousIsReleased'
    BY <1>2, <2>3 DEF RInv, UnanimousIsReleased, Unanimous, Active, Placed
  <2>5. QED
    BY <1>2, <2>1, <2>4, AnsweringKeeps
<1>6. QED
  BY <1>3, <1>4, <1>5

LEMMA RStep == RInv /\ [Next]_vars => RInv'
<1> SUFFICES ASSUME RInv, [Next]_vars PROVE RInv'
  OBVIOUS
<1>1. TypeOK'
  BY TypeStep DEF RInv
<1>2. CASE UNCHANGED vars
  BY <1>1, <1>2, QuietKeeps DEF vars
<1>3. ASSUME NEW o \in Orders, NEW a \in Owners, NEW p \in Policies \cup {OwnerOnly},
             NEW commitment \in BOOLEAN, NEW claim \in {"active", "dormant"},
             Place(o, a, p, commitment, claim)
      PROVE  RInv'
  BY <1>1, <1>3, PlaceKeeps
<1>4. ASSUME NEW o \in Orders, Promote(o) \/ EndOtherwise(o) PROVE RInv'
  BY <1>1, <1>4, OtherChangeKeeps
<1>5. ASSUME NEW q \in Requests, NEW kind \in {"release", "receipt"}, NEW o \in Orders,
             NEW a \in Accounts, NEW genuine \in BOOLEAN, NEW proof \in BOOLEAN,
             Send(q, kind, o, a, genuine, proof)
      PROVE  RInv'
  BY <1>1, <1>5, SendKeeps
<1>6. ASSUME NEW q \in Requests, Unreachable(q) \/ Unproven(q) PROVE RInv'
  BY <1>1, <1>6, RefusalKeeps
<1>7. ASSUME NEW q \in Requests, NoSay(q) \/ Wait(q) \/ AlreadyClosed(q) PROVE RInv'
  BY <1>1, <1>7, DecisionKeeps
<1>8. ASSUME NEW q \in Requests, Release(q) PROVE RInv'
  BY <1>1, <1>8, ReleaseKeeps
<1>9. CASE Crash \/ \E q \in Requests : CrashAfterReceipt(q) \/ CrashAfterConsent(q)
  BY <1>1, <1>9, CrashKeeps
<1>10. QED
  BY <1>2, <1>3, <1>4, <1>5, <1>6, <1>7, <1>8, <1>9 DEF Next, Decide

LEMMA RInvariant == Spec => []RInv
  BY RInit, RStep, PTL DEF Spec

\* For any accounts, orders and policies: a file stops being hosted by release
\* only if its owner, one recipient of an any_of policy or every recipient of an
\* all_of policy signed for it.
THEOREM ReleaseNeedsAuthority == Spec => []ReleasedWithAuthority
<1>1. RInv => ReleasedWithAuthority
  BY DEF RInv
<1>2. QED
  BY <1>1, RInvariant, PTL

\* The tables hold the consents and receipts of people who gave them, and only
\* of recipients that the policy counts.
THEOREM TablesAreTrue == Spec => []RecordsAreTrue
<1>1. RInv => RecordsAreTrue
  BY DEF RInv
<1>2. QED
  BY <1>1, RInvariant, PTL

\* An order that every recipient consented to release is not hosted, short of a
\* crash between the last consent's commit and the end of the claim.
THEOREM UnanimityReleases == Spec => []UnanimousIsReleased
<1>1. RInv => UnanimousIsReleased
  BY DEF RInv
<1>2. QED
  BY <1>1, RInvariant, PTL

\* However many requests reach the threshold, one ends the claim and settles its
\* refund.
THEOREM ReleasedOnce == Spec => []EndedOnce
<1>1. RInv => EndedOnce
  BY DEF RInv
<1>2. QED
  BY <1>1, RInvariant, PTL

\* Only its own handler answers a request, and "waiting", "closed" and "ended" are
\* the answers to one that is heard.
LEMMA AnswersAreHeard ==
    ASSUME RInv, Next, NEW q \in Requests, requests[q].at = "checking",
           requests'[q].at \in {"waiting", "closed", "ended"}
    PROVE  Wait(q) \/ AlreadyClosed(q) \/ Release(q)
<1>1. requests'[q] # requests[q]
  OBVIOUS
<1>2. TypeOK
  BY DEF RInv
<1>3. ASSUME NEW o \in Orders, NEW a \in Owners, NEW p \in Policies \cup {OwnerOnly},
             NEW commitment \in BOOLEAN, NEW claim \in {"active", "dormant"},
             Place(o, a, p, commitment, claim)
      PROVE  FALSE
  BY <1>1, <1>3 DEF Place
<1>4. ASSUME NEW o \in Orders, Promote(o) \/ EndOtherwise(o) PROVE FALSE
  BY <1>1, <1>4 DEF Promote, EndOtherwise
<1>5. ASSUME NEW p \in Requests, NEW kind \in {"release", "receipt"}, NEW o \in Orders,
             NEW a \in Accounts, NEW genuine \in BOOLEAN, NEW proof \in BOOLEAN,
             Send(p, kind, o, a, genuine, proof)
      PROVE  FALSE
  BY <1>1, <1>2, <1>5 DEF Send, TypeOK
<1>6. ASSUME NEW p \in Requests, Unreachable(p) \/ Unproven(p) \/ NoSay(p) PROVE FALSE
  <2>1. PICK out \in {"refused", "lost"} : Answer(p, out)
    BY <1>6 DEF Unreachable, Unproven, NoSay
  <2>2. QED
    BY <1>1, <1>2, <2>1, AnswerFrame
<1>7. ASSUME NEW p \in Requests, Wait(p) \/ AlreadyClosed(p) \/ Release(p) PROVE p = q
  <2>1. PICK out \in {"waiting", "closed", "ended"} : Answer(p, out)
    BY <1>7 DEF Wait, AlreadyClosed, Release
  <2>2. QED
    BY <1>1, <1>2, <2>1, AnswerFrame
<1>8. ASSUME Die PROVE FALSE
  BY <1>1, <1>2, <1>8, DieFrame
<1>9. QED
  BY <1>3, <1>4, <1>5, <1>6, <1>7, <1>8
  DEF Next, Decide, Crash, CrashAfterReceipt, CrashAfterConsent

\* Whatever a crash left behind, the next request that is heard leaves no order
\* that is both unanimous and hosted.
THEOREM RetriesHeal == Spec => RetryHeals
<1> DEFINE Heals ==
      \A q \in Requests :
          /\ requests[q].at = "checking"
          /\ requests'[q].at \in {"waiting", "closed", "ended"}
          => ~(Unanimous(requests[q].order) /\ Active(requests[q].order))'
<1>1. RInv /\ [Next]_vars => [Heals]_vars
  <2> SUFFICES ASSUME RInv, Next, NEW q \in Requests, requests[q].at = "checking",
                      requests'[q].at \in {"waiting", "closed", "ended"},
                      Unanimous(requests[q].order)', Active(requests[q].order)'
               PROVE  FALSE
    BY DEF Heals
  <2>1. PICK o \in Orders : o = requests[q].order
    BY Fields DEF RInv, Request
  <2>2. Wait(q) \/ AlreadyClosed(q) \/ Release(q)
    BY AnswersAreHeard
  <2>3. PICK out \in {"waiting", "closed", "ended"} : Answer(q, out)
    BY <2>2 DEF Wait, AlreadyClosed, Release
  <2>4. requests'[q].order = o
    <3>1. TypeOK
      BY DEF RInv
    <3>2. QED
      BY <2>1, <2>3, <3>1, AnswerFrame
  <2>5. /\ orders'[o] # Nil /\ orders'[o].claim = "active"
        /\ orders'[o].policy.addresses \subseteq consents'[o]
    BY <2>4 DEF Unanimous, Active, Placed
  <2>6. CASE Wait(q)
    <3>1. consents'[o] \subseteq consents[o] \cup {requests[q].by}
      BY <2>1, <2>6 DEF Wait, RecordConsent, RInv, TypeOK
    <3>2. ~(orders[o].policy.addresses \subseteq consents[o] \cup {requests[q].by})
      BY <2>1, <2>6 DEF Wait, Decides, Ends
    <3>3. orders' = orders
      BY <2>6 DEF Wait
    <3>4. QED
      BY <2>5, <3>1, <3>2, <3>3
  <2>7. CASE AlreadyClosed(q)
    BY <2>1, <2>5, <2>7 DEF AlreadyClosed, Active, Placed
  <2>8. CASE Release(q)
    <3>1. orders[o] \in Order /\ orders' = [orders EXCEPT ![o].claim = "released"]
      BY <2>1, <2>8, PlacedRow DEF RInv, Release, Active, EndClaim
    <3>2. orders'[o].claim = "released"
      BY <3>1 DEF RInv, TypeOK, Order
    <3>3. QED
      BY <2>5, <3>2
  <2>9. QED
    BY <2>2, <2>6, <2>7, <2>8
<1>2. QED
  BY <1>1, RInvariant, PTL DEF Spec, RetryHeals
=============================================================================
