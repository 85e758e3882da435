# A TLA+ development of ipfs-gate-node

ipfs-gate-node is a paid gate in front of a Kubo (IPFS) daemon.  Accounts of the
Hive blockchain pay to have a file pinned, extend the time, wait in line as
guardians of files others pay for, and get refunds when a hosting is cut short.
An administrator bans accounts and takes content down.  An optional second
program, the *escrow box*, holds the money and answers signed reports with signed
receipts.

The node is one Node.js process with one SQLite database (better-sqlite3, so that
every statement and transaction is synchronous).  Three facts shape every
module here:

* **Between two `await`s a handler runs alone.**  A transaction, and in fact any
  run of code without an `await`, is one atomic step.  Across an `await`
  anything else may run: another request, the sweeper, the administrator.
* **A crash keeps the committed rows and forgets everything else**, including
  the list of things a handler had yet to do.
* **Four parties hold state**: the database, Kubo, the chain, and the box.
  Nothing makes a change in two of them atomic.

Line numbers below are those of `src/`.

## 1. The system and its parts

| Part | State it keeps | Operations | Talks to | Modelled |
|---|---|---|---|---|
| **Hosting ledger** (`quota.js`, `moderation.js`, handlers of `server.js`) | `pins`, `claims`, `banned_accounts`, `blocked_cids` | upload, own copy, pledge, extend, cancel, release, delete, sweep, ban, unban, takedown, import, untakedown | the settlement gets the claims it cancelled; the Kubo part gets the CIDs it left without a funder | `HostingLedger` |
| **Reservations, payments, upload** (`server.js:530-900`, `quota.js`, `hive-verify.js`) | `reservations`, `payments` | reserve, upload (4 awaits), sweep | chain and sidechain, Kubo, ledger | `UploadFlow` |
| **Kubo pins** (`backends/kubo.js`, `sweeper.js`, every handler that unpins) | Kubo's pin set and block store | add, unpin, gc | ledger | `KuboPins` |
| **Escrow settlement, box mode** (`escrow-box-mode.js`, `escrow-settlement-queue.js`, `escrow-box-client.mjs`, `server.js` broadcastRefund, finalizeRefund) | `refunds`, `pending_reports`, the handlers' memory | settle, publish, drain, receive, restart | the box, over Nostr relays | `EscrowSettlement` |
| **Release policies** (`release-policy.js`, `server.js:1352-1530`, `quota.js:529-556`) | `release_consents`, `receipts`, the policy of an order | release, receipt | ledger, chain | `ReleaseConsents` |
| **Prices** (`pricing.js`) | none | pure functions of sizes, hours, amounts | every paid request, every refund | `Pricing` |
| **Paid requests and in-process refunds** (`server.js`, `quota.js`, `hive-verify.js`) | `payments`, the amounts of `claims`, `refunds` | upload, own copy, pledge, extend; every early end; broadcast and mark | chain, ledger | `PaidClaims` |
| **Schema and migrations** (`quota.js:34-60`, `migrations/*.sql`) | `schema_version`, the tables themselves | one script per release, at boot | all | `Migrations` |
| **Reports, receipts, envelopes** (`escrow-report.js`, `envelope.js`) | none | sign, hash, check | settlement | the stable nonce only |
| **On-chain verification** (`hive-verify.js`) | none | find, parse, poll | every paid request | its verdicts, memo and amount |
| **Whitelist and quotas** (`moderation.js`) | `whitelisted_accounts` | add, remove, set | upload, prices | the exemption, the cap |
| **Byte ranges** (`range.js`), **content delivery, listings, front end, deployment** | none | reads | all | no |

How they interact: a handler *checks* (is the account banned? is the CID blocked?
is there a host?), *awaits* (the chain, Kubo, the box), *commits* to the ledger
in one transaction, then *acts* on the outcome that transaction returned
(unpin these CIDs, refund these claims).  The two arrows "check, await, commit"
and "commit, await, act" are where nearly all that is hard in this program
lies.

What is hard, part by part, and what correct means there:

* **Ledger.**  Each file is a small queue: hosts that pay now, behind them
  guardians in pledge order.  Whoever ends the last host, in whichever of six
  ways, has to promote the first guardian in the same transaction.  Claim and pin
  repeat each other's expiry and owner.  A ban, a takedown or an expiry may
  overtake a request between its check and its commit.  *Correct*: pins and
  claims agree; a blocked file is not hosted; the queue is fair, loses nobody,
  and has nobody behind nothing; each cancelled claim is handed out for a refund
  exactly once.
* **Upload.**  Two requests may present one transfer, or one reservation; the
  sweeper may expire a reservation whose upload is under way; the sidechain may be
  slower than the poll; the node may die between taking the money and saying so.
  *Correct*: what is hosted was paid for, once; a reservation that is final stays
  so, and each becomes final.
* **Kubo.**  Add comes before the row and unpin after it.  *Correct*: a file
  somebody pays for has its bytes; a file nobody pays for is let go.
* **Settlement.**  The node may die between any two commits; relays lose, repeat
  and reorder.  *Correct*: at most one disbursement per claim; the refund row says
  what happened; every report gets its answer.
* **Release policies.**  Consents come in over time, by separate requests, as
  releases or as receipts, while the claim may end some other way; a handler
  records its consent in one commit and ends the claim in the next.  *Correct*:
  nobody's file is released without the people its policy names; the last
  consent ends the claim; one request settles the refund.
* **Money.**  A payment is recorded in one commit and what it buys is written in
  the next, and prices, exemptions and the hosting mode may change between the
  quote and the refund.  *Correct*: one transfer buys one thing; the timer is what
  was bought; a refund stays within what was paid; the refund row says what was
  sent.
* **Migrations.**  Scripts run statement by statement, outside of a transaction
  but for one, and one of them rebuilds the table that holds everybody's money.
  *Correct*: a stamped version is whole; no claim is lost; the queue keeps its
  order; the node comes up.

`PROJECT.json` lists the hazards one by one, at the line where each bites, with
the properties that watch it.

## 2. The modules

```
  HostingQueue  <--- refines ---  HostingLedger        UploadFlow      KuboPins
  (hosts and a line   |           (tables, 15 actions) (2 handlers,    (handlers
   per file)          |                 |               chain, crash)   against Kubo)
                LedgerImplementsQueue --+                   |              |
                      |                 |                   |              |
                MCHostingLedger   HostingLedgerProofs   MCUploadFlow   MCKuboPins
                                  LedgerQueueProofs     UploadFlowProofs  KuboPinsProofs

  RefundPromise <--- refines ---  EscrowSettlement --- MCEscrowSettlement
  (record, decide, close)               |
                                  EscrowSettlementProofs

  Pricing --- PaidClaims --- MCPaidClaims    ReleaseConsents --- MCReleaseConsents
                  |                                |
            PaidClaimsProofs                 ReleaseConsentsProofs

  Migrations --- MCMigrations
      |
  MigrationsProofs
```

The components are checked apart.  What one assumes of the other is written in
both: `UploadFlow` stops at `createOrderWithClaim`, which is where
`HostingLedger`'s `Upload` begins; `HostingLedger` counts a refund as handed over
(`refundsDue`) at the place where `EscrowSettlement`'s `Void` and `PaidClaims`'
`Settle` pick it up; `KuboPins` lets any row end at any time, and
`ReleaseConsents` lets any claim end or be promoted at any time, which is more than
`HostingLedger`'s actions do, so what holds there holds for every ledger.
`PaidClaims` follows the money of one CID and leaves who may do what, and the
order of the queue, to `HostingLedger`.

### HostingLedger

State: `pins` and `claims` are functions from row names; one name stands for the
claim row and for the pin row it owns (`claims.pin_id`).  An own copy and a
promotion write the two in one transaction; an upload writes the pin and then the
claim, with no `await` in between, so only a crash or a failed insert leaves the
pin alone, which is `OrphanPin`.  `registry` is `blocked_cids` per
CID (a row, once there, is never removed: `unblocked`).  `banned` is the accounts
with an open ban.  `now` is the clock in hours.  `refundsDue` is a history
variable: how often a claim was returned to a caller whose next step is to refund
it.

| Action | Code |
|---|---|
| `Upload`, `OrphanPin` | `createPin` and `createOrderWithClaim`, and a `createPin` whose claim was not written (`server.js:838-900`) |
| `OwnCopy`, `Pledge` | `createOwnCopyClaim`, `createDormantClaim` with their handlers |
| `ExtendClaim` | `POST /claims/extend`: claim and pin |
| `CancelDormant`, `CancelActive` | `POST /claims/cancel`, `/claims/release`, `/uploads/delete`; all behind the `WHERE status = ...` lock |
| `RemovePinForUploader` | `POST /uploads/delete`, the path without a claim |
| `Sweep` | `quota.sweep`: claims, then pins, then `reconcileCidAfterEnd` |
| `BanAccount`, `UnbanAccount`, `TakedownCid`, `ImportTakedown`, `UntakedownCid` | `moderation.js`, the import at `server.js:2259-2300` |
| `Tick` | the clock |

`ReconcileCids` is the heart: given the tables as an action has left them, it
promotes the first guardian of each CID that lost its last pin.  `StaleChecks`
says whether something may overtake a request between its checks and its commit;
the code allows it, so the runs on races set it, and the runs that ask what the
ledger itself guarantees clear it.  `MaxOrphans` does the same for pins without a
claim.

### HostingQueue and LedgerImplementsQueue

What the ledger promises: per CID a set of hosts, a set of guardians in line and
the relation `ahead` of who is served before whom.  `Guard` puts a newcomer behind
everybody in line, for a file that somebody hosts; `Leave(gone)` removes any set
of claims and, in the same step, moves the first in each line that lost its last
host to the hosts.  The refinement mapping reads the hosts off `claims`, the line
off the dormant claims and `ahead` off their slots.  `LatePledges` is the one
thing the promise gives up where a request may be overtaken between its checks and
its commit (`StaleChecks`): a guardian may then join the line of a file that nobody
hosts.  Everything else about the queue holds with and without it.

### UploadFlow

State: `rows` (reservations), `payments` (transaction id to reservation), `chain`
(transfers with their memo and the sidechain's verdict), `requests` (where each
`/upload` stands between its awaits, and what it has read).  Each action is one
piece between two awaits: `Start` (checks, exemption, quote), `BadProof`,
`Replayed`, `VerifyPayment`, `PaymentRefused`, `SidechainFails`, `Record` (insert
into `payments`, then mark the reservation), `PinRefused`, `Commit` (pin row, claim
row, mark uploaded), `Crash`, `CrashInRecord`, `CrashInCommit`.  `RecordThrows` and
`CommitThrows` end in the handler's catch (`server.js:929`): a statement fails, or
the file is empty and `billableMB(0)` throws after it was paid for and pinned.
The catch answers, and undoes nothing.  `Reserve`,
`Lapse` and `SweepReservations` are the reservation's own life; `Pay` and
`SidechainDecides` are the chain; `SetExempt` and `SetBarred` are the
administrator.

### KuboPins

State: `hostings`, the funding rows and the uploads on their way to one;
`errands`, the unpins a handler has decided on and not yet called; `gcDue`;
`pinned` and `stored`, Kubo's two sets.  Every `EndRows` decides in its
transaction which CIDs to unpin, and `UnpinDone` and `Gc` act on it later.  An
upload may throw between its add and its rows (`CommitThrows`): the pin stays, and
no handler knows of it (`Leaked`).
`raced` is a history variable: the CIDs for which an unpin was owed while the same
bytes were being uploaded (`NoteRaces`).  `OnlyRacesLoseBytes` then says that this
race, which the code does have (section 7), is the *only* way to lose the bytes of
a funded file.

### EscrowSettlement and RefundPromise

`EscrowSettlement` has one action per piece of `broadcastRefund`, `enqueue`,
`publishRow`, `drainOnce`, `handleReceipt` and `boot`, one action per place where
the process may die between two commits, one per `catch` that leaves the work
half done (`RecordThrows`, `SettleThrows`, `HandlerThrows`), and the relays as sets
of messages that may be lost, repeated and reordered.  `thrown` is a history
variable: the claims for which such a `catch` was taken.  The box is external: it
acts once on each
`(ref, nonce)` and answers every report with its current verdict; a verdict
`pending` is completed later and announced once.  `RefundPromise` has three
actions: a row is recorded, the box decides, the row is closed with what it
decided.

### ReleaseConsents

State: `orders` (owner, policy and the state of the claim), `consents` and
`receipts` as the two tables hold them, `requests` (where each handler stands),
and two history variables: `acted`, who really signed something for an order, and
`cut`, the orders on which a request died between two of its commits.

| Action | Code |
|---|---|
| `Place` | `POST /upload` with a policy that `release-policy.js` accepts (the empty one is refused); an own copy or a pledge, `owner_only` |
| `Send` | a request arrives: genuine or forged, with or without a proof of decryption, for a policy it may or may not be named in |
| `Unreachable`, `Unproven` | the signature cannot be looked up, or is not the account's (`server.js:1365`, `1456`), or the proof is not the file's |
| `Decide` | the synchronous rest of `POST /claims/release` or `/claims/receipt`: receipt row, consent row, the threshold, the end of the claim |
| `CrashAfterReceipt`, `CrashAfterConsent`, `Crash` | the process dies between two of those commits, or elsewhere |
| `Promote`, `EndOtherwise` | what the ledger does to the claim meanwhile |

`Accepts` is the specification of the policies, in terms of people and not of
rows; `ReleasedWithAuthority` compares what the code did with it.

### Pricing and PaidClaims

`Pricing` has the functions of `pricing.js` over integers: an amount counts units
of 0.001 coins, a rate counts grains, `Grain` of them to a unit, so that the
rounding of every amount is in the model.  `PaidClaims` has the state of the
money: `payments`, `claims` with rate, hours, start and expiry, `refunds` with the
row and what was really sent, `transfers` (the chain), `requests` between their
awaits, and histories of what was charged, bought and used (`ledger`, `uses`).

| Action | Code |
|---|---|
| `Reserve`, `AskUpload`, `AskFreeUpload`, `PayUpload`, `UploadFails`, `Upload` | `POST /reserve` and `POST /upload` with their quote, payment, pin and claim, or the ways it fails after the payment (no pin, blocked meanwhile, an exception) |
| `AskClaim`, `BuyOwnCopy`, `BuyPledge`, `FreeClaim` | `POST /own-copy`, `/guardian/pledge`, paid or exempt |
| `AskExtend`, `BuyExtension`, `FreeExtend` | `POST /claims/extend` |
| `Refuse`, `NotConfirmed` | the transfer is short, spent, for something else, or the sidechain says no |
| `Cancel`, `Takedown`, `Ban`, `Sweep` | every way a claim ends, with the amount each gives back |
| `Settle`, `RecordThrows`, `Sent`, `NoKey`, `SendFails` | `broadcastRefund` in the process: the row, or an exception in place of it, the transfer, the mark |
| `Crash`, `CrashAfterPayment` | a restart, possibly with other prices or another hosting mode |

### Migrations

The seven scripts are sequences of statements (`Scripts`), with the names of the
tables and columns each makes.  State: `db` (stamped versions, objects, the rows
of `claims`), `txn` (the transaction 006 opens), `fk`, `proc` (where `runMigrations`
stands), and two counters.  `Init` is the database of any release, with any rows.
`Run` executes the next statement (`Define`, `StampVersion`, `SetForeignKeys`,
`Begin`, `Copy`, `Drop`, `Rename`, `Number`, `Commit`), or fails on it (`Fail`: an
`ALTER TABLE ... ADD COLUMN` of a column that is there).  `Crash` may come between
any two.  `NewClaim` is the migrated node at work, so that numbers given by 006
and numbers given later meet.

## 3. What the runs check

| Run | Question | Instance | Distinct states |
|---|---|---|---|
| `ledger_races` | With stale checks and orphan pins, do pins and claims agree, are blocked files down, are slots unique, is each refund handed out once and to somebody, is the queue served in order? | 2 accounts, 1 CID, 3 rows, clock to 2, expiries to 3 | 1.14 M |
| `ledger_queue` | With checks that still hold at the commit, is the ledger the queue? | same, expiries to 2 | 261 k |
| `ledger_stale_pledge` | Is there always a host behind whom a guardian waits? **No** | same, stale checks | stops |
| `settlement_crashes` | Is anybody paid or finalized twice, or told the wrong thing? | 2 claims, 2 crashes, lossy | 544 k |
| `settlement_live` | Is every report answered, and every cancel closed unless stranded in one of four named ways? | 1 claim, 2 crashes, lossy, fair | 1.6 k |
| `upload_races` | Was what is hosted paid for, once; are final rows final; when do limits give way; does every reservation resolve that was not cut short? | 2 reservations, 2 requests, 1 transfer, 1 crash, fair | 921 k |
| `kubo_pins` | Does a funded file keep its bytes unless an upload raced its unpin, and is an unfunded one let go unless its pin was leaked? | 1 CID, 3 rows, 2 faults, fair | 89 k |
| `kubo_race` | Does a funded file keep its bytes? **No** | 1 CID, 2 rows | stops |
| `release` | Does hosting end by release only with the authority of the policy, once, and does it end when enough have asked? | 1 order, an owner and 2 recipients, 3 requests, 1 fault, fair | 307 k |
| `paid_claims` | Does a transfer buy one thing, is the timer what was bought, are refunds within deposits, do the rows tell the truth, which steps strand a payment? | 2 transfers, 3 requests, 1 of them exempt at times, clock to 3, 1 fault | 1.53 M |
| `paid_repriced` | Is every refund covered by what was paid? **No** | 1 request | stops |
| `migrations` | Are stamps true, is no claim lost, does the queue keep its order, does the node come up? | every release, up to 3 claims of 2 CIDs, 2 crashes, fair | 512 k |

The type invariants (`TypeOK` of each module) are not in this table: they are
theorems (section 4), for these instances and all others.

Every property of a passing run has a *mutant*: a variant of one definition with
the slip a programmer might make (a dropped guard, a missing half of a pair of
updates, the wrong end of the queue), under which the property fails.  The
mutants stand beside the definitions they vary (`CancelActive_NoReconcile`,
`SettleNonce_PerBoot`, ...) and are used nowhere else.

### Bounds, and why they are enough

* **Three rows, one CID** (ledger): a host, the head of the queue and a second
  guardian are what it takes to tell a fair hand-over from an unfair one, and to
  have a hand-over followed by another.  CIDs meet only in the ban, which ends an
  account's rows on all of them; the theorems are for any number of CIDs.
* **Two accounts**: one that is banned and one that is not.
* **The clock to 2, expiries to 3**: a hosting can be extended once, expire, and
  be succeeded by one that expires.
* **`MaxOrphans`** 1: an orphan can be the last host before a queue.
* **`PermanentExpiry`** 9 stands for the year 9999; it is only ever compared.
* **Two claims, two crashes** (settlement): claims meet only in one handler's
  list, so two show a crash in the middle of it; a second crash hits the recovery
  from the first.
* **Two requests, two reservations, one transfer** (upload): two requests on one
  reservation, on two, with the same payment, and a free quote beside a paid one.
  `DiskLimit` and `MaxPending` are two and `Cap` is three, where two reservations
  and two uploads can promise room for four: both limits can be reached, and be
  passed.
* **`MaxFaults`** 2 and **`MaxErrands`** 1 (Kubo): a failed call and a crash after
  it; a takedown repeated while the first one's unpin is under way brings a second
  errand only when another row has ended meanwhile, which the ends themselves
  show.
* **One order, an owner and two recipients, three requests** (release): orders do
  not meet, the rows being keyed by order; two recipients are what tells `any_of`
  from `all_of`, and the third request is the retry.  The policies offered are
  `any_of` and `all_of` of the two, the empty `all_of` (which must be refused) and
  `owner_only`.
* **Two transfers, three requests** (paid claims): an upload, a claim beside it or
  behind it, and an extension, with one transfer presented twice or two that
  race.  Request 2 may be exempt or not, so that an exemption comes and goes around
  a quote.  `Amounts`, `Grain`, `FeePct` and the rates are such that no quote comes
  out even, and the cap on copies bites.  `MaxEnds` allows one early end, which may
  end several claims together; `Sweep` is not counted.
* **Three claims of two CIDs, timestamps 1 and 2, two crashes** (migrations): a tie
  of `created_ts` and a row of another CID in between; a crash and one in the
  recovery from it.

`CHECK_DEADLOCK FALSE` appears in `kubo_race`, `release`, `paid_claims`,
`paid_repriced` and `migrations`: these instances may use up their rows, requests
or restarts and stop.

### Fairness, and why the code justifies it

* `EscrowSettlement`: the container is restarted (`restart: unless-stopped` in
  `docker-compose.yml`); the event loop reaches every ready handler and timer
  (weak fairness on `Restart`, `DrainTick`, `Settle`); a message published again
  and again is delivered some time (strong fairness on `Publish`, `BoxReceive`,
  `HandleReceipt`: crashes and losses may disable each of them over and over).
  That the box finishes what it retries is an assumption about the box.
* `UploadFlow`: the awaits of a request all end, some way or other (`Answer`: each
  fetch has a timeout, the retries are counted), an exception among them;
  the clock passes an expiry
  (`Lapse`); the sweeper's timer runs.  Not fair: a client that comes back
  (`Start`), a transfer that is sent (`Pay`), a sidechain that decides.
* `KuboPins`: Kubo answers, and a handler that got its answer goes on, or throws.
  That an exception is one of the fair outcomes only weakens what liveness claims.
  Nothing is assumed about users and administrators.
* `ReleaseConsents`: a handler whose lookup was answered goes on (weak fairness on
  `Unproven` or `Decide`, per request).  Nobody has to ask, and the chain may fail.
* `Migrations`: the container is restarted (`Boot`) and the process runs (`Run`);
  a crash disables `Run`, but there are finitely many, so weak fairness does.
* `PaidClaims` and the other runs of `Spec` have no liveness property.

## 4. What is proved

TLAPS checks the theorems for every value of the constants that satisfies the
named assumption of the module (`LedgerAssumption`, `UploadAssumption`,
`KuboAssumption`, `SettlementAssumption`, `ReleaseAssumption`,
`PricingAssumption` and `PaidAssumption`, `MigrationsAssumption`): these ask that
the bounds are numbers, that `Nil` is none of the values it stands beside and, where
a set is counted, that it is finite.  Every invariant, every action property and
both refinements that a passing run checks are theorems; liveness is treated
below.

| Theorem | Property | Argument |
|---|---|---|
| `HostingLedgerProofs!TypeCorrect`, `PinsMirrorClaims`, `BlockedStaysDown` | `TypeOK`, `PinMirrorsClaim`, `BlockedIsNeverHosted` | One invariant, `IInv`, their conjunction.  The three need each other: a hand-over takes its new pin from a claim, so it must know that claims and pins agree and that a blocked CID has no guardian left to promote. |
| `HostingLedgerProofs!RefundsAreNotRepeated` | `RefundedAtMostOnce` | `HandOver` is only ever called on claims that are still live, and a cancelled claim is not live. |
| `HostingLedgerProofs!RefundsFindTheirCaller` | `VoidedClaimsAreSettled` | With `RefundedAtMostOnce`: each action that cancels either hands over all it cancels or has just put the CID on record; a promotion cancels nothing (`ReconcileCancelsNothing`). |
| `LedgerQueueProofs!SlotsAreDistinct` | `QueueSlotsDistinct` | `QInv` adds that only guardians wait, so that the next slot, taken over all guardian rows ever made, is beyond every waiting one. |
| `LedgerQueueProofs!BannedAreOut` | `BannedHoldsNothing`, if `~StaleChecks` | Inductive with the types: a promotion gives an account only what it held a place for, and the ban ends its places first (`ReconcileHoldsNothing`). |
| `LedgerQueueProofs!BatonIsKept` | `BatonIsNeverDropped`, if `MaxOrphans = 0` | `OInv` adds to `IInv` that every active pin has its claim.  Each transaction that ends a pin reconciles that pin's CID (`EndServesQueue`), and a queue that is not empty has a first in line (`FirstInLine`), who is promoted. |
| `LedgerQueueProofs!QueuesHaveHosts` | `NobodyQueuesBehindNothing`, if both | From the same lemma: whoever was waiting keeps a host, and only `Pledge` starts to wait, behind one. |
| `LedgerQueueProofs!BatonIsFair` | `BatonGoesToFirstInLine` | An action property, from `QInv`: only `ReconcileCids` activates a dormant claim, and it chooses a head of a CID with no active pin. |
| `LedgerQueueProofs!LedgerKeepsQueue` | `ImplementsQueue`, if `MaxOrphans = 0` | Initial states map to initial states; under `OInv` and `QInv` each action maps to a `Join`, a `Guard`, a `Leave` or a stutter.  Six ways to end a claim and one lemma for all: whatever an action ended, `ReconcileCids` moves just the abstract `Baton`, since slots order a line without ties and an active pin and an active claim are the same thing. |
| `UploadFlowProofs!TypeCorrect`, `FinalRowsStay`, `HostingWasPaid`, `PaymentsAreSpentOnce` | `TypeOK`, `FinalIsFinal`, `HostedWasPaid`, `PaymentBuysOneUpload` | `UInv`: `Working` (a request under way names its reservation and payment), `Backed` (a request past `Record` has its payments row behind it, and behind that a confirmed transfer or a quote of zero), `OnePayer` (no two such requests name the same row). |
| `UploadFlowProofs!LimitsHoldBeforeUploads` | `LimitsYieldToUploads` | An action property: what is promised is counted as two sets, of reservations that hold and of requests that pin or have pinned.  Each action moves at most one member from the first to the second, and `Reserve` adds one to the first, within the limits, when no upload of theirs is being pinned. |
| `UploadFlowProofs!OnlyCutShortLeavePaid` | `AbandonedWasCutShort` | `PaidIsPinning`: a paid reservation has a request that pins for it, or one of its own that was dropped by a crash or threw.  Whatever else ends a request's pinning also writes the row. |
| `KuboPinsProofs!TypeCorrect`, `RacesAreTheOnlyLoss` | `TypeOK`, `OnlyRacesLoseBytes` | `KInv`: `BytesPinned` (a CID that is funded or freshly added, and not raced, is pinned), `BlockedUnfunded` (so a refused upload may unpin), `ErrandsSafe` (an unpin is owed only for a CID that nobody funds or uploads, or that raced). |
| `KuboPinsProofs!NoPinIsLostSightOf` | `PinsAreAccountedFor` | `AllAnswered`: until the first fault every pin has a funder, an upload about to become one, an errand, or an upload of that CID that threw after its add.  Whatever takes the last funder of a CID puts its unpin on an errand, and an errand that ends has unpinned it or counts as a fault. |
| `EscrowSettlementProofs!TypeCorrect`, `PaidOnce`, `RowsAgreeWithBox` | `TypeOK`, `DisbursedAtMostOnce`, `RowTellsTheTruth` | `SInv`: `Stages` (what each table implies of the next), `OneNonce` (every message of a claim carries the same nonce), `ReceiptsAreTrue` (a definitive receipt on the relays agrees with the box), `RowsAreTrue`. |
| `EscrowSettlementProofs!HandlersRunOnce` | `FinalizedAtMostOnce` | `Fired`, on top of `SInv`: the first handler has run only for a report that is answered, the second only for one whose answer is final, and a receipt is looked up before it is acted upon (`StoredReceipt`). |
| `EscrowSettlementProofs!KeepsPromise` | `ImplementsPromise` | Initial states map to initial states, and under `SInv` every step to a `Record`, a `Decide`, a `Close` or a stutter. |
| `EscrowSettlementProofs!StrandingIsCaused` | `StrandingHasACause` | `Traced`, on top of `SInv`: until the first crash, and for every claim whose own settlement and handlers have thrown nothing, a cancelled claim without a row is still on its handler's list, and one whose row is pending has its report in the queue and no verdict on file (`InHand`); on relays that lose nothing the box's verdict is on its way until it is on file (`VerdictOnItsWay`); an outcome is on file just for the reports that were answered (`AnswersOnFile`). |
| `ReleaseConsentsProofs!TypeCorrect`, `ReleaseNeedsAuthority`, `TablesAreTrue`, `UnanimityReleases`, `ReleasedOnce` | `TypeOK`, `ReleasedWithAuthority`, `RecordsAreTrue`, `UnanimousIsReleased`, `EndedOnce` | `RInv`, their conjunction with `RequestsHonest` (a request past its proof is of somebody who acted), `EndedIsReleased`, `QueueIsOwnerOnly` (a guardian in the queue is one that only its owner may release, so that a promotion makes no unanimous order active) and `UnplacedIsBlank`. |
| `ReleaseConsentsProofs!RetriesHeal` | `RetryHeals` | An action property, from `RInv`: `Decide` counts the releaser again, whoever was counted before. |
| `PaidClaimsProofs!TypeCorrect`, `OneTransferOnePurchase`, `HoursAreKept`, `RefundRowsAreTrue`, `PaymentsAreServed` | `TypeOK`, `PaymentBuysOneThing`, `TimerIsWhatWasBought`, `RefundRowIsTrue`, `PaidIsServed` | `Shaped` sorts the steps into the shapes they can have, once for all proofs; on `Base` (types, and what a request that is under way holds) there is one invariant per property: `Spent` (a transfer that is not recorded, or that an upload still holds, has bought nothing, and no two uploads hold the same), `Timed`, `RefundRows`.  `PaidIsServed` is an action property: `PayingStrands` and `LeftOverStrands` say which of the steps that record a payment leave it unused, `StrandedByUploads` that any other step can strand only what an upload held.  `Kept` and `Over` say what a step may not undo. |
| `PaidClaimsProofs!RefundsStayWithinDeposits` | `RefundWithinDeposit` | `Deposits` ties the rate, the hours and the copies of a claim to what was charged for it, with half a unit of rounding per payment, and `Terms` says that a row keeps its rate and copies; the rest is arithmetic on the pro-rata formula, with integer division and products bounded lemma by lemma. |
| `PaidClaimsProofs!RefundNeverGrows` | (a lemma about `CalculateRefund`) | Integer division, the rounding to coins and the hours used are each monotone; the formula is their composition. |
| `MigrationsProofs!TypeCorrect`, `StampsHold`, `ServesOnlyWhole`, `QueuesKeepTheirOrder`, `PledgesKeepTheirBudget`, `NoClaimIsLost` | `TypeOK`, `StampsAreTrue`, `ServesWhole`, `QueueOrderKept`, `BudgetIsPledge`, `ClaimsSurvive` | `IInv`: `IStamps`, `IObjects` and `ITxn` (what each place in each script has behind it), `IRows` (inside the transaction the copy is the original), `IKeys`, `IKinds`, `IOrder`, `IBudgets`.  That a rank counted row by row orders the queue rests on the least element of a set of naturals. |
| `MigrationsProofs!TornStaysDown` | `TornNeverServes` | `Wedged`, on top of `IInv`: some unstamped version adds a column that exists, and a boot under way has not got past that statement.  It throws there, and objects only grow (`ObjectsGrow`), so the next boot finds the same. |

Each inductive invariant was a TLC invariant before it was a proof.

What stays with TLC: the six liveness properties, since liveness under fairness
and `ENABLED` are out of the proof system's reach.  All but one of
them say that something comes in the end *or* that a named accident has come
first; when that accident can come, and what it leaves behind, is safety, and
proved:

| Checked by TLC | Proved beside it |
|---|---|
| `EveryCancelIsClosed` | `StrandingHasACause`: three of the four strandings need a crash or an exception in that claim's own settlement, the fourth a lost message |
| `ReservationsResolve` | `AbandonedWasCutShort`: a reservation left `paid` without a request had one of its own cut short, by a crash or an exception |
| `UnfundedIsUnpinned` | `PinsAreAccountedFor`: a pin nobody funds has a handler that owes its unpin, or was leaked, by a fault or by an upload that threw |
| `EnoughIsEnough` | `UnanimousIsReleased`: when the last consent is on record the order is ended, or the request was cut |
| `BootsUnlessTorn` | `TornNeverServes`: a torn schema is for good, so the exception cannot be dropped |
| `QueuedReportsAreAnswered` | nothing: it has no exception |

No run lists `StrandingHasACause`, `AbandonedWasCutShort`, `PinsAreAccountedFor` and
`TornNeverServes`; TLC found each of them true of the instance of the run of its
liveness property, before it was proved.

The conditions of the conditional theorems are needed: `ledger_stale_pledge` has
the behaviour without the first, and orphan pins (section 7) are what the second
excludes.  No module declares a recursive operator.

## 5. Assumptions about what is not under `src/`

Kubo: an add pins and stores what it adds, gc removes what is not pinned, a call
that failed may have taken effect.  Hive and the sidechain: a transfer has one
memo, one amount and one final verdict; a broadcast that failed may have been
sent.  The box: one decision per `(ref, nonce)`, answers
repeated from its own record, one announcement of a completion.  Relays: anything
but forgery (messages are signed).  SQLite: a statement outside of a transaction
commits by itself, a transaction as a whole, and `foreign_keys` and an open
transaction end with the connection.  A statement may also throw (a full disk, a
damaged page).  That is an action of its own where the handler has by then taken
a payment, added a file, ended a claim or stored a receipt, and its catch leaves
that as it is: in an upload from its payment on, in `recordRefund`, in the box's
settlement, in a finalize handler.  It is left out where the statement is the one
that would have changed something, and a refusal has the same effect, and in
the statements that write what an own copy, a pledge or an extension has just paid
for.  The clock: the `created_ts` of a new claim
is not before that of an older one.

## 6. The plan

Done: the seven components of section 2, each with a proof of every safety
property and refinement its runs check.  Left, in this order:

1. **Composition**: the ledger's hand-over and the settlement's `Void` as one
   system, so that a cancelled claim is followed from the ban to the closed row;
   the ledger as the source of `KuboPins`' rows, in place of any row ending at any
   time.
2. **Byte ranges** (`range.js`) against a reference definition over bounded
   headers, if content delivery is ever modelled.

## 7. Where the code departs from what it says, or from what one would expect

Three departures have a run that finds them.

1. **A stale pledge** (`ledger_stale_pledge`; `server.js:1639`).  `/guardian/pledge`
   looks for a host, awaits the payment, and does not look again.  If the last
   host ends meanwhile, the guardian waits behind a file that is gone, and
   nothing will ever promote it or give its money back except its own cancel.
2. **Unpinned under a new host** (`kubo_race`; `server.js:1319`).  Whether to unpin
   is decided before the refund is awaited and acted upon after it; an upload of
   the same bytes that commits in between is hosted without bytes.
3. **Repriced** (`paid_repriced`; `server.js:868`).  A reservation quoted free,
   whose account loses its exemption, is satisfied by any transfer, and the claim
   then locks the full rate; a cancel refunds what was never paid.  The comment at
   `server.js:865-867` asks that the two agree.

Others are recorded in the models, where they are an action, a named state or an
exception in a property:

* **A permanent gate with a timer.**  A promoted guardian gets `now` plus the hours
  it paid for in either mode (`quota.js:709`), where a permanent gate is said to
  have none (`server.js:41-42`).
* **Half a receipt.**  The queue row leaves `pending` before the handler runs
  (`escrow-box-mode.js:83`); after a crash in between the drainer does not ask
  again, so the handler runs at most once, and not "EXACTLY once per claim"
  (`escrow-box-mode.js:13-15`).
* **Retry into a conflict.**  The answer "Try uploading again in ~30s"
  (`server.js:796`) comes with the cancellation of the reservation that the retry
  needs (`server.js:788`, `638-640`).
* **Paid for nothing.**  A payment for an own copy or an extension is recorded, and
  then the host turns out to be gone (`server.js:1844-1850`) or the claim to have
  ended (`server.js:1978-1989`); an upload's is recorded before the file is pinned,
  and stays so when the pin fails, the CID turns out to be blocked, or the handler
  throws (`server.js:827-864`).  `PaidIsServed` says that no other step strands a
  payment, short of a crash or a failed write of the purchase itself, and none
  strands a pledge's.  The front end shows `orphan` and `paid_unconfirmed` payments
  (`public/index.html:1152`), which nothing writes.
* **An empty upload.**  Sizes are only checked against a maximum (`server.js:630`,
  `644`).  A ciphertext of no bytes is paid for, added to Kubo and then refused by
  `billableMB`, which throws (`server.js:864`, `pricing.js`): the reservation stays
  `paid`, the pin has no row, the payment bought nothing (`CommitThrows` in
  `UploadFlow` and `KuboPins`, `UploadFails` in `PaidClaims`).
* **A lost refund.**  A crash between the end of a claim and `recordRefund`, or an
  exception in `recordRefund`, leaves no row, where
  `quota.js:784-785` says "never silently lost" (`RefundRowIsTrue`
  has the exception).  The administrator's log-refund marks a payment and not the
  refund row.
* **A torn migration.**  002, 003 and 005 add columns outside of a transaction; a
  crash before the stamp makes the next boot fail on the first of them, and every
  boot after it (`Torn`), where `quota.js:42-45` says "applied exactly once".
* **006 run twice.**  A crash between its `COMMIT` and its stamp runs it again;
  nobody is a `backstop` any more, and every guardian's `pledge_budget` becomes NULL
  (`BudgetIsPledge` has the exception).
* **A queued guardian's release.**  The owner is told that the claim is closed
  (`server.js:1400-1403`); it is not, and its turn still comes.

* **Limits are soft.**  A reservation that is `paid` counts neither against the
  disk nor against the account until its pin row is there (`quota.js:101`,
  `166-178`), so a reserve during an upload passes a limit that is used up;
  and an upload whose reservation lapsed or was used during its awaits is let in
  all the same.  `LimitsYieldToUploads` says that there is no third way.
* **Paid and unmarked.**  `payments` and the reservation's status are written by
  two statements (`server.js:806-822`); a crash in between (`CrashInRecord`)
  spends the payment and lets the reservation expire.
* **Orphan pins** end without `reconcileCidAfterEnd` (`moderation.js:80`,
  `quota.js:400-412`), and the queue behind them is neither promoted nor refunded;
  `BatonIsNeverDropped` is checked with `MaxOrphans = 0`.
* **Imported takedowns** (`server.js:2281-2289`) void claims, and neither refund
  them nor unpin the file.  `VoidedClaimsAreSettled` says just that, and no more.
* **Lost lists.**  Claims voided together are settled from memory
  (`server.js:2012`); a crash forgets the rest, and so does an exception in
  `recordRefund` (`Forgotten`).
* **Unreported.**  When the report cannot be built or queued, the catch at
  `server.js:291-296` leaves the row `pending` and nothing to publish
  (`SettleThrows`); a finalize handler that throws after its receipt was stored
  (`escrow-box-mode.js:90-91`, `109-110`) is logged and not called again
  (`HandlerThrows`).
* **Lost completions.**  A receipt `pending` is a receipt, so the drainer stops
  asking (`escrow-box-mode.js:83-85`); if the one announcement of the completion
  is lost the row stays `pending` (`CompletionLost`).
* **Leaked pins.**  An unpin that failed, an upload that threw after its add, or a
  delete cut short between its rows
  (`server.js:1258-1265`), is not tried again, since the sweeper unpins the CIDs
  whose rows end in that run (`sweeper.js:31-49`; `Leaked`).

## 8. What is not modelled, and why

* **Wire format** (`escrow-report.js`, `envelope.js`): signatures, hashes and field
  checks are functions of one message; an unsigned message is one that is never
  received.
* **Byte ranges and content delivery** (`range.js`, the `GET` handlers): no state,
  and the repository's own test enumerates the headers.
* **Administrator's listings and the log of hand-made refunds**: single reads and
  inserts that nothing else reads.
* **`replicationConfig`**: informational on a node that is alone.
* **Failover among API nodes**: an attempt ends in one of three verdicts whichever
  node answered.
* **Building and signing a transfer**: left to the library; what counts is whether
  it was sent and whether the node learned of it.
* **Front end, deployment**: that the container is restarted is an assumption of
  the fairness conditions.
* **Two processes on one database**: the compose file starts one.
* Texts of answers, logs, indexes, file sizes other than those that a price needs.
