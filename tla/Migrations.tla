------------------------------ MODULE Migrations ------------------------------
(***************************************************************************)
(* runMigrations (src/quota.js) over src/migrations/001 to 007, on the     *)
(* database of any earlier release, by a process that may die between any  *)
(* two statements and is started again (docker-compose: unless-stopped).   *)
(*                                                                         *)
(* db.exec commits statement by statement, but for the transaction that    *)
(* 006 opens; each file stamps its version with its last statement.        *)
(* Tables and columns are modelled by their names, indexes left out; of    *)
(* the rows only those of claims matter, the table that 006 rebuilds.      *)
(***************************************************************************)
EXTENDS Naturals, Sequences, FiniteSets

CONSTANTS
    Cids,
    Times,       \* values of created_ts
    Amounts,     \* values of amount_paid
    None,        \* no transaction is open
    MaxRows,     \* bound: claims in the table
    MaxCrashes   \* bound: crashes

ASSUME MigrationsAssumption ==
    /\ Times \subseteq Nat
    /\ Amounts \subseteq Nat \ {0}
    /\ {MaxRows, MaxCrashes} \subseteq Nat

VARIABLES
    db,        \* what is committed
    txn,       \* the open transaction's view of it, or None
    fk,        \* PRAGMA foreign_keys of the connection
    proc,      \* the process, and its place in the scripts
    crashes,
    rebuilds   \* how often 006 has been committed (history)

vars == <<db, txn, fk, proc, crashes, rebuilds>>

-----------------------------------------------------------------------------
(* The scripts *)

\* CREATE TABLE IF NOT EXISTS, ALTER TABLE ... ADD COLUMN, and INSERT OR IGNORE
\* INTO schema_version; the other statements are those of 006.
Do(op, on) == [op |-> op, on |-> on]
Create(t)  == Do("create", t)
Add(col)   == Do("add", col)
Stamp      == Do("stamp", "")

Script001 == <<Create("reservations"), Create("payments"), Create("pins"),
               Create("banned_accounts"), Create("blocked_cids"), Create("moderation_log"), Stamp>>

Script002_StampFirst == <<Stamp, Add("reservations.mode"), Add("pins.mode"), Add("pins.mime")>>

Script002 == <<Add("reservations.mode"), Add("pins.mode"), Add("pins.mime"), Stamp>>

Script003 == <<Create("orders"), Create("claims"), Create("refunds"),
               Add("reservations.hours_requested"), Add("reservations.copies"),
               Add("reservations.quoted_amount"), Stamp>>

Script004 == <<Create("release_consents"), Stamp>>

Script005 == <<Add("orders.receipt_hash"), Create("receipts"), Stamp>>

\* make, copy, drop and rename rebuild the table; number fills pledge_order.
Script006_FkStaysOff ==
    <<Do("fk", "off"), Do("begin", ""), Do("make", "claims_new"), Do("copy", ""), Do("drop", ""),
       Do("rename", ""), Do("number", ""), Do("commit", ""), Stamp>>

Script006 ==
    <<Do("fk", "off"), Do("begin", ""), Do("make", "claims_new"), Do("copy", ""), Do("drop", ""),
       Do("rename", ""), Do("number", ""), Do("commit", ""), Do("fk", "on"), Stamp>>

Script007 == <<Create("whitelisted_accounts"), Stamp>>

\* readdirSync, sorted
Scripts == <<Script001, Script002, Script003, Script004, Script005, Script006, Script007>>

Versions == 1 .. Len(Scripts)

\* The tables and columns that a script leaves behind.
Makes(v) == {s.on : s \in {Scripts[v][k] : k \in {k \in DOMAIN Scripts[v] :
                                                    Scripts[v][k].op \in {"create", "add"}}}}

-----------------------------------------------------------------------------
(* The database *)

\* 0 is NULL in pledge_order and pledge_budget.
Row == [cid: Cids, ts: Times, paid: Amounts,
        kind: {"original", "own_copy", "backstop", "guardian"}, order: Nat, budget: Amounts \cup {0}]

Object == (UNION {Makes(v) : v \in Versions}) \cup {"claims_new"}

\* refunds: is there a refund, which names a claim?
DB == [objects: SUBSET Object, stamped: SUBSET Versions, claims: Seq(Row), spare: Seq(Row),
       refunds: BOOLEAN]

ASSUME NoneAssumption == None \notin DB

Converted_NoBudget(rows) ==
    [i \in DOMAIN rows |->
        [rows[i] EXCEPT !.kind   = IF @ = "backstop" THEN "guardian" ELSE @,
                        !.order  = 0,
                        !.budget = 0]]

Converted_DropsOldKind(rows) ==
    SelectSeq(rows, LAMBDA r : r.kind # "backstop")

\* INSERT INTO claims_new ... SELECT ... FROM claims
Converted(rows) ==
    [i \in DOMAIN rows |->
        [rows[i] EXCEPT !.kind   = IF @ = "backstop" THEN "guardian" ELSE @,
                        !.order  = 0,
                        !.budget = IF rows[i].kind = "backstop" THEN rows[i].paid ELSE 0]]

\* The queue of a CID: created_ts, then rowid.
Before(rows, j, i) ==
    /\ rows[j].cid = rows[i].cid
    /\ rows[j].kind = "guardian"
    /\ rows[j].ts < rows[i].ts \/ (rows[j].ts = rows[i].ts /\ j <= i)

Numbered_ByTime(rows) ==
    [i \in DOMAIN rows |->
        IF rows[i].kind = "guardian"
        THEN [rows[i] EXCEPT !.order = Cardinality({j \in DOMAIN rows :
                                 /\ rows[j].cid = rows[i].cid /\ rows[j].kind = "guardian"
                                 /\ rows[j].ts <= rows[i].ts})]
        ELSE rows[i]]

\* UPDATE claims SET pledge_order = (SELECT COUNT(*) ...) WHERE kind = 'guardian'
Numbered(rows) ==
    [i \in DOMAIN rows |->
        IF rows[i].kind = "guardian"
        THEN [rows[i] EXCEPT !.order = Cardinality({j \in DOMAIN rows : Before(rows, j, i)})]
        ELSE rows[i]]

\* A database as the release with this many scripts left it; 006 and 007 are new,
\* and what they leave behind is seen at the next start.
Released(level, rows, refunds) ==
    [objects |-> UNION {Makes(v) : v \in 1 .. level}, stamped |-> 1 .. level,
     claims |-> rows, spare |-> << >>, refunds |-> refunds]

OldRow == [cid: Cids, ts: Times, paid: Amounts, kind: {"original", "own_copy", "backstop"},
           order: {0}, budget: {0}]

-----------------------------------------------------------------------------

Down == [at |-> "down", ver |-> 1, stmt |-> 1]

TypeOK ==
    /\ db \in DB
    /\ txn \in DB \cup {None}
    /\ fk \in BOOLEAN
    /\ proc \in [at: {"down", "migrating", "serving"}, ver: Versions, stmt: Nat]
    /\ proc.stmt \in DOMAIN Scripts[proc.ver]
    /\ crashes \in 0 .. MaxCrashes
    /\ rebuilds \in Nat

Init ==
    /\ \E level \in 0 .. 5, n \in 0 .. MaxRows, refunds \in BOOLEAN :
          /\ level < 3 => n = 0
          /\ n = 0 => ~refunds
          /\ \E rows \in [1 .. n -> OldRow] : db = Released(level, rows, refunds)
    /\ txn = None
    /\ fk = TRUE
    /\ proc = Down
    /\ crashes = 0
    /\ rebuilds = 0

\* Where the loop goes on, with the files after the version v.
After(v) ==
    IF v = Len(Scripts) THEN [Down EXCEPT !.at = "serving"]
    ELSE [at |-> "migrating", ver |-> v + 1, stmt |-> 1]

Current_Always == 0

\* SELECT COALESCE(MAX(version), 0)
Current == IF db.stamped = {} THEN 0
           ELSE CHOOSE v \in db.stamped : \A w \in db.stamped : w <= v

\* open, and runMigrations up to its first file that is new.
Boot ==
    /\ proc.at = "down"
    /\ proc' = After(Current)
    /\ fk' = TRUE
    /\ UNCHANGED <<db, txn, crashes, rebuilds>>

View == IF txn = None THEN db ELSE txn

\* A statement commits by itself, or belongs to the transaction.
Write(d) ==
    IF txn = None THEN db' = d /\ txn' = None
    ELSE db' = db /\ txn' = d

Statement == Scripts[proc.ver][proc.stmt]

\* A column that is there, and a table that is referred to.
Throws ==
    \/ Statement.op \in {"add", "make"} /\ Statement.on \in View.objects
    \/ Statement.op = "drop" /\ fk /\ View.refunds

Advance ==
    proc' = IF proc.stmt < Len(Scripts[proc.ver]) THEN [proc EXCEPT !.stmt = @ + 1]
            ELSE After(proc.ver)

\* The next statement is one of these, and succeeds.
Executes(ops) ==
    /\ proc.at = "migrating"
    /\ Statement.op \in ops
    /\ ~Throws
    /\ Advance

Define ==
    /\ Executes({"create", "add", "make"})
    /\ Write([View EXCEPT !.objects = @ \cup {Statement.on}])
    /\ UNCHANGED <<fk, crashes, rebuilds>>

StampVersion ==
    /\ Executes({"stamp"})
    /\ Write([View EXCEPT !.stamped = @ \cup {proc.ver}])
    /\ UNCHANGED <<fk, crashes, rebuilds>>

\* The pragma has no effect within a transaction.
SetForeignKeys ==
    /\ Executes({"fk"})
    /\ fk' = IF txn = None THEN Statement.on = "on" ELSE fk
    /\ UNCHANGED <<db, txn, crashes, rebuilds>>

Begin ==
    /\ Executes({"begin"})
    /\ txn' = db
    /\ UNCHANGED <<db, fk, crashes, rebuilds>>

Copy ==
    /\ Executes({"copy"})
    /\ Write([View EXCEPT !.spare = Converted(View.claims)])
    /\ UNCHANGED <<fk, crashes, rebuilds>>

Drop ==
    /\ Executes({"drop"})
    /\ Write([View EXCEPT !.claims = << >>, !.objects = @ \ {"claims"}])
    /\ UNCHANGED <<fk, crashes, rebuilds>>

Rename ==
    /\ Executes({"rename"})
    /\ Write([View EXCEPT !.claims = View.spare, !.spare = << >>,
                          !.objects = (@ \ {"claims_new"}) \cup {"claims"}])
    /\ UNCHANGED <<fk, crashes, rebuilds>>

Number ==
    /\ Executes({"number"})
    /\ Write([View EXCEPT !.claims = Numbered(@)])
    /\ UNCHANGED <<fk, crashes, rebuilds>>

Commit ==
    /\ Executes({"commit"})
    /\ db' = txn
    /\ txn' = None
    /\ rebuilds' = rebuilds + 1
    /\ UNCHANGED <<fk, crashes>>

\* boot().catch: the process exits, and what is open is rolled back.
Fail ==
    /\ proc.at = "migrating"
    /\ Throws
    /\ proc' = Down
    /\ txn' = None
    /\ UNCHANGED <<db, fk, crashes, rebuilds>>

\* Killed, or stopped for a deployment.
Crash ==
    /\ proc.at # "down"
    /\ crashes < MaxCrashes
    /\ proc' = Down
    /\ txn' = None
    /\ crashes' = crashes + 1
    /\ UNCHANGED <<db, fk, rebuilds>>

\* nextPledgeOrder
NextOrder(cid) ==
    LET taken == {db.claims[i].order : i \in {i \in DOMAIN db.claims :
                     db.claims[i].cid = cid /\ db.claims[i].kind = "guardian"}}
    IN IF taken = {} THEN 1 ELSE (CHOOSE n \in taken : \A m \in taken : m <= n) + 1

\* createOrderWithClaim, in the migrated database.
NewClaim(cid, ts, paid, kind) ==
    /\ proc.at = "serving"
    /\ Len(db.claims) < MaxRows
    /\ \A i \in DOMAIN db.claims : db.claims[i].ts <= ts
    /\ db' = [db EXCEPT !.claims = Append(@,
                [cid |-> cid, ts |-> ts, paid |-> paid, kind |-> kind,
                 order  |-> IF kind = "guardian" THEN NextOrder(cid) ELSE 0,
                 budget |-> IF kind = "guardian" THEN paid ELSE 0])]
    /\ UNCHANGED <<txn, fk, proc, crashes, rebuilds>>

Run == Define \/ StampVersion \/ SetForeignKeys \/ Begin \/ Copy \/ Drop \/ Rename \/ Number
          \/ Commit \/ Fail

Next ==
    \/ Boot
    \/ Run
    \/ Crash
    \/ \E cid \in Cids, ts \in Times, paid \in Amounts, kind \in {"original", "own_copy", "guardian"} :
          NewClaim(cid, ts, paid, kind)

Spec == Init /\ [][Next]_vars

\* The container is restarted, and the process runs.
FairSpec == Spec /\ WF_vars(Boot) /\ WF_vars(Run)

-----------------------------------------------------------------------------
(* Properties *)

\* A version that is stamped has all its tables and columns, and the claims of
\* its schema: what schema_version gates is really there, however often the
\* process died on the way (quota.js:42-60).
StampsAreTrue ==
    /\ \A v \in db.stamped : Makes(v) \subseteq db.objects /\ 1 .. v \subseteq db.stamped
    /\ 6 \in db.stamped => \A i \in DOMAIN db.claims : db.claims[i].kind # "backstop"

\* No step takes a committed claim away or changes what it says; only the kind
\* gets its new name (006_guardian.sql:16-82).
ClaimsSurvive ==
    [][/\ Len(db.claims) <= Len(db'.claims)
       /\ \A i \in DOMAIN db.claims :
             /\ db'.claims[i].cid = db.claims[i].cid
             /\ db'.claims[i].ts = db.claims[i].ts
             /\ db'.claims[i].paid = db.claims[i].paid
             /\ \/ db'.claims[i].kind = db.claims[i].kind
                \/ db.claims[i].kind = "backstop" /\ db'.claims[i].kind = "guardian"]_vars

\* The node serves with every version stamped, no transaction left open and its
\* foreign keys enforced, which 006 turns off (006_guardian.sql:14, 84).
ServesWhole ==
    proc.at = "serving" => db.stamped = Versions /\ txn = None /\ fk

\* The guardians of a CID keep the places they had by created_ts and rowid, and no
\* two share one (006_guardian.sql:68-75, quota.js:505-511).
QueueOrderKept ==
    6 \in db.stamped =>
        \A i, j \in DOMAIN db.claims :
            /\ db.claims[i].kind = "guardian" /\ db.claims[j].kind = "guardian"
            /\ db.claims[i].cid = db.claims[j].cid
            => (db.claims[i].order <= db.claims[j].order <=> Before(db.claims, i, j))

\* A guardian's budget is what it paid, unless a crash made 006 run twice: the
\* second time there is no backstop left to tell who pledged what
\* (006_guardian.sql:61, 82-87).
BudgetIsPledge ==
    \A i \in DOMAIN db.claims :
        db.claims[i].kind = "guardian" =>
            db.claims[i].budget = db.claims[i].paid \/ (rebuilds > 1 /\ crashes > 0)

\* A column of a version that is not stamped.
Torn ==
    \E v \in Versions \ db.stamped : \E k \in DOMAIN Scripts[v] :
        Scripts[v][k].op = "add" /\ Scripts[v][k].on \in db.objects

\* Once it is left alone the node comes up and stays up, or a crash has left one of
\* 002, 003 and 005 half done: these cannot be run again (quota.js:40-45).
BootsUnlessTorn == <>[](proc.at = "serving" \/ (Torn /\ crashes > 0))

\* No restart mends it: once the process is down with a version half done, it never
\* serves again (quota.js:40-60; 002, 003 and 005 add columns unconditionally).
TornNeverServes == [](Torn /\ proc.at = "down" => [](proc.at # "serving"))
=============================================================================
