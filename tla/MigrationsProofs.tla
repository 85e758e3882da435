--------------------------- MODULE MigrationsProofs ---------------------------
(***************************************************************************)
(* Proofs about Migrations: for any claims and any number of crashes.      *)
(***************************************************************************)
EXTENDS Migrations, FiniteSetTheorems, WellFoundedInduction, TLAPS

-----------------------------------------------------------------------------
(* The scripts *)

\* 006, statement by statement.
LEMMA TheRebuild ==
    /\ Len(Script006) = 10 /\ DOMAIN Script006 = 1 .. 10
    /\ Script006[1].op = "fk" /\ Script006[2].op = "begin" /\ Script006[3].op = "make"
    /\ Script006[4].op = "copy" /\ Script006[5].op = "drop" /\ Script006[6].op = "rename"
    /\ Script006[7].op = "number" /\ Script006[8].op = "commit" /\ Script006[9].op = "fk"
    /\ Script006[10].op = "stamp"
    /\ Script006[1].on = "off" /\ Script006[3].on = "claims_new" /\ Script006[9].on = "on"
<1>1. Len(Script006) = 10 /\ DOMAIN Script006 = 1 .. 10
  BY DEF Script006
<1>2. /\ Script006[1].op = "fk" /\ Script006[2].op = "begin" /\ Script006[3].op = "make"
      /\ Script006[4].op = "copy" /\ Script006[5].op = "drop" /\ Script006[6].op = "rename"
  BY DEF Script006, Do, Stamp
<1>3. /\ Script006[7].op = "number" /\ Script006[8].op = "commit" /\ Script006[9].op = "fk"
      /\ Script006[10].op = "stamp"
  BY DEF Script006, Do, Stamp
<1>4. Script006[1].on = "off" /\ Script006[3].on = "claims_new" /\ Script006[9].on = "on"
  BY DEF Script006, Do, Stamp
<1> QED BY <1>1, <1>2, <1>3, <1>4

\* The other scripts create and add, and stamp at last.
Additive(s) ==
    /\ Len(s) \in Nat \ {0}
    /\ DOMAIN s = 1 .. Len(s)
    /\ \A k \in 1 .. Len(s) :
          /\ s[k].op \in {"create", "add", "stamp"}
          /\ s[k].on # "claims_new"
          /\ s[k].op = "stamp" <=> k = Len(s)

LEMMA Additive001 == Additive(Script001)
<1>1. Len(Script001) = 7 /\ DOMAIN Script001 = 1 .. 7
  BY DEF Script001
<1>2. ASSUME NEW k \in 1 .. 7
      PROVE  /\ Script001[k].op \in {"create", "add", "stamp"} /\ Script001[k].on # "claims_new"
             /\ Script001[k].op = "stamp" <=> k = 7
  <2>1. CASE k = 1
    BY <2>1 DEF Script001, Create, Add, Stamp, Do
  <2>2. CASE k = 2
    BY <2>2 DEF Script001, Create, Add, Stamp, Do
  <2>3. CASE k = 3
    BY <2>3 DEF Script001, Create, Add, Stamp, Do
  <2>4. CASE k = 4
    BY <2>4 DEF Script001, Create, Add, Stamp, Do
  <2>5. CASE k = 5
    BY <2>5 DEF Script001, Create, Add, Stamp, Do
  <2>6. CASE k = 6
    BY <2>6 DEF Script001, Create, Add, Stamp, Do
  <2>7. CASE k = 7
    BY <2>7 DEF Script001, Create, Add, Stamp, Do
  <2> QED BY <2>1, <2>2, <2>3, <2>4, <2>5, <2>6, <2>7
<1> QED BY <1>1, <1>2 DEF Additive

LEMMA Additive002 == Additive(Script002)
<1>1. Len(Script002) = 4 /\ DOMAIN Script002 = 1 .. 4
  BY DEF Script002
<1>2. ASSUME NEW k \in 1 .. 4
      PROVE  /\ Script002[k].op \in {"create", "add", "stamp"} /\ Script002[k].on # "claims_new"
             /\ Script002[k].op = "stamp" <=> k = 4
  <2>1. CASE k = 1
    BY <2>1 DEF Script002, Create, Add, Stamp, Do
  <2>2. CASE k = 2
    BY <2>2 DEF Script002, Create, Add, Stamp, Do
  <2>3. CASE k = 3
    BY <2>3 DEF Script002, Create, Add, Stamp, Do
  <2>4. CASE k = 4
    BY <2>4 DEF Script002, Create, Add, Stamp, Do
  <2> QED BY <2>1, <2>2, <2>3, <2>4
<1> QED BY <1>1, <1>2 DEF Additive

LEMMA Additive003 == Additive(Script003)
<1>1. Len(Script003) = 7 /\ DOMAIN Script003 = 1 .. 7
  BY DEF Script003
<1>2. ASSUME NEW k \in 1 .. 7
      PROVE  /\ Script003[k].op \in {"create", "add", "stamp"} /\ Script003[k].on # "claims_new"
             /\ Script003[k].op = "stamp" <=> k = 7
  <2>1. CASE k = 1
    BY <2>1 DEF Script003, Create, Add, Stamp, Do
  <2>2. CASE k = 2
    BY <2>2 DEF Script003, Create, Add, Stamp, Do
  <2>3. CASE k = 3
    BY <2>3 DEF Script003, Create, Add, Stamp, Do
  <2>4. CASE k = 4
    BY <2>4 DEF Script003, Create, Add, Stamp, Do
  <2>5. CASE k = 5
    BY <2>5 DEF Script003, Create, Add, Stamp, Do
  <2>6. CASE k = 6
    BY <2>6 DEF Script003, Create, Add, Stamp, Do
  <2>7. CASE k = 7
    BY <2>7 DEF Script003, Create, Add, Stamp, Do
  <2> QED BY <2>1, <2>2, <2>3, <2>4, <2>5, <2>6, <2>7
<1> QED BY <1>1, <1>2 DEF Additive

LEMMA Additive004 == Additive(Script004)
<1>1. Len(Script004) = 2 /\ DOMAIN Script004 = 1 .. 2
  BY DEF Script004
<1>2. ASSUME NEW k \in 1 .. 2
      PROVE  /\ Script004[k].op \in {"create", "add", "stamp"} /\ Script004[k].on # "claims_new"
             /\ Script004[k].op = "stamp" <=> k = 2
  <2>1. CASE k = 1
    BY <2>1 DEF Script004, Create, Add, Stamp, Do
  <2>2. CASE k = 2
    BY <2>2 DEF Script004, Create, Add, Stamp, Do
  <2> QED BY <2>1, <2>2
<1> QED BY <1>1, <1>2 DEF Additive

LEMMA Additive005 == Additive(Script005)
<1>1. Len(Script005) = 3 /\ DOMAIN Script005 = 1 .. 3
  BY DEF Script005
<1>2. ASSUME NEW k \in 1 .. 3
      PROVE  /\ Script005[k].op \in {"create", "add", "stamp"} /\ Script005[k].on # "claims_new"
             /\ Script005[k].op = "stamp" <=> k = 3
  <2>1. CASE k = 1
    BY <2>1 DEF Script005, Create, Add, Stamp, Do
  <2>2. CASE k = 2
    BY <2>2 DEF Script005, Create, Add, Stamp, Do
  <2>3. CASE k = 3
    BY <2>3 DEF Script005, Create, Add, Stamp, Do
  <2> QED BY <2>1, <2>2, <2>3
<1> QED BY <1>1, <1>2 DEF Additive

LEMMA Additive007 == Additive(Script007)
<1>1. Len(Script007) = 2 /\ DOMAIN Script007 = 1 .. 2
  BY DEF Script007
<1>2. ASSUME NEW k \in 1 .. 2
      PROVE  /\ Script007[k].op \in {"create", "add", "stamp"} /\ Script007[k].on # "claims_new"
             /\ Script007[k].op = "stamp" <=> k = 2
  <2>1. CASE k = 1
    BY <2>1 DEF Script007, Create, Add, Stamp, Do
  <2>2. CASE k = 2
    BY <2>2 DEF Script007, Create, Add, Stamp, Do
  <2> QED BY <2>1, <2>2
<1> QED BY <1>1, <1>2 DEF Additive

LEMMA TheScripts ==
    /\ Len(Scripts) = 7 /\ Versions = 1 .. 7 /\ DOMAIN Scripts = 1 .. 7
    /\ Scripts[1] = Script001 /\ Scripts[2] = Script002 /\ Scripts[3] = Script003
    /\ Scripts[4] = Script004 /\ Scripts[5] = Script005 /\ Scripts[6] = Script006
    /\ Scripts[7] = Script007
BY DEF Scripts, Versions

LEMMA AdditiveScripts == \A v \in Versions : v # 6 => Additive(Scripts[v])
<1> SUFFICES ASSUME NEW v \in Versions, v # 6 PROVE Additive(Scripts[v])
  OBVIOUS
<1>0. v \in 1 .. 7
  BY TheScripts
<1>1. CASE v = 1
  BY <1>1, TheScripts, Additive001
<1>2. CASE v = 2
  BY <1>2, TheScripts, Additive002
<1>3. CASE v = 3
  BY <1>3, TheScripts, Additive003
<1>4. CASE v = 4
  BY <1>4, TheScripts, Additive004
<1>5. CASE v = 5
  BY <1>5, TheScripts, Additive005
<1>6. CASE v = 7
  BY <1>6, TheScripts, Additive007
<1> QED BY <1>0, <1>1, <1>2, <1>3, <1>4, <1>5, <1>6

LEMMA ScriptDomains ==
    ASSUME NEW v \in Versions
    PROVE  Len(Scripts[v]) \in Nat \ {0} /\ DOMAIN Scripts[v] = 1 .. Len(Scripts[v])
<1>1. CASE v = 6
  BY <1>1, TheScripts, TheRebuild
<1>2. CASE v # 6
  BY <1>2, AdditiveScripts DEF Additive
<1> QED BY <1>1, <1>2

LEMMA ObjectNames ==
    /\ "claims_new" \in Object
    /\ \A v \in Versions : Makes(v) \subseteq Object /\ "claims_new" \notin Makes(v)
    /\ Makes(6) = {}
<1>1. ASSUME NEW v \in Versions PROVE Makes(v) \subseteq Object
  BY DEF Object
<1>2. Makes(6) = {}
  <2>1. ASSUME NEW k \in 1 .. 10 PROVE Script006[k].op \notin {"create", "add"}
    <3>1. CASE k \in {1, 2, 3, 4, 5}
      BY <3>1, TheRebuild
    <3>2. CASE k \in {6, 7, 8, 9, 10}
      BY <3>2, TheRebuild
    <3> QED BY <3>1, <3>2
  <2> QED BY <2>1, TheRebuild, TheScripts DEF Makes
<1>3. ASSUME NEW v \in Versions PROVE "claims_new" \notin Makes(v)
  <2>1. CASE v = 6
    BY <1>2, <2>1
  <2>2. CASE v # 6
    BY <2>2, AdditiveScripts DEF Additive, Makes
  <2> QED BY <2>1, <2>2
<1> QED BY <1>1, <1>2, <1>3 DEF Object

\* What a script's statement makes is one of the objects.
LEMMA MadeObjects ==
    ASSUME NEW v \in Versions, NEW k \in DOMAIN Scripts[v], Scripts[v][k].op \in {"create", "add"}
    PROVE  Scripts[v][k].on \in Makes(v)
BY DEF Makes

-----------------------------------------------------------------------------
(* Natural numbers *)

\* Induction, for one set at a time.
LEMMA LeastNatural ==
    ASSUME NEW T, T \subseteq Nat, T # {}
    PROVE  \E x \in T : \A y \in T : x <= y
<1> DEFINE R == {ss \in Nat \X Nat : ss[1] < ss[2]}
<1>1. R = OpToRel(<, Nat)
  BY DEF OpToRel
<1>2. IsWellFoundedOn(OpToRel(<, Nat), Nat)
  BY NatLessThanWellFounded
<1>3. IsWellFoundedOn(R, Nat)
  BY <1>1, <1>2
<1>4. \E x \in T : \A y \in T : ~ (<<y, x>> \in R)
  <2> HIDE DEF R
  <2> QED BY <1>3, WFMin
<1>5. PICK x \in T : \A y \in T : ~ (<<y, x>> \in R)
  BY <1>4
<1>6. ASSUME NEW y \in T PROVE x <= y
  <2>1. x \in Nat /\ y \in Nat
    OBVIOUS
  <2>2. ~ (<<y, x>> \in R)
    BY <1>5
  <2>3. ~ (y < x)
    BY <2>1, <2>2
  <2> QED BY <2>1, <2>3
<1> QED BY <1>6

\* What a sequence holds is bounded.
LEMMA BoundedImage ==
    ASSUME NEW n \in Nat, NEW f, \A i \in 1 .. n : f[i] \in Nat
    PROVE  \E b \in Nat : \A i \in 1 .. n : f[i] <= b
<1> DEFINE Bad == {k \in 0 .. n : ~ \E b \in Nat : \A i \in 1 .. k : f[i] <= b}
<1>1. SUFFICES ASSUME n \in Bad PROVE FALSE
  OBVIOUS
<1>2. Bad \subseteq Nat /\ Bad # {}
  BY <1>1
<1>3. PICK k \in Bad : \A y \in Bad : k <= y
  <2> HIDE DEF Bad
  <2> QED BY <1>2, LeastNatural
<1>4. k \in 0 .. n /\ ~ \E b \in Nat : \A i \in 1 .. k : f[i] <= b
  OBVIOUS
<1>5. k # 0
  <2>1. k = 0 => \A i \in 1 .. k : f[i] <= 0
    OBVIOUS
  <2> QED BY <1>4, <2>1
<1>6. k - 1 \in 0 .. n /\ k - 1 \notin Bad
  <2>1. k - 1 \in 0 .. n /\ ~(k <= k - 1)
    BY <1>4, <1>5
  <2> HIDE DEF Bad
  <2> QED BY <1>3, <2>1
<1>7. PICK b \in Nat : \A i \in 1 .. (k - 1) : f[i] <= b
  BY <1>6
<1>8. f[k] \in Nat
  BY <1>4, <1>5
<1>9. \A i \in 1 .. k : f[i] <= b + f[k]
  <2>1. ASSUME NEW i \in 1 .. k PROVE f[i] <= b + f[k]
    <3>1. CASE i = k
      BY <1>7, <1>8, <3>1
    <3>2. CASE i \in 1 .. (k - 1)
      <4>1. f[i] <= b /\ f[i] \in Nat
        BY <1>4, <1>7, <3>2
      <4> QED BY <1>7, <1>8, <4>1
    <3> QED BY <1>4, <3>1, <3>2
  <2> QED BY <2>1
<1>10. b + f[k] \in Nat
  BY <1>8
<1> QED BY <1>4, <1>9, <1>10

\* MAX() of a column.
LEMMA Greatest ==
    ASSUME NEW T, T \subseteq Nat, T # {}, NEW b \in Nat, \A x \in T : x <= b
    PROVE  \E x \in T : \A y \in T : y <= x
<1> DEFINE U == {u \in Nat : \A x \in T : x <= u}
<1>1. U \subseteq Nat /\ U # {}
  BY Zenon
<1>2. PICK u \in U : \A y \in U : u <= y
  <2> HIDE DEF U
  <2> QED BY <1>1, LeastNatural
<1>3. u \in Nat /\ \A x \in T : x <= u
  OBVIOUS
<1>4. SUFFICES ASSUME u \notin T PROVE FALSE
  BY <1>3
<1>5. \A x \in T : x <= u - 1 /\ u - 1 \in Nat
  <2>1. ASSUME NEW x \in T PROVE x <= u - 1 /\ u - 1 \in Nat
    <3>1. x \in Nat /\ x <= u /\ x # u
      BY <1>3, <1>4
    <3> QED BY <1>3, <3>1
  <2> QED BY <2>1
<1>6. u - 1 \in U
  BY <1>5
<1>7. u <= u - 1
  <2> HIDE DEF U
  <2> QED BY <1>2, <1>6
<1> QED BY <1>3, <1>7

-----------------------------------------------------------------------------
(* Rows *)

LEMMA RowsOf ==
    ASSUME NEW rows \in Seq(Row)
    PROVE  /\ Len(rows) \in Nat /\ DOMAIN rows = 1 .. Len(rows)
           /\ \A i \in DOMAIN rows : rows[i] \in Row
OBVIOUS

LEMMA ConvertedRow ==
    ASSUME NEW rows \in Seq(Row), NEW i \in DOMAIN rows
    PROVE  /\ Converted(rows)[i] \in Row
           /\ Converted(rows)[i].cid = rows[i].cid /\ Converted(rows)[i].ts = rows[i].ts
           /\ Converted(rows)[i].paid = rows[i].paid
           /\ Converted(rows)[i].kind = IF rows[i].kind = "backstop" THEN "guardian" ELSE rows[i].kind
           /\ Converted(rows)[i].budget = IF rows[i].kind = "backstop" THEN rows[i].paid ELSE 0
<1>1. rows[i] \in Row
  BY RowsOf
<1> QED BY <1>1 DEF Converted, Row

LEMMA ConvertedRows ==
    ASSUME NEW rows \in Seq(Row)
    PROVE  Converted(rows) \in Seq(Row) /\ Len(Converted(rows)) = Len(rows)
           /\ DOMAIN Converted(rows) = DOMAIN rows
<1> DEFINE new == Converted(rows)
<1>1. PICK n \in Nat : n = Len(rows) /\ DOMAIN rows = 1 .. n
  BY RowsOf
<1>2. DOMAIN new = 1 .. n
  BY <1>1 DEF Converted
<1>3. \A i \in 1 .. n : new[i] \in Row
  BY <1>1, ConvertedRow
<1>4. new = [i \in 1 .. n |-> new[i]]
  BY <1>1 DEF Converted
<1> HIDE DEF new
<1>5. new \in Seq(Row) /\ Len(new) = n
  BY <1>2, <1>3, <1>4
<1> QED BY <1>1, <1>2, <1>5 DEF new

LEMMA NumberedRow ==
    ASSUME NEW rows \in Seq(Row), NEW i \in DOMAIN rows
    PROVE  /\ Numbered(rows)[i] \in Row
           /\ Numbered(rows)[i].cid = rows[i].cid /\ Numbered(rows)[i].ts = rows[i].ts
           /\ Numbered(rows)[i].paid = rows[i].paid /\ Numbered(rows)[i].kind = rows[i].kind
           /\ Numbered(rows)[i].budget = rows[i].budget
<1> DEFINE S == {j \in DOMAIN rows : Before(rows, j, i)}
<1>1. rows[i] \in Row /\ Len(rows) \in Nat /\ DOMAIN rows = 1 .. Len(rows)
  BY RowsOf
<1>2. IsFiniteSet(DOMAIN rows)
  BY <1>1, FS_Interval
<1>3. S \subseteq DOMAIN rows
  OBVIOUS
<1>4. Cardinality(S) \in Nat
  BY <1>2, <1>3, FS_Subset, FS_CardinalityType
<1>5. Numbered(rows)[i] = IF rows[i].kind = "guardian" THEN [rows[i] EXCEPT !.order = Cardinality(S)]
                          ELSE rows[i]
  BY DEF Numbered
<1> HIDE DEF S
<1> QED BY <1>1, <1>4, <1>5 DEF Row

LEMMA NumberedRows ==
    ASSUME NEW rows \in Seq(Row)
    PROVE  Numbered(rows) \in Seq(Row) /\ Len(Numbered(rows)) = Len(rows)
           /\ DOMAIN Numbered(rows) = DOMAIN rows
<1> DEFINE new == Numbered(rows)
<1>1. PICK n \in Nat : n = Len(rows) /\ DOMAIN rows = 1 .. n
  BY RowsOf
<1>2. DOMAIN new = 1 .. n
  BY <1>1 DEF Numbered
<1>3. \A i \in 1 .. n : new[i] \in Row
  BY <1>1, NumberedRow
<1>4. new = [i \in 1 .. n |-> new[i]]
  BY <1>1 DEF Numbered
<1> HIDE DEF new
<1>5. new \in Seq(Row) /\ Len(new) = n
  BY <1>2, <1>3, <1>4
<1> QED BY <1>1, <1>2, <1>5 DEF new

-----------------------------------------------------------------------------
(* Places in the scripts *)

LEMMA Place ==
    ASSUME TypeOK
    PROVE  /\ proc.ver \in 1 .. 7 /\ proc.stmt \in Nat \ {0}
           /\ proc.stmt \in 1 .. Len(Scripts[proc.ver])
           /\ proc.ver = 6 => proc.stmt \in 1 .. 10 /\ Len(Scripts[proc.ver]) = 10
           /\ proc.ver # 6 => Statement.op \in {"create", "add", "stamp"} /\ Statement.on # "claims_new"
                              /\ (Statement.op = "stamp" <=> proc.stmt = Len(Scripts[proc.ver]))
<1>1. proc.ver \in Versions /\ proc.stmt \in DOMAIN Scripts[proc.ver]
  BY DEF TypeOK
<1>2. PICK v \in Versions : v = proc.ver
  BY <1>1
<1>3. proc.stmt \in 1 .. Len(Scripts[v]) /\ Len(Scripts[v]) \in Nat
  BY <1>1, <1>2, ScriptDomains
<1>4. v = 6 => Len(Scripts[v]) = 10
  BY TheScripts, TheRebuild
<1>5. v # 6 => Statement.op \in {"create", "add", "stamp"} /\ Statement.on # "claims_new"
                /\ (Statement.op = "stamp" <=> proc.stmt = Len(Scripts[v]))
  BY <1>2, <1>3, AdditiveScripts DEF Additive, Statement
<1>6. v \in 1 .. 7
  BY TheScripts
<1>7. proc.stmt \in Nat \ {0}
  BY <1>3
<1>8. v = 6 => proc.stmt \in 1 .. 10
  BY <1>3, <1>4
<1> QED BY <1>2, <1>3, <1>4, <1>5, <1>6, <1>7, <1>8

\* Which statement of 006 it is.
LEMMA Place6 ==
    ASSUME TypeOK, proc.ver = 6
    PROVE  /\ Statement = Script006[proc.stmt]
           /\ Statement.op = "fk" => proc.stmt \in {1, 9}
           /\ Statement.op = "begin" => proc.stmt = 2
           /\ Statement.op = "make" => proc.stmt = 3
           /\ Statement.op = "copy" => proc.stmt = 4
           /\ Statement.op = "drop" => proc.stmt = 5
           /\ Statement.op = "rename" => proc.stmt = 6
           /\ Statement.op = "number" => proc.stmt = 7
           /\ Statement.op = "commit" => proc.stmt = 8
           /\ Statement.op = "stamp" => proc.stmt = 10
           /\ Statement.op \notin {"create", "add"}
<1>1. Statement = Script006[proc.stmt]
  BY TheScripts DEF Statement
<1>2. proc.stmt \in 1 .. 10
  BY Place
<1>3. CASE proc.stmt \in {1, 2, 3, 4, 5}
  BY <1>1, <1>3, TheRebuild
<1>4. CASE proc.stmt \in {6, 7, 8, 9, 10}
  BY <1>1, <1>4, TheRebuild
<1> QED BY <1>1, <1>2, <1>3, <1>4

\* A statement that is not the last goes on to the next one.
LEMMA GoesOn ==
    ASSUME TypeOK, Advance, proc.at = "migrating", proc.stmt < Len(Scripts[proc.ver])
    PROVE  /\ proc'.at = "migrating" /\ proc'.ver = proc.ver /\ proc'.stmt = proc.stmt + 1
           /\ proc' \in [at: {"down", "migrating", "serving"}, ver: Versions, stmt: Nat]
           /\ proc'.stmt \in DOMAIN Scripts[proc'.ver]
<1>1. proc \in [at: {"down", "migrating", "serving"}, ver: Versions, stmt: Nat]
  BY DEF TypeOK
<1>2. PICK n \in Nat : n = proc.stmt
  BY <1>1
<1>3. proc' = [proc EXCEPT !.stmt = n + 1]
  BY <1>2 DEF Advance
<1>4. /\ proc'.at = "migrating" /\ proc'.ver = proc.ver /\ proc'.stmt = n + 1
      /\ proc' \in [at: {"down", "migrating", "serving"}, ver: Versions, stmt: Nat]
  BY <1>1, <1>3
<1>5. n + 1 \in 1 .. Len(Scripts[proc.ver])
  BY <1>1, <1>2, ScriptDomains
<1>6. n + 1 \in DOMAIN Scripts[proc.ver]
  BY <1>1, <1>5, ScriptDomains
<1> QED BY <1>2, <1>4, <1>6

\* After the version v.
LEMMA AfterPlace ==
    ASSUME NEW v \in 0 .. 7
    PROVE  /\ After(v) \in [at: {"down", "migrating", "serving"}, ver: Versions, stmt: Nat]
           /\ After(v).stmt = 1 /\ 1 \in DOMAIN Scripts[After(v).ver]
           /\ v = 7 => After(v).at = "serving"
           /\ v < 7 => After(v).at = "migrating" /\ After(v).ver = v + 1
<1>1. Len(Scripts) = 7 /\ Versions = 1 .. 7
  BY TheScripts
<1>2. ASSUME NEW w \in Versions PROVE 1 \in DOMAIN Scripts[w]
  BY ScriptDomains
<1>3. CASE v = 7
  BY <1>1, <1>2, <1>3 DEF After, Down
<1>4. CASE v < 7
  BY <1>1, <1>2, <1>4 DEF After
<1> QED BY <1>3, <1>4

LEMMA DownPlace ==
    /\ Down \in [at: {"down", "migrating", "serving"}, ver: Versions, stmt: Nat]
    /\ Down.stmt \in DOMAIN Scripts[Down.ver] /\ Down.at = "down"
<1>1. 1 \in Versions /\ 1 \in DOMAIN Scripts[1]
  BY TheScripts, ScriptDomains
<1> QED BY <1>1 DEF Down

-----------------------------------------------------------------------------
(* The inductive invariant *)

NoKind(rows, kind) == \A i \in DOMAIN rows : rows[i].kind # kind

\* The transaction of 006 is open; it has committed and is not stamped yet.
InTxn == proc.at = "migrating" /\ proc.ver = 6 /\ proc.stmt \in 3 .. 8
Done6 == proc.at = "migrating" /\ proc.ver = 6 /\ proc.stmt \in {9, 10}

IStamps ==
    /\ \E n \in 0 .. 7 : db.stamped = 1 .. n
    /\ proc.at = "migrating" => db.stamped = 1 .. (proc.ver - 1)
    /\ proc.at = "serving" => db.stamped = 1 .. 7

\* What the script has made so far is committed; claims_new never is.
IObjects ==
    /\ \A v \in db.stamped : Makes(v) \subseteq db.objects
    /\ "claims_new" \notin db.objects
    /\ proc.at = "migrating" /\ proc.ver # 6 =>
          \A k \in 1 .. (proc.stmt - 1) : Scripts[proc.ver][k].on \in db.objects

\* The transaction's view: all tables but the one it is replacing.
ITxn ==
    /\ txn # None <=> InTxn
    /\ InTxn =>
          /\ txn.stamped = db.stamped
          /\ db.objects \ {"claims"} \subseteq txn.objects
          /\ proc.stmt # 6 => db.objects \subseteq txn.objects
          /\ proc.stmt \in {7, 8} => "claims_new" \notin txn.objects

\* ... and where its rows are.
IRows ==
    InTxn =>
        /\ proc.stmt \in {3, 4, 5} => txn.claims = db.claims
        /\ proc.stmt \in {5, 6} => txn.spare = Converted(db.claims)
        /\ proc.stmt = 7 => txn.claims = Converted(db.claims)
        /\ proc.stmt = 8 => txn.claims = Numbered(Converted(db.claims))

IKeys ==
    /\ proc.at = "serving" => fk = TRUE
    /\ proc.at = "migrating" /\ ~(proc.ver = 6 /\ proc.stmt \in 2 .. 9) => fk = TRUE

IKinds == 6 \in db.stamped \/ Done6 => NoKind(db.claims, "backstop")

\* The guardians' places are those of created_ts and rowid.
QueueKept(rows) ==
    \A i, j \in DOMAIN rows :
        /\ rows[i].kind = "guardian" /\ rows[j].kind = "guardian" /\ rows[i].cid = rows[j].cid
        => (rows[i].order <= rows[j].order <=> Before(rows, i, j))

IOrder == 6 \in db.stamped \/ Done6 => QueueKept(db.claims)

\* 006 is run again only after a crash.
IBudgets ==
    /\ rebuilds = 0 => NoKind(db.claims, "guardian") /\ 6 \notin db.stamped /\ ~Done6
    /\ rebuilds > 0 /\ 6 \notin db.stamped /\ ~Done6 => crashes > 0
    /\ BudgetIsPledge

IInv == TypeOK /\ IStamps /\ IObjects /\ ITxn /\ IRows /\ IKeys /\ IKinds /\ IOrder /\ IBudgets

\* Nothing is written: the process stops, or starts.
LEMMA QuietInv ==
    ASSUME IInv, db' = db, txn' = None, rebuilds' = rebuilds, crashes' \in {crashes, crashes + 1},
           TypeOK', IStamps', IKeys', proc'.at = "migrating" => proc'.stmt = 1,
           ~Done6 \/ crashes' > 0
    PROVE  IInv'
<1>1. ~InTxn' /\ ~Done6'
  BY DEF InTxn, Done6
<1>2. IObjects'
  <2>1. proc'.at = "migrating" => 1 .. (proc'.stmt - 1) = {}
    OBVIOUS
  <2> QED BY <2>1 DEF IInv, IObjects
<1>3. ITxn' /\ IRows'
  BY <1>1 DEF ITxn, IRows
<1>4. IKinds' /\ IOrder'
  BY <1>1 DEF IInv, IKinds, IOrder
<1>5. crashes \in Nat /\ rebuilds \in Nat
  BY MigrationsAssumption DEF IInv, TypeOK
<1>6. IBudgets'
  BY <1>1, <1>5 DEF IInv, IBudgets, BudgetIsPledge
<1> QED BY <1>2, <1>3, <1>4, <1>6 DEF IInv

LEMMA HaltInv ==
    ASSUME IInv, Fail \/ Crash
    PROVE  IInv'
<1>1. db' = db /\ txn' = None /\ rebuilds' = rebuilds /\ proc' = Down /\ fk' = fk
  BY DEF Fail, Crash
<1>2. crashes' \in {crashes, crashes + 1} /\ crashes' \in 0 .. MaxCrashes
  BY MigrationsAssumption DEF Fail, Crash, IInv, TypeOK
<1>3. TypeOK'
  BY <1>1, <1>2, DownPlace DEF IInv, TypeOK
<1>4. IStamps' /\ IKeys'
  BY <1>1, DownPlace DEF IInv, IStamps, IKeys
<1>5. ~Done6 \/ crashes' > 0
  <2>1. CASE Fail
    <3>1. Statement.op \in {"add", "make", "drop"}
      BY <2>1 DEF Fail, Throws
    <3>2. proc.ver = 6 => proc.stmt \in {3, 5}
      BY <3>1, Place6 DEF IInv
    <3> QED BY <3>2 DEF Done6
  <2>2. CASE Crash
    BY <2>2, MigrationsAssumption DEF Crash, IInv, TypeOK
  <2> QED BY <2>1, <2>2
<1>6. proc'.at # "migrating"
  BY <1>1, DownPlace
<1> QED BY <1>1, <1>2, <1>3, <1>4, <1>5, <1>6, QuietInv

\* The highest stamp, where they are 1 to n.
LEMMA CurrentIs ==
    ASSUME NEW n \in 0 .. 7, db.stamped = 1 .. n
    PROVE  Current = n
<1>1. CASE n = 0
  BY <1>1 DEF Current
<1>2. CASE n > 0
  <2>1. n \in db.stamped /\ \A w \in db.stamped : w <= n
    BY <1>2
  <2>2. ASSUME NEW v \in db.stamped, \A w \in db.stamped : w <= v PROVE v = n
    <3>1. n <= v
      BY <2>1, <2>2
    <3>2. v \in 1 .. n
      BY <2>2
    <3> QED BY <3>1, <3>2
  <2>3. db.stamped # {}
    BY <2>1
  <2>4. Current = CHOOSE v \in db.stamped : \A w \in db.stamped : w <= v
    BY <2>3 DEF Current
  <2> QED BY <2>1, <2>2, <2>4
<1> QED BY <1>1, <1>2

LEMMA BootInv ==
    ASSUME IInv, Boot
    PROVE  IInv'
<1>1. PICK n \in 0 .. 7 : db.stamped = 1 .. n
  BY DEF IInv, IStamps
<1>2. proc' = After(n) /\ db' = db /\ fk' = TRUE /\ crashes' = crashes /\ rebuilds' = rebuilds
      /\ proc.at = "down" /\ txn' = txn
  BY <1>1, CurrentIs DEF Boot
<1>3. txn = None /\ ~Done6
  BY <1>2 DEF IInv, ITxn, InTxn, Done6
<1>4. TypeOK'
  BY <1>2, AfterPlace DEF IInv, TypeOK
<1>5. IStamps'
  <2>1. n = 7 => proc'.at = "serving"
    BY <1>2, AfterPlace
  <2>2. n < 7 => proc'.at = "migrating" /\ proc'.ver = n + 1
    BY <1>2, AfterPlace
  <2>3. n = 7 \/ n < 7
    OBVIOUS
  <2>4. n < 7 => 1 .. (proc'.ver - 1) = 1 .. n
    BY <2>2
  <2> QED BY <1>1, <1>2, <2>1, <2>2, <2>3, <2>4 DEF IStamps
<1>6. IKeys'
  BY <1>2 DEF IKeys
<1>7. proc'.stmt = 1
  BY <1>2, AfterPlace
<1> QED BY <1>2, <1>3, <1>4, <1>5, <1>6, <1>7, QuietInv

-----------------------------------------------------------------------------
(* The statements of the additive scripts *)

\* The connection is outside of any transaction.
LEMMA NoTransaction ==
    ASSUME IInv, ~InTxn
    PROVE  txn = None /\ View = db
BY DEF IInv, ITxn, View

LEMMA DefineAdditive ==
    ASSUME IInv, Define, proc.ver # 6
    PROVE  IInv'
<1>1. txn = None /\ View = db /\ ~InTxn /\ ~Done6
  BY NoTransaction DEF InTxn, Done6
<1>2. /\ proc.at = "migrating" /\ Advance /\ Statement.op \in {"create", "add", "make"}
      /\ fk' = fk /\ crashes' = crashes /\ rebuilds' = rebuilds
  BY DEF Define, Executes
<1>3. TypeOK /\ Statement.op \in {"create", "add"} /\ Statement.on # "claims_new"
  BY <1>2, Place DEF IInv
<1>4. proc.stmt < Len(Scripts[proc.ver]) /\ proc.stmt \in Nat /\ proc.ver \in Versions
      /\ proc.stmt \in DOMAIN Scripts[proc.ver]
  BY <1>3, Place, ScriptDomains DEF TypeOK
<1>5. /\ proc'.at = "migrating" /\ proc'.ver = proc.ver /\ proc'.stmt = proc.stmt + 1
      /\ proc' \in [at: {"down", "migrating", "serving"}, ver: Versions, stmt: Nat]
      /\ proc'.stmt \in DOMAIN Scripts[proc'.ver]
  BY <1>2, <1>3, <1>4, GoesOn
<1>6. Statement.on \in Object
  BY <1>3, <1>4, MadeObjects, ObjectNames DEF Statement
<1>7. db' = [db EXCEPT !.objects = @ \cup {Statement.on}] /\ txn' = None
  BY <1>1 DEF Define, Write
<1>8. /\ db' \in DB /\ db'.objects = db.objects \cup {Statement.on} /\ db'.stamped = db.stamped
      /\ db'.claims = db.claims
  BY <1>3, <1>6, <1>7 DEF TypeOK, DB
<1>9. TypeOK'
  BY <1>2, <1>3, <1>5, <1>7, <1>8 DEF TypeOK
<1>10. ~InTxn' /\ ~Done6'
  BY <1>5 DEF InTxn, Done6
<1>11. IStamps'
  BY <1>2, <1>5, <1>8 DEF IInv, IStamps
<1>12. IObjects'
  <2>1. ASSUME NEW k \in 1 .. (proc'.stmt - 1) PROVE Scripts[proc.ver][k].on \in db'.objects
    <3>1. k \in 1 .. proc.stmt
      BY <1>4, <1>5
    <3>2. CASE k = proc.stmt
      BY <1>8, <3>2 DEF Statement
    <3>3. CASE k \in 1 .. (proc.stmt - 1)
      BY <1>2, <1>8, <3>3 DEF IInv, IObjects
    <3> QED BY <1>4, <3>1, <3>2, <3>3
  <2>2. \A v \in db'.stamped : Makes(v) \subseteq db'.objects
    BY <1>8 DEF IInv, IObjects
  <2>3. "claims_new" \notin db'.objects
    BY <1>3, <1>8 DEF IInv, IObjects
  <2> QED BY <1>5, <2>1, <2>2, <2>3 DEF IObjects
<1>13. ITxn' /\ IRows'
  BY <1>7, <1>10 DEF ITxn, IRows
<1>14. IKeys'
  BY <1>2, <1>5 DEF IInv, IKeys
<1>15. IKinds' /\ IOrder' /\ IBudgets'
  BY <1>1, <1>2, <1>8, <1>10 DEF IInv, IKinds, IOrder, IBudgets, BudgetIsPledge
<1> QED BY <1>9, <1>11, <1>12, <1>13, <1>14, <1>15 DEF IInv

LEMMA StampInv ==
    ASSUME IInv, StampVersion
    PROVE  IInv'
<1>1. /\ proc.at = "migrating" /\ Advance /\ Statement.op = "stamp"
      /\ fk' = fk /\ crashes' = crashes /\ rebuilds' = rebuilds
  BY DEF StampVersion, Executes
<1>2. TypeOK /\ proc.ver \in 1 .. 7 /\ proc.stmt \in Nat /\ proc.ver \in Versions
  BY Place, TheScripts DEF IInv
<1>3. proc.stmt = Len(Scripts[proc.ver]) /\ (proc.ver = 6 => proc.stmt = 10)
  BY <1>1, <1>2, Place, Place6
<1>4. PICK v \in 1 .. 7 : v = proc.ver
  BY <1>2
<1>4a. ~(proc.ver = 6 /\ proc.stmt \in 2 .. 9)
  <2>1. CASE proc.ver = 6
    <3>1. proc.stmt = 10
      BY <1>3, <2>1
    <3> QED BY <3>1
  <2> QED BY <2>1
<1>5. txn = None /\ View = db /\ ~InTxn
  <2>1. ~InTxn
    BY <1>4a DEF InTxn
  <2> QED BY <2>1, NoTransaction
<1>6. proc' = After(v)
  <2>1. ~(proc.stmt < Len(Scripts[proc.ver]))
    BY <1>2, <1>3
  <2> QED BY <1>1, <1>4, <2>1 DEF Advance
<1>7. db' = [db EXCEPT !.stamped = @ \cup {v}] /\ txn' = None
  BY <1>4, <1>5 DEF StampVersion, Write
<1>8. db.stamped = 1 .. (v - 1)
  BY <1>1, <1>4 DEF IInv, IStamps
<1>9. /\ db' \in DB /\ db'.objects = db.objects /\ db'.claims = db.claims
      /\ db'.stamped = db.stamped \cup {v}
  BY <1>2, <1>4, <1>7 DEF TypeOK, DB
<1>10. db'.stamped = 1 .. v
  BY <1>8, <1>9
<1>11. TypeOK'
  BY <1>1, <1>2, <1>6, <1>7, <1>9, AfterPlace DEF TypeOK
<1>12. /\ v = 7 => proc'.at = "serving"
       /\ v < 7 => proc'.at = "migrating" /\ proc'.ver = v + 1 /\ proc'.stmt = 1
  BY <1>6, AfterPlace
<1>13. IStamps'
  <2>1. v < 7 => 1 .. (proc'.ver - 1) = 1 .. v
    BY <1>12
  <2>2. v = 7 \/ v < 7
    OBVIOUS
  <2>3. v \in 0 .. 7
    OBVIOUS
  <2> QED BY <1>10, <1>12, <2>1, <2>2, <2>3 DEF IStamps
<1>14. ~InTxn' /\ ~Done6'
  BY <1>12 DEF InTxn, Done6
<1>15. Makes(v) \subseteq db.objects
  <2>1. CASE v = 6
    BY <2>1, ObjectNames
  <2>2. CASE v # 6
    <3>1. ASSUME NEW k \in DOMAIN Scripts[v], Scripts[v][k].op \in {"create", "add"}
          PROVE  Scripts[v][k].on \in db.objects
      <4>1. k \in 1 .. Len(Scripts[v]) /\ Len(Scripts[v]) \in Nat /\ Additive(Scripts[v])
        BY <2>2, <1>2, <1>4, ScriptDomains, AdditiveScripts
      <4>2. k # Len(Scripts[v])
        BY <3>1, <4>1 DEF Additive
      <4>3. k \in 1 .. (proc.stmt - 1)
        BY <1>3, <1>4, <4>1, <4>2
      <4> QED BY <1>1, <1>4, <2>2, <4>3 DEF IInv, IObjects
    <3> QED BY <3>1 DEF Makes
  <2> QED BY <2>1, <2>2
<1>16. IObjects'
  <2>1. proc'.at = "migrating" => 1 .. (proc'.stmt - 1) = {}
    BY <1>12
  <2>2. \A w \in db'.stamped : Makes(w) \subseteq db'.objects
    BY <1>9, <1>15 DEF IInv, IObjects
  <2> QED BY <1>9, <2>1, <2>2 DEF IInv, IObjects
<1>17. ITxn' /\ IRows'
  BY <1>7, <1>14 DEF ITxn, IRows
<1>18. IKeys'
  <2>1. fk = TRUE
    BY <1>1, <1>4a DEF IInv, IKeys
  <2> QED BY <1>1, <2>1 DEF IKeys
<1>19. v = 6 => Done6
  BY <1>1, <1>3, <1>4 DEF Done6
<1>20. v # 6 => ~Done6 /\ (6 \in db'.stamped <=> 6 \in db.stamped)
  BY <1>4, <1>9 DEF Done6
<1>21. IKinds' /\ IOrder'
  BY <1>9, <1>14, <1>19, <1>20 DEF IInv, IKinds, IOrder
<1>22. IBudgets'
  <2>1. CASE v = 6
    <3>1. rebuilds \in Nat /\ rebuilds # 0
      BY <1>2, <1>19, <2>1 DEF IInv, IBudgets, TypeOK
    <3>2. 6 \in db'.stamped
      BY <1>9, <2>1
    <3> QED BY <1>1, <1>9, <3>1, <3>2 DEF IInv, IBudgets, BudgetIsPledge
  <2>2. CASE v # 6
    BY <1>1, <1>9, <1>14, <1>20, <2>2 DEF IInv, IBudgets, BudgetIsPledge
  <2> QED BY <2>1, <2>2
<1> QED BY <1>11, <1>13, <1>16, <1>17, <1>18, <1>21, <1>22 DEF IInv

-----------------------------------------------------------------------------
(* The statements of 006 *)

LEMMA ClaimsTable == "claims" \in Object
<1>1. 3 \in Versions /\ 2 \in DOMAIN Scripts[3] /\ Scripts[3] = Script003
  <2>1. Len(Script003) = 7
    BY DEF Script003
  <2> QED BY <2>1, TheScripts, ScriptDomains
<1>2. Script003[2].op = "create" /\ Script003[2].on = "claims"
  BY DEF Script003, Create, Add, Stamp, Do
<1> QED BY <1>1, <1>2, MadeObjects, ObjectNames

\* Its place before the stamp, and the next one.
LEMMA Goes6 ==
    ASSUME IInv, Advance, proc.at = "migrating", proc.ver = 6, proc.stmt # 10
    PROVE  /\ proc'.at = "migrating" /\ proc'.ver = 6 /\ proc'.stmt = proc.stmt + 1
           /\ proc.stmt \in 1 .. 9
           /\ proc' \in [at: {"down", "migrating", "serving"}, ver: Versions, stmt: Nat]
           /\ proc'.stmt \in DOMAIN Scripts[proc'.ver]
<1>1. TypeOK
  BY DEF IInv
<1>2. proc.stmt \in 1 .. 10 /\ Len(Scripts[proc.ver]) = 10
  BY <1>1, Place
<1>3. proc.stmt \in 1 .. 9 /\ proc.stmt < Len(Scripts[proc.ver])
  BY <1>2
<1> QED BY <1>1, <1>3, GoesOn

\* The database has no trace of the script before the commit.
LEMMA RebuildInv ==
    ASSUME IInv, proc.at = "migrating", proc.ver = 6, proc.stmt \in 2 .. 7, Advance,
           db' = db, fk' = fk, crashes' = crashes, rebuilds' = rebuilds, txn' \in DB, ITxn', IRows'
    PROVE  IInv'
<1>1. /\ proc'.at = "migrating" /\ proc'.ver = 6 /\ proc'.stmt = proc.stmt + 1
      /\ proc' \in [at: {"down", "migrating", "serving"}, ver: Versions, stmt: Nat]
      /\ proc'.stmt \in DOMAIN Scripts[proc'.ver]
  BY Goes6
<1>2. TypeOK'
  BY <1>1 DEF IInv, TypeOK
<1>3. proc'.stmt \in 3 .. 8
  BY <1>1
<1>4. ~Done6 /\ ~Done6'
  BY <1>3 DEF Done6
<1>5. IStamps' /\ IObjects'
  BY <1>1 DEF IInv, IStamps, IObjects
<1>6. IKeys'
  BY <1>1, <1>3 DEF IKeys
<1>7. IKinds' /\ IOrder' /\ IBudgets'
  BY <1>4 DEF IInv, IKinds, IOrder, IBudgets, BudgetIsPledge
<1> QED BY <1>2, <1>5, <1>6, <1>7 DEF IInv

\* Within the transaction: its view is what is read and written.
LEMMA Within ==
    ASSUME IInv, proc.at = "migrating", proc.ver = 6, proc.stmt \in 3 .. 8
    PROVE  /\ InTxn /\ txn # None /\ txn \in DB /\ View = txn /\ db \in DB
           /\ txn.stamped = db.stamped /\ db.objects \ {"claims"} \subseteq txn.objects
           /\ \A d : Write(d) => db' = db /\ txn' = d
<1>1. InTxn
  BY DEF InTxn
<1>2. txn # None
  BY <1>1 DEF IInv, ITxn
<1>3. txn \in DB /\ db \in DB
  BY <1>2 DEF IInv, TypeOK
<1> QED BY <1>1, <1>2, <1>3 DEF IInv, ITxn, View, Write

LEMMA MakeInv ==
    ASSUME IInv, Define, proc.ver = 6
    PROVE  IInv'
<1>1. /\ proc.at = "migrating" /\ Advance /\ Statement.op \in {"create", "add", "make"}
      /\ fk' = fk /\ crashes' = crashes /\ rebuilds' = rebuilds
  BY DEF Define, Executes
<1>2. TypeOK
  BY DEF IInv
<1>3. Statement.op = "make" /\ proc.stmt = 3 /\ Statement.on = "claims_new"
  BY <1>1, <1>2, Place6, TheRebuild
<1>4. proc.stmt \in 3 .. 8 /\ proc.stmt \in 2 .. 7 /\ proc.stmt # 10
  BY <1>3
<1>5. /\ InTxn /\ txn \in DB /\ View = txn /\ txn.stamped = db.stamped
      /\ \A d : Write(d) => db' = db /\ txn' = d
  BY <1>1, <1>4, Within
<1>6. db' = db /\ txn' = [txn EXCEPT !.objects = @ \cup {"claims_new"}]
  BY <1>3, <1>5 DEF Define
<1>7. /\ txn' \in DB /\ txn'.objects = txn.objects \cup {"claims_new"}
      /\ txn'.stamped = txn.stamped /\ txn'.claims = txn.claims
  BY <1>5, <1>6, ObjectNames DEF DB
<1>8. proc'.at = "migrating" /\ proc'.ver = 6 /\ proc'.stmt = 4
  BY <1>1, <1>3, <1>4, Goes6
<1>9. InTxn' /\ txn' # None
  BY <1>7, <1>8, NoneAssumption DEF InTxn
<1>10. db.objects \subseteq txn.objects /\ txn.claims = db.claims
  BY <1>3, <1>5 DEF IInv, ITxn, IRows
<1>11. ITxn' /\ IRows'
  BY <1>5, <1>6, <1>7, <1>8, <1>9, <1>10 DEF ITxn, IRows
<1> QED BY <1>1, <1>4, <1>6, <1>7, <1>11, RebuildInv

LEMMA CopyInv ==
    ASSUME IInv, Copy
    PROVE  IInv'
<1>1. /\ proc.at = "migrating" /\ Advance /\ Statement.op = "copy"
      /\ fk' = fk /\ crashes' = crashes /\ rebuilds' = rebuilds
  BY DEF Copy, Executes
<1>2. TypeOK
  BY DEF IInv
<1>3. proc.ver = 6 /\ proc.stmt = 4
  BY <1>1, <1>2, Place, Place6
<1>4. proc.stmt \in 3 .. 8 /\ proc.stmt \in 2 .. 7 /\ proc.stmt # 10
  BY <1>3
<1>5. /\ InTxn /\ txn \in DB /\ View = txn /\ txn.stamped = db.stamped
      /\ \A d : Write(d) => db' = db /\ txn' = d
  BY <1>1, <1>3, <1>4, Within
<1>6. db' = db /\ txn' = [txn EXCEPT !.spare = Converted(txn.claims)]
  BY <1>5 DEF Copy
<1>7. Converted(txn.claims) \in Seq(Row)
  BY <1>5, ConvertedRows DEF DB
<1>8. /\ txn' \in DB /\ txn'.objects = txn.objects /\ txn'.spare = Converted(txn.claims)
      /\ txn'.stamped = txn.stamped /\ txn'.claims = txn.claims
  BY <1>5, <1>6, <1>7 DEF DB
<1>9. proc'.at = "migrating" /\ proc'.ver = 6 /\ proc'.stmt = 5
  BY <1>1, <1>3, <1>4, Goes6
<1>10. InTxn' /\ txn' # None
  BY <1>8, <1>9, NoneAssumption DEF InTxn
<1>11. db.objects \subseteq txn.objects /\ txn.claims = db.claims
  BY <1>3, <1>5 DEF IInv, ITxn, IRows
<1>12. ITxn' /\ IRows'
  BY <1>5, <1>6, <1>8, <1>9, <1>10, <1>11 DEF ITxn, IRows
<1> QED BY <1>1, <1>3, <1>4, <1>6, <1>8, <1>12, RebuildInv

LEMMA DropInv ==
    ASSUME IInv, Drop
    PROVE  IInv'
<1>1. /\ proc.at = "migrating" /\ Advance /\ Statement.op = "drop"
      /\ fk' = fk /\ crashes' = crashes /\ rebuilds' = rebuilds
  BY DEF Drop, Executes
<1>2. TypeOK
  BY DEF IInv
<1>3. proc.ver = 6 /\ proc.stmt = 5
  BY <1>1, <1>2, Place, Place6
<1>4. proc.stmt \in 3 .. 8 /\ proc.stmt \in 2 .. 7 /\ proc.stmt # 10
  BY <1>3
<1>5. /\ InTxn /\ txn \in DB /\ View = txn /\ txn.stamped = db.stamped
      /\ \A d : Write(d) => db' = db /\ txn' = d
  BY <1>1, <1>3, <1>4, Within
<1>6. db' = db /\ txn' = [txn EXCEPT !.claims = << >>, !.objects = @ \ {"claims"}]
  BY <1>5 DEF Drop
<1>7. /\ txn' \in DB /\ txn'.objects = txn.objects \ {"claims"} /\ txn'.spare = txn.spare
      /\ txn'.stamped = txn.stamped
  <2>1. << >> \in Seq(Row) /\ txn.objects \ {"claims"} \in SUBSET Object
    BY <1>5 DEF DB
  <2> QED BY <1>5, <1>6, <2>1 DEF DB
<1>8. proc'.at = "migrating" /\ proc'.ver = 6 /\ proc'.stmt = 6
  BY <1>1, <1>3, <1>4, Goes6
<1>9. InTxn' /\ txn' # None
  BY <1>7, <1>8, NoneAssumption DEF InTxn
<1>10. db.objects \subseteq txn.objects /\ txn.spare = Converted(db.claims)
  BY <1>3, <1>5 DEF IInv, ITxn, IRows
<1>11. ITxn' /\ IRows'
  BY <1>5, <1>6, <1>7, <1>8, <1>9, <1>10 DEF ITxn, IRows
<1> QED BY <1>1, <1>3, <1>4, <1>6, <1>7, <1>11, RebuildInv

LEMMA RenameInv ==
    ASSUME IInv, Rename
    PROVE  IInv'
<1>1. /\ proc.at = "migrating" /\ Advance /\ Statement.op = "rename"
      /\ fk' = fk /\ crashes' = crashes /\ rebuilds' = rebuilds
  BY DEF Rename, Executes
<1>2. TypeOK
  BY DEF IInv
<1>3. proc.ver = 6 /\ proc.stmt = 6
  BY <1>1, <1>2, Place, Place6
<1>4. proc.stmt \in 3 .. 8 /\ proc.stmt \in 2 .. 7 /\ proc.stmt # 10
  BY <1>3
<1>5. /\ InTxn /\ txn \in DB /\ View = txn /\ txn.stamped = db.stamped
      /\ db.objects \ {"claims"} \subseteq txn.objects
      /\ \A d : Write(d) => db' = db /\ txn' = d
  BY <1>1, <1>3, <1>4, Within
<1>6. db' = db /\ txn' = [txn EXCEPT !.claims = txn.spare, !.spare = << >>,
                                    !.objects = (@ \ {"claims_new"}) \cup {"claims"}]
  BY <1>5 DEF Rename
<1>7. /\ txn' \in DB /\ txn'.objects = (txn.objects \ {"claims_new"}) \cup {"claims"}
      /\ txn'.claims = txn.spare /\ txn'.stamped = txn.stamped
  <2>1. /\ << >> \in Seq(Row) /\ txn.spare \in Seq(Row)
        /\ (txn.objects \ {"claims_new"}) \cup {"claims"} \in SUBSET Object
    BY <1>5, ClaimsTable DEF DB
  <2>2. txn \in [objects: SUBSET Object, stamped: SUBSET Versions, claims: Seq(Row),
                 spare: Seq(Row), refunds: BOOLEAN]
    BY <1>5 DEF DB
  <2>3. txn' \in [objects: SUBSET Object, stamped: SUBSET Versions, claims: Seq(Row),
                  spare: Seq(Row), refunds: BOOLEAN]
    BY <1>6, <2>1, <2>2
  <2> QED BY <1>6, <2>2, <2>3 DEF DB
<1>8. proc'.at = "migrating" /\ proc'.ver = 6 /\ proc'.stmt = 7
  BY <1>1, <1>3, <1>4, Goes6
<1>9. InTxn' /\ txn' # None
  BY <1>7, <1>8, NoneAssumption DEF InTxn
<1>10. "claims_new" \notin db.objects /\ txn.spare = Converted(db.claims)
  BY <1>3, <1>5 DEF IInv, IObjects, IRows
<1>11. db.objects \subseteq txn'.objects /\ "claims_new" \notin txn'.objects
  BY <1>5, <1>7, <1>10
<1>12. ITxn' /\ IRows'
  BY <1>5, <1>6, <1>7, <1>8, <1>9, <1>10, <1>11 DEF ITxn, IRows
<1> QED BY <1>1, <1>3, <1>4, <1>6, <1>7, <1>12, RebuildInv

LEMMA NumberInv ==
    ASSUME IInv, Number
    PROVE  IInv'
<1>1. /\ proc.at = "migrating" /\ Advance /\ Statement.op = "number"
      /\ fk' = fk /\ crashes' = crashes /\ rebuilds' = rebuilds
  BY DEF Number, Executes
<1>2. TypeOK
  BY DEF IInv
<1>3. proc.ver = 6 /\ proc.stmt = 7
  BY <1>1, <1>2, Place, Place6
<1>4. proc.stmt \in 3 .. 8 /\ proc.stmt \in 2 .. 7 /\ proc.stmt # 10
  BY <1>3
<1>5. /\ InTxn /\ txn \in DB /\ View = txn /\ txn.stamped = db.stamped
      /\ \A d : Write(d) => db' = db /\ txn' = d
  BY <1>1, <1>3, <1>4, Within
<1>6. db' = db /\ txn' = [txn EXCEPT !.claims = Numbered(txn.claims)]
  BY <1>5 DEF Number
<1>7. Numbered(txn.claims) \in Seq(Row)
  BY <1>5, NumberedRows DEF DB
<1>8. /\ txn' \in DB /\ txn'.objects = txn.objects /\ txn'.claims = Numbered(txn.claims)
      /\ txn'.stamped = txn.stamped
  BY <1>5, <1>6, <1>7 DEF DB
<1>9. proc'.at = "migrating" /\ proc'.ver = 6 /\ proc'.stmt = 8
  BY <1>1, <1>3, <1>4, Goes6
<1>10. InTxn' /\ txn' # None
  BY <1>8, <1>9, NoneAssumption DEF InTxn
<1>11. /\ db.objects \subseteq txn.objects /\ txn.claims = Converted(db.claims)
       /\ "claims_new" \notin txn.objects
  BY <1>3, <1>5 DEF IInv, ITxn, IRows
<1>12. ITxn' /\ IRows'
  BY <1>5, <1>6, <1>8, <1>9, <1>10, <1>11 DEF ITxn, IRows
<1> QED BY <1>1, <1>3, <1>4, <1>6, <1>8, <1>12, RebuildInv

LEMMA ForeignKeysInv ==
    ASSUME IInv, SetForeignKeys
    PROVE  IInv'
<1>1. /\ proc.at = "migrating" /\ Advance /\ Statement.op = "fk" /\ db' = db /\ txn' = txn
      /\ crashes' = crashes /\ rebuilds' = rebuilds
  BY DEF SetForeignKeys, Executes
<1>2. TypeOK
  BY DEF IInv
<1>3. proc.ver = 6 /\ proc.stmt \in {1, 9}
  BY <1>1, <1>2, Place, Place6
<1>4. proc.stmt # 10 /\ ~(proc.stmt \in 3 .. 8) /\ ~InTxn
  BY <1>3 DEF InTxn
<1>5. txn = None
  BY <1>4, NoTransaction
<1>6. /\ proc'.at = "migrating" /\ proc'.ver = 6 /\ proc'.stmt = proc.stmt + 1
      /\ proc' \in [at: {"down", "migrating", "serving"}, ver: Versions, stmt: Nat]
      /\ proc'.stmt \in DOMAIN Scripts[proc'.ver]
  BY <1>1, <1>3, <1>4, Goes6
<1>7. proc.stmt = 9 => Statement.on = "on"
  BY <1>2, <1>3, Place6, TheRebuild
<1>8. fk' = (Statement.on = "on")
  BY <1>5 DEF SetForeignKeys
<1>9. fk' \in BOOLEAN /\ (proc.stmt = 9 => fk' = TRUE)
  BY <1>7, <1>8
<1>10. TypeOK'
  BY <1>1, <1>2, <1>6, <1>9 DEF TypeOK
<1>11. ~InTxn' /\ (Done6' <=> Done6)
  BY <1>1, <1>3, <1>6 DEF InTxn, Done6
<1>12. IStamps' /\ IObjects'
  BY <1>1, <1>3, <1>6 DEF IInv, IStamps, IObjects
<1>13. ITxn' /\ IRows'
  BY <1>1, <1>5, <1>11 DEF ITxn, IRows
<1>14. IKeys'
  <2>1. CASE proc.stmt = 9
    BY <1>9, <2>1 DEF IKeys
  <2>2. CASE proc.stmt = 1
    <3>1. proc'.stmt \in 2 .. 9
      BY <1>6, <2>2
    <3> QED BY <1>6, <3>1 DEF IKeys
  <2> QED BY <1>3, <2>1, <2>2
<1>15. IKinds' /\ IOrder' /\ IBudgets'
  BY <1>1, <1>11 DEF IInv, IKinds, IOrder, IBudgets, BudgetIsPledge
<1> QED BY <1>10, <1>12, <1>13, <1>14, <1>15 DEF IInv

LEMMA BeginInv ==
    ASSUME IInv, Begin
    PROVE  IInv'
<1>1. /\ proc.at = "migrating" /\ Advance /\ Statement.op = "begin" /\ db' = db /\ txn' = db
      /\ fk' = fk /\ crashes' = crashes /\ rebuilds' = rebuilds
  BY DEF Begin, Executes
<1>2. TypeOK /\ db \in DB
  BY DEF IInv, TypeOK
<1>3. proc.ver = 6 /\ proc.stmt = 2
  BY <1>1, <1>2, Place, Place6
<1>4. proc.stmt \in 2 .. 7 /\ proc.stmt # 10
  BY <1>3
<1>5. proc'.at = "migrating" /\ proc'.ver = 6 /\ proc'.stmt = 3
  BY <1>1, <1>3, <1>4, Goes6
<1>6. InTxn' /\ txn' # None
  BY <1>1, <1>2, <1>5, NoneAssumption DEF InTxn
<1>7. ITxn' /\ IRows'
  BY <1>1, <1>5, <1>6 DEF ITxn, IRows
<1> QED BY <1>1, <1>2, <1>3, <1>4, <1>7, RebuildInv

\* The rows of the rebuilt table, against those of the old one.
LEMMA RebuiltRow ==
    ASSUME NEW rows \in Seq(Row), NEW i \in DOMAIN rows
    PROVE  LET new == Numbered(Converted(rows))[i] IN
           /\ new.cid = rows[i].cid /\ new.ts = rows[i].ts /\ new.paid = rows[i].paid
           /\ new.kind = IF rows[i].kind = "backstop" THEN "guardian" ELSE rows[i].kind
           /\ new.budget = IF rows[i].kind = "backstop" THEN rows[i].paid ELSE 0
<1>1. PICK old \in Seq(Row) : old = Converted(rows) /\ i \in DOMAIN old
  BY ConvertedRows
<1>2. /\ Numbered(old)[i].cid = old[i].cid /\ Numbered(old)[i].ts = old[i].ts
      /\ Numbered(old)[i].paid = old[i].paid /\ Numbered(old)[i].kind = old[i].kind
      /\ Numbered(old)[i].budget = old[i].budget
  BY <1>1, NumberedRow
<1> QED BY <1>1, <1>2, ConvertedRow

LEMMA RebuiltRows ==
    ASSUME NEW rows \in Seq(Row)
    PROVE  DOMAIN Numbered(Converted(rows)) = DOMAIN rows
           /\ Len(Numbered(Converted(rows))) = Len(rows)
BY ConvertedRows, NumberedRows

LEMMA SmallerSubset ==
    ASSUME NEW A, NEW B, IsFiniteSet(B), A \subseteq B, A # B
    PROVE  Cardinality(A) < Cardinality(B)
<1>1. /\ IsFiniteSet(A) /\ Cardinality(A) <= Cardinality(B)
      /\ Cardinality(B) = Cardinality(A) => B = A
  BY FS_Subset
<1>2. Cardinality(A) \in Nat /\ Cardinality(B) \in Nat
  BY <1>1, FS_CardinalityType
<1> QED BY <1>1, <1>2

\* The count of those before it is a guardian's place.
LEMMA NumberedKeepsQueue ==
    ASSUME NEW rows \in Seq(Row)
    PROVE  QueueKept(Numbered(rows))
<1> DEFINE new == Numbered(rows)
           S(i) == {j \in DOMAIN rows : Before(rows, j, i)}
<1>1. Len(rows) \in Nat /\ DOMAIN rows = 1 .. Len(rows) /\ IsFiniteSet(DOMAIN rows)
  BY RowsOf, FS_Interval
<1>2. ASSUME NEW i \in DOMAIN rows
      PROVE  rows[i].ts \in Nat /\ i \in Nat
  <2>1. rows[i] \in Row
    BY RowsOf
  <2>2. rows[i].ts \in Times
    BY <2>1 DEF Row
  <2>3. i \in Nat
    BY <1>1
  <2>4. Times \subseteq Nat
    BY MigrationsAssumption
  <2> QED BY <2>2, <2>3, <2>4
<1>3. ASSUME NEW i \in DOMAIN rows PROVE IsFiniteSet(S(i)) /\ Cardinality(S(i)) \in Nat
  <2>1. S(i) \subseteq DOMAIN rows
    OBVIOUS
  <2> QED BY <1>1, <2>1, FS_Subset, FS_CardinalityType
<1>4. DOMAIN new = DOMAIN rows
  BY NumberedRows
<1>5. ASSUME NEW i \in DOMAIN rows
      PROVE  new[i].kind = rows[i].kind /\ new[i].cid = rows[i].cid /\ new[i].ts = rows[i].ts
  BY NumberedRow
<1>6. ASSUME NEW i \in DOMAIN rows, rows[i].kind = "guardian"
      PROVE  new[i].order = Cardinality(S(i))
  <2>1. new[i] = [rows[i] EXCEPT !.order = Cardinality(S(i))]
    BY <1>6 DEF Numbered
  <2>2. rows[i] \in Row
    BY RowsOf
  <2> QED BY <2>1, <2>2 DEF Row
<1>7. ASSUME NEW i \in DOMAIN rows, NEW j \in DOMAIN rows PROVE Before(new, i, j) <=> Before(rows, i, j)
  BY <1>5 DEF Before
<1>8. ASSUME NEW i \in DOMAIN rows, NEW j \in DOMAIN rows, rows[i].kind = "guardian",
             rows[j].kind = "guardian", rows[i].cid = rows[j].cid, Before(rows, i, j)
      PROVE  Cardinality(S(i)) <= Cardinality(S(j))
  <2>1. ASSUME NEW k \in S(i) PROVE k \in S(j)
    BY <1>2, <1>8, <2>1 DEF Before
  <2>2. S(i) \subseteq S(j)
    BY <2>1
  <2> QED BY <1>3, <2>2, FS_Subset
<1>9. ASSUME NEW i \in DOMAIN rows, NEW j \in DOMAIN rows, rows[i].kind = "guardian",
             rows[j].kind = "guardian", rows[i].cid = rows[j].cid, ~Before(rows, i, j)
      PROVE  Cardinality(S(j)) < Cardinality(S(i))
  <2>1. ASSUME NEW k \in S(j) PROVE k \in S(i)
    BY <1>2, <1>9, <2>1 DEF Before
  <2>2. i \in S(i) /\ i \notin S(j)
    BY <1>2, <1>9 DEF Before
  <2>3. S(j) \subseteq S(i) /\ S(j) # S(i)
    BY <2>1, <2>2
  <2> HIDE DEF S
  <2> QED BY <1>3, <2>3, SmallerSubset
<1>10. ASSUME NEW i \in DOMAIN rows, NEW j \in DOMAIN rows, rows[i].kind = "guardian",
              rows[j].kind = "guardian", rows[i].cid = rows[j].cid
       PROVE  new[i].order <= new[j].order <=> Before(new, i, j)
  <2>1. /\ new[i].order = Cardinality(S(i)) /\ new[j].order = Cardinality(S(j))
        /\ Cardinality(S(i)) \in Nat /\ Cardinality(S(j)) \in Nat
    BY <1>3, <1>6, <1>10
  <2> HIDE DEF S, new
  <2>2. CASE Before(rows, i, j)
    BY <1>7, <1>8, <1>10, <2>1, <2>2
  <2>3. CASE ~Before(rows, i, j)
    <3>1. Cardinality(S(j)) < Cardinality(S(i))
      BY <1>9, <1>10, <2>3
    <3>2. ~(new[i].order <= new[j].order)
      BY <2>1, <3>1
    <3> QED BY <1>7, <2>3, <3>2
  <2> QED BY <2>2, <2>3
<1> HIDE DEF new
<1>11. QueueKept(new)
  BY <1>4, <1>5, <1>10 DEF QueueKept
<1> QED BY <1>11 DEF new

LEMMA CommitInv ==
    ASSUME IInv, Commit
    PROVE  IInv'
<1>1. /\ proc.at = "migrating" /\ Advance /\ Statement.op = "commit" /\ db' = txn /\ txn' = None
      /\ fk' = fk /\ crashes' = crashes /\ rebuilds' = rebuilds + 1
  BY DEF Commit, Executes
<1>2. TypeOK /\ rebuilds \in Nat /\ crashes \in Nat
  BY MigrationsAssumption DEF IInv, TypeOK
<1>3. proc.ver = 6 /\ proc.stmt = 8
  BY <1>1, <1>2, Place, Place6
<1>4. proc.stmt \in 3 .. 8 /\ proc.stmt # 10
  BY <1>3
<1>5. InTxn /\ txn \in DB /\ db \in DB /\ txn.stamped = db.stamped
  BY <1>1, <1>3, <1>4, Within
<1>6. /\ db.objects \subseteq txn.objects /\ "claims_new" \notin txn.objects
      /\ txn.claims = Numbered(Converted(db.claims))
  BY <1>3, <1>5 DEF IInv, ITxn, IRows
<1>7. /\ proc'.at = "migrating" /\ proc'.ver = 6 /\ proc'.stmt = 9
      /\ proc' \in [at: {"down", "migrating", "serving"}, ver: Versions, stmt: Nat]
      /\ proc'.stmt \in DOMAIN Scripts[proc'.ver]
  BY <1>1, <1>3, <1>4, Goes6
<1>8. TypeOK'
  BY <1>1, <1>2, <1>5, <1>7 DEF TypeOK
<1>9. Done6' /\ ~InTxn' /\ ~Done6
  BY <1>3, <1>7 DEF Done6, InTxn
<1>10. IStamps'
  BY <1>1, <1>3, <1>5, <1>7 DEF IInv, IStamps
<1>11. IObjects'
  BY <1>1, <1>5, <1>6, <1>7 DEF IInv, IObjects
<1>12. ITxn' /\ IRows'
  BY <1>1, <1>9 DEF ITxn, IRows
<1>13. IKeys'
  BY <1>7 DEF IKeys
<1>14. PICK rows \in Seq(Row) : rows = db.claims
  BY <1>5 DEF DB
<1>15. /\ db'.claims = Numbered(Converted(rows)) /\ DOMAIN db'.claims = DOMAIN rows
       /\ Converted(rows) \in Seq(Row)
  BY <1>1, <1>6, <1>14, RebuiltRows, ConvertedRows
<1>16. ASSUME NEW i \in DOMAIN rows
       PROVE  /\ db'.claims[i].paid = rows[i].paid
              /\ db'.claims[i].kind = IF rows[i].kind = "backstop" THEN "guardian" ELSE rows[i].kind
              /\ db'.claims[i].budget = IF rows[i].kind = "backstop" THEN rows[i].paid ELSE 0
  BY <1>15, RebuiltRow
<1>17. IKinds'
  BY <1>15, <1>16 DEF IKinds, NoKind
<1>18. IOrder'
  BY <1>15, NumberedKeepsQueue DEF IOrder
<1>19. rebuilds = 0 => NoKind(rows, "guardian")
  BY <1>14 DEF IInv, IBudgets
<1>20. rebuilds > 0 => crashes > 0
  <2>1. 6 \notin db.stamped
    <3>1. db.stamped = 1 .. (6 - 1)
      BY <1>1, <1>3 DEF IInv, IStamps
    <3> QED BY <3>1
  <2> QED BY <1>9, <2>1 DEF IInv, IBudgets
<1>21. BudgetIsPledge'
  <2>1. ASSUME NEW i \in DOMAIN rows, db'.claims[i].kind = "guardian"
        PROVE  db'.claims[i].budget = db'.claims[i].paid \/ (rebuilds' > 1 /\ crashes' > 0)
    <3>1. CASE rows[i].kind = "backstop"
      BY <1>16, <3>1
    <3>2. CASE rows[i].kind # "backstop"
      <4>1. rows[i].kind = "guardian"
        BY <1>16, <2>1, <3>2
      <4>2. rebuilds # 0
        BY <1>19, <4>1 DEF NoKind
      <4> QED BY <1>1, <1>2, <1>20, <4>2
    <3> QED BY <3>1, <3>2
  <2> QED BY <1>15, <2>1 DEF BudgetIsPledge
<1>22. IBudgets'
  BY <1>1, <1>2, <1>9, <1>21 DEF IBudgets
<1> QED BY <1>8, <1>10, <1>11, <1>12, <1>13, <1>17, <1>18, <1>22 DEF IInv

-----------------------------------------------------------------------------
(* New claims *)

\* nextPledgeOrder is behind every guardian of the CID.
LEMMA NextOrderIs ==
    ASSUME NEW cid, db.claims \in Seq(Row)
    PROVE  /\ NextOrder(cid) \in Nat
           /\ \A i \in DOMAIN db.claims :
                 db.claims[i].cid = cid /\ db.claims[i].kind = "guardian" =>
                     db.claims[i].order < NextOrder(cid)
<1> DEFINE mine == {i \in DOMAIN db.claims : db.claims[i].cid = cid /\ db.claims[i].kind = "guardian"}
           taken == {db.claims[i].order : i \in mine}
           f == [i \in DOMAIN db.claims |-> db.claims[i].order]
<1>1. PICK n \in Nat : DOMAIN db.claims = 1 .. n
  BY RowsOf
<1>2. ASSUME NEW i \in 1 .. n PROVE f[i] \in Nat /\ f[i] = db.claims[i].order
  <2>1. db.claims[i] \in Row
    BY <1>1, RowsOf
  <2> QED BY <1>1, <2>1 DEF Row
<1>3. PICK b \in Nat : \A i \in 1 .. n : f[i] <= b
  <2>1. \A i \in 1 .. n : f[i] \in Nat
    BY <1>2
  <2> HIDE DEF f
  <2> QED BY <2>1, BoundedImage
<1>4. taken \subseteq Nat /\ \A x \in taken : x <= b
  BY <1>1, <1>2, <1>3
<1>5. NextOrder(cid) = IF taken = {} THEN 1 ELSE (CHOOSE m \in taken : \A k \in taken : k <= m) + 1
  BY DEF NextOrder
<1>6. ASSUME NEW i \in DOMAIN db.claims, db.claims[i].cid = cid, db.claims[i].kind = "guardian"
      PROVE  db.claims[i].order \in taken
  BY <1>6
<1> HIDE DEF taken, mine
<1>7. CASE taken = {}
  BY <1>5, <1>6, <1>7
<1>8. CASE taken # {}
  <2>1. \E x \in taken : \A y \in taken : y <= x
    BY <1>4, <1>8, Greatest
  <2>2. PICK m \in taken : NextOrder(cid) = m + 1 /\ \A y \in taken : y <= m
    BY <1>5, <1>8, <2>1
  <2>3. m \in Nat
    BY <1>4
  <2>4. ASSUME NEW y \in taken PROVE y < NextOrder(cid)
    <3>1. y \in Nat /\ y <= m
      BY <1>4, <2>2
    <3> QED BY <2>2, <2>3, <3>1
  <2>5. \A i \in DOMAIN db.claims :
           db.claims[i].cid = cid /\ db.claims[i].kind = "guardian" =>
               db.claims[i].order < NextOrder(cid)
    BY <1>6, <2>4
  <2> QED BY <2>2, <2>3, <2>5
<1> QED BY <1>7, <1>8

LEMMA NewClaimInv ==
    ASSUME IInv, NEW cid \in Cids, NEW ts \in Times, NEW paid \in Amounts,
           NEW kind \in {"original", "own_copy", "guardian"}, NewClaim(cid, ts, paid, kind)
    PROVE  IInv'
<1> DEFINE row == [cid |-> cid, ts |-> ts, paid |-> paid, kind |-> kind,
                   order  |-> IF kind = "guardian" THEN NextOrder(cid) ELSE 0,
                   budget |-> IF kind = "guardian" THEN paid ELSE 0]
<1>1. /\ proc.at = "serving" /\ txn' = txn /\ fk' = fk /\ proc' = proc /\ crashes' = crashes
      /\ rebuilds' = rebuilds /\ db' = [db EXCEPT !.claims = Append(@, row)]
      /\ \A i \in DOMAIN db.claims : db.claims[i].ts <= ts
  BY DEF NewClaim
<1>2. TypeOK /\ db \in DB /\ db.claims \in Seq(Row)
  BY DEF IInv, TypeOK, DB
<1>3. row \in Row
  <2>1. NextOrder(cid) \in Nat
    BY <1>2, NextOrderIs
  <2> QED BY <2>1 DEF Row
<1>4. PICK r \in Row : r = row
  BY <1>3
<1>5. /\ r.cid = cid /\ r.ts = ts /\ r.paid = paid /\ r.kind = kind
      /\ kind = "guardian" => r.order = NextOrder(cid) /\ r.budget = r.paid
  BY <1>4
<1> HIDE DEF row
<1>6. PICK rows \in Seq(Row) : rows = db.claims
  BY <1>2
<1>7. PICK n \in Nat : n = Len(rows) /\ DOMAIN rows = 1 .. n
  BY RowsOf
<1>8. PICK new \in Seq(Row) : new = Append(rows, r)
  <2>1. Append(rows, r) \in Seq(Row)
    BY ONLY rows \in Seq(Row), r \in Row
  <2> QED BY <2>1
<1>9. DOMAIN new = 1 .. (n + 1) /\ new[n + 1] = r /\ \A i \in 1 .. n : new[i] = rows[i]
  BY <1>7, <1>8
<1>10. db' = [db EXCEPT !.claims = new]
  BY <1>1, <1>4, <1>6, <1>8
<1>11. /\ db' \in DB /\ db'.claims = new /\ db'.objects = db.objects /\ db'.stamped = db.stamped
  BY <1>2, <1>10 DEF DB
<1>12. ~InTxn /\ ~Done6 /\ ~InTxn' /\ ~Done6'
  BY <1>1 DEF InTxn, Done6
<1>13. TypeOK'
  BY <1>1, <1>2, <1>11 DEF TypeOK
<1>14. IStamps' /\ IObjects'
  BY <1>1, <1>11 DEF IInv, IStamps, IObjects
<1>15. ITxn' /\ IRows' /\ IKeys'
  BY <1>1, <1>12 DEF IInv, ITxn, IRows, IKeys
<1>16. 6 \in db.stamped
  BY <1>1 DEF IInv, IStamps
<1>17. \A i \in 1 .. (n + 1) : i = n + 1 \/ i \in 1 .. n
  BY <1>7
<1>18. IKinds'
  <2>1. NoKind(rows, "backstop")
    BY <1>6, <1>16 DEF IInv, IKinds
  <2> QED BY <1>5, <1>7, <1>9, <1>11, <1>17, <2>1 DEF IKinds, NoKind
<1>19. rebuilds # 0
  BY <1>16 DEF IInv, IBudgets
<1>20. IBudgets'
  <2>1. ASSUME NEW i \in 1 .. (n + 1), new[i].kind = "guardian"
        PROVE  new[i].budget = new[i].paid \/ (rebuilds > 1 /\ crashes > 0)
    <3>1. CASE i = n + 1
      BY <1>5, <1>9, <2>1, <3>1
    <3>2. CASE i \in 1 .. n
      BY <1>6, <1>7, <1>9, <2>1, <3>2 DEF IInv, IBudgets, BudgetIsPledge
    <3> QED BY <1>17, <3>1, <3>2
  <2>2. BudgetIsPledge'
    BY <1>1, <1>9, <1>11, <2>1 DEF BudgetIsPledge
  <2> QED BY <1>1, <1>11, <1>16, <1>19, <2>2 DEF IBudgets
<1>21. QueueKept(new)
  <2>1. QueueKept(rows)
    BY <1>6, <1>16 DEF IInv, IOrder
  <2>2. ASSUME NEW i \in 1 .. n, rows[i].kind = "guardian", r.kind = "guardian", rows[i].cid = r.cid
        PROVE  /\ rows[i].order \in Nat /\ r.order \in Nat /\ rows[i].order < r.order
               /\ rows[i].ts \in Nat /\ r.ts \in Nat /\ rows[i].ts <= r.ts
    <3>1. rows[i] \in Row /\ r \in Row
      BY <1>7, RowsOf
    <3>2. rows[i].order \in Nat /\ r.order \in Nat /\ rows[i].ts \in Nat /\ r.ts \in Nat
      BY <3>1, MigrationsAssumption DEF Row
    <3>3. rows[i].order < r.order
      BY <1>2, <1>5, <1>6, <1>7, <2>2, NextOrderIs
    <3> QED BY <1>1, <1>5, <1>6, <1>7, <3>2, <3>3
  <2>3. ASSUME NEW i \in 1 .. (n + 1), NEW j \in 1 .. (n + 1), new[i].kind = "guardian",
               new[j].kind = "guardian", new[i].cid = new[j].cid
        PROVE  new[i].order <= new[j].order <=> Before(new, i, j)
    <3>1. CASE i \in 1 .. n /\ j \in 1 .. n
      <4>1. Before(new, i, j) <=> Before(rows, i, j)
        BY <1>9, <3>1 DEF Before
      <4> QED BY <1>7, <1>9, <2>1, <2>3, <3>1, <4>1 DEF QueueKept
    <3>2. CASE i \in 1 .. n /\ j = n + 1
      <4>1. rows[i].ts < r.ts \/ (rows[i].ts = r.ts /\ i <= n + 1)
        BY <1>9, <2>2, <2>3, <3>2
      <4>2. Before(new, i, j)
        BY <1>9, <2>3, <3>2, <4>1 DEF Before
      <4>3. new[i].order <= new[j].order
        BY <1>9, <2>2, <2>3, <3>2
      <4> QED BY <4>2, <4>3
    <3>3. CASE i = n + 1 /\ j \in 1 .. n
      <4>1. ~(r.ts < rows[j].ts) /\ ~(n + 1 <= j)
        BY <1>9, <2>2, <2>3, <3>3
      <4>2. ~Before(new, i, j)
        BY <1>9, <3>3, <4>1 DEF Before
      <4>3. ~(new[i].order <= new[j].order)
        BY <1>9, <2>2, <2>3, <3>3
      <4> QED BY <4>2, <4>3
    <3>4. CASE i = n + 1 /\ j = n + 1
      <4>1. r.order \in Nat /\ r.ts \in Nat
        BY MigrationsAssumption DEF Row
      <4> QED BY <1>9, <2>3, <3>4, <4>1 DEF Before
    <3> QED BY <1>17, <3>1, <3>2, <3>3, <3>4
  <2> QED BY <1>9, <2>3 DEF QueueKept
<1>22. IOrder'
  BY <1>11, <1>21 DEF IOrder
<1> QED BY <1>13, <1>14, <1>15, <1>18, <1>20, <1>22 DEF IInv

-----------------------------------------------------------------------------
(* The invariant, and what follows from it *)

LEMMA InitInv ==
    ASSUME Init
    PROVE  IInv
<1>1. PICK level \in 0 .. 5, n \in 0 .. MaxRows, refunds \in BOOLEAN :
          \E rows \in [1 .. n -> OldRow] : db = Released(level, rows, refunds)
  BY DEF Init
<1>2. PICK rows \in [1 .. n -> OldRow] : db = Released(level, rows, refunds)
  BY <1>1
<1>3. txn = None /\ fk = TRUE /\ proc = Down /\ crashes = 0 /\ rebuilds = 0
  BY DEF Init
<1>4. n \in Nat
  BY MigrationsAssumption
<1>5. ASSUME NEW i \in 1 .. n
      PROVE  rows[i] \in Row /\ rows[i].kind \notin {"guardian"}
  <2>1. rows[i] \in OldRow
    OBVIOUS
  <2> QED BY <2>1 DEF OldRow, Row
<1>6. DOMAIN rows = 1 .. n /\ rows \in Seq(Row)
  BY <1>4, <1>5
<1>7. 1 .. level \subseteq Versions
  BY TheScripts
<1>8. UNION {Makes(v) : v \in 1 .. level} \subseteq Object
  BY <1>7, ObjectNames
<1>9. << >> \in Seq(Row)
  OBVIOUS
<1>10. /\ db \in DB /\ db.claims = rows /\ db.stamped = 1 .. level
       /\ db.objects = UNION {Makes(v) : v \in 1 .. level}
  BY <1>2, <1>6, <1>7, <1>8, <1>9 DEF Released, DB
<1>11. TypeOK
  BY <1>3, <1>10, DownPlace, MigrationsAssumption DEF TypeOK
<1>12. ~InTxn /\ ~Done6 /\ proc.at = "down"
  BY <1>3, DownPlace DEF InTxn, Done6
<1>13. IStamps
  BY <1>10, <1>12 DEF IStamps
<1>14. IObjects
  BY <1>7, <1>10, <1>12, ObjectNames DEF IObjects
<1>15. ITxn /\ IRows /\ IKeys
  BY <1>3, <1>12 DEF ITxn, IRows, IKeys
<1>16. 6 \notin db.stamped
  BY <1>10
<1>17. IKinds /\ IOrder
  BY <1>12, <1>16 DEF IKinds, IOrder
<1>18. IBudgets
  BY <1>3, <1>5, <1>6, <1>10, <1>12, <1>16 DEF IBudgets, BudgetIsPledge, NoKind
<1> QED BY <1>11, <1>13, <1>14, <1>15, <1>17, <1>18 DEF IInv

LEMMA DefineInv ==
    ASSUME IInv, Define
    PROVE  IInv'
<1>1. CASE proc.ver = 6
  BY <1>1, MakeInv
<1>2. CASE proc.ver # 6
  BY <1>2, DefineAdditive
<1> QED BY <1>1, <1>2

LEMMA StepInv == IInv /\ [Next]_vars => IInv'
<1> SUFFICES ASSUME IInv, [Next]_vars PROVE IInv'
  OBVIOUS
<1>1. CASE Boot
  BY <1>1, BootInv
<1>2. CASE Define \/ StampVersion
  BY <1>2, DefineInv, StampInv
<1>3. CASE SetForeignKeys \/ Begin \/ Commit
  BY <1>3, ForeignKeysInv, BeginInv, CommitInv
<1>4. CASE Copy \/ Drop \/ Rename \/ Number
  BY <1>4, CopyInv, DropInv, RenameInv, NumberInv
<1>5. CASE Fail \/ Crash
  BY <1>5, HaltInv
<1>6. ASSUME NEW cid \in Cids, NEW ts \in Times, NEW paid \in Amounts,
             NEW kind \in {"original", "own_copy", "guardian"}, NewClaim(cid, ts, paid, kind)
      PROVE  IInv'
  BY <1>6, NewClaimInv
<1>7. CASE UNCHANGED vars
  <2>1. /\ db' = db /\ txn' = txn /\ fk' = fk /\ proc' = proc /\ crashes' = crashes
        /\ rebuilds' = rebuilds
    BY <1>7 DEF vars
  <2>2. (InTxn' <=> InTxn) /\ (Done6' <=> Done6)
    BY <2>1 DEF InTxn, Done6
  <2>3. TypeOK' /\ IStamps' /\ IObjects' /\ IKeys'
    BY <2>1 DEF IInv, TypeOK, IStamps, IObjects, IKeys
  <2>4. ITxn' /\ IRows'
    BY <2>1, <2>2 DEF IInv, ITxn, IRows
  <2>5. IKinds' /\ IOrder' /\ IBudgets'
    BY <2>1, <2>2 DEF IInv, IKinds, IOrder, IBudgets, BudgetIsPledge
  <2> QED BY <2>3, <2>4, <2>5 DEF IInv
<1> QED BY <1>1, <1>2, <1>3, <1>4, <1>5, <1>6, <1>7 DEF Next, Run

LEMMA Invariance == Spec => []IInv
<1>1. Init => IInv
  BY InitInv
<1> QED BY <1>1, StepInv, PTL DEF Spec

\* Whatever release the database comes from, and wherever the process died, the
\* migrations leave a well-formed database and a place within the scripts.
THEOREM TypeCorrect == Spec => []TypeOK
<1>1. IInv => TypeOK
  BY DEF IInv
<1> QED BY <1>1, Invariance, PTL

\* However many crashes: a version that schema_version has is really there, tables,
\* columns and renamed claims (quota.js:42-60).
THEOREM StampsHold == Spec => []StampsAreTrue
<1>1. IInv => StampsAreTrue
  <2> SUFFICES ASSUME IInv PROVE StampsAreTrue
    OBVIOUS
  <2>1. PICK n \in 0 .. 7 : db.stamped = 1 .. n
    BY DEF IInv, IStamps
  <2>2. ASSUME NEW v \in db.stamped PROVE 1 .. v \subseteq db.stamped
    BY <2>1
  <2>3. \A v \in db.stamped : Makes(v) \subseteq db.objects
    BY DEF IInv, IObjects
  <2>4. 6 \in db.stamped => \A i \in DOMAIN db.claims : db.claims[i].kind # "backstop"
    BY DEF IInv, IKinds, NoKind
  <2> QED BY <2>2, <2>3, <2>4 DEF StampsAreTrue
<1> QED BY <1>1, Invariance, PTL

\* A node that serves has the whole schema, no open transaction, and the foreign
\* keys on that 006 turned off (006_guardian.sql:14, 84).
THEOREM ServesOnlyWhole == Spec => []ServesWhole
<1>1. IInv => ServesWhole
  <2> SUFFICES ASSUME IInv, proc.at = "serving" PROVE db.stamped = Versions /\ txn = None /\ fk
    BY DEF ServesWhole
  <2>1. db.stamped = Versions
    BY TheScripts DEF IInv, IStamps
  <2>2. ~InTxn
    BY DEF InTxn
  <2>3. txn = None
    BY <2>2, NoTransaction
  <2>4. fk
    BY DEF IInv, IKeys
  <2> QED BY <2>1, <2>3, <2>4
<1> QED BY <1>1, Invariance, PTL

\* The guardians' numbers are their order by created_ts and rowid, those of 006 and
\* those of nextPledgeOrder after them (006_guardian.sql:68-75, quota.js:505-511).
THEOREM QueuesKeepTheirOrder == Spec => []QueueOrderKept
<1>1. IInv => QueueOrderKept
  BY DEF IInv, IOrder, QueueKept, QueueOrderKept
<1> QED BY <1>1, Invariance, PTL

\* A guardian's budget is lost only if 006 ran twice, and it runs twice only after a
\* crash (006_guardian.sql:61, 82-87).
THEOREM PledgesKeepTheirBudget == Spec => []BudgetIsPledge
<1>1. IInv => BudgetIsPledge
  BY DEF IInv, IBudgets
<1> QED BY <1>1, Invariance, PTL

\* Only the commit of 006 and a new claim change the committed claims.
LEMMA ClaimsAreSteady ==
    ASSUME IInv, Next, ~Commit,
           ~ \E cid \in Cids, ts \in Times, paid \in Amounts, kind \in {"original", "own_copy", "guardian"} :
                NewClaim(cid, ts, paid, kind)
    PROVE  db'.claims = db.claims
<1>1. TypeOK /\ db \in DB
  BY DEF IInv, TypeOK
<1>2. CASE Boot \/ SetForeignKeys \/ Begin \/ Fail \/ Crash
  BY <1>2 DEF Boot, SetForeignKeys, Begin, Fail, Crash
<1>3. CASE Copy \/ Drop \/ Rename \/ Number
  <2>1. Executes({"copy"}) \/ Executes({"drop"}) \/ Executes({"rename"}) \/ Executes({"number"})
    BY <1>3 DEF Copy, Drop, Rename, Number
  <2>2. proc.at = "migrating" /\ Statement.op \in {"copy", "drop", "rename", "number"}
    BY <2>1 DEF Executes
  <2>3. proc.ver = 6 /\ proc.stmt \in 3 .. 8
    BY <1>1, <2>2, Place, Place6
  <2>4. \A d : Write(d) => db' = db
    BY <2>2, <2>3, Within
  <2> QED BY <1>3, <2>4 DEF Copy, Drop, Rename, Number
<1>4. CASE Define \/ StampVersion
  <2>1. CASE txn = None
    <3>1. \/ db' = [db EXCEPT !.objects = @ \cup {Statement.on}]
          \/ db' = [db EXCEPT !.stamped = @ \cup {proc.ver}]
      BY <1>4, <2>1 DEF Define, StampVersion, Write, View
    <3> QED BY <1>1, <3>1 DEF DB
  <2>2. CASE txn # None
    BY <1>4, <2>2 DEF Define, StampVersion, Write
  <2> QED BY <2>1, <2>2
<1> QED BY <1>2, <1>3, <1>4 DEF Next, Run

\* No crash, restart or re-run takes a claim away or changes what it says
\* (006_guardian.sql:16-82).
THEOREM NoClaimIsLost == Spec => ClaimsSurvive
<1> DEFINE Survive ==
      /\ Len(db.claims) <= Len(db'.claims)
      /\ \A i \in DOMAIN db.claims :
            /\ db'.claims[i].cid = db.claims[i].cid
            /\ db'.claims[i].ts = db.claims[i].ts
            /\ db'.claims[i].paid = db.claims[i].paid
            /\ \/ db'.claims[i].kind = db.claims[i].kind
               \/ db.claims[i].kind = "backstop" /\ db'.claims[i].kind = "guardian"
<1>1. IInv /\ [Next]_vars => [Survive]_vars
  <2> SUFFICES ASSUME IInv, Next PROVE Survive
    BY DEF Survive
  <2>1. PICK rows \in Seq(Row) : rows = db.claims
    BY DEF IInv, TypeOK, DB
  <2>2. Len(rows) \in Nat /\ DOMAIN rows = 1 .. Len(rows)
    BY RowsOf
  <2>3. CASE Commit
    <3>1. proc.at = "migrating" /\ Statement.op = "commit" /\ db' = txn
      BY <2>3 DEF Commit, Executes
    <3>2. proc.ver = 6 /\ proc.stmt = 8
      BY <3>1, Place, Place6 DEF IInv
    <3>3. InTxn
      BY <3>1, <3>2 DEF InTxn
    <3>4. db'.claims = Numbered(Converted(rows))
      BY <2>1, <3>1, <3>2, <3>3 DEF IInv, IRows
    <3>5. Len(db'.claims) = Len(rows)
      BY <3>4, RebuiltRows
    <3>6. ASSUME NEW i \in DOMAIN rows
          PROVE  /\ db'.claims[i].cid = rows[i].cid /\ db'.claims[i].ts = rows[i].ts
                 /\ db'.claims[i].paid = rows[i].paid
                 /\ db'.claims[i].kind = IF rows[i].kind = "backstop" THEN "guardian" ELSE rows[i].kind
      BY <3>4, RebuiltRow
    <3> QED BY <2>1, <2>2, <3>5, <3>6
  <2>4. ASSUME NEW cid \in Cids, NEW ts \in Times, NEW paid \in Amounts,
               NEW kind \in {"original", "own_copy", "guardian"}, NewClaim(cid, ts, paid, kind)
        PROVE  Survive
    <3>1. PICK row : db' = [db EXCEPT !.claims = Append(@, row)]
      BY <2>4 DEF NewClaim
    <3>2. db'.claims = Append(rows, row)
      BY <2>1, <3>1 DEF IInv, TypeOK, DB
    <3>3. /\ Len(db'.claims) = Len(rows) + 1
          /\ \A i \in DOMAIN rows : db'.claims[i] = rows[i]
      BY <2>2, <3>2
    <3> QED BY <2>1, <2>2, <3>3
  <2>5. CASE ~Commit /\ ~ \E cid \in Cids, ts \in Times, paid \in Amounts,
                             kind \in {"original", "own_copy", "guardian"} : NewClaim(cid, ts, paid, kind)
    <3>1. db'.claims = db.claims
      BY <2>5, ClaimsAreSteady
    <3> QED BY <2>1, <2>2, <3>1
  <2> QED BY <2>3, <2>4, <2>5
<1> QED BY <1>1, Invariance, PTL DEF Spec, ClaimsSurvive

-----------------------------------------------------------------------------
(* A torn database *)

\* Torn, and the statement that fails is still ahead: the process is down, or has
\* not come past the column that is there already.
Wedged ==
    /\ proc.at \in {"down", "migrating"}
    /\ \E v \in Versions \ db.stamped : \E k \in DOMAIN Scripts[v] :
          /\ Scripts[v][k].op = "add" /\ Scripts[v][k].on \in db.objects
          /\ proc.at = "migrating" => proc.ver < v \/ (proc.ver = v /\ proc.stmt <= k)

\* No step takes a table or a column away: 006 does so within its transaction, and
\* has put back what it took when it commits.
LEMMA ObjectsGrow ==
    ASSUME IInv, [Next]_vars
    PROVE  db.objects \subseteq db'.objects
<1>1. TypeOK /\ db \in DB
  BY DEF IInv, TypeOK
<1>2. CASE Commit
  <2>1. proc.at = "migrating" /\ Statement.op = "commit" /\ db' = txn
    BY <1>2 DEF Commit, Executes
  <2>2. proc.ver = 6 /\ proc.stmt = 8
    BY <1>1, <2>1, Place, Place6
  <2> QED BY <2>1, <2>2 DEF InTxn, IInv, ITxn
<1>3. CASE Boot \/ SetForeignKeys \/ Begin \/ Fail \/ Crash \/ UNCHANGED vars
  BY <1>3 DEF Boot, SetForeignKeys, Begin, Fail, Crash, vars
<1>4. CASE Copy \/ Drop \/ Rename \/ Number
  <2>1. Executes({"copy"}) \/ Executes({"drop"}) \/ Executes({"rename"}) \/ Executes({"number"})
    BY <1>4 DEF Copy, Drop, Rename, Number
  <2>2. proc.at = "migrating" /\ Statement.op \in {"copy", "drop", "rename", "number"}
    BY <2>1 DEF Executes
  <2>3. proc.ver = 6 /\ proc.stmt \in 3 .. 8
    BY <1>1, <2>2, Place, Place6
  <2>4. \A d : Write(d) => db' = db
    BY <2>2, <2>3, Within
  <2> QED BY <1>4, <2>4 DEF Copy, Drop, Rename, Number
<1>5. CASE Define \/ StampVersion
  <2>1. CASE txn = None
    <3>1. \/ db' = [db EXCEPT !.objects = @ \cup {Statement.on}]
          \/ db' = [db EXCEPT !.stamped = @ \cup {proc.ver}]
      BY <1>5, <2>1 DEF Define, StampVersion, Write, View
    <3> QED BY <1>1, <3>1 DEF DB
  <2>2. CASE txn # None
    BY <1>5, <2>2 DEF Define, StampVersion, Write
  <2> QED BY <2>1, <2>2
<1>6. ASSUME NEW cid \in Cids, NEW ts \in Times, NEW paid \in Amounts,
             NEW kind \in {"original", "own_copy", "guardian"}, NewClaim(cid, ts, paid, kind)
      PROVE  db.objects \subseteq db'.objects
  <2>1. PICK row : db' = [db EXCEPT !.claims = Append(@, row)]
    BY <1>6 DEF NewClaim
  <2> QED BY <1>1, <2>1 DEF DB
<1> QED BY <1>2, <1>3, <1>4, <1>5, <1>6 DEF Next, Run

\* The process goes on by one statement, or to the next file.
LEMMA AdvanceTo ==
    ASSUME TypeOK, proc.at = "migrating", Advance
    PROVE  \/ /\ proc.stmt < Len(Scripts[proc.ver])
              /\ proc'.at = "migrating" /\ proc'.ver = proc.ver /\ proc'.stmt = proc.stmt + 1
           \/ /\ proc.stmt = Len(Scripts[proc.ver])
              /\ proc.ver < 7 => proc'.at = "migrating" /\ proc'.ver = proc.ver + 1
                                 /\ proc'.stmt = 1
<1>1. PICK v \in 1 .. 7 : v = proc.ver
  BY Place
<1>2. PICK n \in Nat : n = Len(Scripts[v])
  BY <1>1, TheScripts, ScriptDomains
<1>3. proc.stmt \in 1 .. n
  BY <1>1, <1>2, Place
<1>4. CASE proc.stmt < n
  BY <1>1, <1>2, <1>4, GoesOn
<1>5. CASE ~(proc.stmt < n)
  <2>1. proc' = After(v) /\ proc.stmt = n
    BY <1>1, <1>2, <1>3, <1>5 DEF Advance
  <2>2. v < 7 => After(v).at = "migrating" /\ After(v).ver = v + 1 /\ After(v).stmt = 1
    BY <1>1, AfterPlace
  <2> QED BY <1>1, <1>2, <2>1, <2>2
<1> QED BY <1>4, <1>5

\* 006 adds no column.
LEMMA RebuildAddsNothing ==
    ASSUME NEW v \in Versions, NEW k \in DOMAIN Scripts[v], Scripts[v][k].op = "add"
    PROVE  v # 6
<1>1. Scripts[v][k].on \in Makes(v)
  BY MadeObjects
<1> QED BY <1>1, ObjectNames

LEMMA WedgedStep == IInv /\ [Next]_vars => (Wedged => Wedged')
<1> SUFFICES ASSUME IInv, [Next]_vars, Wedged PROVE Wedged'
  OBVIOUS
<1>0. PICK v \in Versions \ db.stamped : \E k \in DOMAIN Scripts[v] :
         /\ Scripts[v][k].op = "add" /\ Scripts[v][k].on \in db.objects
         /\ proc.at = "migrating" => proc.ver < v \/ (proc.ver = v /\ proc.stmt <= k)
  BY DEF Wedged
<1>1. PICK k \in DOMAIN Scripts[v] :
         /\ Scripts[v][k].op = "add" /\ Scripts[v][k].on \in db.objects
         /\ proc.at = "migrating" => proc.ver < v \/ (proc.ver = v /\ proc.stmt <= k)
  BY <1>0
<1>2. /\ v \in 1 .. 7 /\ Len(Scripts[v]) \in Nat /\ k \in 1 .. Len(Scripts[v])
      /\ TypeOK /\ IInv'
  BY <1>1, TheScripts, ScriptDomains, StepInv DEF IInv
<1>3. Scripts[v][k].on \in db'.objects
  BY <1>1, ObjectsGrow
<1>4. ASSUME proc'.at = "migrating",
             proc'.ver < v \/ (proc'.ver = v /\ proc'.stmt <= k)
      PROVE  Wedged'
  <2>1. db'.stamped = 1 .. (proc'.ver - 1) /\ proc'.ver \in 1 .. 7
    <3>1. TypeOK' /\ IStamps'
      BY <1>2 DEF IInv
    <3>2. proc'.ver \in Versions
      BY <3>1 DEF TypeOK
    <3> QED BY <1>4, <3>1, <3>2, TheScripts DEF IStamps
  <2>2. v \notin db'.stamped
    BY <1>2, <1>4, <2>1
  <2> QED BY <1>1, <1>3, <1>4, <2>2 DEF Wedged
<1>5. ASSUME db' = db, proc' = Down
      PROVE  Wedged'
  BY <1>1, <1>5, DownPlace DEF Wedged
<1>6. CASE Boot
  <2>1. PICK n \in 0 .. 7 : db.stamped = 1 .. n
    BY DEF IInv, IStamps
  <2>2. n < v
    BY <1>1, <1>2, <2>1
  <2>3. proc' = After(n)
    BY <1>6, <2>1, CurrentIs DEF Boot
  <2>4. proc'.at = "migrating" /\ proc'.ver = n + 1 /\ proc'.stmt = 1
    BY SMTT(30), <1>2, <2>2, <2>3, AfterPlace
  <2> QED BY <1>2, <1>4, <2>2, <2>4
<1>7. ASSUME proc.at = "migrating", ~Throws, Advance
      PROVE  Wedged'
  <2>1. proc.ver \in 1 .. 7 /\ proc.stmt \in Nat
    BY <1>2, Place
  <2>2. CASE proc.ver = v
    <3>1. v # 6
      BY <1>1, RebuildAddsNothing
    <3>2. View = db
      BY <2>2, <3>1, NoTransaction DEF InTxn
    <3>3. proc.stmt # k
      <4>1. ASSUME proc.stmt = k
            PROVE  Throws
        BY <1>1, <2>2, <3>2, <4>1 DEF Throws, Statement
      <4> QED BY <1>7, <4>1
    <3>4. proc.stmt < k
      BY <1>1, <1>2, <1>7, <2>1, <2>2, <3>3
    <3>5. proc'.at = "migrating" /\ proc'.ver = v /\ proc'.stmt = proc.stmt + 1
      BY <1>2, <1>7, <2>1, <2>2, <3>4, AdvanceTo
    <3> QED BY <1>2, <1>4, <2>1, <3>4, <3>5
  <2>3. CASE proc.ver < v
    <3>1. \/ proc'.at = "migrating" /\ proc'.ver = proc.ver
          \/ proc'.at = "migrating" /\ proc'.ver = proc.ver + 1 /\ proc'.stmt = 1
      BY <1>2, <1>7, <2>1, <2>3, AdvanceTo
    <3> QED BY <1>2, <1>4, <2>1, <2>3, <3>1
  <2> QED BY <1>1, <1>7, <2>2, <2>3
<1>8. CASE Define \/ StampVersion \/ SetForeignKeys \/ Begin \/ Copy \/ Drop \/ Rename \/ Number
             \/ Commit
  <2>1. proc.at = "migrating" /\ ~Throws /\ Advance
    BY <1>8 DEF Define, StampVersion, SetForeignKeys, Begin, Copy, Drop, Rename, Number, Commit,
                Executes
  <2> QED BY <1>7, <2>1
<1>9. CASE Fail \/ Crash
  BY <1>5, <1>9 DEF Fail, Crash
<1>10. ASSUME NEW cid \in Cids, NEW ts \in Times, NEW paid \in Amounts,
              NEW kind \in {"original", "own_copy", "guardian"}, NewClaim(cid, ts, paid, kind)
       PROVE  FALSE
  BY <1>10 DEF NewClaim, Wedged
<1>11. CASE UNCHANGED vars
  BY <1>11 DEF vars, Wedged
<1> QED BY <1>6, <1>8, <1>9, <1>10, <1>11 DEF Next, Run

\* From the moment a crash has torn the database, whatever restarts follow, the
\* node does not come up: the same column is added again and throws each time
\* (quota.js:40-60).
THEOREM TornStaysDown == Spec => TornNeverServes
<1>1. Torn /\ proc.at = "down" => Wedged
  BY DEF Torn, Wedged
<1>2. Wedged => proc.at # "serving"
  BY DEF Wedged
<1> QED BY <1>1, <1>2, WedgedStep, Invariance, PTL DEF Spec, TornNeverServes
=============================================================================
