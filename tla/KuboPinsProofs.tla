---------------------------- MODULE KuboPinsProofs ----------------------------
(***************************************************************************)
(* Theorems about the ledger and Kubo, for any number of CIDs, rows and    *)
(* faults: types, and that an unpin owed while an upload of the same CID   *)
(* is under way is the only thing that takes the bytes of a funded file.   *)
(***************************************************************************)
EXTENDS KuboPins, TLAPS

Stages == {"adding", "added", "threw", "failed", "queued", "hosted", "ended"}

LEMMA HostingType ==
    /\ \A c \in Cids, s \in Stages : [at |-> s, cid |-> c] \in Hosting
    /\ \A x \in Hosting : x.at \in Stages => x.cid \in Cids
    /\ \A x \in Hosting, s \in Stages :
          x.at # "idle" => [x EXCEPT !.at = s] \in Hosting
    /\ \A x \in Hosting : x.at \in Stages \cup {"idle"}
  BY DEF Hosting, Stages

\* What ending rows does to each row and each errand.
LEMMA EndRowsEffect ==
    ASSUME TypeOK, NEW E \in SUBSET Hostings, NEW w \in Handler, EndRows(E, w),
           \A h \in E : hostings[h].at \in {"hosted", "queued"}
    PROVE  /\ hostings' \in [Hostings -> Hosting]
           /\ errands' \in [Cids \X Handler -> Nat]
           /\ \A h \in Hostings :
                \/ h \in E /\ hostings'[h] = [hostings[h] EXCEPT !.at = "ended"]
                \/ /\ h \notin E /\ hostings[h].at = "queued"
                   /\ LosesFunder(E, hostings[h].cid)
                   /\ Queue(E, hostings[h].cid) # {}
                   /\ hostings'[h] = [hostings[h] EXCEPT !.at = "hosted"]
                \/ h \notin E /\ hostings'[h] = hostings[h]
           /\ \A c \in Cids, v \in Handler :
                \/ errands'[<<c, v>>] = errands[<<c, v>>]
                \/ LosesFunder(E, c) /\ Queue(E, c) = {}
<1> DEFINE handed == {c \in Cids : LosesFunder(E, c) /\ Queue(E, c) # {}}
           bare   == {c \in Cids : LosesFunder(E, c) /\ Queue(E, c) = {}}
<1>1. PICK heir \in [handed -> Hostings] :
         /\ \A c \in handed : heir[c] \in Queue(E, c)
         /\ hostings' = [h \in Hostings |->
               IF h \in E THEN [hostings[h] EXCEPT !.at = "ended"]
               ELSE IF \E c \in handed : heir[c] = h
                    THEN [hostings[h] EXCEPT !.at = "hosted"]
                    ELSE hostings[h]]
  BY DEF EndRows
<1>2. errands' = [e \in Cids \X Handler |->
         IF e[1] \in bare /\ e[2] = w THEN errands[e] + 1 ELSE errands[e]]
  BY DEF EndRows
<1>3. \A c \in handed, h \in Hostings :
         heir[c] = h => h \notin E /\ hostings[h].at = "queued" /\ hostings[h].cid = c
  BY <1>1 DEF Queue, Rows
<1>4. \A h \in Hostings : hostings[h] \in Hosting
  BY DEF TypeOK
<1>5. ASSUME NEW h \in Hostings
      PROVE  \/ h \in E /\ hostings'[h] = [hostings[h] EXCEPT !.at = "ended"]
             \/ /\ h \notin E /\ hostings[h].at = "queued"
                /\ hostings[h].cid \in handed
                /\ hostings'[h] = [hostings[h] EXCEPT !.at = "hosted"]
             \/ h \notin E /\ hostings'[h] = hostings[h]
  <2> HIDE DEF handed
  <2>1. CASE h \in E
    BY <1>1, <2>1
  <2>2. CASE h \notin E /\ \E c \in handed : heir[c] = h
    <3>1. hostings'[h] = [hostings[h] EXCEPT !.at = "hosted"]
      BY <1>1, <2>2
    <3>2. hostings[h].at = "queued" /\ hostings[h].cid \in handed
      BY <1>3, <2>2
    <3>3. QED
      BY <2>2, <3>1, <3>2
  <2>3. CASE h \notin E /\ ~\E c \in handed : heir[c] = h
    BY <1>1, <2>3
  <2>4. QED
    BY <2>1, <2>2, <2>3
<1>6. hostings' \in [Hostings -> Hosting]
  <2>1. \A h \in Hostings : hostings'[h] \in Hosting
    BY ZenonT(40), <1>4, <1>5, HostingType DEF Stages
  <2> HIDE DEF handed
  <2>2. QED
    BY <1>1, <2>1
<1>7. errands' \in [Cids \X Handler -> Nat]
  <2> HIDE DEF bare
  <2>1. QED
    BY <1>2 DEF TypeOK
<1>8. \A c \in Cids, v \in Handler :
         errands'[<<c, v>>] = errands[<<c, v>>] \/ c \in bare
  <2> HIDE DEF bare
  <2>1. QED
    BY <1>2
<1>9. QED
  BY <1>5, <1>6, <1>7, <1>8

LEMMA AdvanceType ==
    ASSUME TypeOK, NEW h \in Hostings, NEW s \in Stages, hostings[h].at # "idle",
           Advance(h, s)
    PROVE  hostings' \in [Hostings -> Hosting]
<1>1. hostings[h] \in Hosting
  BY DEF TypeOK
<1>2. [hostings[h] EXCEPT !.at = s] \in Hosting
  BY <1>1, HostingType
<1>3. QED
  BY <1>2 DEF TypeOK, Advance

LEMMA BeginType ==
    ASSUME TypeOK, NEW h \in Hostings, NEW c \in Cids, NEW s \in Stages, Begin(h, c, s)
    PROVE  hostings' \in [Hostings -> Hosting]
  BY HostingType DEF TypeOK, Begin

LEMMA FaultType ==
    ASSUME TypeOK, faults < MaxFaults, faults' = faults + 1
    PROVE  faults' \in 0 .. MaxFaults
  BY KuboAssumption DEF TypeOK

LEMMA OneMoreErrand ==
    ASSUME TypeOK, NEW c \in Cids, NEW w \in Handler,
           errands' = [errands EXCEPT ![<<c, w>>] = @ + 1]
    PROVE  errands' \in [Cids \X Handler -> Nat]
  BY DEF TypeOK

LEMMA OneLessErrand ==
    ASSUME TypeOK, NEW c \in Cids, NEW w \in Handler, Owes(c, w), Called(c, w)
    PROVE  /\ errands' \in [Cids \X Handler -> Nat]
           /\ \A d \in Cids, v \in Handler :
                 errands'[<<d, v>>] > 0 => errands[<<d, v>>] > 0
<1>1. <<c, w>> \in Cids \X Handler /\ errands[<<c, w>>] \in Nat
  BY DEF TypeOK
<1>2. errands[<<c, w>>] - 1 \in Nat
  BY <1>1 DEF Owes
<1>3. errands' \in [Cids \X Handler -> Nat]
  BY <1>2 DEF Called, TypeOK
<1>4. \A d \in Cids, v \in Handler :
         errands'[<<d, v>>] = IF d = c /\ v = w THEN errands[<<c, w>>] - 1
                              ELSE errands[<<d, v>>]
  BY DEF Called, TypeOK
<1>5. QED
  BY <1>1, <1>3, <1>4 DEF Owes

LEMMA VoidType ==
    ASSUME TypeOK, NEW c \in Cids, VoidCid(c)
    PROVE  /\ hostings' \in [Hostings -> Hosting]
           /\ registry' \in [Cids -> {"none", "blocked", "unblocked"}]
<1>1. registry' \in [Cids -> {"none", "blocked", "unblocked"}]
  BY DEF VoidCid, TypeOK
<1>2. \A h \in Hostings : hostings[h] \in Hosting
  BY DEF TypeOK
<1>3. \A h \in Hostings :
         h \in Rows(c, "hosted") \cup Rows(c, "queued") =>
            [hostings[h] EXCEPT !.at = "ended"] \in Hosting
  BY <1>2, HostingType DEF Rows, Stages
<1>4. QED
  BY <1>1, <1>2, <1>3 DEF VoidCid

LEMMA TypeStep == TypeOK /\ [Next]_vars => TypeOK'
<1> SUFFICES ASSUME TypeOK, [Next]_vars PROVE TypeOK'
  OBVIOUS
<1>a. \A h \in Hostings : hostings[h] \in Hosting
  BY DEF TypeOK
<1>r. raced' \subseteq Cids
  BY DEF Next, NoteRaces, vars, TypeOK
<1> USE <1>r
<1>1. ASSUME NEW h \in Hostings, NEW c \in Cids,
             StartUpload(h, c) \/ OwnCopy(h, c) \/ Pledge(h, c)
      PROVE  TypeOK'
  <2>1. /\ \E s \in Stages : Begin(h, c, s)
        /\ UNCHANGED <<errands, gcDue, registry, pinned, stored, faults>>
    BY <1>1 DEF StartUpload, OwnCopy, Pledge, Stages
  <2>2. hostings' \in [Hostings -> Hosting]
    BY <2>1, BeginType
  <2>3. QED
    BY <2>1, <2>2 DEF TypeOK
<1>2. ASSUME NEW h \in Hostings, KuboAdds(h) PROVE TypeOK'
  <2>1. hostings' \in [Hostings -> Hosting]
    BY <1>2, AdvanceType DEF KuboAdds, Stages
  <2>2. hostings[h].cid \in Cids
    BY <1>2, <1>a, HostingType DEF KuboAdds, Stages
  <2>3. pinned' \subseteq stored' /\ stored' \subseteq Cids
    BY <1>2, <2>2 DEF KuboAdds, TypeOK
  <2>4. QED
    BY <1>2, <2>1, <2>3 DEF KuboAdds, TypeOK
<1>3. ASSUME NEW h \in Hostings, AddFails(h) PROVE TypeOK'
  <2>1. hostings' \in [Hostings -> Hosting]
    BY <1>3, AdvanceType DEF AddFails, Stages
  <2>2. hostings[h].cid \in Cids
    BY <1>3, <1>a, HostingType DEF AddFails, Stages
  <2>3. pinned' \subseteq stored' /\ stored' \subseteq Cids
    BY <1>3, <2>2 DEF AddFails, TypeOK
  <2>4. faults' \in 0 .. MaxFaults
    BY <1>3, FaultType DEF AddFails
  <2>5. UNCHANGED <<errands, gcDue, registry>>
    BY <1>3 DEF AddFails
  <2>6. QED
    BY <2>1, <2>3, <2>4, <2>5 DEF TypeOK
<1>4. ASSUME NEW h \in Hostings, Commit(h) \/ CommitThrows(h) PROVE TypeOK'
  <2>1. hostings' \in [Hostings -> Hosting]
    BY <1>4, AdvanceType DEF Commit, CommitThrows, Stages
  <2>2. QED
    BY <1>4, <2>1 DEF Commit, CommitThrows, TypeOK
<1>5. ASSUME NEW h \in Hostings, RefuseBlocked(h) PROVE TypeOK'
  <2>1. hostings' \in [Hostings -> Hosting]
    BY <1>5, AdvanceType DEF RefuseBlocked, Stages
  <2>2. hostings[h].cid \in Cids
    BY <1>5, <1>a, HostingType DEF RefuseBlocked, Stages
  <2>3. errands' \in [Cids \X Handler -> Nat]
    BY <1>5, <2>2, OneMoreErrand DEF RefuseBlocked, Handler
  <2>4. UNCHANGED <<gcDue, registry, pinned, stored, faults>>
    BY <1>5 DEF RefuseBlocked
  <2>5. QED
    BY <2>1, <2>3, <2>4 DEF TypeOK
<1>6. ASSUME NEW E \in SUBSET Hostings, NEW w \in Handler, EndRows(E, w),
             \A h \in E : hostings[h].at \in {"hosted", "queued"},
             UNCHANGED <<gcDue, registry, pinned, stored, faults>>
      PROVE  TypeOK'
  <2>1. hostings' \in [Hostings -> Hosting] /\ errands' \in [Cids \X Handler -> Nat]
    BY <1>6, EndRowsEffect
  <2>2. QED
    BY <1>6, <2>1 DEF TypeOK
<1>7. ASSUME NEW h \in Hostings, End(h) PROVE TypeOK'
  BY <1>6, <1>7 DEF End, Handler
<1>8. ASSUME NEW E \in SUBSET Hostings, Ban(E) \/ Sweep(E) PROVE TypeOK'
  BY <1>6, <1>8 DEF Ban, Sweep, Handler
<1>9. ASSUME NEW c \in Cids, Takedown(c) PROVE TypeOK'
  <2>1. VoidCid(c) /\ UNCHANGED <<gcDue, pinned, stored, faults>>
    BY <1>9 DEF Takedown
  <2>2. errands' \in [Cids \X Handler -> Nat]
    BY <1>9, OneMoreErrand DEF Takedown, Handler
  <2>3. QED
    BY <2>1, <2>2, VoidType DEF TypeOK
<1>10. ASSUME NEW c \in Cids, ImportTakedown(c) PROVE TypeOK'
  <2>1. VoidCid(c) /\ UNCHANGED <<errands, gcDue, pinned, stored>>
    BY <1>10 DEF ImportTakedown
  <2>2. faults' \in 0 .. MaxFaults
    BY <1>10, FaultType DEF ImportTakedown
  <2>3. QED
    BY <2>1, <2>2, VoidType DEF TypeOK
<1>11. ASSUME NEW c \in Cids, Untakedown(c) PROVE TypeOK'
  BY <1>11 DEF Untakedown, TypeOK
<1>12. ASSUME NEW c \in Cids, NEW w \in Handler, UnpinDone(c, w) PROVE TypeOK'
  <2>1. errands' \in [Cids \X Handler -> Nat]
    BY <1>12, OneLessErrand DEF UnpinDone
  <2>2. gcDue' \subseteq {"request", "sweeper"} /\ pinned' \subseteq stored
    BY <1>12 DEF UnpinDone, TypeOK, Handler
  <2>3. UNCHANGED <<hostings, registry, stored, faults>>
    BY <1>12 DEF UnpinDone
  <2>4. QED
    BY <2>1, <2>2, <2>3 DEF TypeOK
<1>13. ASSUME NEW c \in Cids, NEW w \in Handler, UnpinFails(c, w) PROVE TypeOK'
  <2>1. errands' \in [Cids \X Handler -> Nat]
    BY <1>13, OneLessErrand DEF UnpinFails
  <2>2. pinned' \subseteq stored /\ faults' \in 0 .. MaxFaults
    BY <1>13, FaultType DEF UnpinFails, TypeOK
  <2>3. UNCHANGED <<hostings, gcDue, registry, stored>>
    BY <1>13 DEF UnpinFails
  <2>4. QED
    BY <2>1, <2>2, <2>3 DEF TypeOK
<1>14. ASSUME NEW w \in Handler, Gc(w) PROVE TypeOK'
  BY <1>14 DEF Gc, TypeOK
<1>15. ASSUME NEW w \in Handler, GcFails(w) PROVE TypeOK'
  <2>1. faults' \in 0 .. MaxFaults
    BY <1>15, FaultType DEF GcFails
  <2>2. QED
    BY <1>15, <2>1 DEF GcFails, TypeOK
<1>16. CASE Crash
  <2>1. faults' \in 0 .. MaxFaults
    BY <1>16, FaultType DEF Crash
  <2>2. \A h \in Hostings :
           hostings[h].at \in {"adding", "added"} =>
              [hostings[h] EXCEPT !.at = "failed"] \in Hosting
    BY <1>a, HostingType DEF Stages
  <2>3. hostings' \in [Hostings -> Hosting]
    BY <1>16, <1>a, <2>2 DEF Crash
  <2>4. errands' \in [Cids \X Handler -> Nat] /\ gcDue' = {}
    BY <1>16 DEF Crash
  <2>5. registry' = registry /\ pinned' \subseteq stored' /\ stored' \subseteq Cids
    BY <1>16 DEF Crash, TypeOK
  <2>6. QED
    BY <2>1, <2>3, <2>4, <2>5 DEF TypeOK
<1>17. CASE UNCHANGED vars
  BY <1>17 DEF TypeOK, vars
<1>18. QED
  BY <1>1, <1>2, <1>3, <1>4, <1>5, <1>7, <1>8, <1>9, <1>10, <1>11, <1>12, <1>13,
     <1>14, <1>15, <1>16, <1>17 DEF Next, Step

LEMMA TypeInit == Init => TypeOK
<1> SUFFICES ASSUME Init PROVE TypeOK
  OBVIOUS
<1>1. [at |-> "idle", cid |-> Nil] \in Hosting
  BY DEF Hosting
<1>2. hostings \in [Hostings -> Hosting] /\ errands \in [Cids \X Handler -> Nat]
  BY <1>1 DEF Init
<1>3. faults \in 0 .. MaxFaults
  BY KuboAssumption DEF Init
<1>4. QED
  BY <1>2, <1>3 DEF Init, TypeOK

\* Every row names a CID from the moment it is more than a name, no handler owes
\* a negative number of unpins, and Kubo pins nothing it does not store.
THEOREM TypeCorrect == Spec => []TypeOK
<1>1. QED
  BY TypeInit, TypeStep, PTL DEF Spec

-----------------------------------------------------------------------------
(* Funded files keep their bytes, unless an owed unpin met an upload.       *)

\* A row whose bytes Kubo was told to keep.
HasBytes(c) ==
    \E h \in Hostings : hostings[h].cid = c /\ hostings[h].at \in {"added", "hosted"}

BytesPinned == \A c \in Cids \ raced : HasBytes(c) => c \in pinned

BlockedUnfunded == \A c \in Cids : Blocked(c) => ~Funded(c)

\* An unpin is owed for a CID only while nobody funds it or uploads it.
ErrandsSafe == \A c \in Cids \ raced : OwesUnpin(c) => ~Funded(c) /\ ~Uploading(c)

\* The inductive invariant.
KInv == TypeOK /\ BytesPinned /\ BlockedUnfunded /\ ErrandsSafe

LEMMA FundedRow ==
    \A c : Funded(c) <=> \E h \in Hostings : hostings[h].cid = c /\ hostings[h].at = "hosted"
  BY DEF Funded, Rows

LEMMA UploadingRow ==
    \A c : Uploading(c) <=> \E h \in Hostings : hostings[h].cid = c
                                              /\ hostings[h].at \in {"adding", "added"}
  BY DEF Uploading, Rows

LEMMA BytesAreSomebodys ==
    \A c : HasBytes(c) => Funded(c) \/ Uploading(c)
  BY FundedRow, UploadingRow DEF HasBytes

\* What a step has to show: the rest is in how a race is noted.
LEMMA RacesExcuse ==
    ASSUME KInv, TypeOK', NoteRaces, BlockedUnfunded',
           \A c \in Cids \ raced : HasBytes(c)' => c \in pinned',
           \A c \in Cids \ raced : OwesUnpin(c)' /\ ~Uploading(c)' => ~Funded(c)'
    PROVE  KInv'
<1>1. \A c \in Cids : HasBytes(c)' => Funded(c)' \/ Uploading(c)'
  <2> SUFFICES ASSUME NEW c \in Cids, HasBytes(c)' PROVE Funded(c)' \/ Uploading(c)'
    OBVIOUS
  <2>1. PICK h \in Hostings : hostings'[h].cid = c /\ hostings'[h].at \in {"added", "hosted"}
    BY DEF HasBytes
  <2>2. QED
    BY <2>1 DEF Funded, Uploading, Rows
<1>2. \A c \in Cids \ raced' :
         /\ c \in raced => ~Funded(c)' /\ ~Uploading(c)' /\ ~OwesUnpin(c)'
         /\ ~(OwesUnpin(c)' /\ Uploading(c)')
  BY DEF NoteRaces
<1>3. BytesPinned'
  BY <1>1, <1>2 DEF BytesPinned
<1>4. ErrandsSafe'
  BY <1>2 DEF ErrandsSafe
<1>5. QED
  BY <1>3, <1>4 DEF KInv

\* How a row may change without a CID gaining a funder or bytes.
Fades(h) ==
    \/ hostings'[h] = hostings[h]
    \/ hostings'[h].at \notin {"added", "hosted"}
    \/ /\ hostings[h].at = "queued" /\ hostings'[h].at = "hosted"
       /\ hostings'[h].cid = hostings[h].cid
       /\ Funded(hostings[h].cid)

LEMMA FadingRows ==
    ASSUME \A h \in Hostings : Fades(h), NEW c
    PROVE  (Funded(c)' => Funded(c)) /\ (HasBytes(c)' => HasBytes(c))
<1>1. ASSUME Funded(c)' PROVE Funded(c)
  <2>1. PICK h \in Hostings : hostings'[h].cid = c /\ hostings'[h].at = "hosted"
    BY <1>1 DEF Funded, Rows
  <2>2. QED
    BY <2>1, FundedRow DEF Fades
<1>2. ASSUME HasBytes(c)' PROVE HasBytes(c)
  <2>1. PICK h \in Hostings : hostings'[h].cid = c /\ hostings'[h].at \in {"added", "hosted"}
    BY <1>2 DEF HasBytes
  <2>2. QED
    BY <2>1, FundedRow DEF Fades, HasBytes
<1>3. QED
  BY <1>1, <1>2

LEMMA FadingKeeps ==
    ASSUME KInv, TypeOK', NoteRaces, \A h \in Hostings : Fades(h),
           \A c \in Cids : c \in pinned => c \in pinned' \/ OwesUnpin(c),
           \A c \in Cids : OwesUnpin(c)' => OwesUnpin(c) \/ ~Funded(c)',
           \A c \in Cids : Blocked(c)' => Blocked(c) \/ ~Funded(c)'
    PROVE  KInv'
<1>1. \A c : (Funded(c)' => Funded(c)) /\ (HasBytes(c)' => HasBytes(c))
  BY FadingRows
<1>2. BlockedUnfunded'
  BY <1>1 DEF KInv, BlockedUnfunded
<1>3. \A c \in Cids \ raced : HasBytes(c)' => c \in pinned'
  BY <1>1, BytesAreSomebodys DEF KInv, BytesPinned, ErrandsSafe
<1>4. \A c \in Cids \ raced : OwesUnpin(c)' /\ ~Uploading(c)' => ~Funded(c)'
  BY <1>1 DEF KInv, ErrandsSafe
<1>5. QED
  BY <1>2, <1>3, <1>4, RacesExcuse

\* A row gets its bytes: by an add, by an upload that was added, or as a copy of
\* one that is hosted.
LEMMA GainKeeps ==
    ASSUME KInv, TypeOK', NoteRaces, NEW h \in Hostings, NEW c \in Cids,
           hostings'[h].cid = c, hostings'[h].at \in {"added", "hosted"},
           \A g \in Hostings \ {h} : hostings'[g] = hostings[g],
           UNCHANGED <<errands, registry>>, pinned \subseteq pinned',
           c \notin raced => c \in pinned',
           hostings'[h].at = "hosted" => ~Blocked(c) /\ (c \notin raced => ~OwesUnpin(c))
    PROVE  KInv'
<1>1. \A d \in Cids : Funded(d)' => Funded(d) \/ (d = c /\ hostings'[h].at = "hosted")
  <2> SUFFICES ASSUME NEW d \in Cids, Funded(d)'
               PROVE  Funded(d) \/ (d = c /\ hostings'[h].at = "hosted")
    OBVIOUS
  <2>1. PICK g \in Hostings : hostings'[g].cid = d /\ hostings'[g].at = "hosted"
    BY DEF Funded, Rows
  <2>2. QED
    BY <2>1, FundedRow
<1>2. \A d \in Cids : HasBytes(d)' => HasBytes(d) \/ d = c
  <2> SUFFICES ASSUME NEW d \in Cids, HasBytes(d)' PROVE HasBytes(d) \/ d = c
    OBVIOUS
  <2>1. PICK g \in Hostings : hostings'[g].cid = d /\ hostings'[g].at \in {"added", "hosted"}
    BY DEF HasBytes
  <2>2. QED
    BY <2>1 DEF HasBytes
<1>3. BlockedUnfunded'
  BY <1>1 DEF KInv, BlockedUnfunded, Blocked
<1>4. \A d \in Cids \ raced : HasBytes(d)' => d \in pinned'
  BY <1>2 DEF KInv, BytesPinned
<1>5. \A d \in Cids \ raced : OwesUnpin(d)' /\ ~Uploading(d)' => ~Funded(d)'
  BY <1>1 DEF KInv, ErrandsSafe, OwesUnpin
<1>6. QED
  BY <1>3, <1>4, <1>5, RacesExcuse

LEMMA EndRowsKeeps ==
    ASSUME KInv, TypeOK', NoteRaces, NEW E \in SUBSET Hostings, NEW w \in Handler,
           EndRows(E, w),
           \A h \in E : hostings[h].at \in {"hosted", "queued"},
           UNCHANGED <<registry, pinned>>
    PROVE  KInv'
<1>1. /\ \A h \in Hostings :
            \/ h \in E /\ hostings'[h] = [hostings[h] EXCEPT !.at = "ended"]
            \/ /\ h \notin E /\ hostings[h].at = "queued"
               /\ LosesFunder(E, hostings[h].cid)
               /\ Queue(E, hostings[h].cid) # {}
               /\ hostings'[h] = [hostings[h] EXCEPT !.at = "hosted"]
            \/ h \notin E /\ hostings'[h] = hostings[h]
      /\ \A c \in Cids, v \in Handler :
            \/ errands'[<<c, v>>] = errands[<<c, v>>]
            \/ LosesFunder(E, c) /\ Queue(E, c) = {}
  BY EndRowsEffect DEF KInv
<1>2. \A h \in Hostings : hostings[h] \in Hosting /\ hostings'[h] \in Hosting
  BY DEF KInv, TypeOK
<1>3. \A h \in Hostings :
         \/ h \in E /\ hostings'[h].at = "ended"
         \/ /\ h \notin E /\ hostings[h].at = "queued" /\ hostings'[h].at = "hosted"
            /\ hostings'[h].cid = hostings[h].cid
            /\ LosesFunder(E, hostings[h].cid) /\ Queue(E, hostings[h].cid) # {}
         \/ h \notin E /\ hostings'[h] = hostings[h]
  BY <1>1, <1>2 DEF Hosting
<1>4. \A h \in Hostings : Fades(h)
  BY <1>3 DEF Fades, LosesFunder
<1>5. ASSUME NEW c \in Cids, LosesFunder(E, c), Queue(E, c) = {}
      PROVE  ~Funded(c)'
  <2> SUFFICES ASSUME NEW h \in Hostings, hostings'[h].cid = c, hostings'[h].at = "hosted"
               PROVE  FALSE
    BY DEF Funded, Rows
  <2>1. h \notin E /\ hostings'[h] = hostings[h]
    BY <1>3, <1>5
  <2>2. h \in Rows(c, "hosted")
    BY <2>1 DEF Rows
  <2>3. QED
    BY <1>5, <2>1, <2>2 DEF LosesFunder
<1>6. \A c \in Cids : OwesUnpin(c)' => OwesUnpin(c) \/ ~Funded(c)'
  BY <1>1, <1>5 DEF OwesUnpin
<1>7. \A c \in Cids : Blocked(c)' => Blocked(c)
  BY DEF Blocked
<1>8. QED
  BY <1>4, <1>6, <1>7, FadingKeeps

LEMMA VoidKeeps ==
    ASSUME KInv, TypeOK', NoteRaces, NEW c \in Cids, VoidCid(c), pinned' = pinned,
           \A d \in Cids : d # c => (OwesUnpin(d)' => OwesUnpin(d))
    PROVE  KInv'
<1>1. \A h \in Hostings :
         \/ hostings'[h] = hostings[h] /\ h \notin Rows(c, "hosted")
         \/ hostings'[h].at = "ended"
  <2>1. \A h \in Hostings : hostings[h] \in Hosting
    BY DEF KInv, TypeOK
  <2>2. QED
    BY <2>1 DEF VoidCid, Hosting
<1>2. \A h \in Hostings : Fades(h)
  BY <1>1 DEF Fades
<1>3. ~Funded(c)'
  <2> SUFFICES ASSUME NEW h \in Hostings, hostings'[h].cid = c, hostings'[h].at = "hosted"
               PROVE  FALSE
    BY DEF Funded, Rows
  <2>1. QED
    BY <1>1 DEF Rows
<1>4. \A d \in Cids : Blocked(d)' => Blocked(d) \/ ~Funded(d)'
  <2>1. \A d \in Cids : d # c => registry'[d] = registry[d]
    BY DEF VoidCid, KInv, TypeOK
  <2>2. QED
    BY <1>3, <2>1 DEF Blocked
<1>5. QED
  BY <1>2, <1>3, <1>4, FadingKeeps

LEMMA BeginRows ==
    ASSUME TypeOK, NEW h \in Hostings, NEW c \in Cids, NEW s, Begin(h, c, s)
    PROVE  /\ hostings'[h].cid = c /\ hostings'[h].at = s
           /\ \A g \in Hostings \ {h} : hostings'[g] = hostings[g]
  BY DEF TypeOK, Begin

LEMMA AdvanceRows ==
    ASSUME TypeOK, NEW h \in Hostings, NEW s, Advance(h, s)
    PROVE  /\ hostings'[h].cid = hostings[h].cid /\ hostings'[h].at = s
           /\ \A g \in Hostings \ {h} : hostings'[g] = hostings[g]
<1>1. hostings[h] \in Hosting
  BY DEF TypeOK
<1>2. hostings'[h] = [hostings[h] EXCEPT !.at = s]
  BY DEF TypeOK, Advance
<1>3. QED
  BY <1>1, <1>2 DEF TypeOK, Advance, Hosting

LEMMA InvariantStep == KInv /\ [Next]_vars => KInv'
<1> SUFFICES ASSUME KInv, [Next]_vars PROVE KInv'
  OBVIOUS
<1>a. TypeOK /\ TypeOK'
  BY TypeStep DEF KInv
<1>1. CASE UNCHANGED vars
  BY <1>1 DEF vars, KInv, TypeOK, BytesPinned, BlockedUnfunded, ErrandsSafe, HasBytes,
     Blocked, Funded, Uploading, OwesUnpin, Rows
<1>2. ASSUME Step, NoteRaces PROVE KInv'
  <2>a. NoteRaces
    BY <1>2
  <2>b. ASSUME \A h \in Hostings : Fades(h), pinned \subseteq pinned',
               \A c \in Cids : OwesUnpin(c)' => OwesUnpin(c),
               \A c \in Cids : Blocked(c)' => Blocked(c)
        PROVE  KInv'
    BY <1>a, <2>a, <2>b, FadingKeeps
  <2>1. ASSUME NEW h \in Hostings, NEW c \in Cids, StartUpload(h, c) \/ Pledge(h, c)
        PROVE  KInv'
    <3>1. /\ hostings'[h].at \in {"adding", "queued"}
          /\ \A g \in Hostings \ {h} : hostings'[g] = hostings[g]
          /\ UNCHANGED <<errands, registry, pinned>>
      BY <1>a, <2>1, BeginRows DEF StartUpload, Pledge
    <3>2. \A g \in Hostings : Fades(g)
      BY <3>1 DEF Fades
    <3>3. QED
      BY <2>b, <3>1, <3>2 DEF OwesUnpin, Blocked
  <2>2. ASSUME NEW h \in Hostings, NEW c \in Cids, OwnCopy(h, c) PROVE KInv'
    <3>1. /\ hostings'[h].cid = c /\ hostings'[h].at = "hosted"
          /\ \A g \in Hostings \ {h} : hostings'[g] = hostings[g]
          /\ Funded(c) /\ UNCHANGED <<errands, registry, pinned>>
      BY <1>a, <2>2, BeginRows DEF OwnCopy
    <3>2. HasBytes(c)
      BY <3>1, FundedRow DEF HasBytes
    <3>3. ~Blocked(c) /\ (c \notin raced => c \in pinned /\ ~OwesUnpin(c))
      BY <3>1, <3>2 DEF KInv, BlockedUnfunded, ErrandsSafe, BytesPinned
    <3>4. QED
      BY <1>a, <2>a, <3>1, <3>3, GainKeeps
  <2>3. ASSUME NEW h \in Hostings, KuboAdds(h) PROVE KInv'
    <3>1. PICK c \in Cids : c = hostings[h].cid
      BY <1>a, <2>3, HostingType DEF KuboAdds, TypeOK, Stages
    <3>2. /\ hostings'[h].at = "added" /\ hostings'[h].cid = c
          /\ \A g \in Hostings \ {h} : hostings'[g] = hostings[g]
          /\ pinned' = pinned \cup {c} /\ UNCHANGED <<errands, registry>>
      BY <1>a, <2>3, <3>1, AdvanceRows DEF KuboAdds
    <3>3. QED
      BY <1>a, <2>a, <3>2, GainKeeps
  <2>4. ASSUME NEW h \in Hostings, AddFails(h) \/ CommitThrows(h) PROVE KInv'
    <3>1. /\ hostings'[h].at \in {"failed", "threw"}
          /\ \A g \in Hostings \ {h} : hostings'[g] = hostings[g]
          /\ pinned \subseteq pinned' /\ UNCHANGED <<errands, registry>>
      BY <1>a, <2>4, AdvanceRows DEF AddFails, CommitThrows
    <3>2. \A g \in Hostings : Fades(g)
      BY <3>1 DEF Fades
    <3>3. QED
      BY <2>b, <3>1, <3>2 DEF OwesUnpin, Blocked
  <2>5. ASSUME NEW h \in Hostings, Commit(h) PROVE KInv'
    <3>1. PICK c \in Cids : c = hostings[h].cid
      BY <1>a, <2>5, HostingType DEF Commit, TypeOK, Stages
    <3>2. /\ hostings[h].at = "added" /\ hostings'[h].at = "hosted" /\ hostings'[h].cid = c
          /\ \A g \in Hostings \ {h} : hostings'[g] = hostings[g]
          /\ ~Blocked(c) /\ UNCHANGED <<errands, registry, pinned>>
      BY <1>a, <2>5, <3>1, AdvanceRows DEF Commit
    <3>3. HasBytes(c) /\ Uploading(c)
      BY <3>1, <3>2, UploadingRow DEF HasBytes
    <3>4. c \notin raced => c \in pinned /\ ~OwesUnpin(c)
      BY <3>3 DEF KInv, BytesPinned, ErrandsSafe
    <3>5. QED
      BY <1>a, <2>a, <3>2, <3>4, GainKeeps
  <2>6. ASSUME NEW h \in Hostings, RefuseBlocked(h) PROVE KInv'
    <3>1. PICK c \in Cids : c = hostings[h].cid
      BY <1>a, <2>6, HostingType DEF RefuseBlocked, TypeOK, Stages
    <3>2. /\ hostings'[h].at = "failed"
          /\ \A g \in Hostings \ {h} : hostings'[g] = hostings[g]
          /\ Blocked(c) /\ UNCHANGED <<registry, pinned>>
      BY <1>a, <2>6, <3>1, AdvanceRows DEF RefuseBlocked
    <3>3. \A g \in Hostings : Fades(g)
      BY <3>2 DEF Fades
    <3>4. ~Funded(c)'
      BY <3>2, <3>3, FadingRows DEF KInv, BlockedUnfunded
    <3>5. \A d \in Cids : OwesUnpin(d)' => OwesUnpin(d) \/ d = c
      BY <1>a, <2>6, <3>1 DEF RefuseBlocked, OwesUnpin, TypeOK
    <3>6. QED
      BY <1>a, <2>a, <3>2, <3>3, <3>4, <3>5, FadingKeeps DEF Blocked
  <2>7. ASSUME NEW h \in Hostings, End(h) PROVE KInv'
    <3>1. /\ EndRows({h}, "request") /\ UNCHANGED <<registry, pinned>>
          /\ \A g \in {h} : hostings[g].at \in {"hosted", "queued"}
      BY <2>7 DEF End
    <3>2. {h} \in SUBSET Hostings /\ "request" \in Handler
      BY DEF Handler
    <3>3. QED
      BY <1>a, <2>a, <3>1, <3>2, EndRowsKeeps
  <2>8. ASSUME NEW E \in SUBSET Hostings, Ban(E) \/ Sweep(E) PROVE KInv'
    <3>1. /\ EndRows(E, "request") \/ EndRows(E, "sweeper")
          /\ UNCHANGED <<registry, pinned>>
          /\ \A g \in E : hostings[g].at \in {"hosted", "queued"}
      BY <2>8 DEF Ban, Sweep
    <3>2. "request" \in Handler /\ "sweeper" \in Handler
      BY DEF Handler
    <3>3. QED
      BY <1>a, <2>a, <3>1, <3>2, EndRowsKeeps
  <2>9. ASSUME NEW c \in Cids, Takedown(c) PROVE KInv'
    <3>1. VoidCid(c) /\ pinned' = pinned
      BY <2>9 DEF Takedown
    <3>2. \A d \in Cids : d # c => (OwesUnpin(d)' => OwesUnpin(d))
      BY <1>a, <2>9 DEF Takedown, OwesUnpin, TypeOK
    <3>3. QED
      BY <1>a, <2>a, <3>1, <3>2, VoidKeeps
  <2>10. ASSUME NEW c \in Cids, ImportTakedown(c) PROVE KInv'
    <3>1. VoidCid(c) /\ UNCHANGED <<errands, pinned>>
      BY <2>10 DEF ImportTakedown
    <3>2. QED
      BY <1>a, <2>a, <3>1, VoidKeeps DEF OwesUnpin
  <2>11. ASSUME NEW c \in Cids, Untakedown(c) PROVE KInv'
    <3>1. UNCHANGED <<hostings, errands, pinned>>
      BY <2>11 DEF Untakedown
    <3>2. \A d \in Cids : Blocked(d)' => Blocked(d)
      BY <1>a, <2>11 DEF Untakedown, Blocked, TypeOK
    <3>3. QED
      BY <2>b, <3>1, <3>2 DEF Fades, OwesUnpin
  <2>12. ASSUME NEW c \in Cids, NEW w \in Handler, UnpinDone(c, w) \/ UnpinFails(c, w)
         PROVE  KInv'
    <3>1. /\ Owes(c, w) /\ Called(c, w) /\ pinned \ {c} \subseteq pinned'
          /\ UNCHANGED <<hostings, registry>>
      BY <2>12 DEF UnpinDone, UnpinFails
    <3>2. \A d \in Cids : OwesUnpin(d)' => OwesUnpin(d)
      BY <1>a, <3>1, OneLessErrand DEF OwesUnpin
    <3>3. OwesUnpin(c)
      BY <3>1 DEF OwesUnpin, Owes
    <3>4. \A h \in Hostings : Fades(h)
      BY <3>1 DEF Fades
    <3>5. QED
      BY <1>a, <2>a, <3>1, <3>2, <3>3, <3>4, FadingKeeps DEF Blocked
  <2>13. ASSUME NEW w \in Handler, Gc(w) \/ GcFails(w) PROVE KInv'
    <3>1. UNCHANGED <<hostings, errands, registry, pinned>>
      BY <2>13 DEF Gc, GcFails
    <3>2. QED
      BY <2>b, <3>1 DEF Fades, OwesUnpin, Blocked
  <2>14. CASE Crash
    <3>1. \A h \in Hostings : hostings'[h] = hostings[h] \/ hostings'[h].at = "failed"
      <4>1. \A h \in Hostings : hostings[h] \in Hosting
        BY <1>a DEF TypeOK
      <4>2. QED
        BY <2>14, <4>1 DEF Crash, Hosting
    <3>2. \A c \in Cids : ~OwesUnpin(c)'
      <4>1. \A e \in Cids \X Handler : errands'[e] = 0
        BY <2>14 DEF Crash
      <4>2. ASSUME NEW c \in Cids, NEW w \in Handler PROVE ~(errands'[<<c, w>>] > 0)
        <5>1. errands'[<<c, w>>] = 0
          BY <4>1
        <5>2. QED
          BY <5>1
      <4>3. QED
        BY <4>2 DEF OwesUnpin
    <3>3. pinned \subseteq pinned' /\ registry' = registry
      BY <2>14 DEF Crash
    <3>4. QED
      BY <2>b, <3>1, <3>2, <3>3 DEF Fades, Blocked
  <2>15. QED
    BY <1>2, <2>1, <2>2, <2>3, <2>4, <2>5, <2>6, <2>7, <2>8, <2>9, <2>10, <2>11,
       <2>12, <2>13, <2>14 DEF Step
<1>3. QED
  BY <1>1, <1>2 DEF Next

\* For any number of CIDs, rows and faults: no unpin, gc, failed call, crash,
\* takedown or import takes the bytes of a funded CID, unless an unpin of it was
\* owed while an upload of it was under way ("we never unpin a CID that still has
\* a funder", quota.js:697-698).  The run kubo_race shows that such a race does.
THEOREM RacesAreTheOnlyLoss == Spec => []OnlyRacesLoseBytes
<1>1. Init => KInv
  <2> SUFFICES ASSUME Init PROVE KInv
    OBVIOUS
  <2>1. \A h \in Hostings : hostings[h].at = "idle"
    BY DEF Init
  <2>2. \A c \in Cids : ~Funded(c) /\ ~OwesUnpin(c) /\ ~HasBytes(c)
    <3>1. \A e \in Cids \X Handler : errands[e] = 0
      BY DEF Init
    <3>2. ASSUME NEW c \in Cids, NEW w \in Handler PROVE ~(errands[<<c, w>>] > 0)
      <4>1. errands[<<c, w>>] = 0
        BY <3>1
      <4>2. QED
        BY <4>1
    <3>3. QED
      BY <2>1, <3>2 DEF Funded, Rows, OwesUnpin, HasBytes
  <2>3. QED
    BY <2>2, TypeInit DEF KInv, BytesPinned, BlockedUnfunded, ErrandsSafe
<1>2. KInv => OnlyRacesLoseBytes
  BY FundedRow DEF KInv, TypeOK, BytesPinned, HasBytes, OnlyRacesLoseBytes
<1>3. QED
  BY <1>1, <1>2, InvariantStep, PTL DEF Spec

-----------------------------------------------------------------------------
(* Every pin has somebody to answer for it *)

\* An upload that threw answers for its pin in the negative: it is known to leak.
Answered(c) ==
    Funded(c) \/ Rows(c, "added") # {} \/ Rows(c, "threw") # {} \/ OwesUnpin(c)

Answering == {"added", "threw", "hosted"}

AllAnswered == faults = 0 => \A c \in pinned : Answered(c)

LEMMA AnsweredBy ==
    ASSUME NEW c
    PROVE  Answered(c) <=>
              \/ \E h \in Hostings : /\ hostings[h].cid = c
                                     /\ hostings[h].at \in Answering
              \/ OwesUnpin(c)
BY DEF Answered, Answering, Funded, Rows

\* No row with bytes and no errand goes, and no pin comes.
LEMMA StillAnswered ==
    ASSUME AllAnswered, faults' = faults, pinned' \subseteq pinned,
           \A c \in pinned' : Answered(c) => Answered(c)'
    PROVE  AllAnswered'
BY DEF AllAnswered

\* A handler still owes what it owed.
LEMMA ErrandsKept ==
    ASSUME NEW c \in Cids, OwesUnpin(c),
           \A w \in Handler : errands'[<<c, w>>] >= errands[<<c, w>>],
           TypeOK, TypeOK'
    PROVE  OwesUnpin(c)'
<1>1. PICK w \in Handler : errands[<<c, w>>] > 0
  BY DEF OwesUnpin
<1>2. errands[<<c, w>>] \in Nat /\ errands'[<<c, w>>] \in Nat
  BY DEF TypeOK
<1>3. errands'[<<c, w>>] > 0
  BY <1>1, <1>2
<1> QED BY <1>3 DEF OwesUnpin

\* Ending rows funds each CID still, or hands it on, or owes its unpin.
LEMMA EndRowsAnswers ==
    ASSUME TypeOK, TypeOK', NEW E \in SUBSET Hostings, NEW w \in Handler, EndRows(E, w),
           \A h \in E : hostings[h].at \in {"hosted", "queued"},
           NEW c \in Cids, Answered(c)
    PROVE  Answered(c)'
<1> DEFINE handed == {d \in Cids : LosesFunder(E, d) /\ Queue(E, d) # {}}
           bare   == {d \in Cids : LosesFunder(E, d) /\ Queue(E, d) = {}}
<1>1. PICK heir \in [handed -> Hostings] :
         /\ \A d \in handed : heir[d] \in Queue(E, d)
         /\ hostings' = [h \in Hostings |->
               IF h \in E THEN [hostings[h] EXCEPT !.at = "ended"]
               ELSE IF \E d \in handed : heir[d] = h
                    THEN [hostings[h] EXCEPT !.at = "hosted"]
                    ELSE hostings[h]]
  BY DEF EndRows
<1>2. errands' = [e \in Cids \X Handler |->
         IF e[1] \in bare /\ e[2] = w THEN errands[e] + 1 ELSE errands[e]]
  BY DEF EndRows
<1>3. \A h \in Hostings : hostings[h] \in Hosting
  BY DEF TypeOK
<1>4. \A h \in Hostings :
         [hostings[h] EXCEPT !.at = "hosted"].at = "hosted"
         /\ [hostings[h] EXCEPT !.at = "hosted"].cid = hostings[h].cid
  BY <1>3 DEF Hosting
<1>5. CASE OwesUnpin(c)
  <2>1. \A v \in Handler : errands'[<<c, v>>] >= errands[<<c, v>>]
    <3>1. \A v \in Handler : errands[<<c, v>>] \in Nat
      BY DEF TypeOK
    <3>2. \A v \in Handler : errands'[<<c, v>>] \in {errands[<<c, v>>], errands[<<c, v>>] + 1}
      <4> HIDE DEF bare
      <4> QED BY <1>2
    <3> QED BY <3>1, <3>2
  <2> QED BY <1>5, <2>1, ErrandsKept, AnsweredBy DEF Answered
<1>6. ASSUME NEW h \in Hostings \ E, hostings[h].cid = c, hostings[h].at \in Answering
      PROVE  Answered(c)'
  <2>1. hostings'[h].cid = c /\ hostings'[h].at \in Answering
    <3> HIDE DEF handed
    <3> QED BY <1>1, <1>4, <1>6 DEF Answering
  <2> QED BY <2>1 DEF Answered, Answering, Funded, Rows
<1>7. CASE LosesFunder(E, c) /\ Queue(E, c) # {}
  <2>1. c \in handed
    BY <1>7
  <2>2. heir[c] \in Hostings \ E /\ hostings[heir[c]].cid = c
    BY <1>1, <2>1 DEF Queue, Rows
  <2>3. hostings'[heir[c]].cid = c /\ hostings'[heir[c]].at = "hosted"
    <3> HIDE DEF handed
    <3> QED BY <1>1, <1>4, <2>1, <2>2
  <2> QED BY <2>2, <2>3 DEF Answered, Answering, Funded, Rows
<1>8. CASE LosesFunder(E, c) /\ Queue(E, c) = {}
  <2>1. c \in bare
    BY <1>8
  <2>2. errands'[<<c, w>>] = errands[<<c, w>>] + 1
    <3> HIDE DEF bare
    <3> QED BY <1>2, <2>1
  <2>3. errands[<<c, w>>] \in Nat
    BY DEF TypeOK
  <2>4. errands'[<<c, w>>] > 0
    BY <2>2, <2>3
  <2> QED BY <2>4 DEF Answered, OwesUnpin
<1>9. CASE Funded(c) /\ ~LosesFunder(E, c)
  <2>1. PICK h \in Rows(c, "hosted") : h \notin E
    BY <1>9 DEF LosesFunder
  <2> QED BY <1>6, <2>1 DEF Rows, Answering
<1>10. CASE Rows(c, "added") # {} \/ Rows(c, "threw") # {}
  <2>1. PICK h \in Hostings : hostings[h].cid = c /\ hostings[h].at \in {"added", "threw"}
    BY <1>10 DEF Rows
  <2>2. h \notin E
    BY <2>1
  <2> QED BY <1>6, <2>1, <2>2 DEF Answering
<1> QED BY <1>5, <1>7, <1>8, <1>9, <1>10 DEF Answered, LosesFunder

LEMMA AllAnsweredStep == TypeOK /\ AllAnswered /\ [Next]_vars => AllAnswered'
<1> SUFFICES ASSUME TypeOK, AllAnswered, [Next]_vars PROVE AllAnswered'
  OBVIOUS
<1>a. TypeOK'
  BY TypeStep
<1>b. pinned \subseteq Cids /\ pinned' \subseteq Cids /\ faults \in Nat
  BY <1>a DEF TypeOK
<1>c. ASSUME UNCHANGED <<errands, faults>>, pinned' \subseteq pinned,
             \A h \in Hostings :
                hostings[h].at \in Answering =>
                   /\ hostings'[h].at \in Answering
                   /\ hostings'[h].cid = hostings[h].cid
      PROVE  AllAnswered'
  <2>1. ASSUME NEW c \in pinned', Answered(c) PROVE Answered(c)'
    <3>1. CASE OwesUnpin(c)
      BY <1>c, <3>1 DEF Answered, OwesUnpin
    <3>2. ASSUME NEW h \in Hostings, hostings[h].cid = c,
                 hostings[h].at \in Answering
          PROVE  Answered(c)'
      BY <1>c, <3>2 DEF Answered, Answering, Funded, Rows
    <3> QED BY <2>1, <3>1, <3>2, AnsweredBy
  <2> QED BY <1>c, <2>1, StillAnswered
<1>1. CASE UNCHANGED <<hostings, errands, pinned, faults>>
  BY <1>1, <1>c
<1>2. ASSUME NEW h \in Hostings, NEW c \in Cids, StartUpload(h, c) \/ OwnCopy(h, c) \/ Pledge(h, c)
      PROVE  AllAnswered'
  <2>1. /\ UNCHANGED <<errands, pinned, faults>>
        /\ hostings[h].at = "idle" /\ \E s \in Stages : Begin(h, c, s)
    BY <1>2 DEF StartUpload, OwnCopy, Pledge, Stages
  <2>2. \A g \in Hostings : g # h => hostings'[g] = hostings[g]
    BY <2>1, BeginRows
  <2> QED BY <1>c, <2>1, <2>2 DEF Answering
<1>3. ASSUME NEW h \in Hostings, KuboAdds(h) PROVE AllAnswered'
  <2>1. PICK c : c = hostings[h].cid
    OBVIOUS
  <2>2. /\ Advance(h, "added") /\ hostings[h].at = "adding"
        /\ pinned' = pinned \cup {c} /\ UNCHANGED <<errands, faults>>
    BY <1>3, <2>1 DEF KuboAdds
  <2>3. /\ hostings'[h].cid = c /\ hostings'[h].at = "added"
        /\ \A g \in Hostings \ {h} : hostings'[g] = hostings[g]
    BY <2>1, <2>2, AdvanceRows
  <2>4. ASSUME NEW d \in pinned', faults = 0 PROVE Answered(d)'
    <3>1. CASE d = c
      BY <2>3, <3>1 DEF Answered, Rows
    <3>2. CASE d # c
      <4>1. Answered(d)
        BY <2>2, <2>4, <3>2 DEF AllAnswered
      <4>2. CASE OwesUnpin(d)
        BY <2>2, <4>2 DEF Answered, OwesUnpin
      <4>3. ASSUME NEW g \in Hostings, hostings[g].cid = d,
                   hostings[g].at \in Answering
            PROVE  Answered(d)'
        BY <2>1, <2>3, <3>2, <4>3 DEF Answered, Answering, Funded, Rows
      <4> QED BY <4>1, <4>2, <4>3, AnsweredBy
    <3> QED BY <3>1, <3>2
  <2> QED BY <2>2, <2>4 DEF AllAnswered
<1>4. ASSUME NEW h \in Hostings, Commit(h) \/ CommitThrows(h) PROVE AllAnswered'
  <2>1. PICK s \in {"hosted", "threw"} :
           Advance(h, s) /\ UNCHANGED <<errands, pinned, faults>>
    BY <1>4 DEF Commit, CommitThrows
  <2>2. /\ hostings'[h].cid = hostings[h].cid /\ hostings'[h].at = s
        /\ \A g \in Hostings \ {h} : hostings'[g] = hostings[g]
    BY <2>1, AdvanceRows
  <2> QED BY <1>c, <2>1, <2>2 DEF Answering
<1>5. ASSUME NEW h \in Hostings, RefuseBlocked(h) PROVE AllAnswered'
  <2>1. PICK c \in Cids : c = hostings[h].cid
    BY <1>5, HostingType DEF RefuseBlocked, TypeOK, Stages
  <2>2. /\ Advance(h, "failed") /\ UNCHANGED <<pinned, faults>>
        /\ errands' = [errands EXCEPT ![<<c, "refusal">>] = @ + 1]
    BY <1>5, <2>1 DEF RefuseBlocked
  <2>3. \A g \in Hostings \ {h} : hostings'[g] = hostings[g]
    BY <2>2, AdvanceRows
  <2>4. \A d \in Cids, w \in Handler :
           /\ errands'[<<d, w>>] >= errands[<<d, w>>]
           /\ <<d, w>> = <<c, "refusal">> => errands'[<<d, w>>] > 0
    BY <2>2 DEF TypeOK
  <2>5. ASSUME NEW d \in pinned', Answered(d) PROVE Answered(d)'
    <3>1. d \in Cids
      BY <1>b
    <3>2. CASE d = c
      BY <2>4, <3>2 DEF Answered, OwesUnpin, Handler
    <3>3. CASE OwesUnpin(d)
      BY <1>a, <2>4, <3>1, <3>3, ErrandsKept DEF Answered
    <3>4. ASSUME d # c, NEW g \in Hostings, hostings[g].cid = d,
                 hostings[g].at \in Answering
          PROVE  Answered(d)'
      BY <2>1, <2>3, <3>4 DEF Answered, Answering, Funded, Rows
    <3> QED BY <2>5, <3>2, <3>3, <3>4, AnsweredBy
  <2> QED BY <2>2, <2>5, StillAnswered
<1>6. ASSUME NEW E \in SUBSET Hostings, NEW w \in Handler, EndRows(E, w),
             \A h \in E : hostings[h].at \in {"hosted", "queued"},
             UNCHANGED <<pinned, faults>>
      PROVE  AllAnswered'
  <2>1. \A c \in pinned' : Answered(c) => Answered(c)'
    BY <1>6, <1>a, <1>b, EndRowsAnswers
  <2> QED BY <1>6, <2>1, StillAnswered
<1>7. ASSUME NEW h \in Hostings, End(h) PROVE AllAnswered'
  <2>1. /\ EndRows({h}, "request") /\ UNCHANGED <<pinned, faults>>
        /\ \A g \in {h} : hostings[g].at \in {"hosted", "queued"}
        /\ {h} \in SUBSET Hostings /\ "request" \in Handler
    BY <1>7 DEF End, Handler
  <2> QED BY <1>6, <2>1
<1>8. ASSUME NEW E \in SUBSET Hostings, Ban(E) \/ Sweep(E) PROVE AllAnswered'
  BY <1>6, <1>8 DEF Ban, Sweep, Handler
<1>9. ASSUME NEW c \in Cids, Takedown(c) PROVE AllAnswered'
  <2>1. /\ VoidCid(c) /\ UNCHANGED <<pinned, faults>>
        /\ errands' = [errands EXCEPT ![<<c, "request">>] = @ + 1]
    BY <1>9 DEF Takedown
  <2>2. \A d \in Cids, w \in Handler :
           /\ errands'[<<d, w>>] >= errands[<<d, w>>]
           /\ <<d, w>> = <<c, "request">> => errands'[<<d, w>>] > 0
    BY <2>1 DEF TypeOK
  <2>3. \A h \in Hostings : hostings[h].cid # c => hostings'[h] = hostings[h]
    BY <2>1 DEF VoidCid, Rows
  <2>4. ASSUME NEW d \in pinned', Answered(d) PROVE Answered(d)'
    <3>1. d \in Cids
      BY <1>b
    <3>2. CASE d = c
      BY <2>2, <3>2 DEF Answered, OwesUnpin, Handler
    <3>3. CASE OwesUnpin(d)
      BY <1>a, <2>2, <3>1, <3>3, ErrandsKept DEF Answered
    <3>4. ASSUME d # c, NEW g \in Hostings, hostings[g].cid = d,
                 hostings[g].at \in Answering
          PROVE  Answered(d)'
      BY <2>3, <3>4 DEF Answered, Answering, Funded, Rows
    <3> QED BY <2>4, <3>2, <3>3, <3>4, AnsweredBy
  <2> QED BY <2>1, <2>4, StillAnswered
<1>10. ASSUME NEW c \in Cids, NEW w \in Handler, UnpinDone(c, w) PROVE AllAnswered'
  <2>1. /\ Called(c, w) /\ pinned' = pinned \ {c} /\ UNCHANGED <<hostings, faults>>
    BY <1>10 DEF UnpinDone
  <2>2. ASSUME NEW d \in pinned', Answered(d) PROVE Answered(d)'
    <3>1. d \in Cids /\ d # c
      BY <1>b, <2>1
    <3>2. \A v \in Handler : errands'[<<d, v>>] = errands[<<d, v>>]
      BY <2>1, <3>1 DEF Called, TypeOK
    <3> QED BY <2>1, <2>2, <3>2 DEF Answered, Funded, Rows, OwesUnpin
  <2>3. pinned' \subseteq pinned /\ faults' = faults
    BY <2>1
  <2> QED BY <2>2, <2>3, StillAnswered
<1>11. ASSUME faults' = faults + 1 PROVE AllAnswered'
  BY <1>11, <1>b DEF AllAnswered
<1> QED BY <1>1, <1>2, <1>3, <1>4, <1>5, <1>7, <1>8, <1>9, <1>10, <1>11
        DEF Next, Step, AddFails, ImportTakedown, Untakedown, UnpinFails, Gc, GcFails, Crash, vars

\* Without a fault, and unless an upload of the CID threw after its add, no pin is
\* lost sight of: from the add to the unpin, through every hand-over, refusal, ban,
\* sweep and takedown, somebody funds it, is about to, or owes the call that ends it
\* (server.js:834, 848-864, 1258-1285, sweeper.js:31-40).
\* UnfundedIsUnpinned adds that the call is made.
THEOREM NoPinIsLostSightOf == Spec => []PinsAreAccountedFor
<1>1. Init => AllAnswered
  BY DEF Init, AllAnswered
<1>2. TypeOK /\ AllAnswered => PinsAreAccountedFor
  <2> SUFFICES ASSUME TypeOK, AllAnswered, NEW c \in pinned
               PROVE  Funded(c) \/ Rows(c, "added") # {} \/ OwesUnpin(c) \/ Leaked(c)
    BY DEF PinsAreAccountedFor
  <2>1. faults = 0 \/ faults > 0
    BY DEF TypeOK
  <2> QED BY <2>1 DEF AllAnswered, Answered, Leaked
<1> QED BY <1>1, <1>2, AllAnsweredStep, TypeCorrect, PTL DEF Spec
=============================================================================
