------------------------------- MODULE KuboPins -------------------------------
(***************************************************************************)
(* The ledger says which CIDs are funded; Kubo holds the bytes.  Nothing   *)
(* but the order of calls keeps the two together: /upload adds to Kubo and *)
(* then writes its pin row, everything that ends the last row of a CID     *)
(* decides in the transaction that the CID is to be unpinned, awaits the   *)
(* refund, and then calls kubo.unpin and kubo.gc without looking again.    *)
(*                                                                         *)
(* A hosting is one funding row of one CID (a claim with its pin), named   *)
(* after the request that began it.  Which rows end, and for what money,   *)
(* is HostingLedger's; here any row may.  A file may be empty, or a        *)
(* statement fail, so any upload may throw after its add.                  *)
(***************************************************************************)
EXTENDS Naturals, FiniteSets

CONSTANTS
    Cids,
    Hostings,    \* names of funding rows
    Nil,
    MaxFaults,   \* bound: what may leave a pin behind (failed Kubo calls, crashes,
                 \*   imported takedowns, deletes cut short)
    MaxErrands   \* bound: handlers that owe the same unpin after a takedown

ASSUME KuboAssumption ==
    /\ IsFiniteSet(Hostings)
    /\ {MaxFaults, MaxErrands} \subseteq Nat
    /\ Nil \notin Cids

VARIABLES
    hostings,  \* the funding rows, and the uploads on their way to one
    errands,   \* per CID and kind of handler, the unpins still to be called
    gcDue,     \* kinds of handler between their unpins and their kubo.gc
    registry,  \* per CID, its row of blocked_cids
    pinned,    \* Kubo: CIDs with a recursive pin
    stored,    \* Kubo: CIDs whose blocks are there
    faults,
    raced      \* CIDs whose owed unpin met an upload (history, see NoteRaces)

vars == <<hostings, errands, gcDue, registry, pinned, stored, faults, raced>>

\* Who calls kubo.unpin: a request that ended rows, the sweeper, or an upload
\* that found its CID blocked.
Handler == {"request", "sweeper", "refusal"}

Hosting == [at: {"idle"}, cid: {Nil}]
    \cup [at: {"adding", "added", "threw", "failed", "queued", "hosted", "ended"},
        cid: Cids]

TypeOK ==
    /\ hostings \in [Hostings -> Hosting]
    /\ errands \in [Cids \X Handler -> Nat]
    /\ gcDue \subseteq {"request", "sweeper"}
    /\ registry \in [Cids -> {"none", "blocked", "unblocked"}]
    /\ pinned \subseteq stored
    /\ stored \subseteq Cids
    /\ faults \in 0 .. MaxFaults
    /\ raced \subseteq Cids

-----------------------------------------------------------------------------

Rows(c, stage) == {h \in Hostings : hostings[h].cid = c /\ hostings[h].at = stage}

\* hasActivePinForCid
Funded(c) == Rows(c, "hosted") # {}

\* isCidBlocked
Blocked(c) == registry[c] = "blocked"

Uploading(c) == Rows(c, "adding") \cup Rows(c, "added") # {}
OwesUnpin(c) == \E w \in Handler : errands[<<c, w>>] > 0

Begin(h, c, stage) == hostings' = [hostings EXCEPT ![h] = [at |-> stage, cid |-> c]]
Advance(h, stage)  == hostings' = [hostings EXCEPT ![h].at = stage]

LosesFunder_SingleRow(E, c) ==
    Cardinality(Rows(c, "hosted")) = 1 /\ Rows(c, "hosted") \subseteq E
LosesFunder_AnyRow(E, c) == Rows(c, "hosted") \cap E # {}

\* Ending the rows E leaves c without an active pin.
LosesFunder(E, c) == Funded(c) /\ Rows(c, "hosted") \subseteq E

Queue(E, c) == Rows(c, "queued") \ E

\* The transaction that ends the rows E.  For each CID that loses its last
\* funder reconcileCidAfterEnd promotes a queued guardian (HostingLedger says
\* which) or, if there is none, tells the caller w to unpin.
EndRows(E, w) ==
    LET handed == {c \in Cids : LosesFunder(E, c) /\ Queue(E, c) # {}}
        bare   == {c \in Cids : LosesFunder(E, c) /\ Queue(E, c) = {}}
    IN /\ \E heir \in [handed -> Hostings] :
             /\ \A c \in handed : heir[c] \in Queue(E, c)
             /\ hostings' = [h \in Hostings |->
                   IF h \in E THEN [hostings[h] EXCEPT !.at = "ended"]
                   ELSE IF \E c \in handed : heir[c] = h
                        THEN [hostings[h] EXCEPT !.at = "hosted"]
                        ELSE hostings[h]]
       /\ errands' = [e \in Cids \X Handler |->
             IF e[1] \in bare /\ e[2] = w THEN errands[e] + 1 ELSE errands[e]]

-----------------------------------------------------------------------------
(* POST /upload, /claims/own-copy, /guardian/pledge *)

\* kubo.pinFile is called.
StartUpload(h, c) ==
    /\ hostings[h].at = "idle"
    /\ Begin(h, c, "adding")
    /\ UNCHANGED <<errands, gcDue, registry, pinned, stored, faults>>

\* Kubo stores the bytes and pins them.
KuboAdds(h) ==
    /\ hostings[h].at = "adding"
    /\ Advance(h, "added")
    /\ pinned' = pinned \cup {hostings[h].cid}
    /\ stored' = stored \cup {hostings[h].cid}
    /\ UNCHANGED <<errands, gcDue, registry, faults>>

\* The add fails or times out; Kubo may have finished it all the same.
AddFails(h) ==
    /\ faults < MaxFaults
    /\ hostings[h].at = "adding"
    /\ Advance(h, "failed")
    /\ \E done \in SUBSET {hostings[h].cid} :
          /\ pinned' = pinned \cup done
          /\ stored' = stored \cup done
    /\ faults' = faults + 1
    /\ UNCHANGED <<errands, gcDue, registry>>

\* The answer arrives: the pin row and its claim are written.
Commit(h) ==
    /\ hostings[h].at = "added"
    /\ ~Blocked(hostings[h].cid)
    /\ Advance(h, "hosted")
    /\ UNCHANGED <<errands, gcDue, registry, pinned, stored, faults>>

\* Between the block check and createPin, billableMB refuses a file of no bytes, or
\* a statement fails.  The handler's catch answers; nobody unpins.
CommitThrows(h) ==
    /\ hostings[h].at = "added"
    /\ ~Blocked(hostings[h].cid)
    /\ Advance(h, "threw")
    /\ UNCHANGED <<errands, gcDue, registry, pinned, stored, faults>>

\* The CID is on the block list: unpin it at once, no gc.
RefuseBlocked(h) ==
    /\ hostings[h].at = "added"
    /\ Blocked(hostings[h].cid)
    /\ Advance(h, "failed")
    /\ errands' = [errands EXCEPT ![<<hostings[h].cid, "refusal">>] = @ + 1]
    /\ UNCHANGED <<gcDue, registry, pinned, stored, faults>>

\* An own copy is a row on bytes that are there: createOwnCopyClaim looks again.
OwnCopy(h, c) ==
    /\ hostings[h].at = "idle"
    /\ Funded(c)
    /\ Begin(h, c, "hosted")
    /\ UNCHANGED <<errands, gcDue, registry, pinned, stored, faults>>

\* A pledge waits for its turn.  The handler looked for a funder before it
\* awaited the payment; there was one, and it may be gone.
Pledge(h, c) ==
    /\ hostings[h].at = "idle"
    /\ Rows(c, "hosted") \cup Rows(c, "ended") # {}
    /\ Begin(h, c, "queued")
    /\ UNCHANGED <<errands, gcDue, registry, pinned, stored, faults>>

-----------------------------------------------------------------------------
(* Everything that ends rows *)

\* Cancel, release, delete: one row, hosted or queued.
End(h) ==
    /\ hostings[h].at \in {"hosted", "queued"}
    /\ EndRows({h}, "request")
    /\ UNCHANGED <<gcDue, registry, pinned, stored, faults>>

\* A ban ends every row of an account, on whatever CIDs.
Ban(E) ==
    /\ E # {}
    /\ \A h \in E : hostings[h].at \in {"hosted", "queued"}
    /\ EndRows(E, "request")
    /\ UNCHANGED <<gcDue, registry, pinned, stored, faults>>

SweeperIdle ==
    "sweeper" \notin gcDue /\ \A c \in Cids : errands[<<c, "sweeper">>] = 0

\* sweeper.runOnce skips while the previous run still awaits Kubo.
Sweep(E) ==
    /\ E # {}
    /\ \A h \in E : hostings[h].at = "hosted"
    /\ SweeperIdle
    /\ EndRows(E, "sweeper")
    /\ UNCHANGED <<gcDue, registry, pinned, stored, faults>>

\* takedownCid and importTakedowns end the rows and the queue alike.
VoidCid(c) ==
    /\ registry' = [registry EXCEPT ![c] = "blocked"]
    /\ hostings' = [h \in Hostings |->
                      IF h \in Rows(c, "hosted") \cup Rows(c, "queued")
                      THEN [hostings[h] EXCEPT !.at = "ended"] ELSE hostings[h]]

\* A takedown always unpins, whether or not the node hosts the CID.
Takedown(c) ==
    /\ errands[<<c, "request">>] < MaxErrands
    /\ VoidCid(c)
    /\ errands' = [errands EXCEPT ![<<c, "request">>] = @ + 1]
    /\ UNCHANGED <<gcDue, pinned, stored, faults>>

\* An import skips a CID that has a row already, and never calls Kubo.
ImportTakedown(c) ==
    /\ faults < MaxFaults
    /\ registry[c] = "none"
    /\ VoidCid(c)
    /\ faults' = faults + 1
    /\ UNCHANGED <<errands, gcDue, pinned, stored>>

Untakedown(c) ==
    /\ Blocked(c)
    /\ registry' = [registry EXCEPT ![c] = "unblocked"]
    /\ UNCHANGED <<hostings, errands, gcDue, pinned, stored, faults>>

-----------------------------------------------------------------------------
(* The calls to Kubo *)

Owes(c, w)  == errands[<<c, w>>] > 0
Called(c, w) == errands' = [errands EXCEPT ![<<c, w>>] = @ - 1]

\* kubo.unpin succeeds; a refused upload stops there, everybody else goes on
\* to kubo.gc.
UnpinDone(c, w) ==
    /\ Owes(c, w)
    /\ Called(c, w)
    /\ pinned' = pinned \ {c}
    /\ gcDue' = gcDue \cup ({w} \ {"refusal"})
    /\ UNCHANGED <<hostings, registry, stored, faults>>

\* It fails or times out, and the handler logs that and forgets it.  Or it is never
\* called: /uploads/delete ends an account's claims one by one with awaits between,
\* and throws at one that somebody else has ended meanwhile.
UnpinFails(c, w) ==
    /\ faults < MaxFaults
    /\ Owes(c, w)
    /\ Called(c, w)
    /\ pinned' \in {pinned, pinned \ {c}}
    /\ faults' = faults + 1
    /\ UNCHANGED <<hostings, gcDue, registry, stored>>

\* kubo.gc: what is not pinned goes.  The sweeper calls it after its last unpin.
Gc(w) ==
    /\ w \in gcDue
    /\ w = "sweeper" => \A c \in Cids : ~Owes(c, w)
    /\ gcDue' = gcDue \ {w}
    /\ stored' = pinned
    /\ UNCHANGED <<hostings, errands, registry, pinned, faults>>

GcFails(w) ==
    /\ faults < MaxFaults
    /\ w \in gcDue
    /\ gcDue' = gcDue \ {w}
    /\ faults' = faults + 1
    /\ UNCHANGED <<hostings, errands, registry, pinned, stored>>

\* The node dies: uploads and errands were only in its memory.  Kubo may still
\* finish an add it was sent.
Crash ==
    /\ faults < MaxFaults
    /\ faults' = faults + 1
    /\ \E done \in SUBSET {c \in Cids : Rows(c, "adding") # {}} :
          /\ pinned' = pinned \cup done
          /\ stored' = stored \cup done
    /\ hostings' = [h \in Hostings |->
                      IF hostings[h].at \in {"adding", "added"}
                      THEN [hostings[h] EXCEPT !.at = "failed"] ELSE hostings[h]]
    /\ errands' = [e \in Cids \X Handler |-> 0]
    /\ gcDue' = {}
    /\ UNCHANGED registry

-----------------------------------------------------------------------------

Init ==
    /\ hostings = [h \in Hostings |-> [at |-> "idle", cid |-> Nil]]
    /\ errands = [e \in Cids \X Handler |-> 0]
    /\ gcDue = {}
    /\ registry = [c \in Cids |-> "none"]
    /\ pinned = {}
    /\ stored = {}
    /\ faults = 0
    /\ raced = {}

Step ==
    \/ \E h \in Hostings, c \in Cids : StartUpload(h, c) \/ OwnCopy(h, c) \/ Pledge(h, c)
    \/ \E h \in Hostings :
          \/ KuboAdds(h) \/ AddFails(h)
          \/ Commit(h) \/ CommitThrows(h) \/ RefuseBlocked(h)
          \/ End(h)
    \/ \E E \in SUBSET Hostings : Ban(E) \/ Sweep(E)
    \/ \E c \in Cids : Takedown(c) \/ ImportTakedown(c) \/ Untakedown(c)
    \/ \E c \in Cids, w \in Handler : UnpinDone(c, w) \/ UnpinFails(c, w)
    \/ \E w \in Handler : Gc(w) \/ GcFails(w)
    \/ Crash

\* A CID is raced from the moment a handler owes its unpin while an upload of it
\* is under way, until the CID is idle: unfunded, not being uploaded, no unpin
\* owed.  The code keeps no such record.
NoteRaces ==
    raced' = {c \in Cids :
                \/ OwesUnpin(c)' /\ Uploading(c)'
                \/ c \in raced /\ (Funded(c)' \/ Uploading(c)' \/ OwesUnpin(c)')}

Next == Step /\ NoteRaces

Spec == Init /\ [][Next]_vars

\* Kubo answers, and a handler that got its answer goes on.
Fairness ==
    /\ \A h \in Hostings :
          /\ WF_vars(KuboAdds(h) /\ NoteRaces)
          /\ WF_vars((Commit(h) \/ CommitThrows(h) \/ RefuseBlocked(h)) /\ NoteRaces)
    /\ \A c \in Cids, w \in Handler : WF_vars(UnpinDone(c, w) /\ NoteRaces)
    /\ \A w \in Handler : WF_vars(Gc(w) /\ NoteRaces)

FairSpec == Spec /\ Fairness

-----------------------------------------------------------------------------
(* Properties *)

\* A funded file has its bytes: no unpin of an ended row, no gc, failed call or
\* restart takes them from a CID that somebody still pays for ("we never unpin
\* a CID that still has a funder", quota.js:697-698).
FundedIsStored == \A c \in Cids : Funded(c) => c \in pinned /\ c \in stored

\* The one way to lose them: an unpin that was owed while an upload of the same
\* bytes was under way (server.js:834, 1319-1325).  Short of that a funded file
\* keeps its bytes, whichever rows end, in whatever order the unpins, the gc,
\* failed calls and restarts come.
OnlyRacesLoseBytes ==
    \A c \in Cids \ raced : Funded(c) => c \in pinned /\ c \in stored

\* A pin the node has lost sight of: an upload of it threw after the add, or a call
\* failed, the node died, a delete was cut short or a takedown imported; and no
\* handler owes the unpin.  No later sweep finds it (the sweeper unpins the CIDs
\* whose rows end in that very run, sweeper.js:24-40, quota.js:855-869).
Leaked(c) == (faults > 0 \/ Rows(c, "threw") # {}) /\ ~OwesUnpin(c)

\* A file nobody pays for any more is unpinned or paid for again, whichever
\* handlers end its rows in whichever order and whatever is uploaded meanwhile;
\* only a fault, or an upload of it that threw, can leak its pin
\* (server.js:848-864, 1258-1285).
UnfundedIsUnpinned ==
    \A c \in Cids :
        c \in pinned /\ ~Funded(c) ~> c \notin pinned \/ Funded(c) \/ Leaked(c)

\* At any moment a pin has somebody to answer for it: a funder, an upload about to
\* become one, or a handler that owes its unpin; otherwise a fault or an
\* upload of it that threw has leaked it (server.js:834, 848-864, 1258-1285,
\* sweeper.js:31-40).
PinsAreAccountedFor ==
    \A c \in pinned :
        Funded(c) \/ Rows(c, "added") # {} \/ OwesUnpin(c) \/ Leaked(c)
=============================================================================
