----------------------------- MODULE HostingQueue -----------------------------
(***************************************************************************)
(* What ipfs-gate promises about one CID, with no rows, pins or timers: a   *)
(* set of hosts, and behind them a line of guardians.  When the last host  *)
(* goes, the first guardian still in line becomes the host in the same     *)
(* step (ipfs-gate-cohosting-backstop.md, section 5).                       *)
(*                                                                         *)
(* The order of a line is kept as a relation, who is ahead of whom, and not *)
(* as a sequence: nobody has a number that another's leaving would change. *)
(***************************************************************************)
CONSTANTS
    Cids,
    Ids,
    LatePledges    \* may one join the line of a file that nobody hosts?

VARIABLES
    hosts,   \* per CID, the claims that keep it alive now
    line,    \* per CID, the guardians that wait
    ahead,   \* per CID, the pairs of guardians of which the first is served first
    ended    \* the claims that are over

vars == <<hosts, line, ahead, ended>>

Present(k) == \E c \in Cids : k \in hosts[c] \/ k \in line[c]

New(k) == ~Present(k) /\ k \notin ended

Init ==
    /\ hosts = [c \in Cids |-> {}]
    /\ line = [c \in Cids |-> {}]
    /\ ahead = [c \in Cids |-> {}]
    /\ ended = {}

Join(k, c) ==
    /\ New(k)
    /\ hosts' = [hosts EXCEPT ![c] = @ \cup {k}]
    /\ UNCHANGED <<line, ahead, ended>>

\* Everybody in line is ahead of whoever comes now.
Guard(k, c) ==
    /\ New(k)
    /\ hosts[c] # {} \/ LatePledges
    /\ line' = [line EXCEPT ![c] = @ \cup {k}]
    /\ ahead' = [ahead EXCEPT ![c] = @ \cup (line[c] \X {k})]
    /\ UNCHANGED <<hosts, ended>>

Stay(c, gone) == hosts[c] \ gone
Rest(c, gone) == line[c] \ gone

\* Whoever nobody left in line is ahead of.
First(c, gone) ==
    {k \in Rest(c, gone) : \A j \in Rest(c, gone) : <<j, k>> \notin ahead[c]}

\* The baton is handed on when the last host goes, and only then.
Baton(c, gone) ==
    IF hosts[c] # {} /\ Stay(c, gone) = {} THEN First(c, gone) ELSE {}

\* Any claims may end together: a cancel ends one, a sweep, a ban or a takedown
\* many.
Leave(gone) ==
    /\ gone # {} /\ \A k \in gone : Present(k)
    /\ ended' = ended \cup gone
    /\ hosts' = [c \in Cids |-> Stay(c, gone) \cup Baton(c, gone)]
    /\ line' = [c \in Cids |-> Rest(c, gone) \ Baton(c, gone)]
    /\ ahead' = [c \in Cids |-> {p \in ahead[c] : p[1] \in line'[c] /\ p[2] \in line'[c]}]

Next ==
    \/ \E k \in Ids, c \in Cids : Join(k, c) \/ Guard(k, c)
    \/ \E gone \in SUBSET Ids : Leave(gone)

Spec == Init /\ [][Next]_vars
=============================================================================
