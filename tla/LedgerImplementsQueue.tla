------------------------ MODULE LedgerImplementsQueue ------------------------
(***************************************************************************)
(* The rows of the hosting ledger, read as hosts and lines.                *)
(***************************************************************************)
EXTENDS HostingLedger

HostsOf(c) == {k \in Ids : claims[k].state = "active" /\ claims[k].cid = c}

\* getDormantGuardiansForCid: the dormant guardians, by pledge_order.
LineOf(c) == {k \in Ids : IsDormant(claims, k, c)}
AheadOf(c) ==
    {p \in LineOf(c) \X LineOf(c) : claims[p[1]].slot < claims[p[2]].slot}

Over == {k \in Ids : claims[k].state \in {"cancelled", "expired"}}

Queue == INSTANCE HostingQueue WITH
    LatePledges <- StaleChecks,
    hosts <- [c \in Cids |-> HostsOf(c)],
    line <- [c \in Cids |-> LineOf(c)],
    ahead <- [c \in Cids |-> AheadOf(c)],
    ended <- Over

\* The ledger implements the hosting queue: pledge_order, claim state and the
\* pin rows together behave as one FIFO per CID behind a set of hosts
\* (quota.js:461-511, 591-596, 701-879; moderation.js:44-183).  A request that is
\* overtaken between check and commit can do one thing that it should not: join
\* the line of a file that nobody hosts any more.
ImplementsQueue == Queue!Spec
=============================================================================
