----------------------------- MODULE TableLease -----------------------------
(***************************************************************************)
(* Manager.LeaseTable and Manager.ReturnTable of storage/table/manager.go  *)
(* on several nodes, against one meta-store key /tables/<name>/lease that *)
(* holds {ID, Until} under a per-key version.  Each call is a Get followed *)
(* by a versioned Set or Delete; the decision between them reads the      *)
(* node's wall clock (time.Now()).  Real time is `now`; node n's clock     *)
(* reads now + offset[n], an offset fixed per behaviour and at most Skew.  *)
(***************************************************************************)
EXTENDS Naturals

CONSTANTS
    Nodes,        \* the replicas (m.cfg.NodeID)
    Duration,     \* the lease argument of LeaseTable, in clock ticks
    MaxTime,      \* bound on real time
    MaxCalls,     \* bound on LeaseTable/ReturnTable calls
    Skew,         \* bound on how far a node's clock runs ahead
    NoNode        \* the ID field of an absent lease

VARIABLES
    lease,        \* the key: [present, id, until, ver]
    now,          \* real time
    offset,       \* offset[n]: how far node n's clock runs ahead
    pc,           \* pc[n]: node n's call in progress
    got,          \* got[n]: the pair n's Get returned (ver 0 when absent)
    until,        \* until[n]: the Until n is about to write
    calls,        \* calls begun
    mine          \* history: mine[n] = the Until of the lease n last
                  \* acquired and has not returned (0 if none)

vars == <<lease, now, offset, pc, got, until, calls, mine>>

NoLease == [present |-> FALSE, id |-> NoNode, until |-> 0, ver |-> 0]

\* time.Now() on node n.
Clock(n) == now + offset[n]

-----------------------------------------------------------------------------

\* A caller begins LeaseTable(name, Duration) or ReturnTable(name).
Begin(n) ==
    /\ pc[n] = "idle"
    /\ calls < MaxCalls
    /\ \E op \in {"l_get", "r_get"} : pc' = [pc EXCEPT ![n] = op]
    /\ calls' = calls + 1
    /\ UNCHANGED <<lease, now, offset, got, until, mine>>

\* LeaseTable: store.Get(key); ErrNotExist means unclaimed, and leaves
\* the zero Pair (version 0).
LeaseGet(n) ==
    /\ pc[n] = "l_get"
    /\ got' = [got EXCEPT ![n] = IF lease.present THEN lease ELSE NoLease]
    /\ pc' = [pc EXCEPT ![n] = "l_decide"]
    /\ UNCHANGED <<lease, now, offset, until, calls, mine>>

\* Bug variant of the acquirability test: the expiry is not checked.
AcquirableNoExpiry(n, l) == TRUE

\* LeaseTable: unclaimed || l.ID == NodeID || l.Until.Before(time.Now()).
Acquirable(n, l) == ~l.present \/ l.id = n \/ l.until < Clock(n)

\* LeaseTable: the test on the lease read; if it passes, Until is set to
\* time.Now().Add(lease), else ErrLeaseNotAcquired.
LeaseDecide(n) ==
    /\ pc[n] = "l_decide"
    /\ IF Acquirable(n, got[n])
       THEN /\ until' = [until EXCEPT ![n] = Clock(n) + Duration]
            /\ pc' = [pc EXCEPT ![n] = "l_set"]
       ELSE /\ pc' = [pc EXCEPT ![n] = "idle"]
            /\ UNCHANGED until
    /\ UNCHANGED <<lease, now, offset, got, calls, mine>>

\* Bug variant of the meta store's Set: the version is not compared.
SetBlind(l, ver) == TRUE

\* store.Set(key, value, get.Ver): version 0 creates an absent key, any
\* other version must match; a mismatch is returned as an error.
SetOK(l, ver) == IF ver = 0 THEN ~l.present ELSE l.present /\ l.ver = ver

\* LeaseTable: store.Set of {NodeID, Until} under the version read.
LeaseSet(n) ==
    /\ pc[n] = "l_set"
    /\ IF SetOK(lease, got[n].ver)
       THEN /\ lease' = [present |-> TRUE, id |-> n, until |-> until[n], ver |-> lease.ver + 1]
            /\ mine' = [mine EXCEPT ![n] = until[n]]
       ELSE UNCHANGED <<lease, mine>>
    /\ pc' = [pc EXCEPT ![n] = "idle"]
    /\ UNCHANGED <<now, offset, got, until, calls>>

\* ReturnTable: store.Get(key); on ErrNotExist it returns false; a lease
\* of another node is left alone.
ReturnGet(n) ==
    /\ pc[n] = "r_get"
    /\ got' = [got EXCEPT ![n] = IF lease.present THEN lease ELSE NoLease]
    /\ pc' = [pc EXCEPT ![n] = IF lease.present /\ lease.id = n THEN "r_del" ELSE "idle"]
    /\ UNCHANGED <<lease, now, offset, until, calls, mine>>

\* ReturnTable: store.Delete(key, get.Ver); true when it succeeds.
ReturnDel(n) ==
    /\ pc[n] = "r_del"
    /\ IF lease.present /\ lease.ver = got[n].ver
       THEN /\ lease' = [NoLease EXCEPT !.ver = lease.ver + 1]
            /\ mine' = [mine EXCEPT ![n] = 0]
       ELSE UNCHANGED <<lease, mine>>
    /\ pc' = [pc EXCEPT ![n] = "idle"]
    /\ UNCHANGED <<now, offset, got, until, calls>>

\* Real time advances by one tick.
Tick ==
    /\ now < MaxTime
    /\ now' = now + 1
    /\ UNCHANGED <<lease, offset, pc, got, until, calls, mine>>

Init ==
    /\ lease = NoLease
    /\ now = 0
    /\ offset \in [Nodes -> 0 .. Skew]
    /\ pc = [n \in Nodes |-> "idle"]
    /\ got = [n \in Nodes |-> NoLease]
    /\ until = [n \in Nodes |-> 0]
    /\ calls = 0
    /\ mine = [n \in Nodes |-> 0]

Next ==
    \/ Tick
    \/ \E n \in Nodes :
          \/ Begin(n) \/ LeaseGet(n) \/ LeaseDecide(n) \/ LeaseSet(n)
          \/ ReturnGet(n) \/ ReturnDel(n)

Spec == Init /\ [][Next]_vars

-----------------------------------------------------------------------------

\* Node n still holds a lease it acquired: it has not returned it and its
\* own clock has not reached the Until it wrote.
Holds(n) == Clock(n) < mine[n]

\* LeaseTable's contract (a lease is acquirable only when unclaimed,
\* self-held or expired) seen from the holders: no two nodes hold the
\* lease at the same time, through concurrent acquisitions, renewals,
\* returns and expiry.
LeaseExclusive ==
    \A a, b \in Nodes : a # b => ~(Holds(a) /\ Holds(b))

\* The meta-store key seen as the lease of LeaseContract: its holder and
\* Until.  A deleted key has no holder.
Contract == INSTANCE LeaseContract WITH
    owner <- IF lease.present THEN lease.id ELSE NoNode,
    expiry <- IF lease.present THEN lease.until ELSE 0

\* Every change the calls make to the lease key is one step of the spec's
\* contract: the key is taken over only when it is unclaimed, self-held or
\* expired by real time at the moment the Set lands (although the expiry
\* was read earlier, and the Until computed before the Set), with an Until
\* at most Duration ahead; or it is removed.  The mapping does not see
\* which node calls, so who may remove it is checked by LeaseExclusive.
ImplementsLeaseContract == Contract!Spec

====
