---------------------------- MODULE LeaseContract ----------------------------
(***************************************************************************)
(* What lease_table and return_table promise, with each call one atomic    *)
(* step on the lease of one table: a node acquires the lease iff it is    *)
(* unclaimed, held by that node or expired, and then holds it until at     *)
(* most Duration from now; the holder may remove it.                      *)
(***************************************************************************)
EXTENDS Naturals

CONSTANTS Nodes, Duration, MaxTime, NoNode

VARIABLES
    owner,        \* the holder recorded for the lease, or NoNode
    expiry,       \* the time until which it is recorded as held
    now           \* real time

vars == <<owner, expiry, now>>

Acquire(n) ==
    /\ owner = NoNode \/ owner = n \/ expiry < now
    /\ owner' = n
    /\ expiry' \in 0 .. now + Duration
    /\ UNCHANGED now

Release(n) ==
    /\ owner = n
    /\ owner' = NoNode
    /\ expiry' = 0
    /\ UNCHANGED now

Tick ==
    /\ now < MaxTime
    /\ now' = now + 1
    /\ UNCHANGED <<owner, expiry>>

Init ==
    /\ owner = NoNode
    /\ expiry = 0
    /\ now = 0

Next == Tick \/ \E n \in Nodes : Acquire(n) \/ Release(n)

Spec == Init /\ [][Next]_vars

====
