----------------------------- MODULE FSMUpdate -----------------------------
(***************************************************************************)
(* The apply path of a table shard's on-disk state machine                 *)
(* (storage/table/fsm/update.go, command.go): FSM.Update takes a           *)
(* contiguous run of committed Raft entries, decodes each command, writes  *)
(* its effect into one pebble batch, and commits the batch together with   *)
(* sys.local_index (and sys.leader_index when the last command carries     *)
(* one).  Any error discards the batch; the Raft library then halts the    *)
(* replica, and on restart Open returns the persisted sys.local_index from *)
(* which the library applies again.                                        *)
(*                                                                         *)
(* The repository holds two revisions of the apply context: update.go     *)
(* (Init and a switch in Update) and command.go (Parse returning a command *)
(* object, TXN included, and EnsureIndexed upgrading the batch for the     *)
(* reads of a TXN).  The revision is fixed for a behaviour by rev, as the  *)
(* build compiles one of them; TXN entries exist only in command.go's.     *)
(*                                                                         *)
(* Update is modelled a step per entry, so that a crash can fall between   *)
(* any two of its steps.  A PUT writes the entry's Raft index as the value *)
(* so that every write is told apart.                                      *)
(***************************************************************************)
EXTENDS Naturals, Sequences, SequencesExt

CONSTANTS
    Keys,         \* user keys, a set of naturals in their byte order
    MaxLog,       \* bound on the Raft log length
    MaxCrashes,   \* bound on replica crashes
    LiFlags,      \* whether commands may carry / omit a leader index
    NoUpdate,     \* model value: no Update call in progress
    NoEnd,        \* model value: a DELETE without range end
    Wildcard      \* model value: the range end that means "to the end"

VARIABLES
    log,          \* the committed Raft log: log[i] is the command of entry i
    kv,           \* the committed user keyspace: kv[k] = 0 means absent
    localIndex,   \* the committed sys.local_index
    leaderIndex,  \* the committed sys.leader_index (0 = never written)
    up,           \* the replica runs
    applied,      \* the library's last applied index for this replica
    upd,          \* the Update call in progress, or NoUpdate
    crashes,      \* crashes so far
    rev           \* the revision of the apply context: "update.go" or "command.go"

vars == <<log, kv, localIndex, leaderIndex, up, applied, upd, crashes, rev>>

Revisions == {"update.go", "command.go"}

(***************************************************************************)
(* Commands.  A DELETE has no range end, a key as range end, or the        *)
(* wildcard; a batch command lists its keys.  A command with li carries    *)
(* the upstream leader index, which the model takes to be its own index.   *)
(***************************************************************************)
\* key.LatestMaxKey: the upper bound of the user keyspace.
LatestMaxKey == Max(Keys) + 1

Ops == {"PUT", "DELETE", "PUT_BATCH", "DELETE_BATCH", "DUMMY", "TXN"}
Command == [op : Ops, keys : Seq(Keys), end : Keys \cup {NoEnd, Wildcard}, li : BOOLEAN]

Commands ==
    LET one(op, k, e, li) == [op |-> op, keys |-> <<k>>, end |-> e, li |-> li]
        all == SetToSeq(Keys)
    IN  UNION {
          {one("PUT", k, NoEnd, li), one("DELETE", k, NoEnd, li),
           one("DELETE", k, Wildcard, li)} : k \in Keys, li \in LiFlags }
        \cup {one("DELETE", p[1], p[2], li) :
                 p \in {q \in Keys \X Keys : q[1] <= q[2]}, li \in LiFlags}
        \cup UNION {
          {[op |-> "PUT_BATCH", keys |-> all, end |-> NoEnd, li |-> li],
           [op |-> "DELETE_BATCH", keys |-> all, end |-> NoEnd, li |-> li],
           [op |-> "DUMMY", keys |-> <<>>, end |-> NoEnd, li |-> li]} : li \in LiFlags }

\* A TXN on keys <<k, k2>>: compare "k exists"; success PUT k2, failure
\* DELETE k2 (one predicate and one op per branch).
TxnCommands ==
    {[op |-> "TXN", keys |-> <<p[1], p[2]>>, end |-> NoEnd, li |-> li] :
        p \in {q \in Keys \X Keys : q[1] # q[2]}, li \in LiFlags}

\* The commands the running revision can decode.
Decodable(r) == Commands \cup {c \in TxnCommands : r = "command.go"}

(***************************************************************************)
(* The pebble batch: a sequence of Set / Delete / DeleteRange operations   *)
(* applied in order by Commit.                                             *)
(***************************************************************************)
SetOp(k, v) == [kind |-> "set", lo |-> k, hi |-> k, v |-> v]
DelOp(k) == [kind |-> "del", lo |-> k, hi |-> k, v |-> 0]
DelRangeOp(lo, hi) == [kind |-> "delrange", lo |-> lo, hi |-> hi, v |-> 0]

ApplyOp(s, o) ==
    [k \in Keys |->
        CASE o.kind = "set"      -> IF k = o.lo THEN o.v ELSE s[k]
          [] o.kind = "del"      -> IF k = o.lo THEN 0 ELSE s[k]
          [] o.kind = "delrange" -> IF o.lo <= k /\ k < o.hi THEN 0 ELSE s[k]]

ApplyOps(s, ops) == FoldLeft(ApplyOp, s, ops)

\* handlePut
handlePut(c, idx) == <<SetOp(c.keys[1], idx)>>

\* Bug variant of handleDelete: the range end taken as inclusive.
handleDeleteInclusive(c, idx) ==
    IF c.end = NoEnd THEN <<DelOp(c.keys[1])>>
    ELSE LET end == IF c.end = Wildcard THEN LatestMaxKey ELSE c.end
         IN <<DelRangeOp(c.keys[1], end + 1)>>

\* handleDelete: Delete, or DeleteRange up to the encoded range end, the
\* wildcard standing for key.LatestMaxKey.
handleDelete(c, idx) ==
    IF c.end = NoEnd THEN <<DelOp(c.keys[1])>>
    ELSE LET end == IF c.end = Wildcard THEN LatestMaxKey ELSE c.end
         IN <<DelRangeOp(c.keys[1], end)>>

\* handlePutBatch / handleDeleteBatch
handlePutBatch(c, idx) == [i \in 1 .. Len(c.keys) |-> SetOp(c.keys[i], idx)]
handleDeleteBatch(c, idx) == [i \in 1 .. Len(c.keys) |-> DelOp(c.keys[i])]

\* The switch of Update on the command type (update.go), also the handlers
\* of command.go's command objects other than TXN.
Handle(c, idx) ==
    CASE c.op = "PUT"          -> handlePut(c, idx)
      [] c.op = "DELETE"       -> handleDelete(c, idx)
      [] c.op = "PUT_BATCH"    -> handlePutBatch(c, idx)
      [] c.op = "DELETE_BATCH" -> handleDeleteBatch(c, idx)
      [] c.op = "DUMMY"        -> <<>>

\* Bug variant of EnsureIndexed: the indexed batch is made without applying
\* the plain batch into it.
EnsureIndexedDropsWrites(b) == [b EXCEPT !.indexed = TRUE, !.ops = <<>>]

\* updateContext.EnsureIndexed (command.go): a plain batch is applied into a
\* new indexed batch, which replaces it; an indexed batch is kept as it is.
EnsureIndexed(b) == [b EXCEPT !.indexed = TRUE]

\* commandTxn.handle: the batch is made readable, the predicate is read
\* through it (the committed keyspace with the batch's earlier writes), and
\* the ops of the branch taken are written into it.
commandTxn(c, idx, b) ==
    LET ib   == EnsureIndexed(b)
        view == ApplyOps(kv, ib.ops)
        ops  == IF view[c.keys[1]] # 0 THEN <<SetOp(c.keys[2], idx)>>
                                       ELSE <<DelOp(c.keys[2])>>
    IN  [ib EXCEPT !.ops = @ \o ops]

\* updateContext.Parse (command.go) and the handle of the command object it
\* returns: TXN works on the batch itself; every other type, DUMMY and the
\* types the build does not know included, writes as update.go's handlers.
Parse(c, idx, b) ==
    IF c.op = "TXN" THEN commandTxn(c, idx, b)
    ELSE [b EXCEPT !.ops = @ \o Handle(c, idx)]

(***************************************************************************)
(* Reference: the user keyspace the spec (section 4.2) says a log prefix   *)
(* produces, written per command and independent of batching.             *)
(***************************************************************************)
RECURSIVE RefKV(_, _)
RefKV(s, n) ==
    IF n = 0 THEN s
    ELSE LET p == RefKV(s, n - 1)
             c == log[n]
             gone(k) == \/ c.op = "DELETE_BATCH" /\ k \in ToSet(c.keys)
                        \/ c.op = "DELETE" /\ c.end = NoEnd /\ k = c.keys[1]
                        \/ c.op = "DELETE" /\ c.end = Wildcard /\ k >= c.keys[1]
                        \/ c.op = "DELETE" /\ c.end \in Keys /\ c.keys[1] <= k /\ k < c.end
                        \/ c.op = "TXN" /\ p[c.keys[1]] = 0 /\ k = c.keys[2]
         IN [k \in Keys |->
               IF c.op \in {"PUT", "PUT_BATCH"} /\ k \in ToSet(c.keys) THEN n
               ELSE IF c.op = "TXN" /\ p[c.keys[1]] # 0 /\ k = c.keys[2] THEN n
               ELSE IF gone(k) THEN 0 ELSE p[k]]

EmptyKV == [k \in Keys |-> 0]

-----------------------------------------------------------------------------

\* The Raft library commits a new entry to the shard's log.
Propose ==
    /\ Len(log) < MaxLog
    /\ \E c \in Decodable(rev) : log' = Append(log, c)
    /\ UNCHANGED <<kv, localIndex, leaderIndex, up, applied, upd, crashes, rev>>

\* The library calls Update with entries first..last: a new batch.
StartUpdate ==
    /\ up
    /\ upd = NoUpdate
    /\ \E last \in applied + 1 .. Len(log) :
          upd' = [next |-> applied + 1, last |-> last, ops |-> <<>>,
                  indexed |-> FALSE, index |-> 0, li |-> FALSE]
    /\ UNCHANGED <<log, kv, localIndex, leaderIndex, up, applied, crashes, rev>>

\* One iteration of the loop: ctx.Init (index, command) and its handler,
\* whose writes go into the batch.
ApplyEntry ==
    /\ upd # NoUpdate
    /\ upd.next <= upd.last
    /\ LET c == log[upd.next]
           b == IF rev = "command.go" THEN Parse(c, upd.next, upd)
                ELSE [upd EXCEPT !.ops = @ \o Handle(c, upd.next)]
       IN  upd' = [b EXCEPT !.next  = @ + 1,
                            !.index = upd.next,
                            !.li    = c.li]
    /\ UNCHANGED <<log, kv, localIndex, leaderIndex, up, applied, crashes, rev>>

\* Bug variant of Commit: sys.local_index is not written.
CommitNoLocalIndex ==
    /\ upd # NoUpdate
    /\ upd.next > upd.last
    /\ kv' = ApplyOps(kv, upd.ops)
    /\ leaderIndex' = IF upd.li THEN upd.index ELSE leaderIndex
    /\ applied' = upd.last
    /\ upd' = NoUpdate
    /\ UNCHANGED <<log, localIndex, up, crashes, rev>>

\* ctx.Commit: sys.leader_index if the last command carries one,
\* sys.local_index, and the batch commit; Update returns its results.
Commit ==
    /\ upd # NoUpdate
    /\ upd.next > upd.last
    /\ kv' = ApplyOps(kv, upd.ops)
    /\ leaderIndex' = IF upd.li THEN upd.index ELSE leaderIndex
    /\ localIndex' = upd.index
    /\ applied' = upd.last
    /\ upd' = NoUpdate
    /\ UNCHANGED <<log, up, crashes, rev>>

\* The replica crashes, or a handler, Set or the batch commit returns an
\* error: the batch is closed unapplied and the library halts the replica.
Crash ==
    /\ up
    /\ crashes < MaxCrashes
    /\ up' = FALSE
    /\ upd' = NoUpdate
    /\ crashes' = crashes + 1
    /\ UNCHANGED <<log, kv, localIndex, leaderIndex, applied, rev>>

\* Bug variant of Restart: Open reports one entry more than was persisted.
RestartOffByOne ==
    /\ ~up
    /\ up' = TRUE
    /\ applied' = localIndex + 1
    /\ UNCHANGED <<log, kv, localIndex, leaderIndex, upd, crashes, rev>>

\* The replica restarts: Open returns the persisted sys.local_index.
Restart ==
    /\ ~up
    /\ up' = TRUE
    /\ applied' = localIndex
    /\ UNCHANGED <<log, kv, localIndex, leaderIndex, upd, crashes, rev>>

Init ==
    /\ log = <<>>
    /\ kv = EmptyKV
    /\ localIndex = 0
    /\ leaderIndex = 0
    /\ up = TRUE
    /\ applied = 0
    /\ upd = NoUpdate
    /\ crashes = 0
    /\ rev \in Revisions

Next ==
    \/ Propose
    \/ StartUpdate
    \/ ApplyEntry
    \/ Commit
    \/ Crash
    \/ Restart

\* The library's apply loop keeps delivering committed entries, and a halted
\* replica is restarted; crashes are bounded.
Fairness ==
    /\ WF_vars(StartUpdate)
    /\ WF_vars(ApplyEntry)
    /\ WF_vars(Commit)
    /\ WF_vars(Restart)

Spec == Init /\ [][Next]_vars
FairSpec == Spec /\ Fairness

-----------------------------------------------------------------------------

TypeOK ==
    /\ log \in Seq(Command) /\ Len(log) <= MaxLog
    /\ kv \in [Keys -> 0 .. MaxLog]
    /\ localIndex \in 0 .. Len(log)
    /\ leaderIndex \in 0 .. Len(log)
    /\ up \in BOOLEAN
    /\ applied \in 0 .. Len(log)
    /\ crashes \in 0 .. MaxCrashes
    /\ rev \in Revisions

\* What survives a crash is the user keyspace the spec defines for exactly
\* the log prefix up to the persisted sys.local_index: Update commits the
\* writes of all its entries and the index in one batch, or nothing.
DurableStateIsLogPrefix ==
    kv = RefKV(EmptyKV, localIndex)

\* Every committed entry is eventually applied and persisted.
EveryEntryApplied ==
    \A n \in 1 .. MaxLog : (Len(log) >= n) ~> (localIndex >= n)

====
