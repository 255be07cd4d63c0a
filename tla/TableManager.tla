---------------------------- MODULE TableManager ----------------------------
(***************************************************************************)
(* The control plane of storage/table/manager.go across several nodes.    *)
(* Each node's Manager keeps tables in the meta store (a linearizable KV  *)
(* store with a version per key and CAS writes): /tables/<name> holds      *)
(* {ClusterID, RecoverID}, /tables/sys/idseq the shard ID sequence, and    *)
(* /cleanup/<node>/<id> a cleanup marker.  On each node three activities  *)
(* interleave with the other nodes':                                       *)
(*   - a client call: CreateTable, DeleteTable (both under the node's      *)
(*     m.mtx) or Restore (no lock), one meta-store call per step;          *)
(*   - the reconcile loop: a snapshot of the tables and the running        *)
(*     shards, then startTable / stopTable for their difference;           *)
(*   - the cleanup loop: for each ripe marker of the node, the race guard  *)
(*     GetTableByID, SyncRemoveData, and the deletion of the marker.       *)
(* Shard IDs 1..MaxId stand for 10001..10000+MaxId; the sequence value 0   *)
(* stands for tableIDsRangeStart.  Restore's data transfer (waitForLeader, *)
(* readIntoTable) is one step here; RestoreStream models it in detail.     *)
(***************************************************************************)
EXTENDS Naturals, FiniteSets, Sequences

CONSTANTS
    Nodes,        \* the replicas (NodeID)
    Names,        \* table names
    MaxId,        \* bound on shard IDs the sequence hands out
    MaxOps,       \* bound on client calls
    Operations,   \* the client calls enabled: subset of {"create", "delete", "restore", "put"}
    NoEntry       \* a name absent from a node's table cache

VARIABLES
    tbl,          \* meta store /tables/<name>: [present, cid, rid, ver]
    seq,          \* meta store /tables/sys/idseq: its value (each Set bumps
                  \* the version with it, so the value stands for both)
    marker,       \* meta store /cleanup/<n>/<id>: [present, ver, ripe]
    running,      \* running[n]: the table shards running on node n
    data,         \* data[n]: the shards with on-disk data on node n
    cache,        \* cache[n][name]: the ClusterID in node n's table cache, or NoEntry
    locked,       \* locked[n]: m.mtx of node n is held by a client call
    cl,           \* cl[n]: node n's client call in progress
    rc,           \* rc[n]: node n's reconcile pass
    cu,           \* cu[n]: node n's cleanup pass
    ops,          \* client calls begun
    issued,       \* history: issued[id] = times a table write introduced id
    wins,         \* history: wins[name] = successful creations since last delete
    wr            \* wr[n]: node n's Engine write in progress: [pc, name, id, ver]

vars == <<tbl, seq, marker, running, data, cache, locked, cl, rc, cu, ops, issued, wins, wr>>

Ids == 1 .. MaxId
Vers == Nat
Absent == [present |-> FALSE, cid |-> 0, rid |-> 0, ver |-> 0]
NoMarker == [present |-> FALSE, ver |-> 0, ripe |-> FALSE]

\* The table IDs of a set of table records (diffTables' tableIDs).
TableIds(recs) == ({r.cid : r \in recs} \cup {r.rid : r \in recs}) \ {0}

Tables == {tbl[t] : t \in {x \in Names : tbl[x].present}}

\* A shard the meta store references, as ClusterID or RecoverID.
Referenced(id) == id \in TableIds(Tables)

\* The meta store's CAS: Set(key, value, ver) succeeds iff ver = 0 and the
\* key is absent, or the key is present with version ver.
CasOK(cur, ver) == IF ver = 0 THEN ~cur.present ELSE cur.present /\ cur.ver = ver

\* The version a write gives: per-key versions only grow (a deleted key
\* keeps its last version, so a stale version never matches again).
Bump(cur) == cur.ver + 1

IdleClient == [op |-> "none", pc |-> "idle", name |-> CHOOSE t \in Names : TRUE,
               rec |-> Absent, ver |-> 0, sval |-> 0, id |-> 0]

Done(n) == cl' = [cl EXCEPT ![n] = IdleClient]
Goto(n, pc) == cl' = [cl EXCEPT ![n].pc = pc]

-----------------------------------------------------------------------------
(* Helpers of manager.go                                                    *)

\* Bug variant of createTable's setTableVersion(tab, 0): written blind.
createCasBlind(cur) == TRUE

\* createTable: setTableVersion(tab, 0) fails with ErrVersionMismatch when
\* the name exists.
createCas(cur) == CasOK(cur, 0)

\* Bug variant of incAndGetIDSeq's Set: the sequence written without its
\* version, so two readers of the same value both succeed.
SeqCasBlind(sval) == TRUE

\* incAndGetIDSeq, second half: Set(seq.Key, next, seq.Ver).
SeqCas(sval) == seq = sval

\* startTable on node n: StartOnDiskReplica; the shard's data directory
\* exists from then on.
StartShard(n, id) ==
    /\ running' = [running EXCEPT ![n] = @ \cup {id}]
    /\ data' = [data EXCEPT ![n] = @ \cup {id}]

\* cacheTable / clearTable
CacheTable(n, rec, t) == [cache EXCEPT ![n][t] = rec.cid]
ClearTable(n, id) == [cache EXCEPT ![n] = [t \in Names |-> IF @[t] = id THEN NoEntry ELSE @[t]]]

\* Bug variant of diffTables: nothing is stopped.
diffTablesNoStop(recs, local) ==
    [start |-> TableIds(recs) \ local, stop |-> {}]

\* diffTables: start what the meta store has and the node does not run,
\* stop what the node runs and the meta store does not have.
diffTables(recs, local) ==
    [start |-> TableIds(recs) \ local, stop |-> local \ TableIds(recs)]

\* GetTableByID: a table whose ClusterID is id.
GetTableByID(id) == \E r \in Tables : r.cid = id

-----------------------------------------------------------------------------
(* Client calls                                                             *)

\* A client calls CreateTable or DeleteTable (taking m.mtx) or Restore.
BeginCall(n) ==
    /\ cl[n].pc = "idle"
    /\ ops < MaxOps
    /\ \E op \in Operations \ {"put"}, t \in Names :
          /\ op \in {"create", "delete"} => ~locked[n]
          /\ locked' = [locked EXCEPT ![n] = op \in {"create", "delete"}]
          /\ cl' = [cl EXCEPT ![n] = [IdleClient EXCEPT
                        !.op = op, !.name = t,
                        !.pc = CASE op = "create" -> "c_exists"
                                 [] op = "delete" -> "d_get"
                                 [] op = "restore" -> "r_getver"]]
    /\ ops' = ops + 1
    /\ UNCHANGED <<tbl, seq, marker, running, data, cache, rc, cu, issued, wins, wr>>

\* The call returns (an error or success); m.mtx is released by its defer.
Return(n) ==
    /\ Done(n)
    /\ locked' = [locked EXCEPT ![n] = FALSE]

\* createTable: store.Exists(name); ErrTableExists if it does.
CreateExists(n) ==
    /\ cl[n].pc = "c_exists"
    /\ IF tbl[cl[n].name].present THEN Return(n)
       ELSE /\ Goto(n, "c_seqget")
            /\ UNCHANGED locked
    /\ UNCHANGED <<tbl, seq, marker, running, data, cache, rc, cu, ops, issued, wins, wr>>

\* incAndGetIDSeq, first half: store.Get(sequenceKey) (absent: value
\* tableIDsRangeStart, version 0).
SeqGet(n) ==
    /\ cl[n].pc \in {"c_seqget", "r_seqget"}
    /\ cl' = [cl EXCEPT ![n].sval = seq,
                        ![n].pc = IF @ = "c_seqget" THEN "c_seqset" ELSE "r_seqset"]
    /\ UNCHANGED <<tbl, seq, marker, running, data, cache, locked, rc, cu, ops, issued, wins, wr>>

\* incAndGetIDSeq, second half: Set(sequenceKey, val+1, ver); an error
\* (version mismatch) fails the call.
SeqSet(n) ==
    /\ cl[n].pc \in {"c_seqset", "r_seqset"}
    /\ cl[n].sval < MaxId
    /\ IF SeqCas(cl[n].sval)
       THEN /\ seq' = cl[n].sval + 1
            /\ cl' = [cl EXCEPT ![n].id = cl[n].sval + 1,
                                ![n].pc = IF @ = "c_seqset" THEN "c_settable" ELSE "r_start"]
            /\ UNCHANGED locked
       ELSE /\ Return(n)
            /\ UNCHANGED seq
    /\ UNCHANGED <<tbl, marker, running, data, cache, rc, cu, ops, issued, wins, wr>>

\* createTable: setTableVersion(tab, 0); ErrTableExists on a version mismatch.
CreateSetTable(n) ==
    /\ cl[n].pc = "c_settable"
    /\ LET t == cl[n].name IN
       IF createCas(tbl[t])
       THEN /\ tbl' = [tbl EXCEPT ![t] = [present |-> TRUE, cid |-> cl[n].id, rid |-> 0,
                                           ver |-> Bump(tbl[t])]]
            /\ issued' = [issued EXCEPT ![cl[n].id] = @ + 1]
            /\ wins' = [wins EXCEPT ![t] = @ + 1]
            /\ Goto(n, "c_start")
            /\ UNCHANGED locked
       ELSE /\ Return(n)
            /\ UNCHANGED <<tbl, issued, wins>>
    /\ UNCHANGED <<seq, marker, running, data, cache, rc, cu, ops, wr>>

\* CreateTable: startTable(created.Name, created.ClusterID), then unlock.
CreateStart(n) ==
    /\ cl[n].pc = "c_start"
    /\ StartShard(n, cl[n].id)
    /\ Return(n)
    /\ UNCHANGED <<tbl, seq, marker, cache, rc, cu, ops, issued, wins, wr>>

\* DeleteTable: store.Get(name); its error is returned.
DeleteGet(n) ==
    /\ cl[n].pc = "d_get"
    /\ LET t == cl[n].name IN
       IF tbl[t].present
       THEN /\ cl' = [cl EXCEPT ![n].ver = tbl[t].ver, ![n].pc = "d_del"]
            /\ UNCHANGED locked
       ELSE Return(n)
    /\ UNCHANGED <<tbl, seq, marker, running, data, cache, rc, cu, ops, issued, wins, wr>>

\* DeleteTable: store.Delete(name, tab.Ver).
DeleteDel(n) ==
    /\ cl[n].pc = "d_del"
    /\ LET t == cl[n].name IN
       IF tbl[t].present /\ tbl[t].ver = cl[n].ver
       THEN /\ tbl' = [tbl EXCEPT ![t] = [Absent EXCEPT !.ver = Bump(tbl[t])]]
            /\ wins' = [wins EXCEPT ![t] = 0]
       ELSE UNCHANGED <<tbl, wins>>
    /\ Return(n)
    /\ UNCHANGED <<seq, marker, running, data, cache, rc, cu, ops, issued, wr>>

\* Restore: getTableVersion(name); ErrTableNotFound leaves an empty table
\* at version 0.
RestoreGetVer(n) ==
    /\ cl[n].pc = "r_getver"
    /\ LET t == cl[n].name IN
       cl' = [cl EXCEPT ![n].rec = tbl[t],
                        ![n].ver = IF tbl[t].present THEN tbl[t].ver ELSE 0,
                        ![n].pc = "r_seqget"]
    /\ UNCHANGED <<tbl, seq, marker, running, data, cache, locked, rc, cu, ops, issued, wins, wr>>

\* Restore: startTable(name, recoveryID), before the table records it.
RestoreStart(n) ==
    /\ cl[n].pc = "r_start"
    /\ StartShard(n, cl[n].id)
    /\ Goto(n, "r_setver")
    /\ UNCHANGED <<tbl, seq, marker, cache, locked, rc, cu, ops, issued, wins, wr>>

\* Restore: setTableVersion(tbl with RecoverID, version).
RestoreSetVer(n) ==
    /\ cl[n].pc = "r_setver"
    /\ LET t == cl[n].name IN
       IF CasOK(tbl[t], cl[n].ver)
       THEN /\ tbl' = [tbl EXCEPT ![t] = [present |-> TRUE, cid |-> cl[n].rec.cid,
                                           rid |-> cl[n].id, ver |-> Bump(tbl[t])]]
            /\ issued' = [issued EXCEPT ![cl[n].id] = @ + 1]
            /\ wins' = [wins EXCEPT ![t] = IF tbl[t].present THEN @ ELSE @ + 1]
            /\ Goto(n, "r_transfer")
       ELSE /\ Done(n)
            /\ UNCHANGED <<tbl, issued, wins>>
    /\ UNCHANGED <<seq, marker, running, data, cache, locked, rc, cu, ops, wr>>

\* Restore: waitForLeader and readIntoTable.  A proposal through this node
\* fails with ErrShardNotFound while the recovering shard is not running
\* here; waitForLeader may also time out.
RestoreTransfer(n) ==
    /\ cl[n].pc = "r_transfer"
    /\ \/ /\ cl[n].id \in running[n]
          /\ Goto(n, "r_getver2")
       \/ Done(n)
    /\ UNCHANGED <<tbl, seq, marker, running, data, cache, locked, rc, cu, ops, issued, wins, wr>>

\* Restore: getTableVersion(name) again; its error is returned.
RestoreGetVer2(n) ==
    /\ cl[n].pc = "r_getver2"
    /\ LET t == cl[n].name IN
       IF tbl[t].present
       THEN cl' = [cl EXCEPT ![n].rec = tbl[t], ![n].ver = tbl[t].ver, ![n].pc = "r_promote"]
       ELSE Done(n)
    /\ UNCHANGED <<tbl, seq, marker, running, data, cache, locked, rc, cu, ops, issued, wins, wr>>

\* Restore: ClusterID := recoveryID, RecoverID := 0 under the version just
\* read; then cacheTable.
RestorePromote(n) ==
    /\ cl[n].pc = "r_promote"
    /\ LET t == cl[n].name
           new == [present |-> TRUE, cid |-> cl[n].id, rid |-> 0, ver |-> Bump(tbl[t])]
       IN IF CasOK(tbl[t], cl[n].ver)
          THEN /\ tbl' = [tbl EXCEPT ![t] = new]
               /\ cache' = CacheTable(n, new, t)
          ELSE UNCHANGED <<tbl, cache>>
    /\ Done(n)
    /\ UNCHANGED <<seq, marker, running, data, locked, rc, cu, ops, issued, wins, wr>>

-----------------------------------------------------------------------------
(* The Engine's write path                                                  *)

\* Engine.Put (and Delete, Txn): a request for a table arrives and
\* Manager.GetTable(name) serves it from the table cache; on a miss it
\* reads the meta store under m.mtx.RLock (not cached), and an absent
\* table is an error.  `ver` records the table's version at routing time
\* (a history field: the code does not read it).
EngineRoute(n) ==
    /\ wr[n].pc \in {"idle", "acked"}
    /\ "put" \in Operations
    /\ ops < MaxOps
    /\ ops' = ops + 1
    /\ \E t \in Names :
          IF cache[n][t] # NoEntry
          THEN wr' = [wr EXCEPT ![n] = [pc |-> "propose", name |-> t, id |-> cache[n][t],
                                        ver |-> tbl[t].ver]]
          ELSE /\ ~locked[n]
               /\ wr' = [wr EXCEPT ![n] = IF tbl[t].present
                            THEN [pc |-> "propose", name |-> t, id |-> tbl[t].cid, ver |-> tbl[t].ver]
                            ELSE wr[n]]
    /\ UNCHANGED <<tbl, seq, marker, running, data, cache, locked, cl, rc, cu, issued, wins>>

\* Engine.Put: the proposal to the routed shard (withDefaultTimeout);
\* it is acknowledged when the shard runs on this node, else it fails.
\* `pc` = "acked" keeps the acknowledged write for the property.
EnginePropose(n) ==
    /\ wr[n].pc = "propose"
    /\ wr' = [wr EXCEPT ![n].pc = IF wr[n].id \in running[n] THEN "acked" ELSE "idle"]
    /\ UNCHANGED <<tbl, seq, marker, running, data, cache, locked, cl, rc, cu, ops, issued, wins>>

-----------------------------------------------------------------------------
(* The reconcile loop                                                       *)

\* reconcile: getTables and GetNodeHostInfo under m.mtx.RLock, and
\* diffTables of the two.
ReconcileSnapshot(n) ==
    /\ rc[n].pc = "snap"
    /\ ~locked[n]
    /\ LET d == diffTables(Tables, running[n]) IN
       rc' = [rc EXCEPT ![n] = [pc |-> "cache", recs |-> [t \in Names |-> [tbl[t] EXCEPT !.ver = 0]],
                                start |-> d.start, stop |-> d.stop]]
    /\ UNCHANGED <<tbl, seq, marker, running, data, cache, locked, cl, cu, ops, issued, wins, wr>>

\* Bug variant of ReconcileCache: a name already cached is not refreshed.
ReconcileCacheMissOnly(n) ==
    /\ rc[n].pc = "cache"
    /\ cache' = [cache EXCEPT ![n] = [t \in Names |->
                     IF rc[n].recs[t].present /\ @[t] = NoEntry THEN rc[n].recs[t].cid ELSE @[t]]]
    /\ rc' = [rc EXCEPT ![n].pc = "start"]
    /\ UNCHANGED <<tbl, seq, marker, running, data, locked, cl, cu, ops, issued, wins, wr>>

\* reconcile, after the lock is released: cacheTable for every table of
\* the snapshot.
ReconcileCache(n) ==
    /\ rc[n].pc = "cache"
    /\ cache' = [cache EXCEPT ![n] = [t \in Names |->
                     IF rc[n].recs[t].present THEN rc[n].recs[t].cid ELSE @[t]]]
    /\ rc' = [rc EXCEPT ![n].pc = "start"]
    /\ UNCHANGED <<tbl, seq, marker, running, data, locked, cl, cu, ops, issued, wins, wr>>

\* reconcile: startTable for one ID of toStart (map order), then cacheTable
\* of its snapshot record; a startTable error (the shard already runs)
\* ends the pass.
ReconcileStart(n) ==
    /\ rc[n].pc = "start"
    /\ \E id \in rc[n].start :
          IF id \in running[n]
          THEN /\ rc' = [rc EXCEPT ![n].pc = "snap"]
               /\ UNCHANGED <<running, data, cache>>
          ELSE \E t \in Names :
                  /\ rc[n].recs[t].present
                  /\ id \in {rc[n].recs[t].cid, rc[n].recs[t].rid}
                  /\ StartShard(n, id)
                  /\ cache' = CacheTable(n, rc[n].recs[t], t)
                  /\ rc' = [rc EXCEPT ![n].start = @ \ {id}]
    /\ UNCHANGED <<tbl, seq, marker, locked, cl, cu, ops, issued, wins, wr>>

\* reconcile: stopTable for one ID of toStop (StaleRead of the data path,
\* which fails if the shard is not running; the cleanup marker written
\* under CAS; StopShard), then clearTable.  With nothing left the pass ends.
ReconcileStop(n) ==
    /\ rc[n].pc = "start"
    /\ rc[n].start = {}
    /\ IF rc[n].stop = {}
       THEN /\ rc' = [rc EXCEPT ![n].pc = "snap"]
            /\ UNCHANGED <<marker, running, cache>>
       ELSE \E id \in rc[n].stop :
              IF id \notin running[n]
              THEN /\ rc' = [rc EXCEPT ![n].pc = "snap"]
                   /\ UNCHANGED <<marker, running, cache>>
              ELSE /\ marker' = [marker EXCEPT ![n][id] =
                                    [present |-> TRUE, ver |-> Bump(@), ripe |-> FALSE]]
                   /\ running' = [running EXCEPT ![n] = @ \ {id}]
                   /\ cache' = ClearTable(n, id)
                   /\ rc' = [rc EXCEPT ![n].stop = @ \ {id}]
    /\ UNCHANGED <<tbl, seq, data, locked, cl, cu, ops, issued, wins, wr>>

-----------------------------------------------------------------------------
(* The cleanup loop                                                         *)

\* cleanup: store.GetAll("/cleanup/<node>/*"), in key order; whether a
\* marker is older than the grace period is read with it.
CleanupList(n) ==
    /\ cu[n].pc = "list"
    /\ LET ids == SelectSeq([i \in Ids |-> i], LAMBDA i : marker[n][i].present) IN
       cu' = [cu EXCEPT ![n] = [pc |-> "check", cur |-> 0, ver |-> 0,
                 todo |-> [k \in 1 .. Len(ids) |->
                            [id |-> ids[k], ver |-> marker[n][ids[k]].ver,
                             ripe |-> marker[n][ids[k]].ripe]]]]
    /\ UNCHANGED <<tbl, seq, marker, running, data, cache, locked, cl, rc, ops, issued, wins, wr>>

\* Delete(l.Key, l.Ver) of a marker: a version mismatch fails.
DeleteMarker(n, id, ver) ==
    IF marker[n][id].present /\ marker[n][id].ver = ver
    THEN marker' = [marker EXCEPT ![n][id] = [@ EXCEPT !.present = FALSE, !.ripe = FALSE]]
    ELSE UNCHANGED marker

\* cleanup: the next marker.  A young one is passed over.  For a ripe one
\* the race guard GetTableByID runs (m.mtx.RLock): if it does not report
\* ErrTableNotFound the marker is deleted and the pass returns.
CleanupCheck(n) ==
    /\ cu[n].pc = "check"
    /\ IF cu[n].todo = <<>>
       THEN /\ cu' = [cu EXCEPT ![n].pc = "list"]
            /\ UNCHANGED marker
       ELSE LET e == Head(cu[n].todo) IN
            IF ~e.ripe
            THEN /\ cu' = [cu EXCEPT ![n].todo = Tail(@)]
                 /\ UNCHANGED marker
            ELSE /\ ~locked[n]
                 /\ IF GetTableByID(e.id)
                    THEN /\ DeleteMarker(n, e.id, e.ver)
                         /\ cu' = [cu EXCEPT ![n].pc = "list"]
                    ELSE /\ cu' = [cu EXCEPT ![n].pc = "remove", ![n].cur = e.id,
                                             ![n].ver = e.ver]
                         /\ UNCHANGED marker
    /\ UNCHANGED <<tbl, seq, running, data, cache, locked, cl, rc, ops, issued, wins, wr>>

\* Bug variant of CleanupRemove: the data removed without the shard stopped.
CleanupRemoveRunning(n) ==
    /\ cu[n].pc = "remove"
    /\ data' = [data EXCEPT ![n] = @ \ {cu[n].cur}]
    /\ cu' = [cu EXCEPT ![n].pc = "del"]
    /\ UNCHANGED <<tbl, seq, marker, running, cache, locked, cl, rc, ops, issued, wins, wr>>

\* cleanup: SyncRemoveData(id, node), which fails while the shard runs on
\* the node (the pass returns its error), and FS.RemoveAll of its data.
CleanupRemove(n) ==
    /\ cu[n].pc = "remove"
    /\ IF cu[n].cur \in running[n]
       THEN /\ cu' = [cu EXCEPT ![n].pc = "list"]
            /\ UNCHANGED data
       ELSE /\ data' = [data EXCEPT ![n] = @ \ {cu[n].cur}]
            /\ cu' = [cu EXCEPT ![n].pc = "del"]
    /\ UNCHANGED <<tbl, seq, marker, running, cache, locked, cl, rc, ops, issued, wins, wr>>

\* cleanup: store.Delete of the marker; an error ends the pass.
CleanupDelete(n) ==
    /\ cu[n].pc = "del"
    /\ DeleteMarker(n, cu[n].cur, cu[n].ver)
    /\ cu' = [cu EXCEPT ![n].pc =
                 IF marker[n][cu[n].cur].present /\ marker[n][cu[n].cur].ver = cu[n].ver
                 THEN "check" ELSE "list",
                        ![n].todo = Tail(@)]
    /\ UNCHANGED <<tbl, seq, running, data, cache, locked, cl, rc, ops, issued, wins, wr>>

\* Time passes: a marker becomes older than cleanupGracePeriod.
Ripen(n) ==
    /\ \E id \in Ids :
          /\ marker[n][id].present /\ ~marker[n][id].ripe
          /\ marker' = [marker EXCEPT ![n][id].ripe = TRUE]
    /\ UNCHANGED <<tbl, seq, running, data, cache, locked, cl, rc, cu, ops, issued, wins, wr>>

-----------------------------------------------------------------------------

Init ==
    /\ tbl = [t \in Names |-> Absent]
    /\ seq = 0
    /\ marker = [n \in Nodes |-> [i \in Ids |-> NoMarker]]
    /\ running = [n \in Nodes |-> {}]
    /\ data = [n \in Nodes |-> {}]
    /\ cache = [n \in Nodes |-> [t \in Names |-> NoEntry]]
    /\ locked = [n \in Nodes |-> FALSE]
    /\ cl = [n \in Nodes |-> IdleClient]
    /\ rc = [n \in Nodes |-> [pc |-> "snap", recs |-> [t \in Names |-> Absent],
                              start |-> {}, stop |-> {}]]
    /\ cu = [n \in Nodes |-> [pc |-> "list", todo |-> <<>>, cur |-> 0, ver |-> 0]]
    /\ ops = 0
    /\ issued = [i \in Ids |-> 0]
    /\ wins = [t \in Names |-> 0]
    /\ wr = [n \in Nodes |-> [pc |-> "idle", name |-> CHOOSE t \in Names : TRUE, id |-> 0, ver |-> 0]]

Next ==
    \E n \in Nodes :
        \/ BeginCall(n)
        \/ CreateExists(n) \/ SeqGet(n) \/ SeqSet(n) \/ CreateSetTable(n) \/ CreateStart(n)
        \/ DeleteGet(n) \/ DeleteDel(n)
        \/ RestoreGetVer(n) \/ RestoreStart(n) \/ RestoreSetVer(n) \/ RestoreTransfer(n)
        \/ RestoreGetVer2(n) \/ RestorePromote(n)
        \/ ReconcileSnapshot(n) \/ ReconcileCache(n) \/ ReconcileStart(n) \/ ReconcileStop(n)
        \/ EngineRoute(n) \/ EnginePropose(n)
        \/ CleanupList(n) \/ CleanupCheck(n) \/ CleanupRemove(n) \/ CleanupDelete(n)
        \/ Ripen(n)

Spec == Init /\ [][Next]_vars

\* A client call, once begun, runs to its return; reconcileLoop and
\* cleanupLoop run on a ticker for as long as the node runs; time passes.
Fairness ==
    \A n \in Nodes :
        /\ WF_vars(CreateExists(n) \/ SeqGet(n) \/ SeqSet(n) \/ CreateSetTable(n) \/ CreateStart(n))
        /\ WF_vars(DeleteGet(n) \/ DeleteDel(n))
        /\ WF_vars(RestoreGetVer(n) \/ RestoreStart(n) \/ RestoreSetVer(n) \/ RestoreTransfer(n)
                   \/ RestoreGetVer2(n) \/ RestorePromote(n))
        /\ WF_vars(ReconcileSnapshot(n) \/ ReconcileCache(n) \/ ReconcileStart(n) \/ ReconcileStop(n))
        /\ WF_vars(EnginePropose(n))
        /\ WF_vars(CleanupList(n) \/ CleanupCheck(n) \/ CleanupRemove(n) \/ CleanupDelete(n))
        /\ WF_vars(Ripen(n))

FairSpec == Spec /\ Fairness

-----------------------------------------------------------------------------

TypeOK ==
    /\ \A t \in Names : tbl[t].present \in BOOLEAN /\ {tbl[t].cid, tbl[t].rid} \subseteq 0 .. MaxId
    /\ seq \in 0 .. MaxId
    /\ \A n \in Nodes : running[n] \subseteq Ids /\ data[n] \subseteq Ids
                        /\ running[n] \subseteq data[n]
    /\ ops \in 0 .. MaxOps

\* incAndGetIDSeq's CAS: every shard ID a table write introduces (a new
\* table's ClusterID, a Restore's RecoverID) is handed out once, so no
\* two tables, nor two incarnations of one name, share a shard's data.
FreshShardIds ==
    \A i \in Ids : issued[i] <= 1

\* Concurrent CreateTable (or Restore of an absent table) of one name on
\* several nodes: at most one succeeds until the table is deleted.
AtMostOneCreateWins ==
    \A t \in Names : wins[t] <= 1

\* A shard a call is about to record in the meta store.
Pending(id) ==
    \E m \in Nodes : cl[m].id = id /\ cl[m].pc \in {"c_settable", "c_start", "r_start", "r_setver"}

\* A write acknowledged through Engine.Put lands in the shard the table
\* names as its ClusterID, unless the table changed while the write was
\* in flight.  On several nodes GetTable's cache lags behind the other
\* nodes' changes by design; on one node every change is the node's own
\* (Restore's promotion refreshes the cache with cacheTable), so a write
\* routed after it must reach the new shard.
WriteReachesCurrentShard ==
    \A n \in Nodes :
        LET t == wr[n].name IN
        (wr[n].pc = "acked" /\ tbl[t].present /\ tbl[t].ver = wr[n].ver) => wr[n].id = tbl[t].cid

\* A table cache entry that names a shard other than the table's
\* ClusterID (left by a Restore, or by a reconcile pass whose snapshot was
\* older than the cacheTable it overwrote) is eventually repaired: the
\* next reconcile pass caches the table again or clearTable drops it.
StaleRouteRepaired ==
    \A n \in Nodes, t \in Names :
        (tbl[t].present /\ cache[n][t] \notin {NoEntry, tbl[t].cid})
            ~> (~tbl[t].present \/ cache[n][t] \in {NoEntry, tbl[t].cid})

\* reconcile eventually stops, on every node, a shard that runs there while
\* no table references it and no call is about to (a deleted table, an
\* old ClusterID after a Restore's promotion, a failed Restore's shard).
OrphanShardStopped ==
    \A n \in Nodes, i \in Ids :
        (i \in running[n] /\ ~Referenced(i) /\ ~Pending(i)) ~> (i \notin running[n])

\* cleanup eventually removes, on every node, the data of a shard that no
\* table references and no call is about to record: reconcile stops it
\* and writes a marker, the marker outlives the grace period, and a later
\* cleanup pass gets to it, although a pass returns at the first marker
\* whose shard is still referenced or whose removal fails.
OrphanDataRemoved ==
    \A n \in Nodes, i \in Ids :
        (i \in data[n] /\ ~Referenced(i) /\ ~Pending(i))
            ~> (i \notin data[n] \/ Referenced(i))

\* cleanup removes a node's data of a shard only while the meta store
\* references it neither as ClusterID nor as RecoverID (the race guard).
ReferencedDataKept ==
    [][\A n \in Nodes, i \in Ids :
          (i \in data[n] /\ i \notin data'[n]) => ~Referenced(i)]_vars

====
