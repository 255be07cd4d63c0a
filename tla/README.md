# TLA+ models of regatta's storage core and process startup

This directory holds TLA+ models of the parts of `src/` that have concurrency,
crashes or distributed races, together with the TLC configurations that check
them. `PROJECT.json` lists the components, the runs, the mutants, the map
from each definition to the source lines it translates, the findings and the
hazards.

## 1. The system and its parts

| Part | Source | State it keeps | Operations |
|---|---|---|---|
| FSM apply path | `storage/table/fsm/update.go`, `command.go` | pebble keyspace, `sys.local_index`, `sys.leader_index` | `Update`, `handlePut/Delete/PutBatch/DeleteBatch`, `Init`, `Commit`, `Close`; in `command.go`'s revision `Parse` (TXN included) and `EnsureIndexed` |
| Log reader | `storage/logreader/logreader.go` (+ `cache.go`, not in `src/`) | per-shard cache (a ring buffer of log entries) in a `SyncMap`, each behind its own mutex | `Simple/Cached.QueryRaftLog`, `readLog`, `fixSize`, `NodeReady`, `NodeDeleted`, `LogCompacted` |
| Engine | `storage/engine.go` | none of its own | `Range/Put/Delete/Txn` routed through `GetTable`; Raft events filtered by `ReplicaID` and forwarded to the log reader |
| Table manager | `storage/table/manager.go` | the meta store (`/tables/<name>`, `/tables/sys/idseq`, `/cleanup/<node>/<id>`, leases), the per-node table cache, the shards running on the node | `CreateTable`, `DeleteTable`, `Restore` (+ `readIntoTable`), `LeaseTable`, `ReturnTable`, `GetTable*`, the `reconcile` and `cleanup` loops |
| Bootstrap | `cmd/root.go` | the NodeHost, the shards started on it, the gRPC and REST servers, the Kafka consumer, the SIGTERM channel, the stack of deferred calls | `initConfig`, `validateConfig`, `buildLogger`, `root` (start shards, `waitForClusterInit`, servers, `waitForKafkaInit`, consumer, `<-shutdown`), `onMessage` |

How they interact:
- A client write reaches the Engine. The Engine looks up the table's shard (cache first, then meta store) and proposes a command.
- Raft commits the command, and every replica's FSM applies it in `Update`.
- Raft events (node ready or deleted, log compacted) flow through the Engine into the log reader.
- Followers in another cluster pull the log tail through `QueryRaftLog`.
- `root` starts everything in order: NodeHost, one shard per partition, the servers once no shard is pending, then the Kafka consumer, whose `onMessage` turns each message into an Engine `Put` or `Delete`. A SIGTERM interrupts the waits or ends the final `<-shutdown`; the deferred calls then stop the consumer, the servers and the NodeHost.
- The table manager runs on every node. It decides which shards run there: from the meta store via `reconcile`, and through its client calls. It deletes shard data after a grace period via `cleanup`.

Hard behaviours the code meets:
- concurrent queries against one shard's cache, and Raft events arriving asynchronously to them;
- crashes in the middle of an `Update`;
- redelivered Raft entries;
- proposals that time out after they were committed, and are then retried;
- several nodes acting on the same meta-store keys, each from its own reads;
- the same node's client call, reconcile pass and cleanup pass interleaving.

## 2. Modules

| Module | Models | State (variables) ↔ code |
|---|---|---|
| `LogReader` | log reader + Engine event filter | `log`, `logFirst`, `nodeUp` are the Raft log (environment). `shardCache` and `caches` are `Cached.shardCache` and the shard objects. `events` is the asynchronous Raft event queue. `qpc/qreq/qobj/resp` are each concurrent query's progress through `QueryRaftLog` (load, lock, get, prepend/append branch). |
| `RestoreStream` | `Manager.readIntoTable` | `input` is the backup frames. `estimated`, `batch`, `batchLI`, `last` and `pending` are the loop's locals. `applied` and `leaderIndex` are the recovering shard's committed `PUT_BATCH` entries. |
| `FSMUpdate` | `FSM.Update` + `updateContext` (both revisions) | `rev` is the revision of the apply context the build uses (`update.go` or `command.go`), fixed for a behaviour. `log` is the committed Raft log. `kv`, `localIndex` and `leaderIndex` are the committed pebble state. `upd` is the in-flight batch: its writes, whether it is indexed, and the loop's position. `up`, `applied` and `crashes` are the replica and the Raft library's applied index. |
| `TableManager` | meta-store calls, `reconcile`, `cleanup`, `Restore`, the Engine's write routing | `tbl`, `seq` and `marker` are the meta store with per-key versions. `running`, `data` and `cache` are per node. `cl`, `rc` and `cu` are the program counters of each node's client call, reconcile pass and cleanup pass. `wr` is each node's Engine write (`GetTable`, then the proposal). `issued` and `wins` are history variables. |
| `TableLease` | `LeaseTable`, `ReturnTable` | `lease` is the key `/tables/<name>/lease` with its version. `now` is real time, and `offset[n]` is how far node n's `time.Now()` runs ahead. `pc`, `got` and `until` are each call's progress and locals. `mine` is a history variable: the lease each node believes it holds. |
| `LeaseContract` | the spec's `lease_table`/`return_table` contract | `owner`, `expiry`, `now`: each call is one atomic step. `TableLease` instantiates it with the lease key as the mapping. |
| `Bootstrap` | `root`, `initConfig`, `validateConfig`, `buildLogger`, `waitForClusterInit`, `waitForKafkaInit`, `onMessage` | `pc` is the main goroutine's place in `root`. `cfg` is the configuration (each check abstracted to pass or fail). `defers` is the stack of deferred calls, run on return and on every `log.Panic`. `nh`, `started`, `pending`, `servers` and `consumer` are the library objects. `sig` is the buffered signal channel (capacity 1), `sent` counts signals. `kv` is what `onMessage` wrote through the Engine, `msgs` counts consumed messages. |
| `MC*` | model values and sets for the cfgs | |

How the modules map to the code:
- Every action is one handler, or one meta-store call of a handler, from guard to return. A trailing `cacheTable`, `clearTable` or `Commit` is part of the action that calls it.
- The data is abstracted:
  - a log entry is its size;
  - a key is a small natural in byte order;
  - a PUT's value is its Raft index;
  - shard IDs `1..MaxId` stand for `10001..`.
- Library behaviour is modelled as environment:
  - Raft log growth and compaction;
  - dragonboat's `limitSize` (it always returns the first entry);
  - the kv store's versioned `Set`/`Delete`;
  - `SyncRemoveData`, which refuses a running shard.
- In `LogReader`, `Cached` is fixed at the start of a behaviour: `New` builds one reader or the other (`LogCacheSize > 0`). One run can therefore check both readers.
- The parts not under `src/` are modelled from the spec and marked `spec_modelled` in the map: `cache.go` (`get`, `put`, `largestIndex`), `FSM.Open`, `key.LatestMaxKey`, the kv store's CAS, and `commandTxn.handle` (a TXN reads its predicate through the indexed batch and writes the ops of the branch taken, as spec section 4.3 says).
- The two revisions of the FSM's apply context are alternatives of one build: `update.go` (a switch in `Update`, no TXN) and `command.go` (`Parse` returns a command object; TXN needs `EnsureIndexed`). `FSMUpdate` chooses one at the start of a behaviour, like the log reader's `Cached`, so one run checks both. The handlers of `command.go`'s command objects other than TXN are not in `src/` and are modelled as `update.go`'s.

The modules are independent. `RestoreStream` details the step that `TableManager` abstracts as `RestoreTransfer`. `TableLease` implements `LeaseContract`: the run checks `Contract!Spec` under the mapping `owner <- lease.id`, `expiry <- lease.until`.

## 3. Runs

| Run | cfg | Bounds | What it shows |
|---|---|---|---|
| log_lifecycle (pass) | `LogReaderLifecycle.cfg` | 1 query, 2 restarts, either reader, log ≤ 3 entries, sizes {1,3}, maxSize 3, cache 2 | Answers are slices of the log. The cache is a gap-free run of the log, and after a compaction event is handled nothing compacted is served, across node delete/ready/compaction sequences. The simple reader never answers a caller that is behind with nothing. |
| log_cached_stall (violation) | `LogReaderCachedStall.cfg` | | `fixSize` returns an empty answer for a cached entry ≥ maxSize. |
| restore_stream (pass) | `RestoreStream.cfg` | ≤ 4 frames of size 1–2, limit 3, 2 retries | Proposals stay below the limit. Frames apply in order, even across late commits of retried proposals. |
| restore_loses_frame (violation) | `RestoreLosesFrame.cfg` | | The frame that crosses the threshold is never written; the trace also shows `sys.leader_index` naming that frame. |
| fsm_update (pass) | `FSMUpdate.cfg` | log ≤ 3 of 12 commands (14 with TXN) over 2 keys, 1 crash, both revisions | What survives a crash is exactly the log prefix up to `sys.local_index`, compared with a reference `RefKV` written per command from the spec, TXNs included: a TXN decides on the state before it, the batch's earlier writes included. Every entry is eventually applied. |
| manager_races (pass) | `TableManager.cfg` | 2 nodes, 1 name, 4 create/delete calls, 3 IDs | Shard IDs are handed out once. At most one create of a name wins. |
| manager_restore (pass) | `TableManagerOne.cfg` | 1 node, 3 calls or writes including Restore, 2 IDs | Orphaned shards are eventually stopped. A stale table-cache entry is eventually repaired (both liveness). |
| manager_stale_route (violation) | `TableManagerStaleRoute.cfg` | 1 node, 2 Restores and 1 write | After the node's own Restore returned, a write is acknowledged by the old shard. |
| manager_data_leak (violation) | `TableManagerDataLeak.cfg` | 1 node, 3 calls, 2 IDs | A shard's cleanup marker is deleted by the race guard while a Restore promotes it; the shard is then superseded before reconcile restarts it, and its data stays on disk with no marker. |
| manager_cleanup_race (violation) | `TableManagerCleanupRace.cfg` | 1 node, 1 Restore | cleanup removes the data of a shard the meta store references as RecoverID. |
| lease_exclusive (pass) | `TableLease.cfg` | 2 nodes, 5 calls, time 0..5, duration 2, synchronised clocks | No two nodes hold the lease at once. Every change of the lease key is a step of the contract (refinement). The module has no type invariant: every variable keeps its type by the shape of the actions. |
| bootstrap (pass) | `Bootstrap.cfg` | 3 partitions, 2 keys, 1 value, 3 messages, 2 signals | The consumer runs only on a live NodeHost with every shard started and none pending. Whenever the NodeHost is stopped, the consumer is not running and no server is up. A SIGTERM always leads to the process exiting. |

Why the bounds are enough:
- **Bootstrap:** 3 partitions let a signal or a failing `StartOnDiskCluster` land between shards, and let some shards be ready while others are pending. 2 signals cover one buffered in the channel while the other is sent (it is dropped by `signal.Notify`, which does not block). 3 messages let consumption continue after a SIGTERM was sent.
- **LogReader:** sizes {1,3} with maxSize 3 make both the Raft limit and `fixSize` cut answers. Without that, a wrong join hides behind the size limit. A cache of 2 is full after two entries, so eviction happens.
- **FSMUpdate:** 3 entries allow a multi-entry batch, a crash inside it, a delete after a put, and a TXN whose predicate key was written earlier in the same batch, so that `EnsureIndexed` has writes to carry over.
- **TableManager:**
  - 4 calls on 2 nodes allow create/create races and delete-then-recreate.
  - One Restore is enough to hit the reconcile window.
  - One node has only one client call at a time, so the ID and create properties are checked on two nodes.
  - The stale route needs two Restores: the first creates the table, the second replaces its shard while a reconcile pass is in flight.
- **TableLease:** 5 calls over 6 ticks with a duration of 2 give acquisition, renewal, expiry, takeover and return on both nodes. With clocks 2 ticks apart (`Skew = 2`), TLC finds `LeaseExclusive` violated; this is listed as a hazard, not a run.

Every property of a passing run has a mutant in `PROJECT.json` (a dropped CAS, an off-by-one, a missing reset or write) that TLC reports as a violation.

## 4. Fairness

- `FSMUpdate.FairSpec` has weak fairness on the library's apply loop (`StartUpdate`, `ApplyEntry`, `Commit`) and on `Restart`. dragonboat keeps applying committed entries, and a halted replica is restarted by its supervisor. Crashes are bounded.
- `TableManager.FairSpec` has weak fairness on each begun client call's steps, on a routed write's proposal, on the reconcile and cleanup loops, and on time passing (`Ripen`). The loops run on tickers for as long as the node runs. New client calls and writes are not forced.
- `Bootstrap.FairSpec` has weak fairness on every step of the main goroutine (a goroutine that can run eventually does), and on `waitForKafkaInit` taking a buffered signal: its `select` chooses at random among ready cases, and the other case is a tick that leaves the state unchanged. Shard readiness, signals, messages and server failures are environment and not forced. `waitForClusterInit` is covered by the main goroutine's fairness, since its signal case is enabled as long as the signal is buffered.
- The LogReader, RestoreStream and TableLease specs check safety only.

## 5. Findings

1. **`readIntoTable` drops the frame that crosses `MaxInMemLogSize/2`** (manager.go:678).
   - The batch flushed without that frame carries the frame's leader index (manager.go:676).
   - Restore still returns success.
2. **The cached log reader can return no entries and no error** (logreader.go:175). This happens when the first cached entry alone reaches maxSize. The spec allows returning slightly more to respect entry boundaries, and the uncached path does.
3. **reconcile writes an old snapshot back into the table cache** (manager.go:340).
   - It reads the tables under `m.mtx.RLock`, but calls `cacheTable` after releasing the lock. Restore takes no lock.
   - A Restore promotion that lands in between is overwritten with the old ClusterID.
   - The node that ran the Restore then routes writes to the old shard. That shard still runs and acknowledges them, and is later stopped and its data deleted.
4. **A shard's data can stay on a node for good** (manager.go:397). Only `stopTable` writes a cleanup marker, and only for a running shard (manager.go:543). If a stale reconcile pass stops a Restore's recovery shard, and the Restore then promotes it, cleanup's race guard finds the shard referenced and deletes its marker. If the table is then deleted or restored again before reconcile restarts the shard, nothing will stop it or mark it again: its data is never removed.
5. **cleanup's race guard checks ClusterID only** (manager.go:395). Restore starts the recovery shard before recording it and without `m.mtx` (manager.go:583–588). Together these let cleanup remove a recovering shard's data.

## 6. Not modelled, and why

- **Key codec and the TXN handlers:** not in `src/`.
- **Decoding errors in `command.go`'s `Parse`:** an entry that does not decode fails every retry of the batch; the model's log holds only decodable commands, and a decoding error is one of the errors of the `Crash` step. `wrapRequestOp`/`wrapResponseOp` only rewrap response values.
- **Snapshots and `Lookup`:** `sm.go` is not in `src/`.
- **Truncation of the uncommitted Raft tail against the log-reader cache:** the model reads the committed log.
- **Non-atomic `GetRange`/`Entries` in `readLog`:** the library's locking is not in `src/`.
- **Redelivery into `FSM.Update`:** dragonboat resumes after the index `Open` returns, so the model's library never hands over applied entries. `Update` itself has no index check, but as dragonboat never redelivers, nothing in this code can reach that path.
- **Cross-node table-cache lag:** on several nodes, `GetTable` on one node lags behind another node's Restore or Delete by design. `WriteReachesCurrentShard` is therefore checked on one node.
- **The 2-node Restore races:** the 2-node Restore model exceeds TLC's budget at the current bounds, and needs a reduced state (for example no ripening of unrelated markers).
- **Clock skew for leases:** see the TableLease bounds above.
- **The kafka package:** the consumer's partitions, offsets and checker are not in `src/`; `Consume` is one message handed to `onMessage`.
- **What a goroutine panic leaves behind:** a `ListenAndServe` failure ends the process without the deferred calls; the state of the Raft WAL and Kafka offsets after that lies in libraries.
- **`sys.leader_index` batch dependence:** `Commit` writes the leader index of the last command of the batch only (update.go:162), so the stored value depends on where dragonboat cut the batches. It is listed as a hazard; the run that showed it was retired in favour of the data-leak run.
- **Engine and manager lifecycle** (`Engine.Start/Close`, `Manager.Start/WaitUntilReady/Close`, the loops' `select` on `m.closed`): not yet modelled. Their callers are not in `src/` (`root.go` of this revision builds no Engine). Its hazards are listed in `PROJECT.json`: after `Close`, Start's goroutine may still spawn the loops (a Go `select` picks among ready cases at random); each loop runs a whole pass before it looks at `m.closed`; `WaitUntilReady` may return nil on a closed manager; `Engine.Close` closes the NodeHost without waiting for the loops.

## 7. Plan for further work

1. Add a two-node Restore run with a smaller state.
2. Add eventual data removal after delete as a liveness property of cleanup.
3. Add an abstract log-reader specification (answers are log slices from the requested index) that both readers refine.
4. Model the manager's start and close sequence (Start's leader wait, the two loops, `WaitUntilReady`, `Close`, then `NodeHost.Close`) with strong fairness on the `select` cases, and check that after `Close` no pass outlives the NodeHost.
