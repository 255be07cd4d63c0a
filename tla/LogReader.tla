----------------------------- MODULE LogReader -----------------------------
(***************************************************************************)
(* The log reader of storage/logreader/logreader.go for one shard: the     *)
(* Simple reader (direct reads of the Raft log) and the Cached reader      *)
(* (per-shard cache of recent entries, reset by Raft lifecycle events).    *)
(*                                                                         *)
(* The environment is the Raft library: it appends entries to the shard's  *)
(* log, compacts its prefix, starts and stops the replica, and delivers    *)
(* NodeReady / NodeDeleted / LogCompacted events in order on one listener  *)
(* goroutine.  Concurrent QueryRaftLog calls are processes in Queries.     *)
(*                                                                         *)
(* A query is two steps: Load (the empty-range check and the lock-free     *)
(* shardCache.Load) and Serve (the body run under sh.mtx).  Serve is one   *)
(* step: the mutex excludes every other writer of that shard's cache, and  *)
(* readLog is the only shared state it reads.  Between the two steps the   *)
(* events may replace the shard object the query has loaded.              *)
(***************************************************************************)
EXTENDS Naturals, Sequences, SequencesExt, FiniteSets, FiniteSetsExt

CONSTANTS
    Queries,      \* concurrent callers of QueryRaftLog
    MaxIndex,     \* bound on the log's last index
    CacheSize,    \* Cached.ShardCacheSize (count of entries)
    EntrySizes,   \* possible Entry.SizeUpperLimit() values
    MaxSizes,     \* possible maxSize arguments
    MaxRestarts,  \* bound on replica stop/start cycles
    CachedModes,  \* the readers Engine may build: TRUE for logreader.Cached
                  \* (LogCacheSize > 0), FALSE for logreader.Simple
    NoObj         \* model value: no shard in shardCache

VARIABLES
    Cached,       \* the reader New built for this run; never changes
    log,          \* log[i] = size of entry i; the log's history, never rewritten
    logFirst,     \* rFirst of GetRange(): entries below it are compacted
    nodeUp,       \* the replica runs, so GetLogReader succeeds
    restarts,     \* replica stop/start cycles so far
    events,       \* system events not yet delivered to the listener
    shardCache,   \* the *shard stored for this shard ID, or NoObj
    caches,       \* caches[o]: entries held by shard object o
    qpc,          \* per query: "idle", "load", "serve" or "done"
    qreq,         \* per query: [first, last, max] of the request
    qobj,         \* per query: the shard object it loaded
    resp          \* per query: its response, with the log's rLast when served

vars == <<Cached, log, logFirst, nodeUp, restarts, events, shardCache, caches,
          qpc, qreq, qobj, resp>>

\* Shard objects; an object that is neither stored nor held by a query is
\* garbage, so its identity is reused for the next allocation.
ObjIds == 1 .. (Cardinality(Queries) + 2)
Indices == 1 .. (MaxIndex + 1)
Entry == [index : 1 .. MaxIndex, size : EntrySizes]
NoRange == [first |-> 0, last |-> 0]
Errors == {"none", "ShardNotReady", "ShardNotFound", "LogBehind", "LogAhead"}

LogEntry(i) == [index |-> i, size |-> log[i]]

\* entries[i].SizeUpperLimit() summed over the first n entries
PrefixSize(es, n) == FoldLeft(LAMBDA acc, e : acc + e.size, 0, SubSeq(es, 1, n))

(***************************************************************************)
(* ReadonlyLogReader.Entries(first, last, maxSize) of the Raft library:    *)
(* the entries of [first, last) cut by its limitSize, which always keeps   *)
(* the first entry and then adds entries while the total stays <= maxSize. *)
(***************************************************************************)
LimitSize(es, m) ==
    IF es = <<>> THEN es
    ELSE SubSeq(es, 1, Max({n \in 1 .. Len(es) : n = 1 \/ PrefixSize(es, n) <= m}))

LogEntries(first, last, m) ==
    LimitSize([k \in 1 .. (last - first) |-> LogEntry(first + k - 1)], m)

Answer(err, es) == [err |-> err, entries |-> es]

\* Bug variant of readLog: the caught-up test off by one.
readLogOffByOne(rng, m) ==
    LET rLast == Len(log) IN
    IF ~nodeUp THEN Answer("ShardNotFound", <<>>)
    ELSE IF rLast = rng.first THEN Answer("none", <<>>)
    ELSE IF rLast < rng.first THEN Answer("LogBehind", <<>>)
    ELSE IF rng.first < logFirst THEN Answer("LogAhead", <<>>)
    ELSE Answer("none", LogEntries(rng.first, rng.last, m))

\* readLog: GetLogReader, then the three range checks, then Entries.
readLog(rng, m) ==
    LET rLast == Len(log) IN
    IF ~nodeUp THEN Answer("ShardNotFound", <<>>)
    ELSE IF rLast + 1 = rng.first THEN Answer("none", <<>>)
    ELSE IF rLast < rng.first THEN Answer("LogBehind", <<>>)
    ELSE IF rng.first < logFirst THEN Answer("LogAhead", <<>>)
    ELSE Answer("none", LogEntries(rng.first, rng.last, m))

\* fixSize: cut before the entry at which the running size reaches maxSize.
fixSize(es, m) ==
    LET over == {n \in 1 .. Len(es) : PrefixSize(es, n) >= m} IN
    IF over = {} THEN es ELSE SubSeq(es, 1, Min(over) - 1)

(***************************************************************************)
(* The shard cache (cache.go is not part of this source tree; modelled     *)
(* from the spec, section 4.5): a ring buffer of the latest CacheSize      *)
(* entries.  get splits a request into the cached entries and the ranges   *)
(* below (prepend) and above (append) the cache still to be read; on an    *)
(* empty cache the whole request is the prepend range.                     *)
(***************************************************************************)
largestIndex(c) == IF c = <<>> THEN 0 ELSE Last(c).index

get(c, rng) ==
    IF c = <<>>
    THEN [cached |-> <<>>, prepend |-> rng, append |-> NoRange]
    ELSE LET cf == c[1].index
             cl == Last(c).index
         IN [cached  |-> SelectSeq(c, LAMBDA e : rng.first <= e.index /\ e.index < rng.last),
             prepend |-> IF rng.first < cf
                         THEN [first |-> rng.first, last |-> Min({rng.last, cf})]
                         ELSE NoRange,
             append  |-> IF rng.last > cl + 1
                         THEN [first |-> Max({rng.first, cl + 1}), last |-> rng.last]
                         ELSE NoRange]

\* Bug variant of put: the ring buffer never evicts.
putNoEvict(c, es) == c \o es

put(c, es) ==
    LET s == c \o es IN SubSeq(s, Max({1, Len(s) - CacheSize + 1}), Len(s))

IsSet(rng) == rng.first # 0 /\ rng.last # 0

\* Bug variant of prependJoins: the index test dropped.
prependJoinsAlways(le, cached) == cached # <<>>

\* The prepend read and the cached entries form one sequence.
prependJoins(le, cached) ==
    cached # <<>> /\ Last(le).index = cached[1].index - 1

\* Bug variant of appendContinues: the contiguity test dropped.
appendContinuesAlways(le, c) == TRUE

\* The append read continues the shard cache.
appendContinues(le, c) == le[1].index - 1 = largestIndex(c)

-----------------------------------------------------------------------------
(***************************************************************************)
(* Environment: the Raft library.                                          *)
(***************************************************************************)

\* A new entry is appended to the shard's log.
AppendEntry ==
    /\ Len(log) < MaxIndex
    /\ \E s \in EntrySizes : log' = Append(log, s)
    /\ UNCHANGED <<Cached, logFirst, nodeUp, restarts, events, shardCache, caches,
                   qpc, qreq, qobj, resp>>

\* The log prefix below n is compacted; a LogCompacted event follows.
CompactLog ==
    /\ nodeUp
    /\ \E n \in (logFirst + 1) .. (Len(log) + 1) :
          logFirst' = n
    /\ events' = Append(events, "compacted")
    /\ UNCHANGED <<Cached, log, nodeUp, restarts, shardCache, caches,
                   qpc, qreq, qobj, resp>>

\* The replica is stopped (NodeDeleted) or started again (NodeReady).
StopNode ==
    /\ nodeUp
    /\ restarts < MaxRestarts
    /\ nodeUp' = FALSE
    /\ restarts' = restarts + 1
    /\ events' = Append(events, "deleted")
    /\ UNCHANGED <<Cached, log, logFirst, shardCache, caches, qpc, qreq, qobj, resp>>

StartNode ==
    /\ ~nodeUp
    /\ nodeUp' = TRUE
    /\ events' = Append(events, "ready")
    /\ UNCHANGED <<Cached, log, logFirst, restarts, shardCache, caches,
                   qpc, qreq, qobj, resp>>

-----------------------------------------------------------------------------
(***************************************************************************)
(* Event handlers of Cached (Simple ignores all events).                   *)
(***************************************************************************)

FreeObjs == ObjIds \ ({shardCache} \cup {qobj[q] : q \in Queries})

NewShard ==
    LET o == Min(FreeObjs) IN
    /\ shardCache' = o
    /\ caches' = [caches EXCEPT ![o] = <<>>]

\* NodeReady: ComputeIfAbsent, a new empty shard only if none is stored.
NodeReady ==
    IF shardCache = NoObj THEN NewShard ELSE UNCHANGED <<shardCache, caches>>

\* NodeDeleted: the shard is removed from shardCache.
NodeDeleted ==
    /\ shardCache' = NoObj
    /\ UNCHANGED <<caches>>

\* Bug variant of LogCompacted: ComputeIfAbsent, as NodeReady does.
LogCompactedIfAbsent ==
    IF shardCache = NoObj THEN NewShard ELSE UNCHANGED <<shardCache, caches>>

\* LogCompacted: Store, the shard is replaced by a new empty one.
LogCompacted == NewShard

DeliverEvent ==
    /\ events # <<>>
    /\ events' = Tail(events)
    /\ IF ~Cached THEN UNCHANGED <<shardCache, caches>>
       ELSE CASE Head(events) = "ready"     -> NodeReady
              [] Head(events) = "deleted"   -> NodeDeleted
              [] Head(events) = "compacted" -> LogCompacted
    /\ UNCHANGED <<Cached, log, logFirst, nodeUp, restarts, qpc, qreq, qobj, resp>>

-----------------------------------------------------------------------------
(***************************************************************************)
(* QueryRaftLog.                                                           *)
(***************************************************************************)

NoReq == [first |-> 1, last |-> 1, max |-> 0]
NoResp == [err |-> "none", entries |-> <<>>, rLast |-> 0]

Respond(q, a) ==
    /\ resp' = [resp EXCEPT ![q] = [err |-> a.err, entries |-> a.entries,
                                    rLast |-> Len(log)]]
    /\ qpc' = [qpc EXCEPT ![q] = "done"]
    /\ qobj' = [qobj EXCEPT ![q] = NoObj]

\* A caller asks for [first, last) of the log with a size hint.
Request(q) ==
    /\ qpc[q] = "idle"
    /\ \E f \in 1 .. (Len(log) + 1), m \in MaxSizes :
         \E l \in f .. (Len(log) + 1) :
            qreq' = [qreq EXCEPT ![q] = [first |-> f, last |-> l, max |-> m]]
    /\ qpc' = [qpc EXCEPT ![q] = "load"]
    /\ UNCHANGED <<Cached, log, logFirst, nodeUp, restarts, events, shardCache, caches,
                   qobj, resp>>

\* The caller takes the answer and the query returns.
Finish(q) ==
    /\ qpc[q] = "done"
    /\ qpc' = [qpc EXCEPT ![q] = "idle"]
    /\ resp' = [resp EXCEPT ![q] = NoResp]
    /\ qreq' = [qreq EXCEPT ![q] = NoReq]
    /\ UNCHANGED <<Cached, log, logFirst, nodeUp, restarts, events, shardCache, caches, qobj>>

\* Simple.QueryRaftLog: the empty-range check, then readLog.
SimpleQuery(q) ==
    /\ ~Cached
    /\ qpc[q] = "load"
    /\ LET r == qreq[q] IN
       IF r.first = r.last THEN Respond(q, Answer("none", <<>>))
       ELSE Respond(q, readLog(r, r.max))
    /\ UNCHANGED <<Cached, log, logFirst, nodeUp, restarts, events, shardCache, caches,
                   qreq>>

\* Cached.QueryRaftLog up to the lock: the empty-range check and Load.
Load(q) ==
    /\ Cached
    /\ qpc[q] = "load"
    /\ \/ /\ qreq[q].first = qreq[q].last
          /\ Respond(q, Answer("none", <<>>))
       \/ /\ qreq[q].first # qreq[q].last
          /\ shardCache = NoObj
          /\ Respond(q, Answer("ShardNotReady", <<>>))
       \/ /\ qreq[q].first # qreq[q].last
          /\ shardCache # NoObj
          /\ qobj' = [qobj EXCEPT ![q] = shardCache]
          /\ qpc' = [qpc EXCEPT ![q] = "serve"]
          /\ UNCHANGED resp
    /\ UNCHANGED <<Cached, log, logFirst, nodeUp, restarts, events, shardCache, caches,
                   qreq>>

\* The body under sh.mtx when get leaves nothing to read from the log.
ServeFromCache(q) ==
    LET r == qreq[q]
        g == get(caches[qobj[q]], r)
    IN /\ qpc[q] = "serve"
       /\ ~IsSet(g.prepend) /\ ~IsSet(g.append)
       /\ Respond(q, Answer("none", fixSize(g.cached, r.max)))
       /\ UNCHANGED <<Cached, log, logFirst, nodeUp, restarts, events, shardCache,
                      caches, qreq>>

\* The body under sh.mtx when the start of the range must be read.
ServePrepend(q) ==
    LET r  == qreq[q]
        o  == qobj[q]
        c  == caches[o]
        g  == get(c, r)
        rl == readLog(g.prepend, r.max)
        le == rl.entries
    IN /\ qpc[q] = "serve"
       /\ IsSet(g.prepend)
       /\ \/ /\ rl.err # "none"
             /\ Respond(q, Answer(rl.err, <<>>))
             /\ UNCHANGED caches
          \/ /\ rl.err = "none" /\ le = <<>>
             /\ Respond(q, Answer("none", fixSize(g.cached, r.max)))
             /\ UNCHANGED caches
          \/ /\ rl.err = "none" /\ le # <<>>
             /\ prependJoins(le, g.cached)
             /\ Respond(q, Answer("none", fixSize(le \o g.cached, r.max)))
             /\ UNCHANGED caches
          \/ /\ rl.err = "none" /\ le # <<>>
             /\ ~prependJoins(le, g.cached)
             /\ caches' = [caches EXCEPT ![o] = IF c = <<>> THEN put(c, le) ELSE c]
             /\ Respond(q, Answer("none", le))
       /\ UNCHANGED <<Cached, log, logFirst, nodeUp, restarts, events, shardCache,
                      qreq>>

\* The body under sh.mtx when the end of the range must be read.
ServeAppend(q) ==
    LET r  == qreq[q]
        o  == qobj[q]
        c  == caches[o]
        g  == get(c, r)
        rl == readLog(g.append, r.max)
        le == rl.entries
    IN /\ qpc[q] = "serve"
       /\ ~IsSet(g.prepend) /\ IsSet(g.append)
       /\ \/ /\ rl.err # "none"
             /\ Respond(q, Answer(rl.err, <<>>))
             /\ UNCHANGED caches
          \/ /\ rl.err = "none" /\ le = <<>>
             /\ Respond(q, Answer("none", fixSize(g.cached, r.max)))
             /\ UNCHANGED caches
          \/ /\ rl.err = "none" /\ le # <<>> /\ g.cached # <<>>
             /\ caches' = [caches EXCEPT ![o] = put(c, le)]
             /\ Respond(q, Answer("none", fixSize(g.cached \o le, r.max)))
          \/ /\ rl.err = "none" /\ le # <<>> /\ g.cached = <<>>
             /\ caches' = [caches EXCEPT ![o] = IF appendContinues(le, c) THEN put(c, le) ELSE c]
             /\ Respond(q, Answer("none", le))
       /\ UNCHANGED <<Cached, log, logFirst, nodeUp, restarts, events, shardCache,
                      qreq>>

-----------------------------------------------------------------------------

Init ==
    /\ Cached \in CachedModes
    /\ log = <<>>
    /\ logFirst = 1
    /\ nodeUp = TRUE
    /\ restarts = 0
    /\ events = <<"ready">>
    /\ shardCache = NoObj
    /\ caches = [o \in ObjIds |-> <<>>]
    /\ qpc = [q \in Queries |-> "idle"]
    /\ qreq = [q \in Queries |-> NoReq]
    /\ qobj = [q \in Queries |-> NoObj]
    /\ resp = [q \in Queries |-> NoResp]

Next ==
    \/ AppendEntry
    \/ CompactLog
    \/ StopNode
    \/ StartNode
    \/ DeliverEvent
    \/ \E q \in Queries :
          \/ Request(q)
          \/ Finish(q)
          \/ SimpleQuery(q)
          \/ Load(q)
          \/ ServeFromCache(q)
          \/ ServePrepend(q)
          \/ ServeAppend(q)

Spec == Init /\ [][Next]_vars

-----------------------------------------------------------------------------
(***************************************************************************)
(* Properties.                                                             *)
(***************************************************************************)

TypeOK ==
    /\ log \in Seq(EntrySizes) /\ Len(log) <= MaxIndex
    /\ logFirst \in 1 .. (Len(log) + 1)
    /\ nodeUp \in BOOLEAN
    /\ restarts \in 0 .. MaxRestarts
    /\ events \in Seq({"ready", "deleted", "compacted"})
    /\ shardCache \in ObjIds \cup {NoObj}
    /\ caches \in [ObjIds -> Seq(Entry)]
    /\ \A o \in ObjIds : Len(caches[o]) <= CacheSize
    /\ qpc \in [Queries -> {"idle", "load", "serve", "done"}]
    /\ qreq \in [Queries -> [first : Indices, last : Indices, max : MaxSizes \cup {0}]]
    /\ qobj \in [Queries -> ObjIds \cup {NoObj}]
    /\ resp \in [Queries -> [err : Errors, entries : Seq(Entry), rLast : 0 .. MaxIndex]]

\* es is a run of consecutive log entries, each as the log holds it.
IsLogRun(es) ==
    \A k \in 1 .. Len(es) :
        /\ es[k].index \in 1 .. Len(log)
        /\ es[k] = LogEntry(es[k].index)
        /\ k > 1 => es[k].index = es[k - 1].index + 1

\* Every answer QueryRaftLog gives without an error is a run of consecutive
\* entries of the log that starts at the requested first index and stays
\* below the requested last index: the prepend/append joins of the cached
\* reader never leave a gap or overlap.
ResponseIsLogSlice ==
    \A q \in Queries :
        (qpc[q] = "done" /\ resp[q].err = "none" /\ resp[q].entries # <<>>) =>
            /\ IsLogRun(resp[q].entries)
            /\ resp[q].entries[1].index = qreq[q].first
            /\ Last(resp[q].entries).index < qreq[q].last

\* Every shard object's cache (current or one a query still holds after an
\* event replaced it) is a run of consecutive log entries: sh.put is only
\* called with entries that continue it.
CacheIsLogRun ==
    \A o \in ObjIds : IsLogRun(caches[o])

\* Once every LogCompacted event has been delivered, the stored shard cache
\* holds no compacted entry, so a request below rFirst is answered LogAhead
\* by readLog and never served from the cache.
NoCompactedEntryCached ==
    (\A i \in 1 .. Len(events) : events[i] # "compacted") =>
        (shardCache # NoObj =>
            \A k \in 1 .. Len(caches[shardCache]) : caches[shardCache][k].index >= logFirst)

\* A caller that is behind gets at least one entry: an answer without error
\* and without entries to a non-empty request means the caller was caught up
\* (first = rLast + 1) when the log was read.
BehindCallerProgresses ==
    \A q \in Queries :
        (qpc[q] = "done" /\ resp[q].err = "none" /\ resp[q].entries = <<>>
           /\ qreq[q].first # qreq[q].last) =>
            qreq[q].first = resp[q].rLast + 1

\* The same, for the uncached reader: Simple.QueryRaftLog reads through the
\* Raft log reader, whose size limit always keeps the first entry.
SimpleReaderProgresses ==
    ~Cached => BehindCallerProgresses

====
