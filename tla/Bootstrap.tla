----------------------------- MODULE Bootstrap -----------------------------
(***************************************************************************)
(* The process life cycle of cmd/root.go: cobra runs initConfig and        *)
(* validateConfig, then root builds the logger, subscribes to SIGTERM on a *)
(* channel of capacity 1, creates the NodeHost, starts one on-disk shard   *)
(* per partition, polls until none is pending, starts the gRPC and REST    *)
(* servers, optionally polls Kafka for its topics, and starts the Kafka    *)
(* consumer, whose onMessage turns each message into a Put or a Delete on  *)
(* the storage.  Then it waits for the signal.  Every log.Panic and every  *)
(* return runs the deferred calls in reverse order of their defer          *)
(* statements; a panic in a server goroutine ends the process at once.     *)
(*                                                                         *)
(* Configuration errors and library errors are free choices; a shard      *)
(* becoming ready, a signal and a Kafka message are steps of the          *)
(* environment.  Payloads are model values.                               *)
(***************************************************************************)
EXTENDS Naturals, Sequences, FiniteSets

CONSTANTS
    Capacity,     \* partitioner.Capacity(): the shards are 1..Capacity
    Keys,         \* Kafka message keys
    Values,       \* Kafka message values
    Nil,          \* a nil value: a Kafka tombstone
    MaxMsgs,      \* bound on consumed messages
    MaxSignals    \* bound on signals sent to the process

VARIABLES
    pc,           \* the main goroutine: the step of root it is at
    cfg,          \* what the configuration provides (fixed per behaviour)
    defers,       \* the deferred calls registered so far, latest first
    nh,           \* the NodeHost: "none", "up" or "stopped"
    started,      \* shards StartOnDiskCluster was called for
    pending,      \* started shards whose ClusterInfo is still Pending
    servers,      \* the gRPC and REST servers that are serving
    consumer,     \* the Kafka consumer: "none", "created", "running", "closed"
    sig,          \* signals buffered in the shutdown channel (0 or 1)
    sent,         \* signals sent so far
    kv,           \* the storage as the Kafka messages left it
    msgs          \* messages consumed so far

vars == <<pc, cfg, defers, nh, started, pending, servers, consumer, sig, sent, kv, msgs>>

Phases == {"init", "validate", "logger", "nodehost", "clusters", "wait_clusters",
           "servers", "wait_kafka", "consumer", "start", "running", "unwind", "exited"}

\* The configuration: a readable config file, raft.address set, all keys of
\* raft.initial-members integers, a valid log-level, kafka.check-topics.
Configs == [file : BOOLEAN, addr : BOOLEAN, members : BOOLEAN, level : BOOLEAN,
            checkTopics : BOOLEAN]

Clusters == 1 .. Capacity

\* log.Panic or return: the deferred calls run before the process exits.
Unwinding == pc' = "unwind"

-----------------------------------------------------------------------------

\* initConfig: a config file that exists but cannot be read panics.
InitConfig ==
    /\ pc = "init"
    /\ pc' = IF cfg.file THEN "validate" ELSE "exited"
    /\ UNCHANGED <<cfg, defers, nh, started, pending, servers, consumer, sig, sent, kv, msgs>>

\* validateConfig (PreRunE): without raft.address root never runs.
ValidateConfig ==
    /\ pc = "validate"
    /\ pc' = IF cfg.addr THEN "logger" ELSE "exited"
    /\ UNCHANGED <<cfg, defers, nh, started, pending, servers, consumer, sig, sent, kv, msgs>>

\* buildLogger panics on a bad log-level (nothing is deferred yet); then
\* root defers logger.Sync and calls signal.Notify.
BuildLogger ==
    /\ pc = "logger"
    /\ IF cfg.level
       THEN /\ pc' = "nodehost"
            /\ defers' = <<"logger.Sync">>
       ELSE /\ pc' = "exited"
            /\ UNCHANGED defers
    /\ UNCHANGED <<cfg, nh, started, pending, servers, consumer, sig, sent, kv, msgs>>

\* nhc.Prepare and dragonboat.NewNodeHost; either error panics.  On success
\* root defers nh.Stop.
NewNodeHost ==
    /\ pc = "nodehost"
    /\ \/ /\ nh' = "up"
          /\ defers' = <<"nh.Stop">> \o defers
          /\ pc' = "clusters"
       \/ /\ Unwinding
          /\ UNCHANGED <<nh, defers>>
    /\ UNCHANGED <<cfg, started, pending, servers, consumer, sig, sent, kv, msgs>>

\* initialMembers panics unless every node ID of raft.initial-members parses.
initialMembers == cfg.members

\* Bug variant of StartCluster: the loop runs to Capacity + 1.
StartClusterOffByOne ==
    /\ pc = "clusters"
    /\ LET c == Cardinality(started) + 1 IN
       \/ /\ initialMembers
          /\ started' = started \cup {c}
          /\ pending' = pending \cup {c}
          /\ pc' = IF Cardinality(started') > Capacity THEN "wait_clusters" ELSE "clusters"
       \/ /\ Unwinding
          /\ UNCHANGED <<started, pending>>
    /\ UNCHANGED <<cfg, defers, nh, servers, consumer, sig, sent, kv, msgs>>

\* One iteration of the loop over clusterID: initialMembers, then
\* StartOnDiskCluster, whose error panics.  A started shard is pending
\* until the Raft library initialises it.
StartCluster ==
    /\ pc = "clusters"
    /\ LET c == Cardinality(started) + 1 IN
       \/ /\ initialMembers
          /\ started' = started \cup {c}
          /\ pending' = pending \cup {c}
          /\ pc' = IF started' = Clusters THEN "wait_clusters" ELSE "clusters"
       \/ /\ Unwinding
          /\ UNCHANGED <<started, pending>>
    /\ UNCHANGED <<cfg, defers, nh, servers, consumer, sig, sent, kv, msgs>>

\* The Raft library finishes initialising shard c on this node.
ClusterReady(c) ==
    /\ c \in pending
    /\ nh = "up"
    /\ pending' = pending \ {c}
    /\ UNCHANGED <<pc, cfg, defers, nh, started, servers, consumer, sig, sent, kv, msgs>>

\* Bug variant of the readiness test: one ready shard is taken for all.
ClustersReadyAny == \E c \in started : c \notin pending

\* waitForClusterInit: ready is the conjunction of !ci.Pending over the
\* ClusterInfoList of the NodeHost, recomputed on every tick.
ClustersReady == \A c \in started : c \notin pending

\* Bug variant of waitForClusterInit: a select on the ticker alone.
WaitForClusterInitNoShutdown ==
    /\ pc = "wait_clusters"
    /\ ClustersReady
    /\ pc' = "servers"
    /\ UNCHANGED <<cfg, defers, nh, started, pending, servers, consumer, sig, sent, kv, msgs>>

\* waitForClusterInit's select: the signal makes it return false and root
\* return; a tick with every shard ready returns true.  A tick with a
\* pending shard changes nothing.
WaitForClusterInit ==
    /\ pc = "wait_clusters"
    /\ \/ /\ sig = 1
          /\ sig' = 0
          /\ Unwinding
       \/ /\ ClustersReady
          /\ pc' = "servers"
          /\ UNCHANGED sig
    /\ UNCHANGED <<cfg, defers, nh, started, pending, servers, consumer, sent, kv, msgs>>

\* regattaserver.NewServer (defer Shutdown), the gRPC goroutine, the REST
\* server and its goroutine (defer Shutdown); the Kafka topic configs.
Servers ==
    /\ pc = "servers"
    /\ servers' = {"grpc", "rest"}
    /\ defers' = <<"hs.Shutdown", "regatta.Shutdown">> \o defers
    /\ pc' = IF cfg.checkTopics THEN "wait_kafka" ELSE "consumer"
    /\ UNCHANGED <<cfg, nh, started, pending, consumer, sig, sent, kv, msgs>>

\* A ListenAndServe goroutine fails and calls log.Panicf: the process dies
\* without running the main goroutine's deferred calls.
ServeFails ==
    /\ servers # {}
    /\ pc # "exited"
    /\ pc' = "exited"
    /\ nh' = "stopped"
    /\ servers' = {}
    /\ consumer' = IF consumer = "none" THEN "none" ELSE "closed"
    /\ UNCHANGED <<cfg, defers, started, pending, sig, sent, kv, msgs>>

\* waitForKafkaInit's select: the signal makes root return; a tick whose
\* ch.Check() succeeds returns true, one that fails changes nothing.
WaitForKafkaInit ==
    /\ pc = "wait_kafka"
    /\ \/ /\ sig = 1
          /\ sig' = 0
          /\ Unwinding
       \/ /\ pc' = "consumer"
          /\ UNCHANGED sig
    /\ UNCHANGED <<cfg, defers, nh, started, pending, servers, consumer, sent, kv, msgs>>

\* kafka.NewConsumer with onMessage; its error panics, else root defers
\* consumer.Close.
NewConsumer ==
    /\ pc = "consumer"
    /\ \/ /\ consumer' = "created"
          /\ defers' = <<"consumer.Close">> \o defers
          /\ pc' = "start"
       \/ /\ Unwinding
          /\ UNCHANGED <<consumer, defers>>
    /\ UNCHANGED <<cfg, nh, started, pending, servers, sig, sent, kv, msgs>>

\* consumer.Start; its error panics.
StartConsumer ==
    /\ pc = "start"
    /\ \/ /\ consumer' = "running"
          /\ pc' = "running"
       \/ /\ Unwinding
          /\ UNCHANGED consumer
    /\ UNCHANGED <<cfg, defers, nh, started, pending, servers, sig, sent, kv, msgs>>

\* <-shutdown: root returns.
AwaitShutdown ==
    /\ pc = "running"
    /\ sig = 1
    /\ sig' = 0
    /\ Unwinding
    /\ UNCHANGED <<cfg, defers, nh, started, pending, servers, consumer, sent, kv, msgs>>

\* The effect of one deferred call.
RunDeferred(d) ==
    /\ nh' = IF d = "nh.Stop" THEN "stopped" ELSE nh
    /\ servers' = CASE d = "hs.Shutdown"      -> servers \ {"rest"}
                    [] d = "regatta.Shutdown" -> servers \ {"grpc"}
                    [] OTHER                  -> servers
    /\ consumer' = IF d = "consumer.Close" THEN "closed" ELSE consumer

\* Bug variant of the unwinding: the deferred calls run in the order they
\* were registered.
UnwindFIFO ==
    /\ pc = "unwind"
    /\ IF defers = <<>>
       THEN /\ pc' = "exited" /\ UNCHANGED <<defers, nh, servers, consumer>>
       ELSE /\ RunDeferred(defers[Len(defers)])
            /\ defers' = SubSeq(defers, 1, Len(defers) - 1)
            /\ UNCHANGED pc
    /\ UNCHANGED <<cfg, started, pending, sig, sent, kv, msgs>>

\* root returns or panics: the latest deferred call runs first; when none
\* is left the process exits.
Unwind ==
    /\ pc = "unwind"
    /\ IF defers = <<>>
       THEN /\ pc' = "exited" /\ UNCHANGED <<defers, nh, servers, consumer>>
       ELSE /\ RunDeferred(Head(defers))
            /\ defers' = Tail(defers)
            /\ UNCHANGED pc
    /\ UNCHANGED <<cfg, started, pending, sig, sent, kv, msgs>>

\* SIGTERM.  Before signal.Notify it kills the process; after it, the
\* signal is buffered, or dropped when the buffer is full.
Signal ==
    /\ pc # "exited"
    /\ sent < MaxSignals
    /\ sent' = sent + 1
    /\ IF pc \in {"init", "validate", "logger"}
       THEN /\ pc' = "exited" /\ UNCHANGED sig
       ELSE /\ sig' = 1 /\ UNCHANGED pc
    /\ UNCHANGED <<cfg, defers, nh, started, pending, servers, consumer, kv, msgs>>

\* The consumer hands message (k, v) to onMessage: a nil value is a Delete
\* of the key, any other a Put.  On a stopped NodeHost the call fails.
onMessage(k, v) ==
    /\ kv' = IF nh = "up" THEN [kv EXCEPT ![k] = v] ELSE kv
    /\ msgs' = msgs + 1

Consume ==
    /\ consumer = "running"
    /\ msgs < MaxMsgs
    /\ \E k \in Keys, v \in Values \cup {Nil} : onMessage(k, v)
    /\ UNCHANGED <<pc, cfg, defers, nh, started, pending, servers, consumer, sig, sent>>

Init ==
    /\ pc = "init"
    /\ cfg \in Configs
    /\ defers = <<>>
    /\ nh = "none"
    /\ started = {}
    /\ pending = {}
    /\ servers = {}
    /\ consumer = "none"
    /\ sig = 0
    /\ sent = 0
    /\ kv = [k \in Keys |-> Nil]
    /\ msgs = 0

\* The steps of the main goroutine, but for the polling of Kafka.
Main ==
    \/ InitConfig \/ ValidateConfig \/ BuildLogger \/ NewNodeHost
    \/ StartCluster \/ WaitForClusterInit \/ Servers
    \/ NewConsumer \/ StartConsumer \/ AwaitShutdown \/ Unwind

Next ==
    \/ Main \/ WaitForKafkaInit
    \/ \E c \in Clusters : ClusterReady(c)
    \/ ServeFails \/ Signal \/ Consume

Spec == Init /\ [][Next]_vars

\* The main goroutine keeps running; Go's select picks each ready case with
\* equal probability, so a buffered signal is eventually received by a
\* select that keeps polling.  The shards, Kafka and the signal sender get
\* no fairness: a shard may stay pending and Kafka may never answer, so
\* waitForKafkaInit is only bound to move while a signal is buffered.
FairSpec ==
    /\ Spec
    /\ WF_vars(Main)
    /\ WF_vars(sig = 1 /\ WaitForKafkaInit)

-----------------------------------------------------------------------------

TypeOK ==
    /\ pc \in Phases
    /\ cfg \in Configs
    /\ nh \in {"none", "up", "stopped"}
    /\ pending \subseteq started /\ started \subseteq Clusters
    /\ servers \subseteq {"grpc", "rest"}
    /\ consumer \in {"none", "created", "running", "closed"}
    /\ sig \in {0, 1} /\ sent \in 0 .. MaxSignals
    /\ kv \in [Keys -> Values \cup {Nil}] /\ msgs \in 0 .. MaxMsgs

\* Kafka replication writes only into shards that are all initialised: the
\* consumer runs only once waitForClusterInit saw every started shard out
\* of Pending, every shard of the partitioner started, on a running
\* NodeHost; through configuration errors, panics, signals and shards
\* becoming ready in any order.
ConsumerOnlyOnReadyShards ==
    consumer = "running" =>
        /\ nh = "up"
        /\ started = Clusters
        /\ pending = {}

\* The NodeHost is stopped last: when nh.Stop runs, the Kafka consumer no
\* longer hands messages to the storage and neither server serves, by the
\* order of root's defer statements on return and on every log.Panic (or
\* because a server's panic took the whole process down).
NodeHostStoppedLast ==
    [][nh' = "stopped" => consumer' # "running" /\ servers' = {}]_vars

\* A SIGTERM received after signal.Notify ends the process: whichever of
\* the waits, the startup steps or the final <-shutdown it meets, root
\* returns and runs its deferred calls, even when a shard stays pending
\* or Kafka never reports its topics.
ShutdownTerminates ==
    (sig = 1) ~> (pc = "exited")

====
