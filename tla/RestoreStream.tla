---------------------------- MODULE RestoreStream ----------------------------
(***************************************************************************)
(* Manager.readIntoTable (storage/table/manager.go): the loop of Restore   *)
(* that reads the framed snapshot commands of a backup, gathers their      *)
(* key/values into PUT_BATCH commands of about MaxInMemLogSize/2 bytes,    *)
(* and proposes each batch to the recovering shard with SyncPropose,       *)
(* retried under exponential backoff.                                      *)
(*                                                                         *)
(* Frames are identified by their position in the stream; the backup gives *)
(* frame i the leader index i, so the leader index a batch carries names   *)
(* the last frame the stream has reached.  The shard applies a committed   *)
(* PUT_BATCH entry as FSM.Update does: it sets every key/value of the      *)
(* batch and, when the command carries a leader index, sys.leader_index.   *)
(***************************************************************************)
EXTENDS Naturals, Sequences, SequencesExt, FiniteSets, FiniteSetsExt

CONSTANTS
    MaxFrames,    \* bound on the number of frames in the backup
    FrameSizes,   \* possible byte sizes n of one reader.Read
    BatchLimit,   \* MaxInMemLogSize / 2
    MaxRetries    \* bound on failed SyncPropose attempts

VARIABLES
    input,        \* input[i]: the size of frame i of the backup stream
    pos,          \* the next frame reader.Read returns
    estimated,    \* estimatedSize
    batch,        \* batchCmd.Batch: the frames gathered so far
    batchLI,      \* batchCmd.LeaderIndex (0 = nil)
    last,         \* the reader returned io.EOF
    pending,      \* the marshalled batch being proposed (bb)
    pc,           \* "read", "propose", "done" or "failed"
    retries,      \* failed SyncPropose attempts so far
    applied,      \* the PUT_BATCH entries the shard has committed, in order
    leaderIndex   \* the shard's sys.leader_index (0 = never written)

vars == <<input, pos, estimated, batch, batchLI, last, pending, pc, retries,
          applied, leaderIndex>>

Frames == 1 .. MaxFrames
Batch == [frames : Seq(Frames), li : 0 .. MaxFrames]
NoBatch == [frames |-> <<>>, li |-> 0]

BatchSize(b) == FoldLeft(LAMBDA acc, f : acc + input[f], 0, b.frames)

\* The shard commits one PUT_BATCH entry (FSM.Update then Commit).
Commit(b) ==
    /\ applied' = Append(applied, b)
    /\ leaderIndex' = IF b.li # 0 THEN b.li ELSE leaderIndex

\* Bug variant of KeepsFrame: the threshold test made inclusive.
KeepsFrameInclusive(est) == est <= BatchLimit

\* The frame just read joins the batch (est is the estimate including it).
KeepsFrame(est) == est < BatchLimit

\* Bug variant of Flush: batchCmd.Batch is not truncated after MarshalVT.
FlushNoReset(b) ==
    /\ pending' = b
    /\ batch' = batch
    /\ batchLI' = 0
    /\ pc' = "propose"

\* The marshalled batch; the reset of batchCmd after MarshalVT.
Flush(b) ==
    /\ pending' = b
    /\ batch' = <<>>
    /\ batchLI' = 0
    /\ pc' = "propose"

-----------------------------------------------------------------------------

\* reader.Read returns the next frame: it is unmarshalled, its leader index
\* copied into batchCmd, and its key/value appended while the estimate stays
\* below the limit; otherwise the batch gathered so far is flushed.
ReadFrame ==
    /\ pc = "read"
    /\ pos <= Len(input)
    /\ LET est == estimated + input[pos] IN
       /\ estimated' = est
       /\ pos' = pos + 1
       /\ IF KeepsFrame(est)
          THEN /\ batch' = Append(batch, pos)
               /\ batchLI' = pos
               /\ UNCHANGED <<pending, pc>>
          ELSE Flush([frames |-> batch, li |-> pos])
    /\ UNCHANGED <<input, last, retries, applied, leaderIndex>>

\* reader.Read returns io.EOF: the residual batch is flushed.
ReadEOF ==
    /\ pc = "read"
    /\ pos > Len(input)
    /\ last' = TRUE
    /\ Flush([frames |-> batch, li |-> batchLI])
    /\ UNCHANGED <<input, pos, estimated, retries, applied, leaderIndex>>

\* Bug variant of ProposeOK: estimatedSize is not reset after a flush.
ProposeOKNoReset ==
    /\ pc = "propose"
    /\ Commit(pending)
    /\ pc' = IF last THEN "done" ELSE "read"
    /\ pending' = NoBatch
    /\ UNCHANGED <<input, pos, estimated, batch, batchLI, last, retries>>

\* SyncPropose succeeds: the entry is committed; the loop goes on or ends.
ProposeOK ==
    /\ pc = "propose"
    /\ Commit(pending)
    /\ estimated' = 0
    /\ pc' = IF last THEN "done" ELSE "read"
    /\ pending' = NoBatch
    /\ UNCHANGED <<input, pos, batch, batchLI, last, retries>>

\* SyncPropose times out (30s) and backoff retries it.  The proposal may
\* still have been committed: a late commit.
ProposeTimeout ==
    /\ pc = "propose"
    /\ retries < MaxRetries
    /\ retries' = retries + 1
    /\ \/ UNCHANGED <<applied, leaderIndex>>
       \/ Commit(pending)
    /\ UNCHANGED <<input, pos, estimated, batch, batchLI, last, pending, pc>>

\* ErrShardNotFound is permanent: Restore fails.
ProposeShardNotFound ==
    /\ pc = "propose"
    /\ pc' = "failed"
    /\ UNCHANGED <<input, pos, estimated, batch, batchLI, last, pending,
                   retries, applied, leaderIndex>>

Init ==
    /\ input \in UNION {[1 .. n -> FrameSizes] : n \in 0 .. MaxFrames}
    /\ pos = 1
    /\ estimated = 0
    /\ batch = <<>>
    /\ batchLI = 0
    /\ last = FALSE
    /\ pending = NoBatch
    /\ pc = "read"
    /\ retries = 0
    /\ applied = <<>>
    /\ leaderIndex = 0

Next ==
    \/ ReadFrame
    \/ ReadEOF
    \/ ProposeOK
    \/ ProposeTimeout
    \/ ProposeShardNotFound

Spec == Init /\ [][Next]_vars

-----------------------------------------------------------------------------

TypeOK ==
    /\ input \in Seq(FrameSizes) /\ Len(input) <= MaxFrames
    /\ pos \in 1 .. (Len(input) + 1)
    /\ estimated \in 0 .. (BatchLimit - 1 + Max(FrameSizes))
    /\ batch \in Seq(Frames)
    /\ batchLI \in 0 .. MaxFrames
    /\ last \in BOOLEAN
    /\ pending \in Batch
    /\ pc \in {"read", "propose", "done", "failed"}
    /\ retries \in 0 .. MaxRetries
    /\ applied \in Seq(Batch)
    /\ leaderIndex \in 0 .. MaxFrames

\* The frames the shard has applied, in order, a batch committed twice in a
\* row (a retry after a late commit) counted once.
AppliedFrames ==
    LET distinct == SelectSeq([k \in 1 .. Len(applied) |-> k],
                              LAMBDA k : k = 1 \/ applied[k] # applied[k - 1])
    IN FoldLeft(LAMBDA acc, k : acc \o applied[k].frames, <<>>, distinct)

\* Every PUT_BATCH that readIntoTable proposes stays below
\* MaxInMemLogSize/2 bytes, the bound the batching is there to keep.
ProposalBelowLimit ==
    \A k \in 1 .. Len(applied) : BatchSize(applied[k]) < BatchLimit

\* The shard applies the backup's frames in stream order and each at most
\* once, apart from a whole batch repeated by a retry after a late commit.
AppliedInStreamOrder ==
    \A i, j \in 1 .. Len(AppliedFrames) : i < j => AppliedFrames[i] < AppliedFrames[j]

\* A Restore that returns without error has written every key/value of the
\* backup into the recovering shard.
RestoreLosesNoFrame ==
    pc = "done" => ToSet(AppliedFrames) = DOMAIN input

====
