------------------------------ MODULE MCParts ------------------------------
(***************************************************************************)
(* Three parts that are checked by themselves under one run: the feeds of  *)
(* the Go node (both with a transaction each, or the block feed alone with *)
(* two), its pipeline with three workers, and the memory pool of the C     *)
(* fast path.  A behaviour exercises one of them, and the variables of the *)
(* others keep their initial values.                                       *)
(***************************************************************************)
EXTENDS MCNetworkNode

CONSTANTS LoneWorkers, PoolThreads

VARIABLES
    part,
    loneDone, loneIn, loneOut, loneClosed, loneWorker, loneReporter, loneProcessed,
    loneFiltered, loneEmitted,
    poolBlocks, poolHead, poolTail, poolCount, poolLive, poolPc, poolH, poolTl, poolWant,
    poolPtrs, poolPuts, poolOwned

loneVars == <<loneDone, loneIn, loneOut, loneClosed, loneWorker, loneReporter, loneProcessed,
              loneFiltered, loneEmitted>>
poolVars == <<poolBlocks, poolHead, poolTail, poolCount, poolLive, poolPc, poolH, poolTl, poolWant,
              poolPtrs, poolPuts, poolOwned>>

Blocks == INSTANCE NetworkNode WITH PendingTxs <- {}, Body <- BodySwapApprove

(* The inputs: a swap, an approval, and a call with an unknown selector.   *)
Lone == INSTANCE TxPipeline WITH
            Workers <- LoneWorkers, OutputBuffer <- 1, InputBuffer <- 2, MaxInputs <- 4,
            Txs <- {[sel |-> s] : s \in {"exactInputSingle", "approve", "mint"}},
            ctxDone <- loneDone, inputChan <- loneIn, outputChan <- loneOut,
            outputClosed <- loneClosed, worker <- loneWorker, reporter <- loneReporter,
            processed <- loneProcessed, filtered <- loneFiltered, emitted <- loneEmitted

Pool == INSTANCE MemoryPool WITH
            Threads <- PoolThreads, MaxBlocks <- 2, InitialBlocks <- 1, UIntModulus <- 4,
            MaxLive <- 2, MaxBatch <- 2, blocks <- poolBlocks, head <- poolHead,
            tail <- poolTail, count <- poolCount, live <- poolLive, pc <- poolPc, h <- poolH,
            tl <- poolTl, want <- poolWant, ptrs <- poolPtrs, puts <- poolPuts,
            owned <- poolOwned

ASSUME Pool!PoolAssumption

PartsInit ==
    /\ part \in {"node", "blocks", "pipeline", "pool"}
    /\ IF part = "blocks" THEN Blocks!Init ELSE Init
    /\ Lone!Init /\ Pool!Init

PartsNext ==
    \/ part = "node" /\ Next /\ UNCHANGED <<part, loneVars, poolVars>>
    \/ part = "blocks" /\ Blocks!Next /\ UNCHANGED <<part, loneVars, poolVars>>
    \/ part = "pipeline" /\ Lone!Next /\ UNCHANGED <<part, vars, poolVars>>
    \/ part = "pool" /\ Pool!SerialNext /\ UNCHANGED <<part, vars, loneVars>>

PartsSpec == PartsInit /\ [][PartsNext]_<<part, vars, loneVars, poolVars>>

(* The invariants of TxPipeline and MemoryPool.                            *)
PipelineInv == Lone!PipelineInv
PoolInv     == Pool!PoolInv
=============================================================================
