----------------------------- MODULE NetworkNode -----------------------------
(***************************************************************************)
(* The transaction path of the Go node (network/cmd/mev-node/main.go): the *)
(* mempool monitor and the block watcher feed two channels, two goroutines *)
(* merge them into the input of the pipeline, consumePipeline takes what   *)
(* the pipeline emits, and main shuts the parts down one after another.    *)
(***************************************************************************)
EXTENDS Transactions, Sequences, FiniteSets

CONSTANTS
    Txs,                                                    \* the transactions there are
    PendingTxs, FilterEnabled, MinValue, TargetSelectors, MonitorBuffer,
    HashBuffer, CoreAttached,                               \* MempoolMonitor
    Body, MaxHeight, MaxReorgs, MaxPolled, MaxLag, HeadBuffer, HeaderBuffer,
    TxBuffer, ScanSlots,                                    \* BlockWatcher
    Workers, OutputBuffer, NoTx,                            \* TxPipeline
    MergeBuffer                                             \* 10000, in mergeTxChans

VARIABLES
    ctxDone, panicked,
    pending, subscriber, hashes, txChan, processor,
    chain, reorgs, watch, heads, lastBlock, fresh, latest, headerChan, scans, blockTxChan,
    merged, outputChan, outputClosed, worker, reporter, processed, filtered, emitted,
    forwarder,  \* forwarder[f]: the transaction a goroutine of mergeTxChans holds
    consumer,   \* consumePipeline: "select", "busy" or "stopped"
    loops,      \* the gas oracle's and the RPC pool's goroutines still running
    stage,      \* where main is
    put,        \* put[f]: what was ever put into the channel of a feed (history)
    sent        \* sent[f]: what its goroutine put into the merged channel (history)

monitorVars  == <<pending, subscriber, hashes, txChan, processor>>
watcherVars  == <<chain, reorgs, watch, heads, lastBlock, fresh, latest, headerChan,
                  scans, blockTxChan>>
pipelineVars == <<outputChan, outputClosed, worker, reporter, processed, filtered, emitted>>
mainVars     == <<consumer, loops, stage>>
history      == <<put, sent>>
vars == <<ctxDone, panicked, monitorVars, watcherVars, merged, pipelineVars, forwarder,
          mainVars, history>>

Monitor  == INSTANCE MempoolMonitor
Watcher  == INSTANCE BlockWatcher
Pipeline == INSTANCE TxPipeline WITH
    inputChan <- merged, InputBuffer <- MergeBuffer, MaxInputs <- 0

Feeds == {"mempool", "block"}
FeedChan == [mempool |-> txChan, block |-> blockTxChan]

ASSUME NodeAssumption ==
    /\ PendingTxs \subseteq Txs /\ NoTx \notin Txs
    /\ {MaxHeight, MaxReorgs} \subseteq Nat
    /\ Body \in [1 .. MaxHeight -> [0 .. MaxReorgs -> Seq(Txs)]]
    /\ {MonitorBuffer, HashBuffer, HeadBuffer, HeaderBuffer, TxBuffer, OutputBuffer,
        MergeBuffer} \subseteq Nat
    /\ CoreAttached \in BOOLEAN /\ IsFiniteSet(Workers)

Init ==
    /\ Monitor!Init /\ Watcher!Init
    /\ merged = <<>> /\ Pipeline!InitPipeline
    /\ forwarder = [f \in Feeds |-> NoTx]
    /\ consumer = "select"
    /\ loops = {"oracle", "health"}
    /\ stage = "running"
    /\ put = [f \in Feeds |-> <<>>] /\ sent = [f \in Feeds |-> <<>>]

(* A history h of what feed f put into a channel that was chan and is new. *)
Logged(h, f, chan, new) ==
    IF Len(new) > Len(chan) THEN [h EXCEPT ![f] = Append(@, new[Len(new)])] ELSE h

MonitorStep ==
    /\ \/ \E tx \in PendingTxs : Monitor!Announce(tx)
       \/ Monitor!SubscriberStep
       \/ Monitor!ProcessorStep
    /\ put' = Logged(put, "mempool", txChan, txChan')
    /\ UNCHANGED <<watcherVars, merged, pipelineVars, forwarder, mainVars, sent>>

WatcherStep ==
    /\ Watcher!ChainStep \/ Watcher!WatchStep \/ \E i \in DOMAIN scans : Watcher!ScanStep(i)
    /\ put' = Logged(put, "block", blockTxChan, blockTxChan')
    /\ UNCHANGED <<panicked, monitorVars, merged, pipelineVars, forwarder, mainVars, sent>>

PipelineStep ==
    /\ Pipeline!ReporterStops \/ \E w \in Workers : Pipeline!WorkerStep(w)
    /\ UNCHANGED <<panicked, monitorVars, watcherVars, forwarder, mainVars, history>>

(* A goroutine of mergeTxChans: it takes from its feed and sends, waiting  *)
(* for room.                                                               *)
ForwardTakes(f) ==
    /\ forwarder[f] = NoTx /\ FeedChan[f] # <<>>
    /\ forwarder' = [forwarder EXCEPT ![f] = Head(FeedChan[f])]
    /\ txChan' = IF f = "mempool" THEN Tail(txChan) ELSE txChan
    /\ blockTxChan' = IF f = "block" THEN Tail(blockTxChan) ELSE blockTxChan
    /\ UNCHANGED <<ctxDone, panicked, pending, subscriber, hashes, processor,
                   chain, reorgs, watch, heads, lastBlock, fresh, latest, headerChan, scans,
                   merged, pipelineVars, mainVars, history>>

(* Mutant: a full merged channel loses the transaction.                    *)
ForwardSendDrops(f) ==
    /\ forwarder[f] # NoTx
    /\ forwarder' = [forwarder EXCEPT ![f] = NoTx]
    /\ merged' = IF Len(merged) < MergeBuffer THEN Append(merged, forwarder[f]) ELSE merged
    /\ sent' = Logged(sent, f, merged, merged')
    /\ UNCHANGED <<put, ctxDone, panicked, monitorVars, watcherVars, pipelineVars, mainVars>>

ForwardSends(f) ==
    /\ forwarder[f] # NoTx /\ Len(merged) < MergeBuffer
    /\ forwarder' = [forwarder EXCEPT ![f] = NoTx]
    /\ merged' = Append(merged, forwarder[f])
    /\ sent' = Logged(sent, f, merged, merged')
    /\ UNCHANGED <<put, ctxDone, panicked, monitorVars, watcherVars, pipelineVars, mainVars>>

(* consumePipeline; what it does with a transaction is in BundleExecution. *)
ConsumerTakes ==
    /\ consumer = "select" /\ outputChan # <<>>
    /\ outputChan' = Tail(outputChan)
    /\ consumer' = "busy"
    /\ UNCHANGED <<ctxDone, panicked, monitorVars, watcherVars, merged, outputClosed, worker,
                   reporter, processed, filtered, emitted, forwarder, loops, stage, history>>

ConsumerDone ==
    /\ \/ consumer = "busy" /\ consumer' = "select"
       \/ consumer = "select" /\ (ctxDone \/ (outputClosed /\ outputChan = <<>>))
          /\ consumer' = "stopped"
    /\ UNCHANGED <<ctxDone, panicked, monitorVars, watcherVars, merged, pipelineVars,
                   forwarder, loops, stage, history>>

(* trackLoop takes a header; it and healthCheckLoop end with the context.  *)
OracleReads ==
    /\ "oracle" \in loops /\ headerChan # <<>>
    /\ headerChan' = Tail(headerChan)
    /\ UNCHANGED <<ctxDone, panicked, monitorVars, chain, reorgs, watch, heads, lastBlock,
                   fresh, latest, scans, blockTxChan, merged, pipelineVars, forwarder,
                   mainVars, history>>

LoopStops(l) ==
    /\ l \in loops /\ ctxDone
    /\ loops' = loops \ {l}
    /\ UNCHANGED <<ctxDone, panicked, monitorVars, watcherVars, merged, pipelineVars,
                   forwarder, consumer, stage, history>>

-----------------------------------------------------------------------------
(* Mutant: the root context is not cancelled.                              *)
SignalNoCancel ==
    /\ stage = "running"
    /\ stage' = "stopPipeline"
    /\ UNCHANGED <<ctxDone, panicked, monitorVars, watcherVars, merged, pipelineVars, forwarder,
                   consumer, loops, history>>

(* main after the signal: cancel, then Stop of each part in turn; each     *)
(* waits for the goroutines of its part, whatever shutdownCtx says.        *)
Signal ==
    /\ stage = "running"
    /\ ctxDone' = TRUE
    /\ stage' = "stopPipeline"
    /\ UNCHANGED <<panicked, monitorVars, watcherVars, merged, pipelineVars, forwarder,
                   consumer, loops, history>>

(* Mutant: Stop does not wait for the workers.                             *)
StopPipelineNoWait ==
    /\ stage = "stopPipeline"
    /\ outputClosed' = TRUE
    /\ stage' = "stopMonitor"
    /\ UNCHANGED <<ctxDone, panicked, monitorVars, watcherVars, merged, outputChan, worker, reporter,
                   processed, filtered, emitted, forwarder, consumer, loops, history>>

StopPipeline ==
    /\ stage = "stopPipeline"
    /\ Pipeline!Close
    /\ stage' = "stopMonitor"
    /\ UNCHANGED <<panicked, monitorVars, watcherVars, forwarder, consumer, loops, history>>

StopNext ==
    /\ \/ stage = "stopMonitor" /\ Monitor!Stopped /\ stage' = "stopOracle"
       \/ stage = "stopOracle" /\ "oracle" \notin loops /\ stage' = "stopWatcher"
       \/ stage = "stopWatcher" /\ Watcher!Stopped /\ stage' = "stopRelayAndPool"
       \/ stage = "stopRelayAndPool" /\ "health" \notin loops /\ stage' = "exited"
    /\ UNCHANGED <<ctxDone, panicked, monitorVars, watcherVars, merged, pipelineVars,
                   forwarder, consumer, loops, history>>

Main == Signal \/ StopPipeline \/ StopNext

Next ==
    /\ ~panicked /\ stage # "exited"
    /\ \/ MonitorStep \/ WatcherStep \/ PipelineStep
       \/ \E f \in Feeds : ForwardTakes(f) \/ ForwardSends(f)
       \/ ConsumerTakes \/ ConsumerDone
       \/ OracleReads \/ \E l \in loops : LoopStops(l)
       \/ Main

Spec == Init /\ [][Next]_vars

(* Goroutines that can run do, but only a cancelled context ends a         *)
(* subscription or a poll for certain, and nothing forces the signal.      *)
Alive(A) == ~panicked /\ stage # "exited" /\ A
Fairness ==
    /\ WF_vars(Alive(ctxDone /\ MonitorStep /\ (Monitor!Subscribe \/ Monitor!SubscriptionEnds)))
    /\ WF_vars(Alive(MonitorStep /\ Monitor!ProcessorStops))
    /\ WF_vars(Alive(ctxDone /\ WatcherStep
                     /\ (Watcher!Subscribe \/ Watcher!SubscriptionEnds \/ Watcher!PollCancelled)))
    /\ \A w \in Workers : WF_vars(Alive(PipelineStep /\ Pipeline!WorkerStep(w)))
    /\ WF_vars(Alive(PipelineStep /\ Pipeline!ReporterStops))
    /\ \A f \in Feeds : WF_vars(Alive(ForwardTakes(f) \/ ForwardSends(f)))
    /\ \A l \in {"oracle", "health"} : WF_vars(Alive(LoopStops(l)))
    /\ WF_vars(Alive(StopPipeline \/ StopNext))

FairSpec == Spec /\ Fairness

-----------------------------------------------------------------------------
(* The variables of the parts, and those the composition adds, have their  *)
(* types.                                                                  *)
TypeOK ==
    /\ Monitor!TypeOK /\ Watcher!TypeOK /\ Pipeline!TypeOK
    /\ forwarder \in [Feeds -> Txs \cup {NoTx}]
    /\ consumer \in {"select", "busy", "stopped"}
    /\ loops \subseteq {"oracle", "health"}
    /\ stage \in {"running", "stopPipeline", "stopMonitor", "stopOracle", "stopWatcher",
                  "stopRelayAndPool", "exited"}
    /\ put \in [Feeds -> Seq(Txs)] /\ sent \in [Feeds -> Seq(Txs)]

(* The root context is cancelled from the signal on, and main leaves Stop  *)
(* of the pipeline only when its channel is closed.                        *)
StageInv ==
    /\ ctxDone <=> stage # "running"
    /\ stage \notin {"running", "stopPipeline"} => outputClosed

Held(f) == IF forwarder[f] = NoTx THEN <<>> ELSE <<forwarder[f]>>
Arrives(f) == sent[f] \o Held(f) \o FeedChan[f] = put[f]

(* What a scan puts into the block feed reaches the pipeline's input       *)
(* complete, in order and once, with any interleaving of the two feeds.    *)
BlockFeedArrives == Arrives("block")

(* The node is well formed, its watcher knows the tip while the parts run  *)
(* together and are stopped one after another, and its block feed loses    *)
(* and repeats nothing on the way through the merge.                       *)
NodeInv == TypeOK /\ StageInv /\ Watcher!WatcherInv /\ BlockFeedArrives

(* "Merge tx feeds: mempool pending txs + block-extracted txs": the same   *)
(* of what the monitor puts into the mempool feed.                         *)
MempoolFeedArrives == Arrives("mempool")

(* Once main has left Stop of the pipeline, nothing is classified or       *)
(* emitted any more, although both feeds may still be delivering.          *)
PipelineQuietAfterStop ==
    [][stage \notin {"running", "stopPipeline"} =>
        UNCHANGED <<processed, filtered, emitted>>]_vars

(* A signal is followed by the end of the process: no Stop waits for ever. *)
ShutdownCompletes == stage = "stopPipeline" ~> stage = "exited"
=============================================================================
