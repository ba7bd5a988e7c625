----------------------------- MODULE TxPipeline -----------------------------
(***************************************************************************)
(* network/internal/pipeline/pipeline.go: the workers that classify the    *)
(* transactions of the input channel and emit the interesting ones, their  *)
(* two counters, and Stop, which closes the output channel.                *)
(***************************************************************************)
EXTENDS Transactions, Sequences, FiniteSets

CONSTANTS
    Workers,        \* Config.Workers, as a set
    OutputBuffer,   \* Config.BufferSize
    Txs,            \* the transactions there are
    InputBuffer,    \* bound: the input channel, when the pipeline is run alone
    MaxInputs,      \* bound: how many arrive
    NoTx

VARIABLES
    ctxDone,        \* the root context is cancelled
    inputChan,      \* Pipeline.inputChan
    outputChan,     \* Pipeline.outputChan
    outputClosed,
    worker,         \* worker[w]: where the worker is, and its transaction
    reporter,       \* statsReporter: "running" or "stopped"
    processed, filtered,   \* the atomic counters
    emitted         \* how many transactions were sent, and dropped (history)

vars == <<ctxDone, inputChan, outputChan, outputClosed, worker, reporter,
          processed, filtered, emitted>>

InitPipeline ==
    /\ outputChan = <<>>
    /\ outputClosed = FALSE
    /\ worker = [w \in Workers |-> [at |-> "select", tx |-> NoTx]]
    /\ reporter = "running"
    /\ processed = 0
    /\ filtered = 0
    /\ emitted = [sent |-> 0, dropped |-> 0]

WorkerAt(w, label, tx) == worker' = [worker EXCEPT ![w] = [at |-> label, tx |-> tx]]
Idle(w) == WorkerAt(w, "select", NoTx)

WorkerTakes(w) ==
    /\ worker[w].at = "select" /\ inputChan # <<>>
    /\ WorkerAt(w, "classify", Head(inputChan))
    /\ inputChan' = Tail(inputChan)
    /\ UNCHANGED <<ctxDone, outputChan, outputClosed, reporter, processed, filtered, emitted>>

WorkerStops(w) ==
    /\ worker[w].at = "select" /\ ctxDone
    /\ WorkerAt(w, "stopped", NoTx)
    /\ UNCHANGED <<ctxDone, inputChan, outputChan, outputClosed, reporter,
                   processed, filtered, emitted>>

(* Stage 1 of processTx, up to processed.Add, and the test of stage 2.     *)
Classify(w) ==
    /\ worker[w].at = "classify"
    /\ processed' = processed + 1
    /\ IF Interesting(worker[w].tx) THEN WorkerAt(w, "count", worker[w].tx) ELSE Idle(w)
    /\ UNCHANGED <<ctxDone, inputChan, outputChan, outputClosed, reporter, filtered, emitted>>

(* filtered.Add and stage 3, which decodes the swap for the record sent.   *)
Count(w) ==
    /\ worker[w].at = "count"
    /\ filtered' = filtered + 1
    /\ WorkerAt(w, "emit", worker[w].tx)
    /\ UNCHANGED <<ctxDone, inputChan, outputChan, outputClosed, reporter, processed, emitted>>

(* The send that does not block.                                           *)
Emit(w) ==
    /\ worker[w].at = "emit"
    /\ IF Len(outputChan) < OutputBuffer
       THEN /\ outputChan' = Append(outputChan, worker[w].tx)
            /\ emitted' = [emitted EXCEPT !.sent = @ + 1]
       ELSE /\ emitted' = [emitted EXCEPT !.dropped = @ + 1]
            /\ UNCHANGED outputChan
    /\ Idle(w)
    /\ UNCHANGED <<ctxDone, inputChan, outputClosed, reporter, processed, filtered>>

ReporterStops ==
    /\ reporter = "running" /\ ctxDone
    /\ reporter' = "stopped"
    /\ UNCHANGED <<ctxDone, inputChan, outputChan, outputClosed, worker, processed,
                   filtered, emitted>>

(* Mutant: the channel is closed without waiting for the workers.          *)
CloseEarly ==
    /\ reporter = "stopped"
    /\ outputClosed' = TRUE
    /\ UNCHANGED <<ctxDone, inputChan, outputChan, worker, reporter, processed, filtered, emitted>>

(* The end of Stop: the wait group is down, the output is closed.          *)
Close ==
    /\ reporter = "stopped" /\ \A w \in Workers : worker[w].at = "stopped"
    /\ outputClosed' = TRUE
    /\ UNCHANGED <<ctxDone, inputChan, outputChan, worker, reporter, processed, filtered, emitted>>

WorkerStep(w) == WorkerTakes(w) \/ WorkerStops(w) \/ Classify(w) \/ Count(w) \/ Emit(w)

-----------------------------------------------------------------------------
(* The pipeline by itself: transactions arrive, the consumer takes what is *)
(* emitted, and main cancels and stops.                                    *)
AtStage(label) == {w \in Workers : worker[w].at = label}
Taken == processed + Cardinality(AtStage("classify"))

Arrive(tx) ==
    /\ Len(inputChan) < InputBuffer /\ Taken + Len(inputChan) < MaxInputs
    /\ inputChan' = Append(inputChan, tx)
    /\ UNCHANGED <<ctxDone, outputChan, outputClosed, worker, reporter, processed,
                   filtered, emitted>>

Consume ==
    /\ outputChan # <<>>
    /\ outputChan' = Tail(outputChan)
    /\ UNCHANGED <<ctxDone, inputChan, outputClosed, worker, reporter, processed,
                   filtered, emitted>>

Cancel ==
    /\ ~ctxDone
    /\ ctxDone' = TRUE
    /\ UNCHANGED <<inputChan, outputChan, outputClosed, worker, reporter, processed,
                   filtered, emitted>>

Next ==
    \/ \E w \in Workers : WorkerStep(w)
    \/ ReporterStops
    \/ ctxDone /\ ~outputClosed /\ Close
    \/ \E tx \in Txs : Arrive(tx)
    \/ Consume \/ Cancel

Init == ctxDone = FALSE /\ inputChan = <<>> /\ InitPipeline

Spec == Init /\ [][Next]_vars

(* The variables have their types; a worker holds a transaction exactly    *)
(* while it works on one.                                                  *)
TypeOK ==
    /\ ctxDone \in BOOLEAN /\ outputClosed \in BOOLEAN
    /\ inputChan \in Seq(Txs) /\ Len(inputChan) <= InputBuffer
    /\ outputChan \in Seq(Txs) /\ Len(outputChan) <= OutputBuffer
    /\ worker \in [Workers -> [at : {"select", "classify", "count", "emit", "stopped"},
                               tx : Txs \cup {NoTx}]]
    /\ \A w \in Workers : worker[w].tx = NoTx <=> worker[w].at \in {"select", "stopped"}
    /\ reporter \in {"running", "stopped"}
    /\ processed \in Nat /\ filtered \in Nat
    /\ emitted \in [sent : Nat, dropped : Nat]

(* No worker sends on the closed channel, which would panic.               *)
NoSendOnClosed == outputClosed => \A w \in Workers : worker[w].at = "stopped"

(* The counters tell the truth at every moment: what was filtered is what  *)
(* was sent, dropped or is about to be, and never more than was processed. *)
CountersAgree ==
    /\ filtered = emitted.sent + emitted.dropped + Cardinality(AtStage("emit"))
    /\ filtered + Cardinality(AtStage("count")) <= processed

(* The pipeline is sound while it runs and while it stops: nobody sends on *)
(* its closed channel, and its counters account for every transaction.     *)
PipelineInv == TypeOK /\ NoSendOnClosed /\ CountersAgree
=============================================================================
