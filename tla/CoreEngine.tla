----------------------------- MODULE CoreEngine -----------------------------
(***************************************************************************)
(* The mev-engine binary, core/src/main.rs, with the WebSocket monitors of *)
(* core/src/mempool/ultra_ws.rs: the monitor task batches what the socket  *)
(* delivers and forwards it over an unbounded channel to the main loop, a  *)
(* block tracker task polls RPC endpoints and classifies the transactions  *)
(* of every new block, both count into the same metrics, and Ctrl-C ends   *)
(* the main loop and with it the runtime.  mode selects the monitor: the   *)
(* hash-only one main starts, or the enhanced one with full transactions.  *)
(*                                                                         *)
(* A hash is a number, calldata its selector, length and the state of its  *)
(* path words.  Latency histograms, gas gauges and log lines are left out. *)
(***************************************************************************)
EXTENDS Integers, Sequences, FiniteSets, SequencesExt, FiniteSetsExt

CONSTANTS
    Wires,          \* [mode -> set of message sequences the socket may deliver]
    BatchSize,      \* config.batch_size (32)
    Providers,      \* number of RPC endpoints
    Downs,          \* the sets of endpoints that may be down for good
    Blocks,         \* the transactions of each block, by number
    MaxErrors       \* bound on the errors of the endpoints that do answer

VARIABLES
    mode,
    wire,           \* [rest, open]: messages to come, and whether the stream lives
    monitor,        \* [pc, pending]
    mstats,         \* [received, parsed]: MempoolStats
    arrived,        \* every hash the monitor took from the wire (history)
    channel,        \* tx_sender to tx_receiver
    main,           \* "listening" in its select, "handling" a transaction, or "ended"
    handled,        \* what the main loop received (history)
    shutdown,       \* the shutdown task: "waiting" for Ctrl-C, or "stopped"
    head,           \* the chain's latest block
    down,           \* the endpoints that never answer
    view,           \* [endpoint -> the latest block it serves]
    tracker,        \* [pc, idx, prev, healthy, block]
    errors,         \* errors of endpoints outside down so far
    rotated,        \* some request failed (history)
    blocksDone,     \* the numbers of the blocks processed, in order
    metrics         \* [received, processed, classified, found, filtered]

feed == <<mode, wire, monitor, mstats, arrived, channel>>
loop == <<main, handled, shutdown>>
chain == <<head, down, view, tracker, errors, rotated, blocksDone>>
vars == <<feed, loop, chain, metrics>>

Classes == {"swap_v2", "swap_v3", "transfer", "unknown"}
Running == main # "ended"

Init ==
    /\ mode \in DOMAIN Wires
    /\ wire \in [rest : Wires[mode], open : {TRUE}]
    /\ monitor = [pc |-> "connect", pending |-> <<>>]
    /\ mstats = [received |-> 0, parsed |-> 0]
    /\ arrived = <<>> /\ channel = <<>>
    /\ main = "listening" /\ handled = <<>>
    /\ shutdown = "waiting"
    /\ head = 1 /\ down \in Downs /\ view = [p \in 0..(Providers - 1) |-> 1]
    /\ tracker = [pc |-> "poll", idx |-> 0, prev |-> 0, healthy |-> Providers, block |-> 0]
    /\ errors = 0 /\ rotated = FALSE /\ blocksDone = <<>>
    /\ metrics = [received |-> 0, processed |-> 0, classified |-> [c \in Classes |-> 0],
                  found |-> 0, filtered |-> 0]

---------------------------------------------------------------------------
(* The monitor task. *)

LikelySwaps == {"swapExactTokensForTokens", "swapExactETHForTokens", "swapExactTokensForETH",
                "exactInput", "exactInputTuple", "exactInputSingle", "execute",
                "executeDeadline"}
is_likely_swap(tx) == tx.len >= 4 /\ tx.sel \in LikelySwaps

\* The shortest calldata each decoded layout accepts.
MinLength(sel) ==
    CASE sel \in {"swapExactTokensForTokens", "swapExactTokensForETH"} -> 164
      [] sel = "swapExactETHForTokens" -> 132
      [] sel = "exactInputSingle" -> 260
      [] OTHER -> 0

\* "some", "none", or "panics": as_usize of an offset beyond usize.
parse_swap_fast(tx) ==
    IF tx.len < 68 \/ MinLength(tx.sel) \notin 1..tx.len THEN "none"
    ELSE IF tx.sel = "exactInputSingle" THEN "some"
    ELSE tx.path

Connect ==
    /\ Running /\ monitor.pc = "connect"
    /\ \E pc \in {"loop", "ended"} : monitor' = [monitor EXCEPT !.pc = pc]
    /\ UNCHANGED <<loop, chain, metrics, mode, wire, mstats, arrived, channel>>

Item(id, swap) == [id |-> id, is_swap |-> swap]

\* process_batch forwards every hash as a transaction that is no swap.
Batch(hashes) == [k \in DOMAIN hashes |-> Item(hashes[k], FALSE)]

\* Mutant: the hash that fills a batch is lost.
ReadHashLate(msg) ==
    /\ arrived' = Append(arrived, msg.id)
    /\ IF Len(monitor.pending) + 1 >= BatchSize
       THEN /\ channel' = channel \o Batch(monitor.pending)
            /\ mstats' = [received |-> mstats.received + 1,
                          parsed |-> mstats.parsed + Len(monitor.pending)]
            /\ monitor' = [monitor EXCEPT !.pending = <<>>]
       ELSE /\ monitor' = [monitor EXCEPT !.pending = Append(@, msg.id)]
            /\ mstats' = [mstats EXCEPT !.received = @ + 1]
            /\ UNCHANGED channel

ReadHash(msg) ==
    LET pending == Append(monitor.pending, msg.id) IN
    /\ arrived' = Append(arrived, msg.id)
    /\ IF Len(pending) >= BatchSize
       THEN /\ channel' = channel \o Batch(pending)
            /\ mstats' = [received |-> mstats.received + 1,
                          parsed |-> mstats.parsed + Len(pending)]
            /\ monitor' = [monitor EXCEPT !.pending = <<>>]
       ELSE /\ monitor' = [monitor EXCEPT !.pending = pending]
            /\ mstats' = [mstats EXCEPT !.received = @ + 1]
            /\ UNCHANGED channel

\* One message in start(): an error ends the task with whatever is pending; binary
\* frames, pings and texts without a hash change nothing else.
ReadStart(msg) ==
    \/ msg.kind = "hash" /\ ReadHash(msg)
    \/ /\ msg.kind = "text"
       /\ mstats' = [mstats EXCEPT !.received = @ + 1]
       /\ UNCHANGED <<monitor, arrived, channel>>
    \/ /\ msg.kind \in {"binary", "ping"} /\ UNCHANGED <<monitor, mstats, arrived, channel>>
    \/ /\ msg.kind = "error" /\ monitor' = [monitor EXCEPT !.pc = "ended"]
       /\ UNCHANGED <<mstats, arrived, channel>>

\* One message in start_enhanced(): whatever is no full transaction is skipped,
\* errors included; a panic ends the task.
ReadEnhanced(msg) ==
    \/ /\ msg.kind = "tx" /\ is_likely_swap(msg.tx) /\ parse_swap_fast(msg.tx) = "panics"
       /\ monitor' = [monitor EXCEPT !.pc = "ended"]
       /\ UNCHANGED <<mstats, arrived, channel>>
    \/ /\ msg.kind = "tx"
       /\ is_likely_swap(msg.tx) => parse_swap_fast(msg.tx) # "panics"
       /\ channel' = Append(channel, Item(msg.id, is_likely_swap(msg.tx)))
       /\ arrived' = Append(arrived, msg.id)
       /\ UNCHANGED <<monitor, mstats>>
    \/ /\ msg.kind # "tx" /\ UNCHANGED <<monitor, mstats, arrived, channel>>

Read ==
    /\ Running /\ monitor.pc = "loop" /\ wire.open /\ wire.rest # <<>>
    /\ wire' = [wire EXCEPT !.rest = Tail(@)]
    /\ IF mode = "hashes" THEN ReadStart(Head(wire.rest)) ELSE ReadEnhanced(Head(wire.rest))
    /\ UNCHANGED <<loop, chain, metrics, mode>>

\* The peer closes the stream: next() answers None from then on, which disables the
\* branch of the select and makes the enhanced monitor spin; neither ends.
Close ==
    /\ wire.open /\ wire' = [wire EXCEPT !.open = FALSE]
    /\ UNCHANGED <<loop, chain, metrics, mode, monitor, mstats, arrived, channel>>

\* The 100 microsecond branch of the select: a partial batch is processed.
TimerFlush ==
    /\ Running /\ mode = "hashes" /\ monitor.pc = "loop"
    /\ monitor.pending # <<>>
    /\ channel' = channel \o Batch(monitor.pending)
    /\ mstats' = [mstats EXCEPT !.parsed = @ + Len(monitor.pending)]
    /\ monitor' = [monitor EXCEPT !.pending = <<>>]
    /\ UNCHANGED <<loop, chain, metrics, mode, wire, arrived>>

---------------------------------------------------------------------------
(* The main loop. *)

\* The receive branch: the first counter, then the rest of the handler.
Receive ==
    /\ main = "listening" /\ channel # <<>>
    /\ main' = "handling"
    /\ channel' = Tail(channel)
    /\ handled' = Append(handled, Head(channel))
    /\ metrics' = [metrics EXCEPT !.received = @ + 1]
    /\ UNCHANGED <<chain, mode, wire, monitor, mstats, arrived, shutdown>>

Handle ==
    /\ main = "handling" /\ main' = "listening"
    /\ metrics' = [metrics EXCEPT !.processed = @ + 1,
                                  !.found = @ + (IF Last(handled).is_swap THEN 1 ELSE 0),
                                  !.filtered = @ + (IF Last(handled).is_swap THEN 1 ELSE 0)]
    /\ UNCHANGED <<feed, chain, handled, shutdown>>

\* Ctrl-C wakes the listeners there are: the shutdown task, which stops the engine
\* nobody started, and the main loop only while it waits in its select: the
\* ctrl_c() future of the last round is gone while a transaction is handled.
CtrlC ==
    /\ Running
    /\ shutdown' = "stopped"
    /\ main' = IF main = "listening" THEN "ended" ELSE main
    /\ UNCHANGED <<feed, chain, handled, metrics>>

---------------------------------------------------------------------------
(* The chain, its endpoints, and the block tracker task. *)

Mine ==
    /\ head < Len(Blocks) /\ head' = head + 1
    /\ UNCHANGED <<feed, loop, metrics, down, view, tracker, errors, rotated, blocksDone>>

\* An endpoint catches up with the chain, each at its own pace.
Sync(p) ==
    /\ view[p] < head /\ view' = [view EXCEPT ![p] = head]
    /\ UNCHANGED <<feed, loop, metrics, head, down, tracker, errors, rotated, blocksDone>>

V2Swaps == {"swapExactTokensForTokens", "swapTokens", "swapExactETHForTokens",
            "swapExactTokensForETH"}
V3Swaps == {"exactInput", "exactInputSingle", "multicall", "multicallDeadline"}

classify_tx(tx) ==
    CASE tx.len >= 4 /\ tx.sel \in V2Swaps -> "swap_v2"
      [] tx.len >= 4 /\ tx.sel \in V3Swaps -> "swap_v3"
      [] tx.len >= 4 /\ tx.sel = "transfer" -> "transfer"
      [] tx.len >= 4 /\ tx.sel = "approve" -> "unknown"
      [] OTHER -> IF tx.value > 0 THEN "transfer" ELSE "unknown"

InClass(txs, classes) == Cardinality({k \in DOMAIN txs : classify_tx(txs[k]) \in classes})
Swaps(txs) == InClass(txs, {"swap_v2", "swap_v3"})

\* Mutant: any block answered counts as new.
IsNewAlways(num) == tracker.prev > 0

\* The first block only sets prev_block.
IsNew(num) == num # tracker.prev /\ tracker.prev > 0

\* An answer with a block; None changes nothing and needs no step.
Answer ==
    LET num == view[tracker.idx]
        txs == Blocks[num]
    IN /\ Running /\ tracker.pc = "poll" /\ tracker.idx \notin down
       /\ tracker' = [tracker EXCEPT !.prev = num, !.block = num,
                                     !.pc = IF IsNew(num) THEN "processed" ELSE "poll"]
       /\ IF IsNew(num)
          THEN /\ blocksDone' = Append(blocksDone, num)
               /\ metrics' = [metrics EXCEPT
                     !.classified = [c \in Classes |-> @[c] + InClass(txs, {c})],
                     !.found = @ + Swaps(txs), !.filtered = @ + Swaps(txs)]
          ELSE UNCHANGED <<blocksDone, metrics>>
       /\ UNCHANGED <<feed, loop, head, down, view, errors, rotated>>

\* The two counters of a whole block are added one after the other.
AddProcessed ==
    /\ Running /\ tracker.pc = "processed" /\ tracker' = [tracker EXCEPT !.pc = "received"]
    /\ metrics' = [metrics EXCEPT !.processed = @ + Len(Blocks[tracker.block])]
    /\ UNCHANGED <<feed, loop, head, down, view, errors, rotated, blocksDone>>

AddReceived ==
    /\ Running /\ tracker.pc = "received" /\ tracker' = [tracker EXCEPT !.pc = "poll"]
    /\ metrics' = [metrics EXCEPT !.received = @ + Len(Blocks[tracker.block])]
    /\ UNCHANGED <<feed, loop, head, down, view, errors, rotated, blocksDone>>

Larger(a, b) == IF a >= b THEN a ELSE b

\* Mutant: an error leaves the endpoint as it is.
RotateNot == [tracker EXCEPT !.healthy = Larger(@ - 1, 1)]

\* Err: the next endpoint, and one less that counts as healthy; the count never
\* rises again.
Rotate ==
    [tracker EXCEPT !.idx = (@ + 1) % Providers, !.healthy = Larger(@ - 1, 1)]

Fail ==
    /\ Running /\ tracker.pc = "poll"
    /\ \/ tracker.idx \in down /\ UNCHANGED errors
       \/ tracker.idx \notin down /\ errors < MaxErrors /\ errors' = errors + 1
    /\ tracker' = Rotate /\ rotated' = TRUE
    /\ UNCHANGED <<feed, loop, metrics, head, down, view, blocksDone>>

Track == Answer \/ AddProcessed \/ AddReceived \/ (tracker.idx \in down /\ Fail)

Next ==
    \/ Connect \/ Read \/ Close \/ TimerFlush
    \/ Receive \/ Handle \/ CtrlC
    \/ Mine \/ (\E p \in DOMAIN view : Sync(p))
    \/ Answer \/ AddProcessed \/ AddReceived \/ Fail

Spec == Init /\ [][Next]_vars

\* The tasks of the runtime are scheduled, the connection attempt returns, and
\* endpoints follow the chain.  Nothing obliges a message, a block, an error of an
\* endpoint that answers, or Ctrl-C to come.
Fairness ==
    /\ WF_vars(Connect) /\ WF_vars(TimerFlush)
    /\ WF_vars(Receive) /\ WF_vars(Handle)
    /\ WF_vars(Track) /\ \A p \in 0..(Providers - 1) : WF_vars(Sync(p))

FairSpec == Spec /\ Fairness

---------------------------------------------------------------------------
(* Properties. *)

\* Every reachable state has the shape the source's types give it; the healthy
\* endpoint gauge stays between one and their number, and a batch never outgrows
\* its size.
TypeOK ==
    /\ monitor.pc \in {"connect", "loop", "ended"} /\ Len(monitor.pending) < BatchSize
    /\ main \in {"listening", "handling", "ended"}
    /\ tracker.pc \in {"poll", "processed", "received"}
    /\ tracker.idx \in DOMAIN view /\ tracker.healthy \in 1..Providers

Ids(items) == [k \in DOMAIN items |-> items[k].id]

\* What the monitor took from the socket reaches the main loop once and in order:
\* handled, queued and pending together are what arrived, and only a batch that was
\* pending when the task ended is lost.
ForwardedInOrder ==
    Ids(handled) \o Ids(channel) \o monitor.pending = arrived

\* Both tasks count into the same two metrics: whenever neither is in the middle of
\* counting, received equals processed, and processed is the transactions
\* classified in blocks plus those of the main loop, which are counted under the
\* stage "classify" without being classified.
CountersAgree ==
    main = "listening" /\ tracker.pc = "poll" =>
        /\ metrics.received = metrics.processed
        /\ metrics.processed =
              MapThenSumSet(LAMBDA c : metrics.classified[c], Classes) + Len(handled)
        /\ metrics.found = metrics.filtered
        /\ metrics.found = metrics.classified["swap_v2"] + metrics.classified["swap_v3"]
              + Len(SelectSeq(handled, LAMBDA t : t.is_swap))

\* As long as no request failed the tracker processes each block at most once and
\* in order; after a rotation to an endpoint that lags it may process one again.
OrderNeedsOneEndpoint ==
    ~rotated => \A i, j \in DOMAIN blocksDone : i < j => blocksDone[i] < blocksDone[j]

\* The tasks of mev-engine pass everything on in order and count alike, and the tracker
\* keeps the order of the blocks until an endpoint fails it.
EngineInv == TypeOK /\ ForwardedInOrder /\ CountersAgree /\ OrderNeedsOneEndpoint

\* Everything the monitor took is handled: the queue is empty, and a partial batch was
\* flushed unless the task ended first.
Drained == channel = <<>> /\ (monitor.pc = "ended" \/ monitor.pending = <<>>)

\* mev-engine catches up with both of its sources unless main ends: what the monitor
\* took is handled, and the tracker gets past endpoints that are down to the chain's
\* latest block.
CaughtUp == ~Running \/ (Drained /\ tracker.prev = head)
EngineCatchesUp == <>[]CaughtUp
=============================================================================
