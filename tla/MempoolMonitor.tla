--------------------------- MODULE MempoolMonitor ---------------------------
(***************************************************************************)
(* network/internal/mempool/monitor.go: the goroutine that subscribes to   *)
(* pending transactions and puts those that pass the filter into txChan,   *)
(* and the goroutine that takes transactions out of the same channel to    *)
(* forward them to the core.                                               *)
(***************************************************************************)
EXTENDS Transactions, Sequences, FiniteSets

CONSTANTS
    PendingTxs,       \* the transactions the mempool announces
    FilterEnabled, MinValue, TargetSelectors,   \* mempool.Config
    MonitorBuffer,    \* Config.BufferSize
    HashBuffer,       \* 1000, the buffer of the subscription
    CoreAttached      \* SetCoreClient was called (main.go does not)

VARIABLES
    ctxDone,      \* the root context is cancelled
    panicked,     \* a goroutine panicked: the process is gone
    pending,      \* transactions not announced yet
    subscriber,   \* "looping", "subscribed" or "stopped"
    hashes,       \* announced hashes the subscriber has not read
    txChan,       \* Monitor.txChan
    processor     \* processLoop: "running" or "stopped"

vars == <<ctxDone, panicked, pending, subscriber, hashes, txChan, processor>>

Init ==
    /\ ctxDone = FALSE
    /\ panicked = FALSE
    /\ pending = PendingTxs
    /\ subscriber = "looping"
    /\ hashes = <<>>
    /\ txChan = <<>>
    /\ processor = "running"

Passes(tx) ==
    \/ ~FilterEnabled
    \/ IF tx.sel = "none" THEN tx.value >= MinValue ELSE tx.sel \in TargetSelectors

(* The node at the other end of the subscription; what it announces while  *)
(* nobody is subscribed is lost.                                           *)
Announce(tx) ==
    /\ tx \in pending
    /\ pending' = pending \ {tx}
    /\ hashes' = IF subscriber = "subscribed" /\ Len(hashes) < HashBuffer
                 THEN Append(hashes, tx) ELSE hashes
    /\ UNCHANGED <<ctxDone, panicked, subscriber, txChan, processor>>

Subscribe ==
    /\ subscriber = "looping"
    /\ IF ctxDone
       THEN subscriber' = "stopped" /\ UNCHANGED hashes
       ELSE subscriber' = "subscribed" /\ hashes' = <<>>
    /\ UNCHANGED <<ctxDone, panicked, pending, txChan, processor>>

(* sub.Err or ctx.Done; the unread hashes go with the subscription.        *)
SubscriptionEnds ==
    /\ subscriber = "subscribed"
    /\ subscriber' = "looping"
    /\ hashes' = <<>>
    /\ UNCHANGED <<ctxDone, panicked, pending, txChan, processor>>

(* handleTransaction for one announced hash: the fetch may fail, the       *)
(* filter may refuse it, and a full channel drops it.                      *)
HandleTransaction ==
    /\ subscriber = "subscribed" /\ hashes # <<>>
    /\ hashes' = Tail(hashes)
    /\ LET tx == Head(hashes)
       IN  \/ /\ Passes(tx) /\ Len(txChan) < MonitorBuffer
              /\ txChan' = Append(txChan, tx)
           \/ UNCHANGED txChan
    /\ UNCHANGED <<ctxDone, panicked, pending, subscriber, processor>>

(* forwardToCore: without a client it only logs, and dereferences tx.To;   *)
(* with one it sends the transaction and logs the answer.                  *)
ForwardToCore(tx) == panicked' = (~CoreAttached /\ ~tx.to)

ProcessorTakes ==
    /\ processor = "running" /\ txChan # <<>>
    /\ txChan' = Tail(txChan)
    /\ ForwardToCore(Head(txChan))
    /\ UNCHANGED <<ctxDone, pending, subscriber, hashes, processor>>

ProcessorStops ==
    /\ processor = "running" /\ ctxDone
    /\ processor' = "stopped"
    /\ UNCHANGED <<ctxDone, panicked, pending, subscriber, hashes, txChan>>

(* What Stop waits for.                                                    *)
Stopped == subscriber = "stopped" /\ processor = "stopped"

SubscriberStep == Subscribe \/ SubscriptionEnds \/ HandleTransaction
ProcessorStep  == ProcessorTakes \/ ProcessorStops
Next == (\E tx \in PendingTxs : Announce(tx)) \/ SubscriberStep \/ ProcessorStep
-----------------------------------------------------------------------------
(* The variables have their types, and no channel exceeds its buffer.      *)
TypeOK ==
    /\ ctxDone \in BOOLEAN /\ panicked \in BOOLEAN
    /\ pending \subseteq PendingTxs
    /\ subscriber \in {"looping", "subscribed", "stopped"}
    /\ hashes \in Seq(PendingTxs) /\ Len(hashes) <= HashBuffer
    /\ txChan \in Seq(PendingTxs) /\ Len(txChan) <= MonitorBuffer
    /\ processor \in {"running", "stopped"}
=============================================================================
