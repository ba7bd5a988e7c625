---------------------------- MODULE BlockWatcher ----------------------------
(***************************************************************************)
(* network/internal/block/watcher.go: new heads by subscription, or by     *)
(* polling where the node refuses the subscription; the latest header and  *)
(* the target block; and the goroutines that fetch each block and put its  *)
(* transactions into txChan.                                               *)
(***************************************************************************)
EXTENDS Integers, Sequences, FiniteSets

CONSTANTS
    Txs,           \* the transactions there are
    Body,          \* Body[n][f]: the transactions of block n on fork f
    MaxHeight,     \* bound: the length of the chain
    MaxReorgs,     \* bound: how often its tip is replaced
    MaxPolled,     \* bound: headers seen again through polling
    MaxLag,        \* bound: how far behind the polled node may be
    HeadBuffer,    \* 16, the buffer of the subscription
    HeaderBuffer,  \* Config.BufferSize
    TxBuffer,      \* 10000
    ScanSlots      \* 4, the capacity of scanSem

VARIABLES
    ctxDone,       \* the root context is cancelled
    chain,         \* external: chain[n] is the fork of block n
    reorgs,        \* external: reorganisations so far
    watch,         \* "looping", "subscribed", "polling" or "stopped"
    heads,         \* delivered headers the subscriber has not read
    lastBlock,     \* pollHeaders' local variable, 0 while it does not run
    fresh,         \* the running subscription or polling handled a header (history)
    latest,        \* Watcher.latest, number 0 for nil
    headerChan,    \* Watcher.headerChan
    scans,         \* the scanBlockTxs goroutines, in the order of their start
    blockTxChan    \* Watcher.txChan

vars == <<ctxDone, chain, reorgs, watch, heads, lastBlock, fresh, latest,
          headerChan, scans, blockTxChan>>

NoHeader == [number |-> 0, fork |-> 0]
Tip      == [number |-> Len(chain), fork |-> chain[Len(chain)]]

Init ==
    /\ ctxDone = FALSE
    /\ chain = <<>>
    /\ reorgs = 0
    /\ watch = "looping"
    /\ heads = <<>>
    /\ lastBlock = 0
    /\ fresh = FALSE
    /\ latest = NoHeader
    /\ headerChan = <<>>
    /\ scans = <<>>
    /\ blockTxChan = <<>>

(* Bound: the headers there can be, each of which starts a scan.           *)
MaxScans == MaxHeight + MaxReorgs + MaxPolled

TargetBlock == IF latest = NoHeader THEN 0 ELSE latest.number + 1

-----------------------------------------------------------------------------
(* The chain, and the node that delivers its heads: a subscriber that does *)
(* not keep up loses its subscription.                                     *)
Deliver ==
    /\ IF watch = "subscribed" /\ Len(heads) = HeadBuffer
       THEN watch' = "looping" /\ heads' = <<>>
       ELSE /\ UNCHANGED watch
            /\ heads' = IF watch = "subscribed" THEN Append(heads, Tip') ELSE heads
    /\ UNCHANGED <<ctxDone, lastBlock, fresh, latest, headerChan, scans, blockTxChan>>

ChainGrows ==
    /\ Len(chain) < MaxHeight
    /\ chain' = Append(chain, reorgs)
    /\ UNCHANGED reorgs
    /\ Deliver

ChainReorgs ==
    /\ chain # <<>> /\ reorgs < MaxReorgs
    /\ reorgs' = reorgs + 1
    /\ chain' = [chain EXCEPT ![Len(chain)] = reorgs + 1]
    /\ Deliver

-----------------------------------------------------------------------------
(* Mutant: a header that does not extend the latest one is ignored.        *)
HandleHeaderForwardOnly(header) ==
    /\ latest' = IF header.number <= latest.number THEN latest ELSE header
    /\ headerChan' = IF Len(headerChan) < HeaderBuffer THEN Append(headerChan, header)
                                                       ELSE headerChan
    /\ scans' = Append(scans, [block |-> header.number, at |-> "waiting", left |-> <<>>])

(* handleHeader: a header that is not newer is reported and taken all the  *)
(* same; a full header channel drops it; the block is scanned.             *)
HandleHeader(header) ==
    /\ latest' = header
    /\ headerChan' = IF Len(headerChan) < HeaderBuffer THEN Append(headerChan, header)
                                                       ELSE headerChan
    /\ scans' = Append(scans, [block |-> header.number, at |-> "waiting", left |-> <<>>])

(* subscribeLoop and the start of subscribe: without a client it sleeps    *)
(* and tries again, and an error of SubscribeNewHead turns to polling.     *)
Subscribe ==
    /\ watch = "looping"
    /\ fresh' = FALSE
    /\ IF ctxDone
       THEN watch' = "stopped" /\ UNCHANGED <<heads, lastBlock>>
       ELSE \/ watch' = "subscribed" /\ heads' = <<>> /\ UNCHANGED lastBlock
            \/ watch' = "polling" /\ UNCHANGED <<heads, lastBlock>>
    /\ UNCHANGED <<ctxDone, chain, reorgs, latest, headerChan, scans, blockTxChan>>

SubscriptionEnds ==
    /\ watch = "subscribed"
    /\ watch' = "looping"
    /\ heads' = <<>>
    /\ UNCHANGED <<ctxDone, chain, reorgs, lastBlock, fresh, latest, headerChan,
                   scans, blockTxChan>>

ReceiveHeader ==
    /\ watch = "subscribed" /\ heads # <<>>
    /\ heads' = Tail(heads)
    /\ fresh' = TRUE
    /\ HandleHeader(Head(heads))
    /\ UNCHANGED <<ctxDone, chain, reorgs, watch, lastBlock, blockTxChan>>

(* Mutant: the last polled number is not remembered.                       *)
PollForgets(n) ==
    /\ watch = "polling"
    /\ n > lastBlock
    /\ Len(scans) < MaxScans
    /\ fresh' = TRUE
    /\ HandleHeader([number |-> n, fork |-> chain[n]])
    /\ UNCHANGED <<ctxDone, chain, reorgs, watch, heads, lastBlock, blockTxChan>>

(* One tick of pollHeaders: the node asked may lag behind the chain.       *)
Poll(n) ==
    /\ watch = "polling"
    /\ n > lastBlock
    /\ Len(scans) < MaxScans
    /\ fresh' = TRUE
    /\ HandleHeader([number |-> n, fork |-> chain[n]])
    /\ lastBlock' = n
    /\ UNCHANGED <<ctxDone, chain, reorgs, watch, heads, blockTxChan>>

PollCancelled ==
    /\ watch = "polling" /\ ctxDone
    /\ watch' = "looping" /\ lastBlock' = 0
    /\ UNCHANGED <<ctxDone, chain, reorgs, heads, fresh, latest,
                   headerChan, scans, blockTxChan>>

-----------------------------------------------------------------------------
ScanAt(i, label) == scans' = [scans EXCEPT ![i].at = label]

(* The goroutine returns, and with it its locals.                          *)
Ended == [block |-> 0, at |-> "done", left |-> <<>>]
ScanEnds(i) == scans' = [scans EXCEPT ![i] = Ended]
Scanning == {i \in DOMAIN scans : scans[i].at \in {"fetching", "pushing"}}

ScanAcquire(i) ==
    /\ scans[i].at = "waiting"
    /\ Cardinality(Scanning) < ScanSlots
    /\ ScanAt(i, "fetching")
    /\ UNCHANGED <<ctxDone, chain, reorgs, watch, heads, lastBlock, fresh, latest,
                   headerChan, blockTxChan>>

(* The block is fetched by number, so after a reorganisation it is not the *)
(* block of the header; an error or an empty block ends the scan.          *)
ScanFetch(i) ==
    /\ scans[i].at = "fetching"
    /\ LET txs == Body[scans[i].block][chain[scans[i].block]]
       IN  \/ ScanEnds(i)
           \/ txs # <<>> /\ scans' = [scans EXCEPT ![i].at = "pushing", ![i].left = txs]
    /\ UNCHANGED <<ctxDone, chain, reorgs, watch, heads, lastBlock, fresh, latest,
                   headerChan, blockTxChan>>

(* Mutant: the goroutine that finds the channel full keeps its slot.       *)
ScanPushKeepsSlot(i) ==
    /\ scans[i].at = "pushing"
    /\ Len(blockTxChan) < TxBuffer
    /\ blockTxChan' = Append(blockTxChan, Head(scans[i].left))
    /\ IF Len(scans[i].left) = 1 THEN ScanEnds(i)
       ELSE scans' = [scans EXCEPT ![i].left = Tail(@)]
    /\ UNCHANGED <<ctxDone, chain, reorgs, watch, heads, lastBlock, fresh, latest, headerChan>>

(* One transaction of the loop: a full channel ends the scan.              *)
ScanPush(i) ==
    /\ scans[i].at = "pushing"
    /\ IF Len(blockTxChan) < TxBuffer
       THEN /\ blockTxChan' = Append(blockTxChan, Head(scans[i].left))
            /\ IF Len(scans[i].left) = 1 THEN ScanEnds(i)
               ELSE scans' = [scans EXCEPT ![i].left = Tail(@)]
       ELSE ScanEnds(i) /\ UNCHANGED blockTxChan
    /\ UNCHANGED <<ctxDone, chain, reorgs, watch, heads, lastBlock, fresh, latest, headerChan>>

(* What Stop waits for: the scans are not counted in the wait group.       *)
Stopped == watch = "stopped"

ScanStep(i) == ScanAcquire(i) \/ ScanFetch(i) \/ ScanPush(i)
ChainStep   == ChainGrows \/ ChainReorgs
PollStep    == \E n \in 1 .. Len(chain) : Len(chain) - n <= MaxLag /\ Poll(n)
WatchStep   == Subscribe \/ SubscriptionEnds \/ ReceiveHeader \/ PollStep \/ PollCancelled
-----------------------------------------------------------------------------
(* The watcher by itself: main cancels, the gas oracle reads headerChan    *)
(* and the merger reads txChan.                                            *)
Cancel ==
    /\ ~ctxDone
    /\ ctxDone' = TRUE
    /\ UNCHANGED <<chain, reorgs, watch, heads, lastBlock, fresh, latest, headerChan,
                   scans, blockTxChan>>

ReadHeader ==
    /\ headerChan # <<>>
    /\ headerChan' = Tail(headerChan)
    /\ UNCHANGED <<ctxDone, chain, reorgs, watch, heads, lastBlock, fresh, latest,
                   scans, blockTxChan>>

ReadTx ==
    /\ blockTxChan # <<>>
    /\ blockTxChan' = Tail(blockTxChan)
    /\ UNCHANGED <<ctxDone, chain, reorgs, watch, heads, lastBlock, fresh, latest,
                   headerChan, scans>>

Next == ChainStep \/ WatchStep \/ (\E i \in DOMAIN scans : ScanStep(i))
        \/ Cancel \/ ReadHeader \/ ReadTx
Spec == Init /\ [][Next]_vars

(* Goroutines run.                                                         *)
FairSpec ==
    /\ Spec
    /\ \A i \in 1 .. MaxScans : WF_vars(i \in DOMAIN scans /\ ScanStep(i))

-----------------------------------------------------------------------------
Headers == [number : 1 .. MaxHeight, fork : 0 .. MaxReorgs]
Scans   == [block : 0 .. MaxHeight, at : {"waiting", "fetching", "pushing", "done"},
            left : Seq(Txs)]

(* The variables have their types, and no channel exceeds its buffer.      *)
TypeOK ==
    /\ ctxDone \in BOOLEAN /\ fresh \in BOOLEAN
    /\ reorgs \in 0 .. MaxReorgs
    /\ chain \in Seq(0 .. MaxReorgs) /\ Len(chain) <= MaxHeight
    /\ watch \in {"looping", "subscribed", "polling", "stopped"}
    /\ heads \in Seq(Headers) /\ Len(heads) <= HeadBuffer
    /\ lastBlock \in 0 .. MaxHeight
    /\ latest \in Headers \cup {NoHeader}
    /\ headerChan \in Seq(Headers) /\ Len(headerChan) <= HeaderBuffer
    /\ scans \in Seq(Scans)
    /\ blockTxChan \in Seq(Txs) /\ Len(blockTxChan) <= TxBuffer

(* Headers, and the scans they start, are of blocks the chain has; a scan  *)
(* that pushes has something left.                                         *)
OnChain ==
    /\ fresh => chain # <<>>
    /\ \A k \in DOMAIN heads : heads[k].number <= Len(chain)
    /\ \A i \in DOMAIN scans :
        /\ scans[i].at \in {"waiting", "fetching"} => scans[i].block \in 1 .. Len(chain)
        /\ scans[i].at = "pushing" => scans[i].left # <<>>

(* The last header in flight to a subscriber is the tip of the chain, and  *)
(* so is the latest one when none is in flight.                            *)
LastSeen ==
    watch = "subscribed" =>
        /\ heads # <<>> => heads[Len(heads)] = Tip
        /\ heads = <<>> /\ fresh => latest = Tip

(* Once a running subscription has handled a header and nothing is in      *)
(* flight, the latest header is the tip of the chain, on the right fork,   *)
(* and bundles target the block after it.                                  *)
TipKnown ==
    watch = "subscribed" /\ fresh /\ heads = <<>> =>
        latest = Tip /\ TargetBlock = Len(chain) + 1

(* The watcher is well formed and knows the tip, also after a              *)
(* reorganisation.                                                         *)
WatcherInv == TypeOK /\ OnChain /\ LastSeen /\ TipKnown

(* A running poll remembers the number of the latest header.               *)
PollRemembers == watch = "polling" /\ fresh => latest.number = lastBlock

(* While polling, every header taken is newer than the one before, because *)
(* the poll remembers it, although the nodes asked may lag behind each     *)
(* other.                                                                  *)
PollMovesForward ==
    [][/\ PollRemembers
       /\ watch = "polling" /\ watch' = "polling" /\ fresh /\ latest' # latest
            => latest'.number > latest.number]_vars

(* Every started scan ends, and gives its slot back, whatever the channel  *)
(* and the other scans do: as the headers are bounded, a time comes after  *)
(* which no scan runs.                                                     *)
ScansEnd == <>[](\A i \in DOMAIN scans : scans[i].at = "done")
=============================================================================
