----------------------- MODULE MultiThreadedDetector -----------------------
(***************************************************************************)
(* core/src/detector/multi_threaded.rs: a dispatcher thread moves          *)
(* transactions from the caller's channel to a bounded work channel,       *)
(* worker threads take them in batches, look for two-pool paths in two     *)
(* shared maps the caller keeps loading and updating, and send what pays   *)
(* to a bounded channel of opportunities.                                  *)
(*                                                                         *)
(* Transactions are positions of Txs.  A pool, a swap and an opportunity   *)
(* keep the fields the arithmetic and the path read; time stamps,          *)
(* confidence and CPU pinning are left out.  A map guard of the source is  *)
(* held over one Path step, and over the whole search for the list of the  *)
(* output token: pushing to that list waits, everything else does not.     *)
(***************************************************************************)
EXTENDS Integers, Sequences, FiniteSets, Functions

CONSTANTS
    Workers,        \* worker ids, 0 .. num_workers - 1
    Txs,            \* transactions
    Inputs,         \* what the caller's channel may deliver: sequences over Txs
    Loads,          \* the pools load_pools is given, in order
    PreLoaded,      \* how many of them the caller loads before start
    Updates,        \* the [pool, reserve0, reserve1] updates that may be made
    Tokens,
    BatchSize,      \* config.batch_size
    WorkCap,        \* capacity of the work channel (10_000)
    OppCap,         \* capacity of the caller's opportunity channel
    Stride,         \* distance between the workers' first ids (1_000_000)
    MinProfit,      \* config.min_profit_wei
    GasCost,        \* config.gas_price * 200_000
    MaxU256,        \* largest U256: arithmetic beyond it panics
    MaxUpdates      \* bound on the calls of update_pool

\* What the caller hands over.  A pool's tokens never change, so two states of one
\* address name the same; Inputs name each transaction once, by its position.
Addresses == {Loads[l].address : l \in DOMAIN Loads}
Pool == [address : Addresses, token0 : Tokens, token1 : Tokens, reserve0 : Nat,
         reserve1 : Nat, fee : Nat]
Parsed(tx) == tx.is_swap /\ tx.parsed
ASSUME DetectorAssumption ==
    /\ Workers \subseteq Nat /\ IsFiniteSet(Workers)
    /\ {BatchSize, WorkCap, OppCap, Stride, Len(Txs)} \subseteq Nat
    /\ DOMAIN Txs = 1 .. Len(Txs)
    /\ \A i \in DOMAIN Txs : /\ Txs[i].is_swap \in BOOLEAN
                             /\ Parsed(Txs[i]) => {Txs[i].info.token_in,
                                                   Txs[i].info.token_out} \subseteq Tokens
    /\ \A s \in Inputs : s \in Seq(DOMAIN Txs) /\ IsInjective(s)
    /\ Loads \in Seq(Pool)
    /\ \A l, m \in DOMAIN Loads :
          Loads[l].address = Loads[m].address =>
              Loads[l].token0 = Loads[m].token0 /\ Loads[l].token1 = Loads[m].token1
    /\ \A u \in Updates : {u.reserve0, u.reserve1} \subseteq Nat

VARIABLES
    running,        \* the shared flag
    input,          \* tx_receiver
    dispatcher,     \* [pc, tx]
    work,           \* the bounded work channel
    worker,         \* [Workers -> [pc, batch, pos, hop, opps, id]]
    token_to_pools, \* [Tokens -> sequence of pools], a missing entry is empty
    pools,          \* pool address -> state, for the pools loaded so far
    loader,         \* [done, step]: progress of the caller's load_pools
    updated,        \* number of update_pool calls made
    channel,        \* the opportunity channel; "gone" once its receiver is
    received,       \* opportunities its receiver has read
    stats,          \* [processed, found, profitable]
    outcome         \* per transaction: how often a worker finished it, or -1
                    \* when the dispatcher dropped it (history)

vars == <<running, input, dispatcher, work, worker, token_to_pools, pools,
          loader, updated, channel, received, stats, outcome>>
maps == <<token_to_pools, pools, loader, updated>>

None == -1
Panic == -2
Ended == {"done", "dead"}

NoWorker(w) == [pc |-> "off", batch |-> <<>>, pos |-> 1, hop |-> 1,
                opps |-> <<>>, id |-> w * Stride]

Init ==
    /\ running = FALSE
    /\ input \in Inputs
    /\ dispatcher = [pc |-> "off", tx |-> None]
    /\ work = <<>>
    /\ worker = [w \in Workers |-> NoWorker(w)]
    /\ token_to_pools = [t \in Tokens |-> <<>>]
    /\ pools = << >>
    /\ loader = [done |-> 0, step |-> 0]
    /\ updated = 0
    /\ channel = [open |-> TRUE, queue |-> <<>>]
    /\ received = <<>>
    /\ stats = [processed |-> 0, found |-> 0, profitable |-> 0]
    /\ outcome = [i \in DOMAIN Txs |-> 0]

---------------------------------------------------------------------------
(* The arithmetic. *)

\* The only element of a set: {f(x) : x \in {e}} evaluates e once.
The(S) == CHOOSE x \in S : TRUE

\* A U256 product: the multiplication panics beyond MaxU256.
Fits(a, b) == a = 0 \/ b <= MaxU256 \div a

SwapOut(withFee, reserveIn, reserveOut) ==
    IF Fits(withFee, reserveOut) /\ reserveIn <= (MaxU256 - withFee) \div 10000
    THEN (withFee * reserveOut) \div (reserveIn * 10000 + withFee) ELSE Panic

\* A negative amount is the None or Panic of the swap before it: the ? of the
\* source, or the thread's end.
simulate_swap_out(amountIn, tokenIn, pool) ==
    LET zero == pool.token0 = tokenIn
        reserveIn  == IF zero THEN pool.reserve0 ELSE pool.reserve1
        reserveOut == IF zero THEN pool.reserve1 ELSE pool.reserve0
    IN The({IF amount < 0 THEN amount
            ELSE IF reserveIn = 0 \/ reserveOut = 0 THEN None
            ELSE IF ~Fits(amount, 10000 - pool.fee) THEN Panic
            ELSE SwapOut(amount * (10000 - pool.fee), reserveIn, reserveOut) :
            amount \in {amountIn}})

Other(pool, t) == IF pool.token0 = t THEN pool.token1 ELSE pool.token0

Holds(pool, t) == t \in {pool.token0, pool.token1}

\* A tenth of the trigger's own output goes through both pools; the gross profit, or
\* None, or Panic.
Gross(step2, inputAmount) ==
    IF step2 < 0 THEN step2
    ELSE IF step2 - inputAmount <= GasCost THEN None ELSE step2 - inputAmount

TwoHops(swap, p1, p2, inputAmount) ==
    The({Gross(step2, inputAmount) : step2 \in
        {simulate_swap_out(simulate_swap_out(inputAmount, swap.token_out, p1),
                           Other(p1, swap.token_out), p2)}})

calculate_2hop_profit(swap, p1, p2) ==
    The({IF target < 0 THEN target ELSE TwoHops(swap, p1, p2, target \div 10) :
         target \in {simulate_swap_out(swap.amount_in, swap.token_in, p1)}})

Known(a) == a \in DOMAIN pools

\* The list of a1's other token, the positions in it of the pools that lead on to
\* token_in, and the gross profit through one of them.
ReturnList(swap, a1) == token_to_pools[Other(pools[a1], swap.token_out)]
ReturnPools(swap, a1) ==
    {k \in DOMAIN ReturnList(swap, a1) :
        /\ Known(ReturnList(swap, a1)[k])
        /\ Holds(pools[ReturnList(swap, a1)[k]], swap.token_in)}
Profit(swap, a1, k) ==
    calculate_2hop_profit(swap, pools[a1], pools[ReturnList(swap, a1)[k]])

\* The paths through a1; those without a profit are dropped.
Paths(swap, a1) ==
    IF ~Known(a1) \/ ~Holds(pools[a1], swap.token_out) THEN {}
    ELSE {k \in ReturnPools(swap, a1) : Profit(swap, a1, k) # None}

\* Positions in the order of the list they are of.
InOrder(K) ==
    {s \in [1 .. Cardinality(K) -> K] : \A i, j \in DOMAIN s : i < j => s[i] < s[j]}

\* The opportunity of a path, before the worker numbers it.
Opportunity(tx, a1, k) ==
    LET swap == Txs[tx].info IN
    [trigger |-> tx, pool1 |-> a1, pool2 |-> ReturnList(swap, a1)[k],
     token_in |-> swap.token_out, mid |-> Other(pools[a1], swap.token_out),
     token_out |-> swap.token_in, net |-> Profit(swap, a1, k) - GasCost]

---------------------------------------------------------------------------
(* The caller. *)

Start ==
    /\ dispatcher.pc = "off" /\ loader.step = 0 /\ loader.done >= PreLoaded
    /\ running' = TRUE
    /\ dispatcher' = [dispatcher EXCEPT !.pc = "check"]
    /\ worker' = [w \in Workers |-> [worker[w] EXCEPT !.pc = "check"]]
    /\ UNCHANGED <<maps, input, work, channel, received, stats, outcome>>

Stop ==
    /\ running /\ running' = FALSE
    /\ UNCHANGED <<maps, input, dispatcher, work, worker, channel, received,
                   stats, outcome>>

\* The list of a token is being walked under its guard.
Walked(t) == \E w \in Workers : /\ worker[w].pc = "find"
                                /\ Txs[worker[w].batch[worker[w].pos]].info.token_out = t

\* One pool of load_pools: both index entries are pushed before the pool itself
\* is inserted.
LoadPool ==
    LET pool == Loads[loader.done + 1]
        token == IF loader.step = 0 THEN pool.token0 ELSE pool.token1
    IN /\ loader.done < Len(Loads)
       /\ \/ /\ loader.step < 2 /\ ~Walked(token)
             /\ token_to_pools' = [token_to_pools EXCEPT ![token] = Append(@, pool.address)]
             /\ loader' = [loader EXCEPT !.step = @ + 1]
             /\ UNCHANGED pools
          \/ /\ loader.step = 2
             /\ pools' = [a \in DOMAIN pools \union {pool.address} |->
                             IF a = pool.address THEN pool ELSE pools[a]]
             /\ loader' = [done |-> loader.done + 1, step |-> 0]
             /\ UNCHANGED token_to_pools
       /\ UNCHANGED <<running, input, dispatcher, work, worker, updated, channel,
                      received, stats, outcome>>

update_pool(u) ==
    /\ updated < MaxUpdates /\ updated' = updated + 1
    /\ pools' = IF Known(u.address)
                THEN [pools EXCEPT ![u.address].reserve0 = u.reserve0,
                                   ![u.address].reserve1 = u.reserve1]
                ELSE pools
    /\ UNCHANGED <<running, input, dispatcher, work, worker, token_to_pools, loader,
                   channel, received, stats, outcome>>

\* The receiver of the opportunities reads one, or is dropped.
Consume ==
    /\ channel.queue # <<>>
    /\ received' = Append(received, Head(channel.queue))
    /\ channel' = [channel EXCEPT !.queue = Tail(@)]
    /\ UNCHANGED <<maps, running, input, dispatcher, work, worker, stats, outcome>>

DropReceiver ==
    /\ channel.open /\ channel' = [open |-> FALSE, queue |-> <<>>]
    /\ UNCHANGED <<maps, running, input, dispatcher, work, worker, received, stats,
                   outcome>>

---------------------------------------------------------------------------
(* The dispatcher thread. *)

DispatchCheck ==
    /\ dispatcher.pc = "check"
    /\ dispatcher' = [dispatcher EXCEPT !.pc = IF running THEN "recv" ELSE "done"]
    /\ UNCHANGED <<maps, running, input, work, worker, channel, received, stats,
                   outcome>>

\* recv_timeout: a transaction is counted before it is passed on; a timeout and a
\* closed channel both go back to the flag.
DispatchRecv ==
    /\ dispatcher.pc = "recv"
    /\ IF input # <<>>
       THEN /\ dispatcher' = [pc |-> "send", tx |-> Head(input)]
            /\ input' = Tail(input)
            /\ stats' = [stats EXCEPT !.processed = @ + 1]
       ELSE /\ dispatcher' = [dispatcher EXCEPT !.pc = "check"]
            /\ UNCHANGED <<input, stats>>
    /\ UNCHANGED <<maps, running, work, worker, channel, received, outcome>>

\* Every receiver of the work channel is gone: start's own copy is dropped when it
\* returns, a worker's when its thread ends.
Disconnected == \A w \in Workers : worker[w].pc \in Ended

\* Mutant: a send without receivers waits forever.
DispatchSendHangs ==
    /\ dispatcher.pc = "send" /\ Len(work) < WorkCap
    /\ dispatcher' = [pc |-> "check", tx |-> None]
    /\ work' = Append(work, dispatcher.tx)
    /\ UNCHANGED <<maps, running, input, worker, channel, received, stats, outcome>>

\* Mutant: try_send instead of send.
DispatchSendDropsWhenFull ==
    /\ dispatcher.pc = "send"
    /\ dispatcher' = [pc |-> "check", tx |-> None]
    /\ IF Disconnected \/ Len(work) >= WorkCap
       THEN outcome' = [outcome EXCEPT ![dispatcher.tx] = None] /\ UNCHANGED work
       ELSE work' = Append(work, dispatcher.tx) /\ UNCHANGED outcome
    /\ UNCHANGED <<maps, running, input, worker, channel, received, stats>>

\* A blocking send: it waits for room, and fails only when no receiver is left.
DispatchSend ==
    /\ dispatcher.pc = "send"
    /\ Disconnected \/ Len(work) < WorkCap
    /\ dispatcher' = [pc |-> "check", tx |-> None]
    /\ IF Disconnected
       THEN outcome' = [outcome EXCEPT ![dispatcher.tx] = None] /\ UNCHANGED work
       ELSE work' = Append(work, dispatcher.tx) /\ UNCHANGED outcome
    /\ UNCHANGED <<maps, running, input, worker, channel, received, stats>>

---------------------------------------------------------------------------
(* A worker thread. *)

Tx(w) == worker[w].batch[worker[w].pos]
Swap(w) == Txs[Tx(w)].info

\* The transaction at hand is finished: stats and outcome of a worker's loop body.
Finish(w, found) ==
    /\ worker' = [worker EXCEPT ![w].pc = "tx", ![w].pos = @ + 1]
    /\ outcome' = [outcome EXCEPT ![Tx(w)] = @ + 1]
    /\ stats' = [stats EXCEPT !.found = @ + found]

WorkerCheck(w) ==
    /\ worker[w].pc = "check"
    /\ worker' = [worker EXCEPT ![w].pc = IF running THEN "collect" ELSE "done",
                                ![w].batch = <<>>, ![w].pos = 1]
    /\ UNCHANGED <<maps, running, input, dispatcher, work, channel, received, stats,
                   outcome>>

\* Mutant: a worker waits for a full batch.
CollectWaits(w) ==
    /\ worker[w].pc = "collect"
    /\ IF Len(worker[w].batch) < BatchSize
       THEN /\ work # <<>>
            /\ worker' = [worker EXCEPT ![w].batch = Append(@, Head(work))]
            /\ work' = Tail(work)
       ELSE /\ worker' = [worker EXCEPT ![w].pc = "tx"]
            /\ UNCHANGED work
    /\ UNCHANGED <<maps, running, input, dispatcher, channel, received, stats, outcome>>

\* One try_recv; an empty channel or a full batch ends the collection, an empty
\* batch sleeps and goes back to the flag.
Collect(w) ==
    /\ worker[w].pc = "collect"
    /\ IF Len(worker[w].batch) < BatchSize /\ work # <<>>
       THEN /\ worker' = [worker EXCEPT ![w].batch = Append(@, Head(work))]
            /\ work' = Tail(work)
       ELSE /\ worker' = [worker EXCEPT ![w].pc = IF worker[w].batch = <<>>
                                                  THEN "check" ELSE "tx"]
            /\ UNCHANGED work
    /\ UNCHANGED <<maps, running, input, dispatcher, channel, received, stats, outcome>>

\* The head of the loop over the batch: transactions that are no swap are skipped
\* without being counted, a swap without decoded fields or known pools is counted.
NextTx(w) ==
    /\ worker[w].pc = "tx"
    /\ \/ /\ worker[w].pos > Len(worker[w].batch)
          /\ worker' = [worker EXCEPT ![w].pc = "check"]
          /\ UNCHANGED <<stats, outcome>>
       \/ /\ worker[w].pos <= Len(worker[w].batch)
          /\ IF ~Txs[Tx(w)].is_swap THEN Finish(w, 0)
             ELSE IF ~Txs[Tx(w)].parsed THEN Finish(w, 1)
             ELSE IF token_to_pools[Swap(w).token_out] = <<>> THEN Finish(w, 1)
             ELSE /\ worker' = [worker EXCEPT ![w].pc = "find", ![w].hop = 1,
                                              ![w].opps = <<>>]
                  /\ UNCHANGED <<stats, outcome>>
    /\ UNCHANGED <<maps, running, input, dispatcher, work, channel, received>>

\* One first pool of find_arbitrage_paths with all its return pools.  A panic
\* ends the thread and its batch with it.
Path(w) ==
    LET list == token_to_pools[Swap(w).token_out]
        a1 == list[worker[w].hop]
    IN /\ worker[w].pc = "find"
       /\ IF worker[w].hop > Len(list)
          THEN worker' = [worker EXCEPT ![w].pc = "number"]
          ELSE IF \E k \in Paths(Swap(w), a1) : Profit(Swap(w), a1, k) = Panic
          THEN worker' = [worker EXCEPT ![w].pc = "dead"]
          ELSE \E order \in InOrder(Paths(Swap(w), a1)) :
               worker' = [worker EXCEPT ![w].hop = @ + 1,
                            ![w].opps = @ \o [n \in DOMAIN order |->
                                               Opportunity(Tx(w), a1, order[n])]]
       /\ UNCHANGED <<maps, running, input, dispatcher, work, channel, received, stats,
                      outcome>>

\* Number the next opportunity and count it when it pays; the swap is counted when
\* none is left.
Number(w) ==
    /\ worker[w].pc = "number"
    /\ IF worker[w].opps = <<>> THEN Finish(w, 1)
       ELSE /\ IF Head(worker[w].opps).net >= MinProfit
               THEN /\ worker' = [worker EXCEPT ![w].pc = "send"]
                    /\ stats' = [stats EXCEPT !.profitable = @ + 1]
               ELSE /\ worker' = [worker EXCEPT ![w].opps = Tail(@), ![w].id = @ + 1]
                    /\ UNCHANGED stats
            /\ UNCHANGED outcome
    /\ UNCHANGED <<maps, running, input, dispatcher, work, channel, received>>

\* The blocking send of an opportunity: no guard of the maps is held here.
SendOpp(w) ==
    /\ worker[w].pc = "send"
    /\ channel.open => Len(channel.queue) < OppCap
    /\ channel' = IF channel.open
                  THEN [channel EXCEPT !.queue =
                          Append(@, [opp |-> Head(worker[w].opps), id |-> worker[w].id])]
                  ELSE channel
    /\ worker' = [worker EXCEPT ![w].pc = "number", ![w].opps = Tail(@), ![w].id = @ + 1]
    /\ UNCHANGED <<maps, running, input, dispatcher, work, received, stats, outcome>>

WorkerStep(w) ==
    \/ WorkerCheck(w) \/ Collect(w) \/ NextTx(w) \/ Path(w) \/ Number(w) \/ SendOpp(w)

Dispatch == DispatchCheck \/ DispatchRecv \/ DispatchSend

Next ==
    \/ Start \/ Stop \/ LoadPool \/ Consume \/ DropReceiver
    \/ \E u \in Updates : update_pool(u)
    \/ Dispatch
    \/ \E w \in Workers : WorkerStep(w)

Spec == Init /\ [][Next]_vars

\* Threads are scheduled; whoever receives the opportunities goes on reading until
\* they drop the receiver; a call of load_pools returns.  Nobody need stop.
Fairness ==
    /\ WF_vars(LoadPool) /\ WF_vars(Start) /\ WF_vars(Consume)
    /\ WF_vars(Dispatch) /\ \A w \in Workers : WF_vars(WorkerStep(w))

FairSpec == Spec /\ Fairness

---------------------------------------------------------------------------
(* Properties. *)

\* Every reachable state has the shape the source's types give it, and no channel
\* exceeds its capacity: the dispatcher and the workers wait instead.
TypeOK ==
    /\ running \in BOOLEAN
    /\ dispatcher.pc \in {"off", "check", "recv", "send", "done"}
    /\ Len(work) <= WorkCap /\ Len(channel.queue) <= OppCap
    /\ \A w \in Workers : /\ worker[w].pc \in {"off", "check", "collect", "tx", "find",
                                                  "number", "send"} \union Ended
                           /\ Len(worker[w].batch) <= BatchSize
    /\ outcome \in [DOMAIN Txs -> Int]

\* What waits for a worker, and the positions and transactions of a worker's batch
\* from the one at hand on.
Queued == Range(input) \union Range(work) \union ({dispatcher.tx} \ {None})
Left(w) == worker[w].pos .. Len(worker[w].batch)
InHand(w) == {worker[w].batch[k] : k \in Left(w)}

\* A transaction is searched at most once, whichever worker takes it: it waits in
\* one place only, and none that waits was finished or dropped before
\* (batch.clear() and the shared work_rx).
SearchedOnce ==
    /\ IsInjective(input) /\ IsInjective(work) /\ Range(input) \intersect Range(work) = {}
    /\ dispatcher.tx \notin Range(input) \union Range(work)
    /\ \A w \in Workers :
          /\ \A k, l \in Left(w) : worker[w].batch[k] = worker[w].batch[l] => k = l
          /\ InHand(w) \intersect Queued = {}
          /\ \A v \in Workers \ {w} : InHand(v) \intersect InHand(w) = {}
    /\ \A i \in Queued \union UNION {InHand(w) : w \in Workers} : outcome[i] = 0
    /\ \A i \in DOMAIN Txs : outcome[i] <= 1

Sent == received \o channel.queue

\* Opportunities of different workers never share an id as long as no worker has
\* numbered Stride of them (opp_id starts at worker_id * 1_000_000).
IdsDistinct ==
    (\A w \in Workers : worker[w].id <= (w + 1) * Stride) =>
        \A i, j \in DOMAIN Sent : i # j => Sent[i].id # Sent[j].id

\* The dispatcher drops a transaction only when every worker has ended, by the flag
\* or by a panic: a full work channel makes it wait, although the warning it logs
\* says "Work channel full, dropping tx".
DropNeedsNoWorker ==
    (\E i \in DOMAIN Txs : outcome[i] = None) => Disconnected

\* While its receiver lives, profitable_count is the number of opportunities sent
\* or waiting to be sent, and opportunities_found the number of swaps searched: a
\* swap that yielded nothing is counted, one lost in a panic is not.
CountersAgree ==
    /\ channel.open =>
          stats.profitable = Len(Sent) + Cardinality({w \in Workers : worker[w].pc = "send"})
    /\ stats.found = Cardinality({i \in DOMAIN Txs : Txs[i].is_swap /\ outcome[i] = 1})

\* The two steps of an opportunity join: each pool holds the token it is given and
\* the token it is to return, although the index lists a pool before the pool is
\* stored.  The path starts with the trigger's output token and ends with its input
\* token: it closes only if that swap did not change tokens.
Joins(map, o) ==
    /\ {o.pool1, o.pool2} \subseteq DOMAIN map
    /\ Holds(map[o.pool1], o.token_in) /\ Holds(map[o.pool1], o.mid)
    /\ Holds(map[o.pool2], o.mid) /\ Holds(map[o.pool2], o.token_out)
    /\ o.token_in = Txs[o.trigger].info.token_out /\ o.token_out = Txs[o.trigger].info.token_in
StepsJoin == \A k \in DOMAIN Sent : Joins(pools, Sent[k].opp)

\* The detector repeats and miscounts nothing: a transaction waits in at most one place
\* and has at most one outcome, and what was sent is numbered, counted and joined
\* correctly.  That none is forgotten is AllSearched.
DetectorInv ==
    /\ TypeOK /\ SearchedOnce /\ IdsDistinct /\ DropNeedsNoWorker /\ CountersAgree
    /\ StepsJoin

\* Once stop() was called every thread ends, the dispatcher blocked on a full work
\* channel and the workers blocked on a full opportunity channel included, as long
\* as opportunities are read or their receiver is dropped.
StopEndsThreads ==
    <>[](dispatcher.pc = "off" \/ running \/ (dispatcher.pc = "done" /\ Disconnected))

\* Unless the detector is stopped or loses all its workers, every transaction is
\* searched, save those in the batch of a worker that panicked.
AllSearched ==
    <>[](\/ dispatcher.pc # "off" /\ ~running
         \/ Disconnected
         \/ /\ input \o work = <<>> /\ dispatcher.tx = None
            /\ \A w \in Workers : worker[w].pc # "dead" => Left(w) = {})
=============================================================================
