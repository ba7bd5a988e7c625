------------------------ MODULE OpportunityPricing -------------------------
(***************************************************************************)
(* The detectors, stage 1 and the bundle builder with their caches: one    *)
(* transaction at a time goes through OpportunityDetector::process_tx,     *)
(* EvmSimulator::simulate and BundleBuilder::build (fork simulation off),  *)
(* while the caches are reloaded and updated between any two reads of      *)
(* them.  Each cache is behind one RwLock, taken once per read; the        *)
(* arbitrage detector takes its lock twice, to quote and to resolve.       *)
(* OpportunityServer has the concurrent calls and the statistics counters; *)
(* found_count, which only tests read, is left out.                        *)
(***************************************************************************)
EXTENDS Opportunities

CONSTANTS
    Txs,           \* the transactions that arrive
    Pools,         \* the states a pool may be reported in
    PoolLists,     \* the lists load_pools is called with
    Liquidities,   \* what update_liquidity reports
    Snapshots,     \* the positions an indexer reports, without their time
    StrategySets,  \* values of strategy.enabled_strategies
    MaxAge,        \* max_age_seconds of prune_stale
    MaxNow, MaxPositions, MaxIndex   \* bounds: time, tracked positions, index entries

VARIABLES
    strategies,  \* strategy.enabled_strategies
    contract,    \* whether set_contract was called
    arbPools,    \* ArbitrageDetector.pool_cache
    simPools,    \* EvmSimulator.pool_cache
    pairIndex,   \* EvmSimulator.pair_index
    liqPools,    \* LiquidationDetector.pool_cache
    liquidity,   \* BackrunDetector.pool_liquidity
    positions,   \* LiquidationDetector.positions, in one list
    now,         \* seconds
    call         \* the transaction in the pipeline

caches == <<arbPools, simPools, pairIndex, liqPools, liquidity, positions>>
config == <<strategies, contract>>
vars   == <<config, caches, now, call>>

Nothing == [x \in {} |-> 0]
Idle == [phase |-> "idle", tx |-> {}, quote |-> {}, opps |-> <<>>, sim |-> {}, bundle |-> {}]
On(s) == s \in strategies

Init ==
    /\ strategies \in StrategySets
    /\ contract \in BOOLEAN
    /\ arbPools = Nothing /\ simPools = Nothing /\ pairIndex = Nothing
    /\ liqPools = Nothing /\ liquidity = Nothing
    /\ positions = <<>>
    /\ now = 0
    /\ call = Idle

----------------------------------------------------------------------------
(* The caches.  A cache that no enabled strategy reads is left alone, to   *)
(* keep the state space small.                                             *)

UpdateArb(pool) ==
    /\ On("arbitrage")
    /\ arbPools' = Put(arbPools, PoolKey(pool), pool)
    /\ UNCHANGED <<config, simPools, pairIndex, liqPools, liquidity, positions, now, call>>

LoadArb(list) ==
    /\ On("arbitrage")
    /\ arbPools' = FoldLeft(LAMBDA m, pool : Put(m, PoolKey(pool), pool), arbPools, list)
    /\ UNCHANGED <<config, simPools, pairIndex, liqPools, liquidity, positions, now, call>>

OrderedPair(pool) == IF pool.token0 <= pool.token1 THEN <<pool.token0, pool.token1>>
                                                   ELSE <<pool.token1, pool.token0>>
Entries(pair) == IF pair \in DOMAIN pairIndex THEN pairIndex[pair] ELSE <<>>
IndexPool(idx, pool) ==
    LET pair == OrderedPair(pool)
    IN  Put(idx, pair, Append(IF pair \in DOMAIN idx THEN idx[pair] ELSE <<>>, pool.address))

(* Mutant: only pools already cached are indexed.                          *)
UpdateSimIndexesKnown(pool) ==
    /\ On("arbitrage") \/ On("backrun")
    /\ Len(Entries(OrderedPair(pool))) < MaxIndex
    /\ pairIndex' = IF pool.address \in DOMAIN simPools THEN IndexPool(pairIndex, pool) ELSE pairIndex
    /\ simPools' = Put(simPools, pool.address, pool)
    /\ UNCHANGED <<config, arbPools, liqPools, liquidity, positions, now, call>>

UpdateSim(pool) ==
    /\ On("arbitrage") \/ On("backrun")
    /\ Len(Entries(OrderedPair(pool))) < MaxIndex
    /\ pairIndex' = IF pool.address \in DOMAIN simPools THEN pairIndex ELSE IndexPool(pairIndex, pool)
    /\ simPools' = Put(simPools, pool.address, pool)
    /\ UNCHANGED <<config, arbPools, liqPools, liquidity, positions, now, call>>

(* load_pools pushes the address again when the pool is already indexed.   *)
LoadSim(list) ==
    /\ On("arbitrage") \/ On("backrun")
    /\ \A i \in DOMAIN list : Len(Entries(OrderedPair(list[i]))) + Len(list) <= MaxIndex
    /\ pairIndex' = FoldLeft(IndexPool, pairIndex, list)
    /\ simPools' = FoldLeft(LAMBDA m, pool : Put(m, pool.address, pool), simPools, list)
    /\ UNCHANGED <<config, arbPools, liqPools, liquidity, positions, now, call>>

LoadLiq(list) ==
    /\ On("liquidation")
    /\ liqPools' = FoldLeft(LAMBDA m, pool : Put(m, pool.address, pool), liqPools, list)
    /\ UNCHANGED <<config, arbPools, simPools, pairIndex, liquidity, positions, now, call>>

UpdateLiquidity(addr, amount) ==
    /\ On("backrun")
    /\ liquidity' = Put(liquidity, addr, amount)
    /\ UNCHANGED <<config, arbPools, simPools, pairIndex, liqPools, positions, now, call>>

(* update_positions appends: an older snapshot of the same user stays.     *)
UpdatePositions(snapshot) ==
    /\ On("liquidation")
    /\ Len(positions) < MaxPositions
    /\ positions' = Append(positions, [pos |-> snapshot, updated |-> now])
    /\ UNCHANGED <<config, arbPools, simPools, pairIndex, liqPools, liquidity, now, call>>

Prune ==
    /\ On("liquidation")
    /\ positions' = SelectSeq(positions, LAMBDA p : SatSub(now, p.updated) < MaxAge)
    /\ UNCHANGED <<config, arbPools, simPools, pairIndex, liqPools, liquidity, now, call>>

Tick == On("liquidation") /\ now < MaxNow /\ now' = now + 1 /\ UNCHANGED <<config, caches, call>>

----------------------------------------------------------------------------
(* The pipeline.                                                           *)

Keep == UNCHANGED <<config, caches, now>>

(* ArbitrageDetector::detect up to the pool addresses.                     *)
Receive(tx) ==
    /\ call.phase = "idle"
    /\ \E quotes \in {IF On("arbitrage") THEN ArbitrageQuotes(arbPools, tx) ELSE {}} :
           \/ \E q \in quotes : call' = [Idle EXCEPT !.phase = "resolve", !.tx = {tx}, !.quote = {q}]
           \/ quotes = {} /\ call' = [Idle EXCEPT !.phase = "rest", !.tx = {tx}]
    /\ Keep

(* The rest of detect, under the second read lock.                         *)
Resolve ==
    /\ call.phase = "resolve"
    /\ \E q \in call.quote :
          LET found == resolve_pool_addresses(arbPools, q.swap, q.path)
          IN  \/ \E a \in found : call' = [call EXCEPT !.phase = "rest", !.quote = {},
                                                      !.opps = <<ArbitrageOpportunity(q, a)>>]
              \/ found = {} /\ call' = [call EXCEPT !.phase = "rest", !.quote = {}]
    /\ Keep

(* find_liquidatable: the opportunities of the unhealthy snapshots, the    *)
(* most profitable first.                                                  *)
Liquidatable ==
    LET unhealthy == {i \in DOMAIN positions : positions[i].pos.health < E18}
        of(i)     == evaluate_liquidation(liqPools, positions[i].pos)
        chosen    == {i \in unhealthy : of(i) # {}}
        picks     == {f \in [chosen -> UNION {of(i) : i \in chosen}] : \A i \in chosen : f[i] \in of(i)}
    IN  UNION {{[n \in 1 .. Cardinality(chosen) |-> f[order[n]]] :
                   order \in {o \in SetToSeqs(chosen) : \A n \in 2 .. Len(o) : f[o[n - 1]].profit >= f[o[n]].profit}} :
               f \in picks}

Rest ==
    /\ call.phase = "rest"
    /\ \E tx \in call.tx :
          LET back == IF On("backrun") THEN SetToSeq(BackrunDetect(liquidity, tx)) ELSE <<>>
          IN  \E liq \in IF On("liquidation") THEN Liquidatable ELSE {<<>>} :
                 LET opps == call.opps \o back \o liq
                 IN  call' = IF opps = <<>> THEN Idle
                             ELSE [Idle EXCEPT !.phase = "simulate", !.opps = opps]
    /\ Keep

Advance == IF Len(call.opps) = 1 THEN Idle
           ELSE [Idle EXCEPT !.phase = "simulate", !.opps = Tail(call.opps)]

(* The server goes on with the next opportunity when stage 1 rejects one.  *)
Simulate ==
    /\ call.phase = "simulate"
    /\ \E sim \in {StageOne(simPools, Head(call.opps))} :
          call' = IF sim.success /\ sim.profit > 0
                  THEN [call EXCEPT !.phase = "build", !.sim = {sim}] ELSE Advance
    /\ Keep

Build ==
    /\ call.phase = "build"
    /\ call' = [call EXCEPT !.phase = "done",
                            !.bundle = IF contract THEN BuildTransactions(Head(call.opps)) ELSE {}]
    /\ Keep

Answer == call.phase = "done" /\ call' = Advance /\ Keep

Next ==
    \/ \E pool \in Pools : UpdateArb(pool) \/ UpdateSim(pool)
    \/ \E list \in PoolLists : LoadArb(list) \/ LoadSim(list) \/ LoadLiq(list)
    \/ \E l \in Liquidities : UpdateLiquidity(l[1], l[2])
    \/ \E s \in Snapshots : UpdatePositions(s)
    \/ Prune \/ Tick
    \/ \E tx \in Txs : Receive(tx)
    \/ Resolve \/ Rest \/ Simulate \/ Build \/ Answer

Spec == Init /\ [][Next]_vars

----------------------------------------------------------------------------
(* Types, and that an opportunity is in hand when the server simulates or  *)
(* builds one.                                                             *)
TypeOK ==
    /\ strategies \in StrategySets /\ contract \in BOOLEAN
    /\ Range(arbPools) \cup Range(simPools) \cup Range(liqPools) \subseteq Pools
    /\ \A k \in DOMAIN pairIndex : Len(pairIndex[k]) <= MaxIndex
    /\ Len(positions) <= MaxPositions
    /\ now \in 0 .. MaxNow
    /\ call.phase \in {"idle", "resolve", "rest", "simulate", "build", "done"}
    /\ call.phase \in {"simulate", "build", "done"} => call.opps # <<>>

Amounts == {tx.a : tx \in Txs} \cup {tx.b : tx \in Txs} \cup {tx.value : tx \in Txs}
BpsOf(pool) == pool.fee \div 100

(* mul_div_u128 is exact where the product of the virtual reserves fits a  *)
(* word; beyond that it is not (run mul_div).                              *)
VirtualFits(pool) ==
    pool.is_v3 => CheckedMul(pool.liquidity, Q96) # None /\ CheckedMul(pool.liquidity, pool.sqrt) # None

(* A swap through a cached pool and back through the same pool never       *)
(* returns more than went in, whatever the pool's kind, price, ticks or    *)
(* fee: so an arbitrage whose two hops resolve to one pool (the entry DEX  *)
(* is also the best exit) never passes stage 1.                            *)
RoundTripLoses ==
    call = Idle => \A k \in DOMAIN simPools : VirtualFits(simPools[k]) =>
        \A a \in Amounts :
            LET pool == simPools[k]
                fee  == BpsOf(pool)
            IN  SwapPool(SwapPool(a, pool, fee, TRUE), pool, fee, FALSE) <= a

ExactOut(a, x, y, fee) == (a * (Bps - fee) * y) \div (x * Bps + a * (Bps - fee))

(* Checked arithmetic answers 0 where it overflows, and nothing else is    *)
(* lost: stage 1 never reports more profit for an arbitrage between two V2 *)
(* pools than exact arithmetic on the cached reserves, although the        *)
(* detector's own quote may have wrapped around.                           *)
Stage1NeverOverstates ==
    (call.phase = "simulate" /\ Head(call.opps).kind = "Arbitrage") =>
        LET opp == Head(call.opps)
            x   == simPools[opp.pools[1]]
            y   == simPools[opp.pools[2]]
            mid == ExactOut(opp.amount_in, x.reserve0, x.reserve1, opp.fees[1] \div 100)
            out == ExactOut(mid, y.reserve1, y.reserve0, opp.fees[2] \div 100)
        IN  (Cached(simPools, opp.pools[1]) /\ Cached(simPools, opp.pools[2]) /\ ~x.is_v3 /\ ~y.is_v3) =>
                StageOne(simPools, opp).profit <= out - opp.amount_in - GasCost(opp.gas) - Share(opp.amount_in, 5)

ProductPool(pool) == ~pool.is_v3 /\ simPools[pool.address] = pool

(* The exit DEX is the one that pays most for the input, and the path      *)
(* sells back to it: an arbitrage from a token0, entered through a V2 pool *)
(* quoted at no more than the simulated fee, is always rejected by stage 1 *)
(* when both caches hold the same reserves.                                *)
ForwardArbitrageRejected ==
    (call = Idle /\ "arbitrage" \in strategies) => \A tx \in Txs : \A q \in ArbitrageQuotes(arbPools, tx) :
        \A a \in resolve_pool_addresses(arbPools, q.swap, q.path) :
            (/\ q.path[1] = V2
             /\ \A i \in 1 .. 2 : a[i] \in DOMAIN simPools
             /\ \A k \in DOMAIN arbPools : arbPools[k].address \in {a[1], a[2]} =>
                   /\ ProductPool(arbPools[k])
                   /\ arbPools[k].token0 = q.swap.token_in
                   /\ arbPools[k].address = a[1] => arbPools[k].fee <= 30)
            => ~simulate_arbitrage(simPools, ArbitrageOpportunity(q, a)).success

(* No backrun ever passes stage 1: simulate_backrun needs a second pool    *)
(* and the backrun detector names only the transaction's target.           *)
BackrunNeverPasses == call.phase \in {"build", "done"} => Head(call.opps).kind # "Backrun"

(* What stage 1 rejects for certain, as detectors and simulator are put    *)
(* together: forward arbitrages through V2, and all backruns.              *)
Stage1Rejects == ForwardArbitrageRejected /\ BackrunNeverPasses

(* The builder refuses no opportunity of the detectors except a backrun of *)
(* a transaction sent to the zero address: their paths, pools and fees     *)
(* agree with its tables.                                                  *)
DetectedBuilds ==
    \A i \in DOMAIN call.opps :
        BuildTransactions(call.opps[i]) = {} => \E j \in DOMAIN call.opps[i].pools : call.opps[i].pools[j] = 0

(* Every pool of the simulator's cache is in its pair index, whichever of  *)
(* load_pools and update_pool brought it, and nothing else is.             *)
IndexCoversCache ==
    UNION {Range(pairIndex[k]) : k \in DOMAIN pairIndex} = DOMAIN simPools

(* The caches hold pools in range, and the pair index covers the           *)
(* simulator's cache, while calls, loads and updates interleave.           *)
PricingInv == TypeOK /\ IndexCoversCache

(* getAmountIn rounds so that the input it names buys the output asked     *)
(* for (v2_amount_in_rust, v2_amount_out_rust), where their products fit.  *)
AmountInSuffices ==
    call = Idle => \A k \in DOMAIN simPools : \A out \in {1, 7, 20} :
        LET pool == simPools[k]
            ain  == v2_amount_in_rust(pool.reserve0, pool.reserve1, pool.fee, out)
        IN  ain # None => v2_amount_out_rust(pool.reserve0, pool.reserve1, pool.fee, ain) >= out

(* The swap arithmetic gives nothing away in either direction: a round     *)
(* trip never gains, and the input named for an output buys it.            *)
SwapsSound == RoundTripLoses /\ AmountInSuffices

=============================================================================
