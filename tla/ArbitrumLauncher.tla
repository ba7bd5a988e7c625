-------------------------- MODULE ArbitrumLauncher --------------------------
(***************************************************************************)
(* The mev_launcher binary, core/src/bin/mev_launcher.rs, over             *)
(* core/src/arbitrum: main discovers pools, then three tasks share the     *)
(* pool cache, a flag and the counters.  The scanner refreshes the cache   *)
(* from the chain, the monitor turns pending hashes into swaps, and the    *)
(* engine scans the cache for two- and three-pool cycles on every swap and *)
(* once a second, and simulates or executes what it finds.                 *)
(*                                                                         *)
(* The chain's history of a pool is a fixed sequence of states, and the    *)
(* cache records which of them it was read from; reserves follow from      *)
(* that.  The two reads of a V3 pool are two steps.  A call of the RPC     *)
(* endpoint or of the executor's contract is a choice of its answer.       *)
(***************************************************************************)
EXTENDS Integers, Sequences, Functions

CONSTANTS
    Weth, Tokens,   \* tokens[0], and the other tokens, in list order
    Pools,          \* [address -> [kind, token0, token1, fee_bps]]
    History,        \* [address -> the states it takes on chain, in order]
    Q96,            \* fixed point of a V3 price
    MinReserve,     \* smallest virtual reserve of a V3 pool (1000)
    Amounts,        \* config.flash_amounts
    MinProfitBps,
    GasPrice,       \* gas_price_wei, of 50,000 gas
    MinReport,      \* net profit from which an opportunity is tried (0.0001 ETH)
    MaxU64,         \* largest u64: as_u64 panics beyond it, fetch_add wraps
    Worlds          \* [pools, hashes, background, trades]: the pools there are, and as
                    \* bounds the transactions behind the hashes the stream delivers,
                    \* the number of background scans and that of trades on chain

(* What the launcher tells apart in a transaction, and a course of events. *)
Transaction == [router : BOOLEAN, sel : STRING, len : Nat, path : {"some", "none", "panics"}]
World == [pools : SUBSET DOMAIN Pools, hashes : Seq(Transaction), background : Nat, trades : Nat]

IsList(s) == Len(s) \in Nat /\ DOMAIN s = 1 .. Len(s)

(* What get_top_arbitrum_tokens and the default configuration hold: at     *)
(* least two tokens other than WETH, and some amounts.  A pool exists from *)
(* its first state on.                                                     *)
ASSUME LauncherAssumption ==
    /\ IsList(Tokens) /\ Len(Tokens) >= 2 /\ \A k \in DOMAIN Tokens : Tokens[k] # Weth
    /\ IsList(Amounts) /\ Len(Amounts) >= 1
    /\ \A a \in DOMAIN Pools : IsList(History[a]) /\ Len(History[a]) >= 1
    /\ Worlds \subseteq World

VARIABLES
    running,        \* the shared flag
    chain,          \* [address -> index of its current state]
    cache,          \* pool_manager.pools: [address -> [liq, price]], the indices
                    \* the reserves were read at
    launched,       \* number of tokens main has discovered pools for
    scanner,        \* [pc, reads]
    monitor,        \* "check", "stream", "ended"
    fetching,       \* the transactions being looked up
    swaps,          \* swap_tx to swap_rx
    engine,         \* [pc, trigger, amount, token, other, first, opps]
    world,          \* the pools, and what is left of the bounds
    live,           \* config.execute_live
    stats           \* [txs, swaps, found, ok, sent, success, profit]

pools == <<chain, cache, launched, scanner>>
feed == <<monitor, fetching>>
vars == <<running, pools, feed, swaps, engine, world, live, stats>>

None == -1
Addresses == DOMAIN Pools
The(S) == CHOOSE x \in S : TRUE

Idle == [pc |-> "select", trigger |-> FALSE, amount |-> 1, token |-> 1, other |-> 2,
         first |-> {}, opps |-> <<>>]

Init ==
    /\ running = TRUE
    /\ chain = [a \in Addresses |-> 1]
    /\ cache = << >>
    /\ launched = 0
    /\ scanner = [pc |-> "check", reads |-> << >>]
    /\ monitor = "check" /\ fetching = <<>> /\ swaps = <<>>
    /\ engine = Idle /\ world \in Worlds /\ live \in BOOLEAN
    /\ stats = [txs |-> 0, swaps |-> 0, found |-> 0, ok |-> 0, sent |-> 0, success |-> 0,
                profit |-> 0]

Launched == launched = Len(Tokens)

---------------------------------------------------------------------------
(* PoolManager. *)

IsV3(a) == Pools[a].kind = "v3"

\* The reserves a cached pool holds, as <<reserve0, reserve1>>: those of a V2 pair
\* as they are, those of a V3 pool from a liquidity and a price.
Virtual(liq, sqrtP) == <<(liq * Q96) \div sqrtP, (liq * sqrtP) \div Q96>>
Reserves(a, read) ==
    IF IsV3(a) THEN Virtual(History[a][read.liq].liq, History[a][read.price].sqrtP)
    ELSE History[a][read.liq].reserves

\* A V3 pool without liquidity, price or enough reserves is skipped.
Acceptable(a, read) ==
    IsV3(a) => /\ History[a][read.liq].liq # 0 /\ History[a][read.price].sqrtP # 0
               /\ \A i \in 1..2 : Reserves(a, read)[i] >= MinReserve

get_amount_out(reserveIn, reserveOut, feeBps, amountIn) ==
    IF reserveIn = 0 \/ reserveOut = 0 THEN 0
    ELSE The({(fee * reserveOut) \div (reserveIn * 10000 + fee) :
              fee \in {amountIn * (10000 - feeBps)}})

\* Output of pool p, as get_pools cloned it, for an amount of a token.
Out(p, amount, token) ==
    IF Pools[p.address].token0 = token
    THEN get_amount_out(p.reserves[1], p.reserves[2], Pools[p.address].fee_bps, amount)
    ELSE get_amount_out(p.reserves[2], p.reserves[1], Pools[p.address].fee_bps, amount)

Pairs(a, t, u) == {Pools[a].token0, Pools[a].token1} = {t, u}

get_pools(t, u) ==
    {[address |-> a, reserves |-> Reserves(a, cache[a])] :
        a \in {b \in DOMAIN cache : Pairs(b, t, u)}}

\* The pools the factories know for WETH and a token.
Discoverable(t) == {a \in world.pools : Pairs(a, Weth, t)}

Now(a) == [liq |-> chain[a], price |-> chain[a]]

\* main's loop over the tokens: of the pools the factories know, those whose calls
\* succeed are stored; the others are never looked for again.
discover_pools ==
    /\ ~Launched /\ launched' = launched + 1
    /\ \E found \in SUBSET {a \in Discoverable(Tokens[launched + 1]) : Acceptable(a, Now(a))} :
          cache' = [a \in DOMAIN cache \union found |->
                       IF a \in found THEN Now(a) ELSE cache[a]]
    /\ UNCHANGED <<running, chain, scanner, feed, swaps, engine, world, live, stats>>

\* Swaps on chain move a pool, here once main has discovered the pools.
Trade(a) ==
    /\ Launched /\ a \in world.pools /\ chain[a] < Len(History[a]) /\ world.trades > 0
    /\ chain' = [chain EXCEPT ![a] = @ + 1]
    /\ world' = [world EXCEPT !.trades = @ - 1]
    /\ UNCHANGED <<running, cache, launched, scanner, feed, swaps, engine, live, stats>>

---------------------------------------------------------------------------
(* run_pool_scanner and refresh_all. *)

Unread == [state |-> "start", liq |-> 0, price |-> 0]

\* The loop head, and the futures of the pools stored now.
RefreshStart ==
    /\ Launched /\ scanner.pc = "check"
    /\ scanner' = IF running
                  THEN [pc |-> "refresh", reads |-> [a \in DOMAIN cache |-> Unread]]
                  ELSE [scanner EXCEPT !.pc = "ended"]
    /\ UNCHANGED <<running, chain, cache, launched, feed, swaps, engine, world, live,
                   stats>>

\* Mutant: the second answer overwrites the liquidity.
PriceReadLiquidity(r, a) == [r EXCEPT !.liq = chain[a]]

\* slot0, the second call for a V3 pool.
PriceRead(r, a) == [r EXCEPT !.price = chain[a]]

\* One call of one future: getReserves, or liquidity and then slot0; a failed call
\* or a pool that is not acceptable ends the future without a result.
ReadPool(a) ==
    LET r == scanner.reads[a]
        liq == [r EXCEPT !.liq = chain[a], !.price = chain[a]]
        done == IF IsV3(a) THEN PriceRead(r, a) ELSE liq
    IN /\ scanner.pc = "refresh" /\ a \in DOMAIN scanner.reads
       /\ r.state \in {"start", "liquidity"}
       /\ \/ scanner' = [scanner EXCEPT !.reads[a].state = "failed"]
          \/ /\ IsV3(a) /\ r.state = "start"
             /\ scanner' = [scanner EXCEPT !.reads[a] =
                   [liq EXCEPT !.state = IF History[a][chain[a]].liq = 0 THEN "failed"
                                         ELSE "liquidity"]]
          \/ /\ IsV3(a) => r.state = "liquidity"
             /\ scanner' = [scanner EXCEPT !.reads[a] =
                   [done EXCEPT !.state = IF Acceptable(a, done) THEN "done" ELSE "failed"]]
       /\ UNCHANGED <<running, chain, cache, launched, feed, swaps, engine, world, live,
                      stats>>

AllRead == \A a \in DOMAIN scanner.reads : scanner.reads[a].state \in {"done", "failed"}

\* Mutant: a failed read puts the first reading back.
RefreshWriteResets ==
    /\ scanner.pc = "refresh" /\ AllRead
    /\ cache' = [a \in DOMAIN cache |->
                    IF scanner.reads[a].state = "done"
                    THEN [liq |-> scanner.reads[a].liq, price |-> scanner.reads[a].price]
                    ELSE [liq |-> 1, price |-> 1]]
    /\ scanner' = [pc |-> "check", reads |-> << >>]
    /\ UNCHANGED <<running, chain, launched, feed, swaps, engine, world, live, stats>>

\* join_all, then one write lock for every result; pools that failed keep what they
\* had.
RefreshWrite ==
    /\ scanner.pc = "refresh" /\ AllRead
    /\ cache' = [a \in DOMAIN cache |->
                    IF scanner.reads[a].state = "done"
                    THEN [liq |-> scanner.reads[a].liq, price |-> scanner.reads[a].price]
                    ELSE cache[a]]
    /\ scanner' = [pc |-> "check", reads |-> << >>]
    /\ UNCHANGED <<running, chain, launched, feed, swaps, engine, world, live, stats>>

Scan == RefreshStart \/ RefreshWrite \/ \E a \in Addresses : ReadPool(a)

---------------------------------------------------------------------------
(* ArbitrageDetector. *)

\* Net profit of a cycle, or None when it does not pay, pays too few basis points,
\* or not its gas.
CycleNet(amount, out, gas) ==
    IF out <= amount \/ ((out - amount) * 10000) \div amount < MinProfitBps
                     \/ out - amount <= gas * GasPrice
    THEN None ELSE out - amount - gas * GasPrice

\* In units of 50,000 gas.
HopGas(a) == IF IsV3(a) THEN 3 ELSE 2
estimate_gas(a, b) == 1 + HopGas(a) + HopGas(b)
TriangleGas == 8

Opportunity(path, amount, out, gas) ==
    [path |-> path, amount |-> amount, net |-> CycleNet(amount, out, gas)]

\* The pairs of different pools, one of each list, that pay.
TwoHops(first, second, t, amount) ==
    {o \in {Opportunity(<<p[1].address, p[2].address>>, amount,
                        Out(p[2], Out(p[1], amount, Weth), t),
                        estimate_gas(p[1].address, p[2].address)) :
             p \in {q \in first \X second : q[1].address # q[2].address}} : o.net # None}

\* The cycles over three lists; take(3) never cuts the lists of the instances.
Triangles(ab, bc, ca, b, c, amount) ==
    {o \in {Opportunity(<<p[1].address, p[2].address, p[3].address>>, amount,
                        Out(p[3], Out(p[2], Out(p[1], amount, Weth), b), c), TriangleGas) :
             p \in ab \X bc \X ca} : o.net # None}

\* The best of the candidates: the loops keep the first of the largest net profit,
\* in the arbitrary order of a hash map.
Best(cands) == {o \in cands : \A other \in cands : other.net <= o.net}
Results(cands) == IF cands = {} THEN {<<>>} ELSE {<<o>> : o \in Best(cands)}

\* sort_by on the net profit, largest first: equal ones keep their order.
BestFirst(opps) ==
    {[k \in DOMAIN opps |-> opps[p[k]]] :
        p \in {q \in [DOMAIN opps -> DOMAIN opps] :
                 \A i, j \in DOMAIN opps :
                    i < j => \/ opps[q[i]].net > opps[q[j]].net
                             \/ opps[q[i]].net = opps[q[j]].net /\ q[i] < q[j]}}

---------------------------------------------------------------------------
(* run_arbitrage_engine. *)

Scanning(trigger, amount) ==
    [Idle EXCEPT !.pc = "first", !.trigger = trigger, !.amount = amount]

\* Mutant: the select has lost its receiving branch.
EngineSelectTimer ==
    /\ Launched /\ engine.pc = "select"
    /\ \/ /\ ~running /\ engine' = [engine EXCEPT !.pc = "ended"]
          /\ UNCHANGED <<swaps, world>>
       \/ /\ running /\ world.background > 0
          /\ world' = [world EXCEPT !.background = @ - 1] /\ engine' = Scanning(FALSE, 1)
          /\ UNCHANGED swaps
    /\ UNCHANGED <<running, pools, feed, live, stats>>

\* The flag, then the select: a swap, or the one-second timer.
EngineSelect ==
    /\ Launched /\ engine.pc = "select"
    /\ \/ /\ ~running /\ engine' = [engine EXCEPT !.pc = "ended"]
          /\ UNCHANGED <<swaps, world>>
       \/ /\ running /\ swaps # <<>>
          /\ swaps' = Tail(swaps) /\ engine' = Scanning(TRUE, 1)
          /\ UNCHANGED world
       \/ /\ running /\ world.background > 0
          /\ world' = [world EXCEPT !.background = @ - 1] /\ engine' = Scanning(FALSE, 1)
          /\ UNCHANGED swaps
    /\ UNCHANGED <<running, pools, feed, live, stats>>

\* find_two_hop_arb reads the cache once for each leg.
ScanFirst ==
    /\ engine.pc = "first"
    /\ engine' = [engine EXCEPT !.pc = "second",
                                !.first = get_pools(Weth, Tokens[engine.token])]
    /\ UNCHANGED <<running, pools, feed, swaps, world, live, stats>>

ScanSecond ==
    LET t == Tokens[engine.token] IN
    /\ engine.pc = "second"
    /\ \E found \in Results(TwoHops(engine.first, get_pools(t, Weth), t,
                                    Amounts[engine.amount])) :
          engine' = [engine EXCEPT
                        !.opps = @ \o found, !.first = {},
                        !.token = IF @ = Len(Tokens) THEN 1 ELSE @ + 1,
                        !.pc = IF engine.token = Len(Tokens) THEN "triangle" ELSE "first"]
    /\ UNCHANGED <<running, pools, feed, swaps, world, live, stats>>

\* One triangular search, and after the last one the sort by profit.
ScanTriangle ==
    LET b == Tokens[engine.token]  c == Tokens[engine.other] IN
    /\ engine.pc = "triangle"
    /\ \E found \in Results(Triangles(get_pools(Weth, b), get_pools(b, c), get_pools(c, Weth),
                                      b, c, Amounts[engine.amount])) :
          engine' \in IF engine.other < Len(Tokens)
                      THEN {[engine EXCEPT !.opps = @ \o found, !.other = @ + 1]}
                      ELSE IF engine.token + 1 < Len(Tokens)
                      THEN {[engine EXCEPT !.opps = @ \o found, !.token = @ + 1,
                                           !.other = engine.token + 2]}
                      ELSE {[engine EXCEPT !.opps = sorted, !.pc = "report"] :
                               sorted \in BestFirst(engine.opps \o found)}
    /\ UNCHANGED <<running, pools, feed, swaps, world, live, stats>>

\* opportunities_found counts every opportunity reported.
Found == [stats EXCEPT !.found = @ + 1]

\* A swap scans every amount, the timer only the first.
NextAmount ==
    IF engine.trigger /\ engine.amount < Len(Amounts)
    THEN Scanning(TRUE, engine.amount + 1) ELSE Idle

\* Count the next opportunity and try it when a swap triggered the scan and it pays;
\* when none is left, the next amount or back to the select.
Report ==
    /\ engine.pc = "report"
    /\ \/ engine.opps = <<>> /\ engine' = NextAmount /\ UNCHANGED stats
       \/ /\ engine.opps # <<>> /\ stats' = Found
          /\ engine' = IF engine.trigger /\ Head(engine.opps).net > MinReport
                       THEN [engine EXCEPT !.pc = "try"]
                       ELSE [engine EXCEPT !.opps = Tail(@)]
    /\ UNCHANGED <<running, pools, feed, swaps, world, live>>

Tried == [engine EXCEPT !.pc = "report", !.opps = Tail(@)]

\* executor.execute: the gas price or the sending fails, the price is too high, or
\* the transaction is sent, which counts as a success; as_u64 then panics on a
\* profit beyond u64.
Execute ==
    /\ engine.pc = "try" /\ live
    /\ \/ engine' = Tried /\ UNCHANGED stats
       \/ LET net == Head(engine.opps).net IN
          /\ stats' = [stats EXCEPT !.sent = @ + 1, !.success = @ + 1,
                          !.profit = IF net > MaxU64 THEN @ ELSE (@ + net) % (MaxU64 + 1)]
          /\ engine' = IF net > MaxU64 THEN [Idle EXCEPT !.pc = "dead"] ELSE Tried
    /\ UNCHANGED <<running, pools, feed, swaps, world, live>>

\* executor.simulate: the estimate or the gas price fails, or the simulation is ok
\* whatever its net profit.
Simulate ==
    /\ engine.pc = "try" /\ ~live /\ engine' = Tried
    /\ \/ UNCHANGED stats
       \/ stats' = [stats EXCEPT !.ok = @ + 1]
    /\ UNCHANGED <<running, pools, feed, swaps, world, live>>

Engine == EngineSelect \/ ScanFirst \/ ScanSecond \/ ScanTriangle \/ Report \/ Execute
          \/ Simulate

---------------------------------------------------------------------------
(* run_mempool_monitor and decode_swap_info. *)

SwapSelectors == {"swapExactTokensForTokens", "swapTokensForExactTokens",
                  "swapExactETHForTokens", "swapExactTokensForETH", "exactInputSingle",
                  "exactInput", "exactOutputSingle", "exactOutput", "execute",
                  "executeDeadline"}
MinLength(sel) ==
    CASE sel \in {"swapExactTokensForTokens", "swapExactTokensForETH"} -> 164
      [] sel = "swapExactETHForTokens" -> 132
      [] sel = "exactInputSingle" -> 260
      [] OTHER -> 4

\* "some", "none" or "panics" (as_usize of an offset beyond usize); a selector whose
\* layout is not decoded still counts as a swap.
decode_swap_info(tx) ==
    IF ~tx.router \/ tx.sel \notin SwapSelectors \/ tx.len < MinLength(tx.sel) THEN "none"
    ELSE IF MinLength(tx.sel) \in {132, 164} THEN tx.path
    ELSE "some"

\* Mutant: the loop reconnects without looking at the flag.
MonitorCheckReconnects ==
    /\ Launched /\ monitor = "check"
    /\ monitor' = "stream"
    /\ UNCHANGED <<running, pools, fetching, swaps, engine, world, live, stats>>

\* The loop head.  A connection or subscription that fails is a stutter: after the
\* delay the loop is back where it was.
MonitorCheck ==
    /\ Launched /\ monitor = "check"
    /\ monitor' = IF running THEN "stream" ELSE "ended"
    /\ UNCHANGED <<running, pools, fetching, swaps, engine, world, live, stats>>

\* The stream yields a hash: the flag is looked at only now.
NextHash ==
    /\ monitor = "stream" /\ world.hashes # <<>>
    /\ IF running
       THEN /\ fetching' = Append(fetching, Head(world.hashes))
            /\ world' = [world EXCEPT !.hashes = Tail(@)]
            /\ stats' = [stats EXCEPT !.txs = @ + 1]
            /\ UNCHANGED monitor
       ELSE monitor' = "check" /\ UNCHANGED <<fetching, stats, world>>
    /\ UNCHANGED <<running, pools, swaps, engine, live>>

StreamEnds ==
    /\ monitor = "stream" /\ monitor' = "check"
    /\ UNCHANGED <<running, pools, fetching, swaps, engine, world, live, stats>>

\* A list without its element at a place.
Without(s, k) == SubSeq(s, 1, k - 1) \o SubSeq(s, k + 1, Len(s))

EngineEnded == engine.pc \in {"ended", "dead"}

\* The task spawned for a hash: the lookup may fail; a swap is counted and sent, the
\* send fails silently when the engine is gone.
Fetch ==
    /\ \E k \in DOMAIN fetching :
          /\ fetching' = Without(fetching, k)
          /\ \/ UNCHANGED <<swaps, stats>>
             \/ /\ decode_swap_info(fetching[k]) = "some"
                /\ stats' = [stats EXCEPT !.swaps = @ + 1]
                /\ swaps' = IF EngineEnded THEN swaps ELSE Append(swaps, fetching[k])
    /\ UNCHANGED <<running, pools, monitor, engine, world, live>>

CtrlC ==
    /\ running /\ running' = FALSE
    /\ UNCHANGED <<pools, feed, swaps, engine, world, live, stats>>

Next ==
    \/ discover_pools \/ (\E a \in Addresses : Trade(a))
    \/ RefreshStart \/ (\E a \in Addresses : ReadPool(a)) \/ RefreshWrite
    \/ EngineSelect \/ ScanFirst \/ ScanSecond \/ ScanTriangle \/ Report
    \/ Execute \/ Simulate
    \/ MonitorCheck \/ NextHash \/ StreamEnds
    \/ Fetch \/ CtrlC

Spec == Init /\ [][Next]_vars

\* The tasks are scheduled and every RPC call returns; connecting may fail forever.
\* The stream goes on yielding hashes or ends: on a connection that stays open and
\* silent the monitor would not look at the flag again.
Fairness ==
    /\ WF_vars(discover_pools) /\ WF_vars(Scan) /\ WF_vars(Engine)
    /\ WF_vars(~running /\ MonitorCheck) /\ WF_vars(NextHash \/ StreamEnds)
    /\ WF_vars(Fetch)

FairSpec == Spec /\ Fairness

---------------------------------------------------------------------------
(* Properties. *)

\* Every reachable state has the shape the source's types give it.
TypeOK ==
    /\ running \in BOOLEAN /\ DOMAIN cache \subseteq Addresses
    /\ \A a \in Addresses : chain[a] \in DOMAIN History[a]
    /\ scanner.pc \in {"check", "refresh", "ended"}
    /\ monitor \in {"check", "stream", "ended"}
    /\ Len(fetching) <= stats.txs
    /\ engine.amount \in DOMAIN Amounts /\ engine.token \in DOMAIN Tokens

\* What the cache holds was on chain: the reserves of a pair in one state, the
\* liquidity and the price of a V3 pool each in some state, the liquidity never in
\* the later one, although another trade may fall between the two reads.
CacheFromChain ==
    \A a \in DOMAIN cache :
        /\ 1 <= cache[a].liq /\ cache[a].liq <= cache[a].price /\ cache[a].price <= chain[a]
        /\ ~IsV3(a) => cache[a].liq = cache[a].price
        /\ Acceptable(a, cache[a])

\* A refresh never puts an older reading over a newer one, and no pool leaves the
\* cache: failed reads keep what was there.
CacheNeverGoesBack ==
    [][\A a \in DOMAIN cache : /\ a \in DOMAIN cache'
                               /\ cache'[a].liq >= cache[a].liq
                               /\ cache'[a].price >= cache[a].price]_cache

\* Only pools with WETH are ever discovered, so the triangular search over every
\* pair of tokens finds nothing: each opportunity is a cycle of two pools.
OnlyTwoHops == \A k \in DOMAIN engine.opps : Len(engine.opps[k].path) = 2

\* The counters of the summary: no more swaps than hashes, no more tries than
\* opportunities, every transaction sent counted as a success, and none sent in
\* simulation mode.
StatsAgree ==
    /\ stats.swaps <= stats.txs /\ stats.ok + stats.sent <= stats.found
    /\ stats.sent = stats.success
    /\ IF live THEN stats.ok = 0 ELSE stats.sent = 0

\* The launcher works on readings of the chain, trades cycles of two pools, and counts
\* what it did.
LauncherInv == TypeOK /\ CacheFromChain /\ OnlyTwoHops /\ StatsAgree

\* After Ctrl-C the three tasks main joins end, whatever they were doing.
ShutdownCompletes ==
    <>[](running \/ (monitor = "ended" /\ scanner.pc = "ended" /\ EngineEnded))

\* Every swap sent to the engine is taken up, unless the program is shut down or the
\* engine dies of a profit beyond u64.
SwapsTakenUp == <>[](~running \/ engine.pc = "dead" \/ swaps = <<>>)
=============================================================================
