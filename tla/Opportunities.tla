--------------------------- MODULE Opportunities ---------------------------
(***************************************************************************)
(* What the three detectors, stage 1 of the simulator and the bundle       *)
(* builder compute of one transaction or one opportunity, as operators on  *)
(* the caches they read.  An Option is a set of at most one element; a     *)
(* choice the iteration order of a HashMap makes is a set of all outcomes. *)
(*                                                                         *)
(* A transaction keeps of its calldata what the parsers read: the selector *)
(* (`sel'), its length as the class of the largest test it passes (0, 4,   *)
(* 36 or 260 bytes), the first two amount words a and b, and the path of   *)
(* tokens.  Tokens and addresses are numbers, 0 the zero address.  Gas is  *)
(* counted in tens of thousands.                                           *)
(***************************************************************************)
EXTENDS Amm, Sequences, FiniteSets, SequencesExt

CONSTANTS
    MinProfit,         \* strategy.min_profit_wei
    SlippageBps,       \* strategy.slippage_tolerance_bps
    GasPrice,          \* strategy.max_gas_price_gwei, as wei per 10_000 gas
    MinBackrunSwap,    \* strategy.min_backrun_swap_wei
    DefaultLiquidity,  \* the 2500 ETH get_pool_liquidity assumes
    ColdMin,           \* the 100_000 below which a cold cache quotes nothing
    ColdReserves,      \* typical_reserves: records [dex, reserve0, reserve1, fee]
    TokenWord(_),      \* the low 16 bytes of a token's address, as a number
    E18                \* 1e18, the unit of health factors and prices

V2 == "UniswapV2"
V3 == "UniswapV3"
Sushi == "SushiSwap"

GasCost(gas) == gas * GasPrice
Slippage(gross) == (gross * SlippageBps) \div Bps

(* types.rs: 21k base, 80k for a flash loan, and each hop by its DEX.      *)
dex_hop_gas(dex) == IF dex = V3 THEN 15 ELSE 12
estimate_gas(kind, path) ==
    2 + (IF kind = "Backrun" THEN 0 ELSE 8) + FoldLeft(LAMBDA n, dex : n + dex_hop_gas(dex), 0, path)

----------------------------------------------------------------------------
(* detector/arbitrage.rs                                                   *)

dex_from_fee(fee) ==
    IF fee \in {100, 500, 3000, 10000} THEN V3 ELSE IF fee = 9970 THEN Sushi ELSE V2

(* PoolKey: the fee as a u8 stands for the DEX.                            *)
PoolKey(pool) == <<pool.token0, pool.token1, pool.fee % 256>>

Put(cache, k, v) == [x \in DOMAIN cache \cup {k} |-> IF x = k THEN v ELSE cache[x]]

Swap(dex, tin, tout, amount) == {[dex |-> dex, token_in |-> tin, token_out |-> tout, amount_in |-> amount]}

(* The first and the last token of the path; a path of one token is none.  *)
parse_v2_swap(tx, exact_output) ==
    IF tx.len < 260 \/ Len(tx.path) < 2 THEN {}
    ELSE Swap(V2, Head(tx.path), Last(tx.path), IF exact_output THEN tx.b ELSE tx.a)

(* token_in is the string "WETH", which decode_addr reads as address zero. *)
parse_v2_eth_swap(tx) ==
    IF tx.len < 260 \/ Len(tx.path) < 2 THEN {} ELSE Swap(V2, 0, Last(tx.path), tx.value)

parse_v3_exact_input_single(tx) ==
    IF tx.len < 260 THEN {} ELSE Swap(V3, tx.path[1], tx.path[2], tx.a)

parse_v3_exact_input(tx) ==
    IF tx.len < 260 \/ Len(tx.path) < 2 THEN {} ELSE Swap(V3, Head(tx.path), Last(tx.path), tx.a)

parse_v3_exact_output_single(tx) ==
    IF tx.len < 260 THEN {} ELSE Swap(V3, tx.path[1], tx.path[2], tx.b)

parse_swap(tx) ==
    CASE tx.len < 4 -> {}
      [] tx.sel \in {"swapExactTokensForTokens", "swapExactTokensForETH"} -> parse_v2_swap(tx, FALSE)
      [] tx.sel = "swapTokensForExactTokens" -> parse_v2_swap(tx, TRUE)
      [] tx.sel = "swapExactETHForTokens"    -> parse_v2_eth_swap(tx)
      [] tx.sel = "exactInputSingle"         -> parse_v3_exact_input_single(tx)
      [] tx.sel = "exactInput"               -> parse_v3_exact_input(tx)
      [] tx.sel = "exactOutputSingle"        -> parse_v3_exact_output_single(tx)
      [] OTHER -> {}

(* match_pool_to_swap: the reserves in the direction of the swap.          *)
match_pool_to_swap(pool, swap) ==
    IF pool.token0 = swap.token_in /\ pool.token1 = swap.token_out
    THEN {<<pool.reserve0, pool.reserve1>>}
    ELSE IF pool.token1 = swap.token_in /\ pool.token0 = swap.token_out
    THEN {<<pool.reserve1, pool.reserve0>>} ELSE {}

(* One quote, in plain arithmetic: it wraps where the simulator's is 0.    *)
Quote(id, dex, amount, r, fee) ==
    LET Divide(withFee, den) ==
            IF den = 0 THEN {} ELSE {[id |-> id, dex |-> dex, out |-> WrapMul(withFee, r[2]) \div den]}
        Trade(withFee) == Divide(withFee, WrapAdd(WrapMul(r[1], Bps), withFee))
    IN  Trade(WrapMul(amount, WrapSub(Bps, fee)))

estimate_cross_dex_prices(swap) ==
    IF swap.amount_in < ColdMin THEN {}
    ELSE UNION {Quote(t, t.dex, swap.amount_in, <<t.reserve0, t.reserve1>>, t.fee) : t \in ColdReserves}

get_cross_dex_prices(cache, swap) ==
    IF DOMAIN cache = {} THEN estimate_cross_dex_prices(swap)
    ELSE UNION {UNION {Quote(k, dex_from_fee(cache[k].fee), swap.amount_in, r, cache[k].fee) :
                          r \in {x \in match_pool_to_swap(cache[k], swap) : x[1] # 0 /\ x[2] # 0}} :
                k \in DOMAIN cache}

calculate_profit(prices) ==
    LET outs  == {q.out : q \in prices}
        gross == Max(outs) - Min(outs)
        afterGas == CheckedSub(gross, GasCost(25))
        net   == CheckedSub(afterGas, Slippage(gross))
    IN  IF Cardinality(prices) < 2 THEN None
        ELSE IF gross = 0 \/ afterGas = None THEN None ELSE net

(* max_by_key keeps the last of equal maxima, in the order of a HashMap.   *)
find_best_exit_dex(prices) == {q.dex : q \in {x \in prices : \A y \in prices : y.out <= x.out}}

(* What detect knows when it has priced the swap: a profit and a path.     *)
ArbitrageQuotes(cache, tx) ==
    LET Priced(swap, prices, profit) ==
            IF profit = None \/ profit < MinProfit THEN {}
            ELSE {[swap |-> swap, profit |-> profit, path |-> <<swap.dex, exit>>] :
                     exit \in find_best_exit_dex(prices)}
        Quoted(swap, prices) == Priced(swap, prices, calculate_profit(prices))
    IN  UNION {Quoted(swap, get_cross_dex_prices(cache, swap)) : swap \in parse_swap(tx)}

SamePair(pool, t, u) == {pool.token0, pool.token1} = {t, u} /\ (t = u => pool.token0 = pool.token1)

(* The lists of addresses resolve_pool_addresses may return: each hop gets *)
(* the first pool of its pair and DEX, in one iteration order for both.    *)
resolve_pool_addresses(cache, swap, path) ==
    LET found(dex) == {cache[k].address : k \in {x \in DOMAIN cache :
                          SamePair(cache[x], swap.token_in, swap.token_out)
                          /\ dex_from_fee(cache[x].fee) = dex}}
    IN  IF path[1] = path[2] THEN {<<p, p>> : p \in found(path[1])}
        ELSE found(path[1]) \X found(path[2])

ArbitrageOpportunity(quote, addresses) ==
    [kind |-> "Arbitrage", token_in |-> quote.swap.token_in, token_out |-> quote.swap.token_out,
     amount_in |-> quote.swap.amount_in, profit |-> quote.profit,
     gas |-> estimate_gas("Arbitrage", quote.path), path |-> quote.path, pools |-> addresses,
     fees |-> [i \in 1 .. 2 |-> IF quote.path[i] = V3 THEN 500 ELSE 3000]]

----------------------------------------------------------------------------
(* detector/backrun.rs                                                     *)

SWAP_SELECTORS ==
    {"swapExactTokensForTokens", "swapTokensForExactTokens", "swapExactETHForTokens",
     "swapExactTokensForETH", "exactInputSingle", "exactInput", "exactOutputSingle",
     "swapETHForExactTokens"}

(* The first word after the selector: an amount in the V2 calls, the       *)
(* input token's address in the V3 single calls, an offset in exactInput.  *)
FirstWord(tx) ==
    CASE tx.sel \in {"exactInputSingle", "exactOutputSingle"} -> TokenWord(tx.path[1])
      [] tx.sel = "exactInput" -> 32
      [] OTHER -> tx.a

estimate_swap_size(tx) ==
    IF tx.value > 0 THEN tx.value
    ELSE IF tx.len >= 36 /\ FirstWord(tx) > 0 THEN FirstWord(tx) ELSE None

get_pool_liquidity(liquidity, addr) == IF addr \in DOMAIN liquidity THEN liquidity[addr] ELSE DefaultLiquidity

calculate_price_impact(size, liquidity) ==
    LET reserve == liquidity \div 2
    IN  IF reserve = 0 THEN None
        ELSE Min({WrapMul(size, Bps) \div WrapAdd(reserve, size), 1000})

calculate_backrun_profit(size, impact) ==
    LET gross    == WrapMul(WrapMul(size, impact), 45) \div (Bps * 100)
        afterGas == CheckedSub(gross, GasCost(18))
    IN  IF afterGas = None THEN None ELSE CheckedSub(afterGas, Slippage(gross))

Isqrt(n) == CHOOSE r \in 0 .. n : r * r <= n /\ n < (r + 1) * (r + 1)

(* sqrt(size * liquidity), at most 1% of the liquidity, at least 1.        *)
BackrunAmount(size, liquidity) ==
    Max({1, IF size >= (liquidity + Bps - 1) \div Bps THEN liquidity \div 100 ELSE Isqrt(size * liquidity)})

BackrunDetect(liquidity, tx) ==
    LET size   == estimate_swap_size(tx)
        liq    == get_pool_liquidity(liquidity, tx.to)
        impact == calculate_price_impact(size, liq)
        profit == calculate_backrun_profit(size, impact)
    IN  IF \/ tx.len < 4 \/ tx.sel \notin SWAP_SELECTORS
           \/ size = None \/ size < MinBackrunSwap
           \/ tx.to = None
           \/ impact = None \/ impact < 5
           \/ profit = None \/ profit < MinProfit
        THEN {}
        ELSE {[kind |-> "Backrun", token_in |-> tx.to, token_out |-> 0,
               amount_in |-> BackrunAmount(size, liq), profit |-> profit,
               gas |-> estimate_gas("Backrun", <<V3>>), path |-> <<V3>>, pools |-> <<tx.to>>, fees |-> <<500>>]}

----------------------------------------------------------------------------
(* detector/liquidation.rs                                                 *)

Protocols ==
    [AaveV3     |-> [bonus |-> 500, close |-> 5000,  flash |-> 5, gas |-> 45],
     CompoundV3 |-> [bonus |-> 800, close |-> 5000,  flash |-> 0, gas |-> 50],
     Morpho     |-> [bonus |-> 500, close |-> 10000, flash |-> 0, gas |-> 40]]

Share(amount, bps) == (amount * bps) \div Bps
MaxRepay(pos)  == Share(pos.debt, Protocols[pos.protocol].close)
SeizedValue(pos) == Share(MaxRepay(pos), Bps + Protocols[pos.protocol].bonus)

(* In units of the collateral; None without a price.  The price is far     *)
(* below 2^127, where mul_div_u128 is exact (module MulDiv).               *)
CollateralNeeded(pos) ==
    IF pos.collateral_token = pos.debt_token THEN SeizedValue(pos)
    ELSE IF pos.price = None \/ pos.price = 0 THEN None
    ELSE (SeizedValue(pos) * E18) \div pos.price

LiquidationNet(pos) ==
    LET p == Protocols[pos.protocol]
    IN  Share(MaxRepay(pos), p.bonus) - Share(MaxRepay(pos), p.flash) - GasCost(p.gas)
            - Share(SeizedValue(pos), 30)

(* evaluate_liquidation: the pool is any one of the pair.                  *)
evaluate_liquidation(pools, pos) ==
    LET needed == CollateralNeeded(pos)
    IN  IF needed = None \/ needed > pos.collateral
           \/ LiquidationNet(pos) < MinProfit \/ LiquidationNet(pos) < 0
        THEN {}
        ELSE {[kind |-> "Liquidation", token_in |-> pos.debt_token, token_out |-> pos.collateral_token,
               amount_in |-> MaxRepay(pos), profit |-> LiquidationNet(pos),
               gas |-> Protocols[pos.protocol].gas, path |-> <<V3>>,
               pools |-> <<a>>, fees |-> <<pools[a].fee>>] :
                  a \in {x \in DOMAIN pools : SamePair(pools[x], pos.collateral_token, pos.debt_token)}}

----------------------------------------------------------------------------
(* simulator/mod.rs: the result of stage 1, as [ok, success, profit]; ok   *)
(* is FALSE for the errors that simulate_inner turns into a failed result. *)

Failed == [ok |-> FALSE, success |-> FALSE, profit |-> 0]
Net(n) == [ok |-> TRUE, success |-> n > 0, profit |-> n]

AddressAt(opp, i) == IF i <= Len(opp.pools) THEN opp.pools[i] ELSE 0
Cached(cache, addr) == addr # 0 /\ addr \in DOMAIN cache
FeeAt(opp, i, default) == IF i <= Len(opp.fees) THEN opp.fees[i] \div 100 ELSE default

(* Mutant: both hops swap in the same direction.                           *)
simulate_arbitrageOneWay(cache, opp) ==
    LET entry == AddressAt(opp, 1)
        exit  == AddressAt(opp, 2)
        mid   == SwapPool(opp.amount_in, cache[entry], FeeAt(opp, 1, cache[entry].fee), TRUE)
    IN  IF ~Cached(cache, entry) \/ ~Cached(cache, exit) THEN Failed
        ELSE Net(SwapPool(mid, cache[exit], FeeAt(opp, 2, cache[exit].fee), TRUE)
                     - opp.amount_in - GasCost(opp.gas) - Share(opp.amount_in, 5))

(* Out through the first pool as token0, back through the second as token1.*)
simulate_arbitrage(cache, opp) ==
    LET entry == AddressAt(opp, 1)
        exit  == AddressAt(opp, 2)
        mid   == SwapPool(opp.amount_in, cache[entry], FeeAt(opp, 1, cache[entry].fee), TRUE)
        out   == SwapPool(mid, cache[exit], FeeAt(opp, 2, cache[exit].fee), FALSE)
    IN  IF ~Cached(cache, entry) \/ ~Cached(cache, exit) THEN Failed
        ELSE Net(out - opp.amount_in - GasCost(opp.gas) - Share(opp.amount_in, 5))

simulate_backrun(cache, opp) ==
    LET pool == AddressAt(opp, 1)
        exit == AddressAt(opp, 2)
        mid  == constant_product_swap(opp.amount_in, Share(cache[pool].reserve0, 10020),
                    Share(cache[pool].reserve1, 9980), FeeAt(opp, 1, cache[pool].fee))
        out  == constant_product_swap(mid, cache[exit].reserve1, cache[exit].reserve0,
                    FeeAt(opp, 2, cache[exit].fee))
    IN  IF ~Cached(cache, pool) \/ ~Cached(cache, exit) THEN Failed
        ELSE Net(out - opp.amount_in - GasCost(opp.gas))

simulate_liquidation(opp) ==
    Net(opp.profit - Share(opp.amount_in + opp.profit, 30) - GasCost(opp.gas) - Share(opp.amount_in, 5))

StageOne(cache, opp) ==
    CASE opp.kind = "Arbitrage"   -> simulate_arbitrage(cache, opp)
      [] opp.kind = "Backrun"     -> simulate_backrun(cache, opp)
      [] opp.kind = "Liquidation" -> simulate_liquidation(opp)

----------------------------------------------------------------------------
(* builder/mod.rs                                                          *)

default_fee_for_dex(dex) == IF dex = V3 THEN 500 ELSE 3000

(* Mutant: fees are compared in basis points.                              *)
is_valid_fee_for_dexInBps(dex, fee) ==
    IF dex = V3 THEN fee \in {100, 500, 3000, 10000} ELSE fee = 30
is_valid_fee_for_dex(dex, fee) ==
    IF dex = V3 THEN fee \in {100, 500, 3000, 10000} ELSE fee = 3000

validate_swap_opportunity(opp) ==
    /\ opp.path # <<>>
    /\ Len(opp.pools) = Len(opp.path)
    /\ opp.fees # <<>> => Len(opp.fees) = Len(opp.path)
    /\ \A i \in DOMAIN opp.path :
          /\ opp.pools[i] # 0
          /\ is_valid_fee_for_dex(opp.path[i],
                 IF i <= Len(opp.fees) THEN opp.fees[i] ELSE default_fee_for_dex(opp.path[i]))

(* The wire format of a path: dex, pool and fee of each hop.               *)
encode_swap_path(opp) ==
    [i \in DOMAIN opp.path |-> <<opp.path[i], opp.pools[i],
        IF i <= Len(opp.fees) THEN opp.fees[i] ELSE default_fee_for_dex(opp.path[i])>>]

(* The one transaction of a bundle; a liquidation is not validated.        *)
BuildTransactions(opp) ==
    IF opp.kind = "Liquidation"
    THEN {[call |-> "executeLiquidation", tokens |-> <<opp.token_in, opp.token_out>>,
           amount |-> opp.amount_in, hops |-> <<>>, tip |-> 1, gas_limit |-> opp.gas]}
    ELSE IF ~validate_swap_opportunity(opp) THEN {}
    ELSE {[call |-> IF opp.kind = "Arbitrage" THEN "executeArbitrage" ELSE "executeBackrun",
           tokens |-> <<opp.token_in>>, amount |-> opp.amount_in, hops |-> encode_swap_path(opp),
           tip |-> IF opp.kind = "Arbitrage" THEN 1 ELSE 2, gas_limit |-> opp.gas]}
=============================================================================
