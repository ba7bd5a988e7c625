----------------------- MODULE MCOpportunityPricing ------------------------
(***************************************************************************)
(* OpportunityPricing on five pools of one pair, with words of 30 bits:    *)
(* two V2 pools that share a cache key, a pool with its fee in hundredths  *)
(* of a basis point, a V3 pool with ticks, and one with so much liquidity  *)
(* that its virtual reserves overflow.                                     *)
(***************************************************************************)
EXTENDS OpportunityPricing

Pool(addr, r0, r1, fee) ==
    [address |-> addr, token0 |-> 1, token1 |-> 2, reserve0 |-> r0, reserve1 |-> r1, fee |-> fee,
     is_v3 |-> FALSE, sqrt |-> 0, liquidity |-> 0, tick |-> 0, ticks |-> {}]
PoolV3(addr, r, fee, liq, ticks) ==
    [Pool(addr, r, r, fee) EXCEPT !.is_v3 = TRUE, !.sqrt = 4194304, !.liquidity = liq, !.ticks = ticks]

A1 == Pool(1, 400, 800, 30)
A2 == Pool(2, 400, 200, 30)
D1 == Pool(5, 200, 900, 3000)
V1 == PoolV3(3, 500, 500, 60, {[tick |-> -5, sqrt |-> 3400000, net |-> 20], [tick |-> 5, sqrt |-> 5000000, net |-> -30]})
W1 == PoolV3(4, 300, 300, 900, {})

MCPools == {A1, A2, D1, V1, W1}
MCPoolLists == {<<A1, A2>>, <<V1, V1>>}
MCLiquidities == {<<1, 4000>>}

Tx(sel, len, a, b, value, path, to) ==
    [sel |-> sel, len |-> len, a |-> a, b |-> b, value |-> value, path |-> path, to |-> to]
MCTxs ==
    {Tx("swapExactTokensForTokens", 260, 150, 1, 0, <<1, 2>>, 1),
     Tx("swapTokensForExactTokens", 260, 900, 40, 0, <<2, 3, 1>>, 1),
     Tx("swapExactETHForTokens", 260, 1, 0, 900, <<4, 2>>, 0),
     Tx("exactInputSingle", 260, 40, 1, 0, <<1, 2>>, 1),
     Tx("exactOutputSingle", 260, 1, 40, 0, <<2, 1>>, None),
     Tx("exactInput", 36, 20, 1, 0, <<1>>, 1),
     Tx("transfer", 260, 1, 1, 0, <<1, 2>>, 1)}

MCColdReserves ==
    {[dex |-> V2, reserve0 |-> 500, reserve1 |-> 1000, fee |-> 3000],
     [dex |-> Sushi, reserve0 |-> 200, reserve1 |-> 400, fee |-> 3000],
     [dex |-> V3, reserve0 |-> 800, reserve1 |-> 1600, fee |-> 500]}

MCTokenWord(t) == 200000000 + t

Snapshot(user, protocol, coll, debt, health, price, tokens) ==
    [user |-> user, protocol |-> protocol, collateral |-> coll, debt |-> debt, health |-> health,
     price |-> price, collateral_token |-> tokens[1], debt_token |-> tokens[2]]
MCSnapshots ==
    {Snapshot(1, "AaveV3", 9000, 10000, 90, 100, <<1, 2>>),
     Snapshot(1, "AaveV3", 9000, 100, 150, 100, <<1, 2>>),
     Snapshot(2, "Morpho", 9000, 8000, 99, 150, <<2, 1>>),
     Snapshot(2, "CompoundV3", 9000, 8000, 50, None, <<1, 2>>)}

MCStrategySets == {{"arbitrage"}, {"backrun"}, {"liquidation"}}
=============================================================================
