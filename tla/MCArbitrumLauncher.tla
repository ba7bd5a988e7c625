------------------------ MODULE MCArbitrumLauncher ------------------------
(***************************************************************************)
(* WETH and two tokens; a V3 pool and a pair for the first, a pair for the *)
(* second, and a pair of the two tokens themselves that nobody discovers.  *)
(* The chain moves the first two pools once.  One hash is a swap, the next *)
(* makes its decoder panic.                                                *)
(***************************************************************************)
EXTENDS ArbitrumLauncher

Pool(kind, t0, t1, fee) == [kind |-> kind, token0 |-> t0, token1 |-> t1, fee_bps |-> fee]
Pair(r0, r1) == [reserves |-> <<r0, r1>>]
V3(liq, sqrtP) == [liq |-> liq, sqrtP |-> sqrtP]

MCTokens == <<"t", "u">>
MCPools == [A |-> Pool("v3", "w", "t", 5), B |-> Pool("sushi", "w", "t", 30),
            C |-> Pool("camelot", "u", "w", 30), D |-> Pool("sushi", "t", "u", 30)]
MCHistory == [A |-> <<V3(1000, 4), V3(1000, 6)>>,
              B |-> <<Pair(1000, 1000), Pair(800, 1300)>>,
              C |-> <<Pair(1000, 1000)>>, D |-> <<Pair(500, 1000)>>]
MCAmounts == <<20, 40>>

Swap == [router |-> TRUE, sel |-> "exactInput", len |-> 4, path |-> "none"]
HugeOffset == [router |-> TRUE, sel |-> "swapExactTokensForETH", len |-> 260,
               path |-> "panics"]

MCWorlds == {[pools |-> {"A", "B"}, hashes |-> <<Swap>>, background |-> 0, trades |-> 1],
             [pools |-> {"A", "B"}, hashes |-> <<HugeOffset, Swap>>, background |-> 0,
              trades |-> 0],
             [pools |-> {"A", "B", "C", "D"}, hashes |-> <<>>, background |-> 1,
              trades |-> 0]}
=============================================================================
