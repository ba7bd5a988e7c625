---------------------- MODULE MCMultiThreadedDetector ----------------------
(***************************************************************************)
(* Two workers, two pools over three tokens of which one is loaded while   *)
(* the workers run, and seven transactions: two swaps that find paths, one *)
(* that finds a path below the threshold, one with a token of no pool, one *)
(* that could not be decoded, one whose amount overflows the arithmetic,   *)
(* and one that is no swap.                                                *)
(***************************************************************************)
EXTENDS MultiThreadedDetector

PoolState(a, t0, t1, r0, r1) ==
    [address |-> a, token0 |-> t0, token1 |-> t1, reserve0 |-> r0, reserve1 |-> r1,
     fee |-> 30]
SwapTx(in, out, amount) ==
    [is_swap |-> TRUE, parsed |-> TRUE,
     info |-> [token_in |-> in, token_out |-> out, amount_in |-> amount]]
Unparsed(swap) ==
    [is_swap |-> swap, parsed |-> FALSE,
     info |-> [token_in |-> 1, token_out |-> 1, amount_in |-> 0]]

MCWorkers == 0..1
MCTokens == 1..4
MCLoads == <<PoolState("A", 2, 3, 1000, 2000), PoolState("B", 1, 3, 2000, 500)>>
MCTxs == <<SwapTx(1, 2, 100), SwapTx(3, 2, 90), Unparsed(TRUE), Unparsed(FALSE),
           SwapTx(1, 2, 5000000), SwapTx(3, 2, 40),
           SwapTx(4, 2, 100)>>
MCInputs == {<<1, 2>>, <<3, 5, 4>>, <<6>>, <<7>>}
MCUpdates == {[address |-> "B", reserve0 |-> 0, reserve1 |-> 500]}
=============================================================================
