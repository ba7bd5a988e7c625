--------------------------- MODULE MCNetworkNode ---------------------------
(* Small instances of the Go node's transaction path for TLC.              *)
EXTENDS NetworkNode

Tx(feed, sel, value, to) == [feed |-> feed, sel |-> sel, value |-> value, to |-> to]

(* The pending transaction: a swap.                                        *)
Swap    == Tx("mempool", "exactInputSingle", 0, TRUE)
OneSwap == {Swap}
Targets == {"exactInputSingle"}

(* Blocks with a swap; with a swap and an approval in the first; empty.    *)
BlockTxs == <<Tx("block", "swapExactTokensForTokens", 0, TRUE), Tx("block", "approve", 0, TRUE)>>
BodySwapApprove == [n \in 1 .. MaxHeight |-> [f \in 0 .. MaxReorgs |->
                        IF n = 1 THEN BlockTxs ELSE <<>>]]
BodySwap  == [n \in 1 .. MaxHeight |-> [f \in 0 .. MaxReorgs |-> <<BlockTxs[1]>>]]
BodyEmpty == [n \in 1 .. MaxHeight |-> [f \in 0 .. MaxReorgs |-> <<>>]]

(* Every transaction of the instances.                                     *)
AllTxs == {Swap, BlockTxs[1], BlockTxs[2]}
=============================================================================
