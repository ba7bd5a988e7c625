---------------------------- MODULE Transactions ----------------------------
(***************************************************************************)
(* A transaction as the Go node tells transactions apart: `sel' is the     *)
(* function its first four bytes of calldata select ("none" when there are *)
(* fewer than four), `value' the amount it carries and `to' whether it has *)
(* a recipient (a contract creation has none).                             *)
(***************************************************************************)
EXTENDS Integers

KnownSelectors ==
    [ swapExactTokensForTokens |-> "swap_v2",
      swapTokensForExactTokens |-> "swap_v2",
      swapExactETHForTokens    |-> "swap_v2",
      swapExactTokensForETH    |-> "swap_v2",
      swapETHForExactTokens    |-> "swap_v2",
      swapExactTokensForTokensSupportingFeeOnTransferTokens |-> "swap_v2",
      exactInputSingle         |-> "swap_v3",
      exactInput               |-> "swap_v3",
      exactOutputSingle        |-> "swap_v3",
      exactOutput              |-> "swap_v3",
      transfer                 |-> "transfer",
      transferFrom             |-> "transfer",
      approve                  |-> "approval",
      liquidationCallV2        |-> "liquidation",
      liquidationCallV3        |-> "liquidation",
      flashLoanBalancer        |-> "flash_loan",
      flashLoanAave            |-> "flash_loan" ]

ClassifyTx(tx) ==
    IF tx.sel \in DOMAIN KnownSelectors THEN KnownSelectors[tx.sel] ELSE "unknown"

(* The classes processTx forwards.                                         *)
Interesting(tx) == ClassifyTx(tx) \notin {"unknown", "approval"}
=============================================================================
