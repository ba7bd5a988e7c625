------------------------------ MODULE MCPrices ------------------------------
(***************************************************************************)
(* What the two sides compute with prices under one run: a behaviour       *)
(* exercises the detectors, the simulator and the builder of the Rust      *)
(* core, or the gas oracle of the Go node, the other staying as it         *)
(* started.                                                                *)
(***************************************************************************)
EXTENDS MCOpportunityPricing

VARIABLES part, head, headers, history, info, estimate, held, bid

gasVars == <<head, headers, history, info, estimate, held, bid>>

Gas == INSTANCE GasOracle WITH
           GasLimit <- 30, Loads <- {0, 30}, Elasticity <- 2, Denominator <- 8,
           HistorySize <- 3, PriorityFee <- 20, DefaultBase <- 10, Tips <- {10},
           StartFees <- {0, 1000}, Headroom <- 4, HeaderBuffer <- 1, MaxBlocks <- 7

PricesInit ==
    /\ part \in {"core", "gas"} /\ Init /\ Gas!Init
    /\ part = "core" => head = [number |-> 1, baseFee |-> 0, gasUsed |-> 0]
    /\ part = "gas" => strategies = {"backrun"} /\ ~contract

PricesNext ==
    \/ part = "core" /\ Next /\ UNCHANGED <<part, gasVars>>
    \/ part = "gas" /\ Gas!Next /\ UNCHANGED <<part, vars>>

PricesSpec == PricesInit /\ [][PricesNext]_<<part, vars, gasVars>>

(* GasOracle's invariants.                                                 *)
GasInv          == Gas!GasInv
BidStaysPayable == Gas!BidStaysPayable
=============================================================================
