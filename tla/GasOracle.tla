------------------------------ MODULE GasOracle ------------------------------
(***************************************************************************)
(* The EIP-1559 gas oracle (network/internal/gas/oracle.go) and the fee    *)
(* caps the executor takes from it (network/cmd/mev-node/execution.go).    *)
(* Blocks come from a chain that follows EIP-1559 with one gas limit and   *)
(* does not reorganise; headers may be lost and may come late.  The        *)
(* average of the gas ratios, a float in the code, is exact here.          *)
(***************************************************************************)
EXTENDS Integers, Sequences, SequencesExt, FiniteSetsExt

CONSTANTS
    GasLimit,       \* the gas limit of every block
    Loads,          \* the gas a block may use
    Elasticity,     \* Config.ElasticityMultiplier
    Denominator,    \* Config.BaseFeeChangeDenominator
    HistorySize,    \* Config.HistorySize
    PriorityFee,    \* calculatePriorityFee: 2 gwei
    DefaultBase,    \* resolveFeeCaps without an estimate: 1 gwei
    Tips,           \* the priority fees of the core's bundles
    StartFees,      \* the base fees of the first block
    Headroom,       \* how many blocks later a signed bundle must be payable
    HeaderBuffer,   \* the capacity of headerChan
    MaxBlocks       \* bound: the length of the chain

VARIABLES
    head,       \* external: the newest block
    headers,    \* headerChan
    history,    \* Oracle.history
    info,       \* the block processBlock has appended and not yet estimated
    estimate,   \* Oracle.estimate
    held,       \* the estimate the executor was given
    bid         \* the fee caps of the last bundle signed from an estimate

vars == <<head, headers, history, info, estimate, held, bid>>

None == [number |-> 0]
GasTarget == GasLimit \div Elasticity

-----------------------------------------------------------------------------
(* EIP-1559, as the chain applies it.                                      *)
ProtocolFee(block) ==
    LET target == GasLimit \div 2
        step(gas) == ((block.baseFee * gas) \div target) \div 8
    IN  IF block.gasUsed > target
        THEN block.baseFee + Max({1, step(block.gasUsed - target)})
        ELSE block.baseFee - step(target - block.gasUsed)

(* The chain adds a block; its header reaches headerChan unless it is full *)
(* or the subscription misses it.                                          *)
Mine(gasUsed) ==
    /\ head.number < MaxBlocks
    /\ head' = [number |-> head.number + 1, baseFee |-> ProtocolFee(head), gasUsed |-> gasUsed]
    /\ \/ headers' = headers
       \/ Len(headers) < HeaderBuffer /\ headers' = Append(headers, head')
    /\ UNCHANGED <<history, info, estimate, held, bid>>

-----------------------------------------------------------------------------
(* Mutant: the change is not divided by the denominator.                   *)
NextBaseFeeUndamped(baseFee, gasUsed) ==
    IF gasUsed > GasTarget
    THEN baseFee + Max({1, (baseFee * (gasUsed - GasTarget)) \div GasTarget})
    ELSE Max({0, baseFee - (baseFee * (GasTarget - gasUsed)) \div GasTarget})

(* calculateNextBaseFee: at least 1 up, not below 0.                       *)
CalculateNextBaseFee(baseFee, gasUsed) ==
    LET delta(gas) == ((baseFee * gas) \div GasTarget) \div Denominator
    IN  IF gasUsed = GasTarget THEN baseFee
        ELSE IF gasUsed > GasTarget
        THEN baseFee + Max({1, delta(gasUsed - GasTarget)})
        ELSE Max({0, baseFee - delta(GasTarget - gasUsed)})

(* averageGasRatio() * GasLimit.                                           *)
AverageGas(hist) == FoldSeq(LAMBDA b, sum : b.gasUsed + sum, 0, hist) \div Len(hist)

(* PredictBaseFee(1).                                                      *)
PredictBaseFee(hist) == CalculateNextBaseFee(Last(hist).baseFee, AverageGas(hist))

(* trackLoop takes a header; processBlock appends it to the history.       *)
ProcessBlock ==
    /\ info = None /\ headers # <<>>
    /\ headers' = Tail(headers)
    /\ info' = Head(headers)
    /\ history' = LET longer == Append(history, info')
                  IN  IF Len(longer) > HistorySize THEN Tail(longer) ELSE longer
    /\ UNCHANGED <<head, estimate, held, bid>>

(* Mutant: no headroom above the prediction.                               *)
UpdateEstimateTight ==
    /\ info # None
    /\ estimate' = [number |-> info.number, baseFee |-> info.baseFee,
                    predicted |-> PredictBaseFee(history), priority |-> PriorityFee,
                    maxFee |-> PredictBaseFee(history) + PriorityFee]
    /\ info' = None
    /\ UNCHANGED <<head, headers, history, held, bid>>

(* updateEstimate, after historyMu was released.                           *)
UpdateEstimate ==
    /\ info # None
    /\ LET predicted == PredictBaseFee(history)
       IN  estimate' = [number |-> info.number, baseFee |-> info.baseFee,
                        predicted |-> predicted, priority |-> PriorityFee,
                        maxFee |-> 2 * predicted + PriorityFee]
    /\ info' = None
    /\ UNCHANGED <<head, headers, history, held, bid>>

-----------------------------------------------------------------------------
(* resolveFeeCaps for the bundles the core builds: a tip, no maximum.      *)
ResolveFeeCaps(tip) ==
    LET maxFee == IF held = None THEN 2 * DefaultBase + tip ELSE held.maxFee
    IN  [priority |-> tip, maxFee |-> Max({maxFee, tip})]

(* GetEstimate, for HandleOpportunityBundle.                               *)
GetEstimate ==
    /\ held' = estimate
    /\ UNCHANGED <<head, headers, history, info, estimate, bid>>

(* signBundleTx, after the node was asked for the nonce.                   *)
SignBundleTx(tip) ==
    /\ bid' = [number |-> held.number, caps |-> ResolveFeeCaps(tip)]
    /\ UNCHANGED <<head, headers, history, info, estimate, held>>

Init ==
    /\ head \in [number : {1}, baseFee : StartFees, gasUsed : Loads]
    /\ headers = <<>> /\ history = <<>>
    /\ info = None /\ estimate = None /\ held = None
    /\ bid = None

Next ==
    \/ \E gasUsed \in Loads : Mine(gasUsed)
    \/ ProcessBlock \/ UpdateEstimate \/ GetEstimate
    \/ \E tip \in Tips : SignBundleTx(tip)

Spec == Init /\ [][Next]_vars

-----------------------------------------------------------------------------
(* The history is a window of blocks; what is estimated is in it.          *)
TypeOK ==
    /\ Len(history) <= HistorySize
    /\ Len(headers) <= HeaderBuffer
    /\ info # None => history # <<>> /\ Last(history) = info
    /\ \A i \in 1 .. Len(history) - 1 : history[i].number < history[i + 1].number

(* The prediction is one EIP-1559 step from the block it was made from,    *)
(* whatever blocks the average is over: no further than an eighth away (at *)
(* least 1 up), and never negative (calculateNextBaseFee).                 *)
PredictionIsOneStep ==
    estimate # None =>
        /\ estimate.predicted <= estimate.baseFee + Max({1, estimate.baseFee \div Denominator})
        /\ estimate.predicted >= estimate.baseFee - estimate.baseFee \div Denominator
        /\ estimate.predicted >= 0

(* The history is the latest blocks in order, and the prediction from it   *)
(* is one step of the protocol.                                            *)
GasInv == TypeOK /\ PredictionIsOneStep

(* A bundle signed from an estimate can pay the base fee of every block up *)
(* to Headroom after the one the estimate was made from, however full the  *)
(* blocks are and however late the header or the signature was; and its    *)
(* cap is never below its tip (updateEstimate, resolveFeeCaps).            *)
BidStaysPayable ==
    bid # None =>
        /\ bid.number # 0 /\ head.number <= bid.number + Headroom
              => bid.caps.maxFee >= head.baseFee
        /\ bid.caps.maxFee >= bid.caps.priority
=============================================================================
