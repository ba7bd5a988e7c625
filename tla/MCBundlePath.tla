---------------------------- MODULE MCBundlePath ----------------------------
(***************************************************************************)
(* What the Go node does between a new block and a relay's answer under    *)
(* one run: a behaviour exercises the block watcher, the execution of      *)
(* opportunities, or the relay manager, and the variables of the other two *)
(* keep their initial values.                                              *)
(***************************************************************************)
EXTENDS MCRelayManager

VARIABLES
    part,
    cfg, height, latest, coreUp, client, mayDial, at, seen, target, opps, bundle, asked, passed,
    sent,
    ctxDone, chain, reorgs, watch, heads, lastBlock, fresh, header, headerChan, scans, blockTxChan

executionVars == <<cfg, height, latest, coreUp, client, mayDial, at, seen, target, opps, bundle,
                   asked, passed, sent>>
watcherVars == <<ctxDone, chain, reorgs, watch, heads, lastBlock, fresh, header, headerChan,
                 scans, blockTxChan>>

Execution == INSTANCE BundleExecution WITH
                 Profits <- {1, 5}, MinProfits <- {0, 3}, Relays <- 2, MaxOpps <- 2,
                 MaxHeight <- 3

(* Block n of two carries MCSize[n] transactions on each of two forks.     *)
MCSize == <<2, 0>>
MCBody == [n \in 1 .. 2 |-> [f \in 0 .. 1 |-> [i \in 1 .. MCSize[n] |-> <<n, f, i>>]]]
MCBodyTxs == (1 .. 2) \X (0 .. 1) \X (1 .. 2)
MCScans == 1 .. 4

Watcher == INSTANCE BlockWatcher WITH
               Txs <- MCBodyTxs, Body <- MCBody, MaxHeight <- 2, MaxReorgs <- 1,
               MaxPolled <- 1, MaxLag <- 1, HeadBuffer <- 1, HeaderBuffer <- 1, TxBuffer <- 1,
               ScanSlots <- 1, latest <- header

BundlePathInit ==
    /\ part \in {"relay", "execution", "watcher"}
    /\ Init /\ Execution!Init /\ Watcher!Init
    /\ part # "relay" => strategy = "all"
    /\ part # "execution" => /\ ~coreUp
                             /\ cfg = [live |-> FALSE, requireSim |-> FALSE, minProfit |-> 0]

BundlePathNext ==
    \/ part = "relay" /\ Next /\ UNCHANGED <<part, executionVars, watcherVars>>
    \/ part = "execution" /\ Execution!Next /\ UNCHANGED <<part, vars, watcherVars>>
    \/ part = "watcher" /\ Watcher!Next /\ UNCHANGED <<part, vars, executionVars>>

(* The fairness of RelayManager, BundleExecution and BlockWatcher.         *)
InRelay(A) == part = "relay" /\ ~panicked /\ A
InExecution(A) == part = "execution" /\ A
InScan(i, A) == part = "watcher" /\ i \in DOMAIN scans /\ A
BundlePathSpec ==
    /\ BundlePathInit /\ [][BundlePathNext]_<<part, vars, executionVars, watcherVars>>
    /\ WF_vars(InRelay(Receive)) /\ WF_vars(InRelay(\E c \in Calls : Expire(c)))
    /\ \A c \in Calls, r \in Names : WF_vars(InRelay(Sender(c, r)))
    /\ WF_executionVars(InExecution(Execution!ConsumerStep))
    /\ WF_executionVars(InExecution(Execution!TwoSecondsPass))
    /\ \A i \in MCScans : WF_watcherVars(InScan(i, Watcher!ScanStep(i)))

(* BundleExecution's and BlockWatcher's properties.                        *)
ExecutionInv     == part = "execution" => Execution!ExecutionInv
TargetIsAhead    == Execution!TargetIsAhead
Reconnects       == Execution!Reconnects
WatcherInv       == part = "watcher" => Watcher!WatcherInv
PollMovesForward == Watcher!PollMovesForward
ScansEnd         == Watcher!ScansEnd
=============================================================================
