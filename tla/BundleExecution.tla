--------------------------- MODULE BundleExecution ---------------------------
(***************************************************************************)
(* What consumePipeline (network/cmd/mev-node/main.go) does with one       *)
(* classified transaction after another: it connects to the core, asks it  *)
(* for opportunities, and hands each bundle to the executor                *)
(* (execution.go), which signs it, has it simulated and submits it.  The   *)
(* chain and the block watcher move on meanwhile, and the core comes and   *)
(* goes.  Fees are in GasOracle, the relays' side of a submission is in    *)
(* RelayManager, shutdown is in NetworkNode.                               *)
(***************************************************************************)
EXTENDS Integers, Sequences, FiniteSets

CONSTANTS
    Profits,            \* the expected profits the core reports
    MinProfits,         \* the values of Multi.MinProfitWei
    Relays,             \* how many relays SimulateBundle may ask
    MaxOpps,            \* bound: opportunities in one answer
    MaxHeight           \* bound: the length of the chain

VARIABLES
    cfg,        \* the configuration: live, requireSim, minProfit
    height,     \* external: the height of the chain
    latest,     \* Watcher.latest.Number, 0 for nil
    coreUp,     \* external: the core answers
    client,     \* strategyClient: "nil", "open", or "closed" but still kept
    mayDial,    \* two seconds have passed since lastConnectAttempt
    at,         \* where consumePipeline is
    seen,       \* history: the block targetBlock was read after
    target,     \* targetBlock, read before the detection
    opps,       \* the opportunities of the answer still to be handled
    bundle,     \* the target of the signed bundle
    asked,      \* how many relays failed to simulate it
    passed,     \* history: a simulation of this bundle passed
    sent        \* history: the last bundle submitted

vars == <<cfg, height, latest, coreUp, client, mayDial, at, seen, target, opps, bundle,
          asked, passed, sent>>
world == <<cfg, height, latest, coreUp>>
link  == <<client, mayDial>>
work  == <<opps, bundle, asked, passed, sent>>

NotSent == [target |-> 0, seen |-> 0, profit |-> 0, passed |-> FALSE]

(* What DetectOpportunity finds; a bundle is missing when the core could   *)
(* not build it.  A bundle's target is the one of the request.             *)
Opportunities == [profit : Profits, hasBundle : BOOLEAN]
CoreAnswers == UNION {[1 .. n -> Opportunities] : n \in 0 .. MaxOpps}

Init ==
    /\ cfg \in [live : BOOLEAN, requireSim : BOOLEAN, minProfit : MinProfits]
    /\ height = 1 /\ latest = 0 /\ coreUp \in BOOLEAN
    /\ client = "nil" /\ mayDial = TRUE
    /\ at = "select" /\ seen = 0 /\ target = 0
    /\ opps = <<>> /\ bundle = 0 /\ asked = 0 /\ passed = FALSE
    /\ sent = NotSent

-----------------------------------------------------------------------------
ChainGrows ==
    /\ height < MaxHeight
    /\ height' = height + 1
    /\ UNCHANGED <<cfg, latest, coreUp, link, at, seen, target, work>>

(* Watcher.latest follows the headers, back too when the chain reorganises. *)
WatcherSees ==
    /\ latest' \in 1 .. height
    /\ UNCHANGED <<cfg, height, coreUp, link, at, seen, target, work>>

CoreFlips ==
    /\ coreUp' = ~coreUp
    /\ UNCHANGED <<cfg, height, latest, link, at, seen, target, work>>

TwoSecondsPass ==
    /\ ~mayDial
    /\ mayDial' = TRUE
    /\ UNCHANGED <<world, client, at, seen, target, work>>

-----------------------------------------------------------------------------
(* A classified transaction is taken from the pipeline's output.           *)
Take ==
    /\ at = "select"
    /\ at' = IF client = "nil" THEN "connect" ELSE "read"
    /\ UNCHANGED <<world, link, seen, target, work>>

(* connectStrategyClient: throttled, or a dial that blocks until the core  *)
(* answers.  A dial that fails has taken five seconds, more than the       *)
(* throttle; without a client the transaction is only logged.              *)
Connect ==
    /\ at = "connect"
    /\ IF mayDial
       THEN /\ client' = IF coreUp THEN "open" ELSE "nil"
            /\ mayDial' = ~coreUp
       ELSE UNCHANGED link
    /\ at' = IF client' = "nil" THEN "select" ELSE "read"
    /\ UNCHANGED <<world, seen, target, work>>

ReadTarget ==
    /\ at = "read"
    /\ target' = IF latest = 0 THEN 0 ELSE latest + 1
    /\ seen' = IF latest = 0 THEN height ELSE latest
    /\ at' = "detect"
    /\ UNCHANGED <<world, link, work>>

(* Mutant: the closed client is kept.                                      *)
DetectFailsKeepsClient ==
    /\ at = "detect"
    /\ client' = "closed"
    /\ at' = "select" /\ seen' = 0 /\ target' = 0
    /\ UNCHANGED <<world, mayDial, work>>

(* The RPC failed, or took more than 100 ms.                               *)
DetectFails ==
    /\ at = "detect"
    /\ client' = "nil"
    /\ at' = "select" /\ seen' = 0 /\ target' = 0
    /\ UNCHANGED <<world, mayDial, work>>

DetectAnswers ==
    /\ at = "detect" /\ client = "open" /\ coreUp
    /\ opps' \in CoreAnswers
    /\ at' = "handle"
    /\ UNCHANGED <<world, link, seen, target, bundle, asked, passed, sent>>

-----------------------------------------------------------------------------
(* What HandleOpportunityBundle leaves alone.                              *)
Skips(opp) ==
    \/ ~opp.hasBundle
    \/ cfg.minProfit > 0 /\ opp.profit < cfg.minProfit
    \/ ~cfg.live

(* HandleOpportunityBundle returns, and with it its locals.                *)
NextOpp ==
    /\ opps' = Tail(opps) /\ at' = "handle"
    /\ bundle' = 0 /\ asked' = 0 /\ passed' = FALSE

Handled ==
    /\ at = "handle" /\ opps = <<>>
    /\ at' = "select" /\ seen' = 0 /\ target' = 0
    /\ UNCHANGED <<world, link, work>>

(* HandleOpportunityBundle returns early.                                  *)
Skip ==
    /\ at = "handle" /\ opps # <<>> /\ Skips(Head(opps))
    /\ NextOpp
    /\ UNCHANGED <<world, link, seen, target, sent>>

(* Mutant: a target the watcher did not know stays open.                   *)
ResolveTargetNoQuery(blockNumber) == target

(* signBundle: the request's target, or the block after the node's.        *)
ResolveTarget(blockNumber) == IF target # 0 THEN target ELSE blockNumber + 1

Sign ==
    /\ at = "handle" /\ opps # <<>> /\ ~Skips(Head(opps))
    /\ bundle' = ResolveTarget(height)
    /\ at' = IF cfg.requireSim THEN "simulate" ELSE "submit"
    /\ UNCHANGED <<world, link, seen, target, opps, asked, passed, sent>>

(* The nonce, the block number or the signature fails.                     *)
SignFails ==
    /\ at = "handle" /\ opps # <<>> /\ ~Skips(Head(opps))
    /\ NextOpp
    /\ UNCHANGED <<world, link, seen, target, sent>>

(* Mutant: when every relay failed to simulate, the bundle goes out.       *)
SimulateFailsOpen ==
    /\ at = "simulate"
    /\ IF asked + 1 < Relays
       THEN asked' = asked + 1 /\ UNCHANGED <<at, opps>>
       ELSE at' = "submit" /\ UNCHANGED <<asked, opps>>
    /\ UNCHANGED <<world, link, seen, target, bundle, passed, sent>>

(* Manager.SimulateBundle: the next relay is asked while they fail.        *)
SimulateFails ==
    /\ at = "simulate"
    /\ IF asked + 1 < Relays
       THEN asked' = asked + 1 /\ UNCHANGED <<at, opps, bundle, passed>>
       ELSE NextOpp
    /\ UNCHANGED <<world, link, seen, target, sent>>

(* A relay answered: validateSimulation looks for an error or a revert.    *)
SimulateAnswers(reverted) ==
    /\ at = "simulate"
    /\ IF reverted
       THEN NextOpp
       ELSE passed' = TRUE /\ at' = "submit" /\ UNCHANGED <<opps, bundle, asked>>
    /\ UNCHANGED <<world, link, seen, target, sent>>

(* Manager.SubmitBundle is called; its outcome is only logged.             *)
Submit ==
    /\ at = "submit"
    /\ sent' = [target |-> bundle, seen |-> seen, profit |-> Head(opps).profit,
                passed |-> passed]
    /\ NextOpp
    /\ UNCHANGED <<world, link, seen, target>>

-----------------------------------------------------------------------------
ConsumerStep ==
    \/ Take \/ Connect \/ ReadTarget \/ DetectFails \/ DetectAnswers
    \/ Handled \/ Skip \/ Sign \/ SignFails
    \/ SimulateFails \/ (\E reverted \in BOOLEAN : SimulateAnswers(reverted)) \/ Submit

Next == ConsumerStep \/ ChainGrows \/ WatcherSees \/ CoreFlips \/ TwoSecondsPass
Spec == Init /\ [][Next]_vars

(* Transactions keep coming, the consumer runs, and time passes.           *)
FairSpec == Spec /\ WF_vars(ConsumerStep) /\ WF_vars(TwoSecondsPass)

-----------------------------------------------------------------------------
(* The variables have their types, and a stage of consumePipeline has what *)
(* it uses.                                                                *)
TypeOK ==
    /\ at \in {"select", "connect", "read", "detect", "handle", "simulate", "submit"}
    /\ client \in {"nil", "open"}
    /\ at \in {"read", "detect", "handle", "simulate", "submit"} => client = "open"
    /\ at \in {"simulate", "submit"} => opps # <<>>
    /\ {target, bundle} \subseteq 0 .. MaxHeight + 1
    /\ asked \in 0 .. Relays - 1

(* However long detection, signing and simulation took, the bundle names a *)
(* block past the one the watcher knew when targetBlock was read; when it  *)
(* knew none, the target is not left 0 but is past the chain of that time  *)
(* (targetBlock in consumePipeline, its fallback in signBundle).           *)
TargetIsAhead == sent # NotSent => sent.target > sent.seen

(* A bundle is sent in live mode only, is worth it, and was itself         *)
(* simulated when the configuration asks for it: no failure of a relay and *)
(* no earlier bundle's answer lets it through (HandleOpportunityBundle).   *)
SentWasCleared ==
    sent # NotSent => /\ cfg.live
                      /\ sent.profit >= cfg.minProfit
                      /\ cfg.requireSim => sent.passed

(* The executor has a client whenever it needs one, and what it sends was  *)
(* cleared under its own configuration.                                    *)
ExecutionInv == TypeOK /\ SentWasCleared

(* A failed detection closes the client; once the core stays up, the node  *)
(* has an open connection again and again (connectStrategyClient).         *)
Reconnects == <>[]coreUp => []<>(client = "open")
=============================================================================
