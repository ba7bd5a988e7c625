----------------------------- MODULE MCBinaries -----------------------------
(***************************************************************************)
(* The three Rust binaries under one run: a behaviour is one of the        *)
(* Arbitrum launcher, of mev-engine or of ultrafast, and the variables of  *)
(* the others keep their initial values.                                   *)
(***************************************************************************)
EXTENDS MCArbitrumLauncher, SequencesExt

VARIABLES
    part,
    mode, wire, wsMonitor, mstats, arrived, channel, main, handled, shutdown, head, down, view,
    tracker, errors, rotated, blocksDone, metrics,
    ultraPc, ultraHead, wsBlock, remaining, v2_pools, v3_pools, ultraPools, stream, opps, snapshot

ultraVars == <<ultraPc, ultraHead, wsBlock, remaining, v2_pools, v3_pools, ultraPools, stream, opps,
               snapshot>>
engineVars == <<mode, wire, wsMonitor, mstats, arrived, channel, main, handled, shutdown, head,
                down, view, tracker, errors, rotated, blocksDone, metrics>>

(* Two endpoints of which the first may be down, three blocks, and sockets *)
(* that deliver hashes and control frames, or full transactions.           *)
Hash(n) == [kind |-> "hash", id |-> n]
Frame(k) == [kind |-> k, id |-> 0]
Call(sel, len, path, value) == [sel |-> sel, len |-> len, path |-> path, value |-> value]
Full(n, tx) == [kind |-> "tx", id |-> n, tx |-> tx]

MCWires == [hashes |-> {<<Frame("text"), Hash(1), Frame("ping"), Hash(2), Hash(3),
                          Frame("error")>>},
            full |-> {<<Frame("text"), Full(1, Call("exactInputSingle", 260, "none", 0)),
                        Full(2, Call("approve", 68, "none", 0)),
                        Full(3, Call("swapExactTokensForETH", 260, "panics", 0))>>,
                      <<Frame("error"), Full(1, Call("swapExactETHForTokens", 131, "some", 5))>>}]
MCBlocks == <<<<Call("transfer", 68, "none", 0)>>,
              <<Call("swapTokens", 260, "none", 0), Call("approve", 68, "none", 0)>>,
              <<Call("multicall", 68, "none", 0), Call("none", 0, "none", 7)>>>>
MCProviders == 0 .. 1

Core == INSTANCE CoreEngine WITH
            Wires <- MCWires, Downs <- {{}, {0}}, Blocks <- MCBlocks, BatchSize <- 2,
            Providers <- 2, MaxErrors <- 1, monitor <- wsMonitor

(* Four calls of discovery: two V3 pools, a pair, and a pair that does not *)
(* exist.  In the third block one pool's reserve exceeds a word, and       *)
(* another's makes a denominator wrap to zero.                             *)
Candidate(a, v3, fee) == [address |-> a, token0 |-> "t", token1 |-> "w", is_v3 |-> v3, fee |-> fee]
MCCandidates == <<Candidate("p", TRUE, 500), Candidate("q", TRUE, 3000), Candidate("s", FALSE, 30),
                  Candidate("zero", FALSE, 30)>>
MCChain == [p |-> <<<<8, 60>>, <<4, 60>>, <<1, 20000000>>>>,
            q |-> <<<<4, 50>>, <<2, 60>>, <<4, 3019859>>>>,
            s |-> <<<<40, 30>>, <<20, 80>>, <<2, 90>>>>]

Ultra == INSTANCE UltraFast WITH
             HalfBits <- 13, Weth <- "w", Zero <- "zero", Tokens <- {"w", "t"},
             Candidates <- MCCandidates, Chain <- MCChain, Providers <- {"h1", "h2"}, Q96 <- 4,
             MinReserve <- 3, Amounts <- {3, 40}, MinProfitBps <- 10, MaxFailed <- 2,
             pc <- ultraPc, head <- ultraHead, pools <- ultraPools

BinariesInit ==
    /\ part \in {"launcher", "engine", "ultra"} /\ Init /\ Core!Init /\ Ultra!Init
    /\ part # "launcher" => ~live /\ world.background = 1
    /\ part # "engine" => mode = "hashes" /\ down = {}

BinariesNext ==
    \/ part = "launcher" /\ Next /\ UNCHANGED <<part, engineVars, ultraVars>>
    \/ part = "engine" /\ Core!Next /\ UNCHANGED <<part, vars, ultraVars>>
    \/ part = "ultra" /\ Ultra!Next /\ UNCHANGED <<part, vars, engineVars>>

(* The fairness of ArbitrumLauncher and CoreEngine; ultrafast's task goes  *)
(* on while what it awaits is answered.                                    *)
InLauncher(A) == part = "launcher" /\ A
InEngine(A) == part = "engine" /\ A
BinariesSpec ==
    /\ BinariesInit /\ [][BinariesNext]_<<part, vars, engineVars, ultraVars>>
    /\ WF_vars(InLauncher(discover_pools)) /\ WF_vars(InLauncher(Scan))
    /\ WF_vars(InLauncher(Engine)) /\ WF_vars(InLauncher(~running /\ MonitorCheck))
    /\ WF_vars(InLauncher(NextHash \/ StreamEnds)) /\ WF_vars(InLauncher(Fetch))
    /\ WF_engineVars(InEngine(Core!Connect)) /\ WF_engineVars(InEngine(Core!TimerFlush))
    /\ WF_engineVars(InEngine(Core!Receive)) /\ WF_engineVars(InEngine(Core!Handle))
    /\ WF_engineVars(InEngine(Core!Track))
    /\ \A p \in MCProviders : WF_engineVars(InEngine(Core!Sync(p)))
    /\ WF_ultraVars(part = "ultra" /\ Ultra!Main)

(* The invariants of CoreEngine and UltraFast.                             *)
EngineInv == part = "engine" => Core!EngineInv
UltraInv  == part = "ultra" => Ultra!UltraInv

(* Every block announced is taken up: mev-engine's tracker, channel and    *)
(* sockets come to rest with nothing left (CaughtUp), and ultrafast's loop *)
(* has refreshed and searched for each block, or has ended (Handled).      *)
LoopsCatchUp == <>[](/\ part = "engine" => Core!CaughtUp
                     /\ part = "ultra" => Ultra!Handled)
=============================================================================
