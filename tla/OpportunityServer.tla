-------------------------- MODULE OpportunityServer --------------------------
(***************************************************************************)
(* The gRPC server of the Rust core (core/src/grpc/server.rs) with the     *)
(* counters of its parts: concurrent DetectOpportunity calls go through    *)
(* the detector, the AMM simulation, the optional fork simulation          *)
(* (core/src/simulator/evm.rs) and the bundle builder; what is found is    *)
(* broadcast to the StreamOpportunities tasks.  What the detectors find,   *)
(* and whether an opportunity passes the AMM simulation and the builder's  *)
(* validation, is a choice here and computed in OpportunityPricing.        *)
(***************************************************************************)
EXTENDS Integers, Sequences, FiniteSets, Functions

CONSTANTS
    Requests,          \* the DetectOpportunity calls, numbered by their target block
    Detections,        \* what process_tx may return: sequences of opportunities,
                       \* [profit |-> n, stage1 |-> b, valid |-> b]
    MaxFee, FloorFee,  \* max_gas_price in wei, 20_000_000
    CallGas,           \* the gas of a call that runs no code
    Subscribers, MinProfit,             \* StreamRequest.min_profit of each
    BroadcastCapacity, StreamBuffer     \* 256 and 128

Opportunities == [profit : Nat, stage1 : BOOLEAN, valid : BOOLEAN]
Results == [profit : Nat, bundle : BOOLEAN]

ASSUME ServerAssumption ==
    /\ Requests \subseteq Nat /\ Detections \subseteq Seq(Opportunities)
    /\ MaxFee \in Nat /\ FloorFee \in Nat /\ CallGas \in Nat
    /\ MinProfit \in [Subscribers -> Nat]
    /\ BroadcastCapacity \in Nat \ {0} /\ StreamBuffer \in Nat \ {0}

VARIABLES
    forkSim, contract,  \* MEV_ENABLE_FORK_SIM; a contract address is configured
    call,               \* call[r]: the state of one DetectOpportunity handler
    blockCtx,           \* EvmForkSimulator.block_ctx, shared by the handlers
    counts,             \* the atomic counters of the parts
    published,          \* all results sent to the broadcast channel
    task,               \* task[s]: the task stream_opportunities spawns
    stream, client,     \* the mpsc channel of a subscriber and its reader
    status              \* what one get_status call has read so far

config == <<forkSim, contract>>
engine == <<call, blockCtx, counts>>
streams == <<task, stream, client>>
vars == <<config, engine, published, streams, status>>

Counters == {"detected", "simulated", "succeeded", "forked", "built"}
Bump(c, n) == counts' = [counts EXCEPT ![c] = @ + n]
NoBlock == [number |-> 0, baseFee |-> FloorFee]     \* BlockContext::default

Init ==
    /\ forkSim \in BOOLEAN /\ contract \in BOOLEAN
    /\ call = [r \in Requests |-> [pc |-> "new", opps |-> <<>>, out |-> <<>>,
                                   ctx |-> NoBlock, env |-> NoBlock]]
    /\ blockCtx = NoBlock
    /\ counts = [c \in Counters |-> 0]
    /\ published = <<>>
    /\ task = [s \in Subscribers |-> [pc |-> "none", since |-> 0, next |-> 0, skipped |-> {}]]
    /\ stream = [s \in Subscribers |-> <<>>]
    /\ client = [s \in Subscribers |-> [open |-> TRUE, got |-> <<>>]]
    /\ status = <<>>

-----------------------------------------------------------------------------
(* DetectOpportunity.                                                      *)

Goto(r, pc) == call' = [call EXCEPT ![r].pc = pc]

(* The loop goes on with the next opportunity, or ends.                    *)
Advance(c, out) ==
    [c EXCEPT !.opps = Tail(@), !.out = out, !.pc = IF Len(c.opps) = 1 THEN "finish" ELSE "stage1"]

(* decode_tx: a hash or a sender of the wrong length is refused.           *)
DecodeFails(r) == Goto(r, "answered") /\ UNCHANGED counts

(* process_tx returns and has counted what it found.                       *)
ProcessTx(r) ==
    /\ call[r].pc = "new"
    /\ \/ DecodeFails(r)
       \/ \E opps \in Detections :
            /\ call' = [call EXCEPT ![r].opps = opps,
                                    ![r].pc = IF opps = <<>> THEN "answered" ELSE "stage1"]
            /\ Bump("detected", Len(opps))
    /\ UNCHANGED <<config, blockCtx, published, streams, status>>

(* simulate_inner counts first ...                                         *)
SimulateCounts(r) ==
    /\ call[r].pc = "stage1"
    /\ Bump("simulated", 1)
    /\ Goto(r, "simulate")
    /\ UNCHANGED <<config, blockCtx, published, streams, status>>

(* ... and then evaluates.  Nothing in it waits, so the timeout around it  *)
(* never interrupts it.                                                    *)
Simulate(r) ==
    /\ call[r].pc = "simulate"
    /\ LET good == Head(call[r].opps).stage1
       IN  /\ Bump("succeeded", IF good THEN 1 ELSE 0)
           /\ IF good THEN Goto(r, IF forkSim THEN "updateBlock" ELSE "build")
                      ELSE call' = [call EXCEPT ![r] = Advance(@, call[r].out)]
    /\ UNCHANGED <<config, blockCtx, published, streams, status>>

(* Mutant: the base fee comes from the request.                            *)
UpdateBlockOwnFee(r) ==
    /\ call[r].pc = "updateBlock"
    /\ blockCtx' = [number |-> r, baseFee |-> r]
    /\ Goto(r, "forkStart")
    /\ UNCHANGED <<config, counts, published, streams, status>>

(* max_gas_price, but at least the floor, whatever the request says.       *)
BaseFee == IF MaxFee < FloorFee THEN FloorFee ELSE MaxFee

(* update_block, for every handler on the one simulator.                   *)
UpdateBlock(r) ==
    /\ call[r].pc = "updateBlock"
    /\ blockCtx' = [number |-> r, baseFee |-> BaseFee]
    /\ Goto(r, "forkStart")
    /\ UNCHANGED <<config, counts, published, streams, status>>

(* simulate_opportunity counts and reads the block for its gas cost;       *)
(* build_evm reads it again; simulate_call reads the gas price.            *)
ForkStart(r) ==
    /\ call[r].pc = "forkStart"
    /\ call' = [call EXCEPT ![r].ctx = blockCtx, ![r].pc = "buildEvm"]
    /\ Bump("forked", 1)
    /\ UNCHANGED <<config, blockCtx, published, streams, status>>

BuildEvm(r) ==
    /\ call[r].pc = "buildEvm"
    /\ call' = [call EXCEPT ![r].env = blockCtx, ![r].pc = "transact"]
    /\ UNCHANGED <<config, blockCtx, counts, published, streams, status>>

(* revm: a call to an account without code succeeds and returns nothing; a *)
(* gas price below the base fee is an error.  Code may do anything.        *)
Transact(code, target, env, price) ==
    IF price < env.baseFee THEN {[success |-> FALSE, gas |-> 0, output |-> 0]}
    ELSE IF target \in code
    THEN [success : BOOLEAN, gas : {CallGas}, output : {0, CallGas * price + 1}]
    ELSE {[success |-> TRUE, gas |-> CallGas, output |-> 0]}

(* The fork database the handler fills: the sender's account, no code.     *)
ForkCode == {}

(* simulate_call and the rest of simulate_opportunity: the profit word of  *)
(* the output minus the gas at the block's base fee.                       *)
ForkTransact(r) ==
    /\ call[r].pc = "transact"
    /\ \E res \in Transact(ForkCode, IF contract THEN "contract" ELSE "sender",
                           call[r].env, blockCtx.baseFee) :
         LET gross == IF res.success THEN res.output ELSE 0
             net   == gross - res.gas * call[r].ctx.baseFee
         IN  IF res.success /\ net > 0 THEN Goto(r, "build")
             ELSE call' = [call EXCEPT ![r] = Advance(@, call[r].out)]
    /\ UNCHANGED <<config, blockCtx, counts, published, streams, status>>

EncodeOpportunity(opp, bundle) == [profit |-> opp.profit, bundle |-> bundle]

(* BundleBuilder::build; an opportunity without a bundle is kept.          *)
Build(r) ==
    /\ call[r].pc = "build"
    /\ LET opp == Head(call[r].opps)
           ok  == contract /\ opp.valid
       IN  /\ Bump("built", IF ok THEN 1 ELSE 0)
           /\ call' = [call EXCEPT ![r] = Advance(@, Append(call[r].out,
                                                                EncodeOpportunity(opp, ok)))]
    /\ UNCHANGED <<config, blockCtx, published, streams, status>>

(* The answer; a result with opportunities is broadcast.                   *)
Finish(r) ==
    /\ call[r].pc = "finish"
    /\ published' = IF call[r].out # <<>> THEN Append(published, call[r].out) ELSE published
    /\ Goto(r, "answered")
    /\ UNCHANGED <<config, blockCtx, counts, streams, status>>

Detect(r) ==
    \/ ProcessTx(r) \/ SimulateCounts(r) \/ Simulate(r) \/ UpdateBlock(r) \/ ForkStart(r)
    \/ BuildEvm(r) \/ ForkTransact(r) \/ Build(r) \/ Finish(r)

-----------------------------------------------------------------------------
(* StreamOpportunities.                                                    *)

(* The call subscribes to the broadcast channel and spawns the task.       *)
Subscribe(s) ==
    /\ task[s].pc = "none"
    /\ task' = [task EXCEPT ![s].pc = "recv", ![s].since = Len(published) + 1,
                            ![s].next = Len(published) + 1]
    /\ UNCHANGED <<config, engine, published, stream, client, status>>

(* Mutant: every opportunity of the result must reach min_profit.          *)
PassesAll(s, result) == \A i \in DOMAIN result : result[i].profit >= MinProfit[s]

(* min_profit lets a whole result pass when one of its opportunities does. *)
Passes(s, result) ==
    MinProfit[s] = 0 \/ \E i \in DOMAIN result : result[i].profit >= MinProfit[s]

(* Mutant: a task that lags goes on with the next result to come.          *)
OldestNone ==
    IF Len(published) < BroadcastCapacity THEN 1 ELSE Len(published) - BroadcastCapacity + 2

(* The oldest result the broadcast channel still holds.                    *)
Oldest ==
    IF Len(published) <= BroadcastCapacity THEN 1 ELSE Len(published) - BroadcastCapacity + 1

(* Mutant: Lagged ends the task as Closed does.                            *)
RecvLagEnds(s) ==
    /\ task[s].pc = "recv" /\ task[s].next <= Len(published)
    /\ task' = IF task[s].next < Oldest
               THEN [task EXCEPT ![s].pc = "ended"]
               ELSE [task EXCEPT ![s].next = @ + 1,
                                 ![s].pc = IF Passes(s, published[task[s].next])
                                           THEN "send" ELSE "recv"]
    /\ UNCHANGED <<config, engine, published, stream, client, status>>

(* broadcast_rx.recv: Lagged skips to the oldest, a result is filtered.    *)
Recv(s) ==
    /\ task[s].pc = "recv" /\ task[s].next <= Len(published)
    /\ task' = IF task[s].next < Oldest
               THEN [task EXCEPT ![s].next = Oldest,
                                 ![s].skipped = @ \cup task[s].next .. Oldest - 1]
               ELSE [task EXCEPT ![s].next = @ + 1,
                                 ![s].pc = IF Passes(s, published[task[s].next])
                                           THEN "send" ELSE "recv"]
    /\ UNCHANGED <<config, engine, published, stream, client, status>>

(* tx.send waits for room and fails when the subscriber is gone.           *)
Send(s) ==
    /\ task[s].pc = "send"
    /\ \/ /\ ~client[s].open
          /\ task' = [task EXCEPT ![s].pc = "ended"]
          /\ UNCHANGED stream
       \/ /\ client[s].open /\ Len(stream[s]) < StreamBuffer
          /\ stream' = [stream EXCEPT ![s] = Append(@, task[s].next - 1)]
          /\ task' = [task EXCEPT ![s].pc = "recv"]
    /\ UNCHANGED <<config, engine, published, client, status>>

(* The subscriber reads its stream, or drops it.                           *)
ClientReads(s) ==
    /\ client[s].open /\ stream[s] # <<>>
    /\ stream' = [stream EXCEPT ![s] = Tail(@)]
    /\ client' = [client EXCEPT ![s].got = Append(@, Head(stream[s]))]
    /\ UNCHANGED <<config, engine, published, task, status>>

ClientLeaves(s) ==
    /\ client[s].open /\ task[s].pc # "none"
    /\ client' = [client EXCEPT ![s].open = FALSE]
    /\ stream' = [stream EXCEPT ![s] = <<>>]
    /\ UNCHANGED <<config, engine, published, task, status>>

-----------------------------------------------------------------------------
(* Mutant: what was detected is read before what was simulated.            *)
StatusFieldsSwapped == <<counts.detected, counts.forked, counts.simulated, counts.built>>

(* get_status reads the counters one after another, in this order.         *)
StatusFields == <<counts.simulated, counts.forked, counts.detected, counts.built>>

GetStatus ==
    /\ Len(status) < 4
    /\ status' = Append(status, StatusFields[Len(status) + 1])
    /\ UNCHANGED <<config, engine, published, streams>>

Next ==
    \/ \E r \in Requests : Detect(r)
    \/ \E s \in Subscribers :
         Subscribe(s) \/ Recv(s) \/ Send(s) \/ ClientReads(s) \/ ClientLeaves(s)
    \/ GetStatus

Spec == Init /\ [][Next]_vars

(* The runtime polls every handler and task that can go on, and a          *)
(* subscriber that stays reads its stream.                                 *)
Fairness ==
    /\ \A r \in Requests : WF_vars(Detect(r))
    /\ \A s \in Subscribers : WF_vars(Recv(s) \/ Send(s)) /\ WF_vars(ClientReads(s))

FairSpec == Spec /\ Fairness

-----------------------------------------------------------------------------
Blocks == [number : Nat, baseFee : Nat]
Stage2 == {"updateBlock", "forkStart", "buildEvm", "transact"}
Stages == {"new", "stage1", "simulate", "build", "finish", "answered"} \cup Stage2
Tasks == [pc : {"none", "recv", "send", "ended"}, since : Nat, next : Nat, skipped : SUBSET Nat]
Handlers == {h \in [pc : Stages, opps : Seq(Opportunities), out : Seq(Results),
                    ctx : Blocks, env : Blocks] :
             h.pc \in {"new", "finish", "answered"} <=> h.opps = <<>>}

(* The types of the variables.  A handler has work exactly while it is in  *)
(* its loop, and a stream's channel is bounded.                            *)
TypeOK ==
    /\ forkSim \in BOOLEAN /\ contract \in BOOLEAN
    /\ call \in [Requests -> Handlers]
    /\ blockCtx \in Blocks
    /\ counts \in [Counters -> Nat]
    /\ published \in Seq(Seq(Results))
    /\ task \in [Subscribers -> Tasks]
    /\ stream \in [Subscribers -> Seq(Nat)]
    /\ \A s \in Subscribers : Len(stream[s]) <= StreamBuffer
    /\ client \in [Subscribers -> [open : BOOLEAN, got : Seq(Nat)]]
    /\ status \in Seq(Nat) /\ Len(status) <= 4

(* The opportunities of handler r that simulate has not counted yet, those *)
(* of all handlers, and the bundles in the handlers' results.              *)
Uncounted(r) ==
    IF call[r].pc \in {"new", "stage1", "finish", "answered"}
    THEN Len(call[r].opps) ELSE Len(call[r].opps) - 1
Waiting == UNION {{r} \X (1 .. Uncounted(r)) : r \in Requests}
Bundles(r) == {i \in DOMAIN call[r].out : call[r].out[i].bundle}
Bundled == UNION {{r} \X Bundles(r) : r \in Requests}

(* The handlers that have counted a simulation and not yet its outcome, or *)
(* not yet the run of stage 2 that may follow it.                          *)
At(pcs) == {r \in Requests : call[r].pc \in pcs}
Simulating == At({"simulate"})
Forking == At({"simulate", "updateBlock", "forkStart"})

(* The counters of the parts account for each other however the handlers   *)
(* interleave: every opportunity process_tx counted is simulated once or   *)
(* still waits in a handler, every bundle counted as built is in a result, *)
(* and no simulation succeeds, or is run again in stage 2, twice           *)
(* (detect_opportunity's loop skips nothing).                              *)
CountsAgree ==
    /\ counts.detected = counts.simulated + Cardinality(Waiting)
    /\ counts.built = Cardinality(Bundled)
    /\ counts.succeeded + Cardinality(Simulating) <= counts.simulated
    /\ counts.forked + Cardinality(Forking) <= counts.simulated

(* get_status never reports more simulations than its own number of        *)
(* detected opportunities explains, although its four reads interleave     *)
(* with the handlers: one stage 1 and one stage 2 run each.                *)
StatusCoherent ==
    Len(status) >= 3 => status[1] <= status[3] /\ status[2] <= status[3]

(* Once some handler has called update_block the block's base fee stays.   *)
FeeKept(r) ==
    /\ call[r].pc \in {"forkStart", "buildEvm", "transact"} => blockCtx.baseFee = BaseFee
    /\ call[r].pc \in {"buildEvm", "transact"} => call[r].ctx.baseFee = BaseFee
    /\ call[r].pc = "transact" => call[r].env.baseFee = BaseFee

(* A handler in stage 2 charges gas at the base fee the EVM ran with,      *)
(* although another handler may replace the shared block context between   *)
(* any two of its three reads (update_block, simulate_opportunity,         *)
(* build_evm, simulate_call): all of them set the same fee.                *)
Stage2OneFee ==
    \A r \in Requests :
        /\ FeeKept(r)
        /\ call[r].pc = "transact" =>
             call[r].ctx.baseFee = call[r].env.baseFee /\ call[r].env.baseFee = blockCtx.baseFee

(* With stage 2 on, nothing is ever found: the handler's fork database     *)
(* holds the sender's account only, so the call runs no code, returns no   *)
(* profit word, and the gas makes the net profit negative.                 *)
ForkSimFindsNothing == forkSim => published = <<>>

(* The inductive parts of the invariants: the sets counted are finite; a   *)
(* handler of a server with stage 2 on gets no further than stage 2; a     *)
(* counter is at least what get_status has read of it.                     *)
SetsFinite ==
    /\ IsFiniteSet(Waiting) /\ IsFiniteSet(Bundled)
    /\ IsFiniteSet(Simulating) /\ IsFiniteSet(Forking)

NothingBuilt ==
    \A r \in Requests : forkSim => call[r].pc # "build" /\ call[r].out = <<>>

StatusRead ==
    /\ Len(status) >= 1 => status[1] <= counts.simulated
    /\ Len(status) >= 2 => status[2] <= counts.simulated

(* What the task of s has passed since it subscribed, and what it has      *)
(* taken from the broadcast channel for its subscriber.                    *)
Pos(s) == task[s].since .. task[s].next - 1
Held(s) == IF task[s].pc = "send" THEN <<task[s].next - 1>> ELSE <<>>
Delivered(s) == client[s].got \o stream[s] \o Held(s)

(* Where a task is in the broadcast channel; before it starts there is     *)
(* nothing to read.  With StreamComplete, inductive.                       *)
TaskPlaced(s) ==
    /\ task[s].pc = "none" =>
         /\ task[s].skipped = {} /\ stream[s] = <<>>
         /\ client[s].got = <<>> /\ client[s].open
    /\ task[s].pc # "none" =>
         /\ task[s].since >= 1 /\ task[s].since <= task[s].next
         /\ task[s].next <= Len(published) + 1
         /\ task[s].skipped \subseteq Pos(s)
    /\ task[s].pc = "send" => task[s].since < task[s].next

TaskInv == \A s \in Subscribers : TaskPlaced(s)

(* The books of the server agree at every moment: its counters with the    *)
(* handlers, a status report with itself, the results with stage 2, the    *)
(* position of every stream with the broadcast channel.                    *)
ServerInv ==
    /\ TypeOK /\ SetsFinite /\ CountsAgree
    /\ StatusRead /\ StatusCoherent
    /\ NothingBuilt /\ ForkSimFindsNothing
    /\ TaskInv

(* Some opportunity of the result reaches the min_profit of s.             *)
Wanted(s, result) ==
    MinProfit[s] = 0 \/ \E i \in DOMAIN result : result[i].profit >= MinProfit[s]

Ordered(q) == \A i, j \in DOMAIN q : i < j => q[i] < q[j]
Due(s) == {p \in Pos(s) \ task[s].skipped : Wanted(s, published[p])}
GetsAll(s) ==
    task[s].pc # "none" /\ client[s].open =>
        Ordered(Delivered(s)) /\ Range(Delivered(s)) = Due(s)

(* A subscriber gets, in order and once, exactly the results published     *)
(* since it subscribed in which some opportunity reaches its min_profit,   *)
(* except those its task was told it lagged behind on                      *)
(* (stream_opportunities).                                                 *)
StreamComplete == \A s \in Subscribers : GetsAll(s)

(* A result is lost to a subscriber only when BroadcastCapacity newer ones *)
(* were published before its task came to it.                              *)
LossNeedsLag ==
    [][\A s \in Subscribers : \A p \in task'[s].skipped \ task[s].skipped :
         Len(published) - p >= BroadcastCapacity]_vars

(* Every call is answered, and a subscriber that stays and reads has in    *)
(* the end read all its task took for it: no task is stuck on its bounded  *)
(* channel, so with StreamComplete the subscriber has all that was not     *)
(* skipped.                                                                *)
AllServed ==
    <>[]( /\ \A r \in Requests : call[r].pc = "answered"
          /\ \A s \in Subscribers : task[s].pc # "none" /\ client[s].open =>
                task[s].next = Len(published) + 1 /\ client[s].got = Delivered(s) )
=============================================================================
