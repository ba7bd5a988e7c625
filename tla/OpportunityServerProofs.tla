----------------------- MODULE OpportunityServerProofs -----------------------
(***************************************************************************)
(* Proofs about the gRPC server of the core, for every number of calls,    *)
(* every list of opportunities, every fee and every capacity of the two    *)
(* channels: its counters, its status reports, the fee of stage 2 and the  *)
(* streams of opportunities.                                               *)
(***************************************************************************)
EXTENDS OpportunityServer, TLAPS

-----------------------------------------------------------------------------
(* Sequences.                                                              *)

(* What Len, Append and Tail return.                                       *)
LEMMA LenFacts ==
    ASSUME NEW S, NEW q \in Seq(S)
    PROVE  /\ Len(q) \in Nat /\ DOMAIN q = 1 .. Len(q) /\ \A i \in 1 .. Len(q) : q[i] \in S
           /\ q = <<>> <=> Len(q) = 0
  OBVIOUS

LEMMA AppendFacts ==
    ASSUME NEW S, NEW q \in Seq(S), NEW x \in S
    PROVE  /\ Append(q, x) \in Seq(S) /\ Len(Append(q, x)) = Len(q) + 1
           /\ \A i \in 1 .. Len(q) : Append(q, x)[i] = q[i]
           /\ Append(q, x)[Len(q) + 1] = x
  OBVIOUS

LEMMA TailFacts ==
    ASSUME NEW S, NEW q \in Seq(S), q # <<>>
    PROVE  /\ Head(q) \in S /\ Tail(q) \in Seq(S) /\ Len(Tail(q)) = Len(q) - 1
           /\ Tail(q) = <<>> <=> Len(q) = 1
  <1>1. Head(q) \in S /\ Tail(q) \in Seq(S) /\ Len(Tail(q)) = Len(q) - 1 /\ Len(q) \in Nat
    OBVIOUS
  <1>2. Tail(q) = <<>> <=> Len(Tail(q)) = 0
    BY <1>1, LenFacts, Zenon
  <1> QED  BY <1>1, <1>2

-----------------------------------------------------------------------------
(* One step of one handler.                                                *)

(* The loop's bookkeeping: the first opportunity is done with.             *)
LEMMA AdvanceFacts ==
    ASSUME NEW h \in Handlers, h.opps # <<>>, NEW out \in Seq(Results)
    PROVE  /\ Advance(h, out) \in Handlers
           /\ Advance(h, out).pc \in {"finish", "stage1"}
           /\ Len(Advance(h, out).opps) = Len(h.opps) - 1
           /\ Advance(h, out).out = out
  <1>1. h.opps \in Seq(Opportunities) /\ h.ctx \in Blocks /\ h.env \in Blocks
    BY DEF Handlers
  <1>2. /\ Tail(h.opps) \in Seq(Opportunities) /\ Len(Tail(h.opps)) = Len(h.opps) - 1
        /\ Tail(h.opps) = <<>> <=> Len(h.opps) = 1
    BY <1>1, TailFacts
  <1>3. h \in [pc : Stages, opps : Seq(Opportunities), out : Seq(Results),
               ctx : Blocks, env : Blocks]
    BY DEF Handlers
  <1> DEFINE pc == IF Len(h.opps) = 1 THEN "finish" ELSE "stage1"
             a == Advance(h, out)
  <1>4. pc \in Stages /\ a = [h EXCEPT !.opps = Tail(@), !.out = out, !.pc = pc]
    BY DEF Advance, Stages
  <1>5. a.pc = pc /\ a.opps = Tail(h.opps) /\ a.out = out
    BY <1>3, <1>4
  <1>6. a \in [pc : Stages, opps : Seq(Opportunities), out : Seq(Results),
               ctx : Blocks, env : Blocks]
    BY <1>2, <1>3, <1>4, Zenon
  <1> QED  BY <1>2, <1>5, <1>6 DEF Handlers

(* What a handler does to its own state; it leaves the others alone.       *)
StepsAlone(r) ==
    /\ call' \in [Requests -> Handlers]
    /\ \A q \in Requests \ {r} : call'[q] = call[q]

LEMMA HandlerStep ==
    ASSUME TypeOK, NEW r \in Requests, NEW h \in Handlers, call' = [call EXCEPT ![r] = h]
    PROVE  StepsAlone(r) /\ call'[r] = h
  BY DEF TypeOK, StepsAlone

(* A jump that keeps the handler's work.                                   *)
LEMMA GotoStep ==
    ASSUME TypeOK, NEW r \in Requests, NEW pc \in Stages, Goto(r, pc),
           pc \in {"new", "finish", "answered"} <=> call[r].opps = <<>>
    PROVE  /\ StepsAlone(r) /\ call'[r].pc = pc
           /\ call'[r].opps = call[r].opps /\ call'[r].out = call[r].out
           /\ call'[r].ctx = call[r].ctx /\ call'[r].env = call[r].env
  <1>1. call[r] \in Handlers
    BY DEF TypeOK
  <1>2. [call[r] EXCEPT !.pc = pc] \in Handlers
    BY <1>1 DEF Handlers
  <1>3. call' = [call EXCEPT ![r] = [call[r] EXCEPT !.pc = pc]]
    BY DEF Goto, TypeOK
  <1>4. StepsAlone(r) /\ call'[r] = [call[r] EXCEPT !.pc = pc]
    BY <1>2, <1>3, HandlerStep, Zenon
  <1> QED  BY <1>1, <1>4 DEF Handlers

(* The end of the loop's body.                                             *)
LEMMA AdvanceStep ==
    ASSUME TypeOK, NEW r \in Requests, call[r].opps # <<>>, NEW out \in Seq(Results),
           call' = [call EXCEPT ![r] = Advance(@, out)]
    PROVE  /\ StepsAlone(r) /\ call'[r].pc \in {"finish", "stage1"}
           /\ Len(call'[r].opps) = Len(call[r].opps) - 1 /\ call'[r].out = out
  <1>1. call[r] \in Handlers
    BY DEF TypeOK
  <1>2. Advance(call[r], out) \in Handlers
    BY <1>1, AdvanceFacts
  <1>3. call' = [call EXCEPT ![r] = Advance(call[r], out)]
    BY DEF TypeOK
  <1>4. StepsAlone(r) /\ call'[r] = Advance(call[r], out)
    BY <1>2, <1>3, HandlerStep, Zenon
  <1> QED  BY <1>1, <1>4, AdvanceFacts

(* A counter of the parts grows.                                           *)
LEMMA BumpFacts ==
    ASSUME TypeOK, NEW c \in Counters, NEW n \in Nat, Bump(c, n)
    PROVE  /\ counts' \in [Counters -> Nat] /\ counts'[c] = counts[c] + n
           /\ \A d \in Counters \ {c} : counts'[d] = counts[d]
  BY DEF TypeOK, Bump

(* The steps of detect_opportunity, by what they change.                   *)
LEMMA ProcessStep ==
    ASSUME TypeOK, NEW r \in Requests, ProcessTx(r)
    PROVE  /\ StepsAlone(r) /\ call[r].pc = "new" /\ call'[r].pc \in {"answered", "stage1"}
           /\ call[r].opps = <<>> /\ call'[r].out = call[r].out
           /\ counts' \in [Counters -> Nat]
           /\ counts'["detected"] = counts["detected"] + Len(call'[r].opps)
           /\ \A d \in Counters \ {"detected"} : counts'[d] = counts[d]
           /\ UNCHANGED <<config, blockCtx, published, streams, status>>
  <1>1. /\ call[r] \in Handlers /\ call[r].pc = "new" /\ call[r].opps = <<>>
        /\ counts \in [Counters -> Nat] /\ "detected" \in Counters
        /\ UNCHANGED <<config, blockCtx, published, streams, status>>
    BY DEF TypeOK, ProcessTx, Handlers, Counters
  <1>2. CASE DecodeFails(r)
    <2>1. Goto(r, "answered") /\ counts' = counts
      BY <1>2 DEF DecodeFails
    <2>2. /\ StepsAlone(r) /\ call'[r].pc = "answered"
          /\ call'[r].opps = call[r].opps /\ call'[r].out = call[r].out
      BY <1>1, <2>1, GotoStep DEF Stages
    <2> QED  BY <1>1, <2>1, <2>2
  <1>3. CASE \E opps \in Detections :
               /\ call' = [call EXCEPT ![r].opps = opps,
                                       ![r].pc = IF opps = <<>> THEN "answered" ELSE "stage1"]
               /\ Bump("detected", Len(opps))
    <2>1. PICK opps \in Detections :
             /\ call' = [call EXCEPT ![r].opps = opps,
                                     ![r].pc = IF opps = <<>> THEN "answered" ELSE "stage1"]
             /\ Bump("detected", Len(opps))
      BY <1>3, Zenon
    <2> DEFINE pc == IF opps = <<>> THEN "answered" ELSE "stage1"
               h == [call[r] EXCEPT !.opps = opps, !.pc = pc]
    <2>2. opps \in Seq(Opportunities) /\ Len(opps) \in Nat /\ pc \in {"answered", "stage1"}
          /\ pc \in Stages
      BY ServerAssumption, LenFacts DEF Stages
    <2>3. h \in Handlers /\ h.opps = opps /\ h.pc = pc /\ h.out = call[r].out
      BY <1>1, <2>2, Zenon DEF Handlers
    <2>4. call' = [call EXCEPT ![r] = h]
      BY <2>1, Zenon DEF TypeOK
    <2>5. StepsAlone(r) /\ call'[r] = h
      BY <2>3, <2>4, HandlerStep, Zenon
    <2>6. /\ counts' \in [Counters -> Nat]
          /\ counts'["detected"] = counts["detected"] + Len(opps)
          /\ \A d \in Counters \ {"detected"} : counts'[d] = counts[d]
      BY <1>1, <2>1, <2>2, BumpFacts
    <2> QED  BY <1>1, <2>2, <2>3, <2>5, <2>6
  <1> QED  BY <1>2, <1>3, Zenon DEF ProcessTx

LEMMA CountSimulation ==
    ASSUME TypeOK, NEW r \in Requests, SimulateCounts(r)
    PROVE  /\ StepsAlone(r) /\ call[r].pc = "stage1" /\ call'[r].pc = "simulate"
           /\ call[r].opps # <<>> /\ call'[r].opps = call[r].opps /\ call'[r].out = call[r].out
           /\ counts' \in [Counters -> Nat]
           /\ counts'["simulated"] = counts["simulated"] + 1
           /\ \A d \in Counters \ {"simulated"} : counts'[d] = counts[d]
           /\ UNCHANGED <<config, blockCtx, published, streams, status>>
  <1>1. /\ call[r].pc = "stage1" /\ call[r].opps # <<>>
        /\ Goto(r, "simulate") /\ Bump("simulated", 1) /\ "simulated" \in Counters
        /\ UNCHANGED <<config, blockCtx, published, streams, status>>
    BY Zenon DEF TypeOK, SimulateCounts, Handlers, Counters
  <1>2. /\ StepsAlone(r) /\ call'[r].pc = "simulate"
        /\ call'[r].opps = call[r].opps /\ call'[r].out = call[r].out
    BY <1>1, GotoStep DEF Stages
  <1>3. /\ counts' \in [Counters -> Nat]
        /\ counts'["simulated"] = counts["simulated"] + 1
        /\ \A d \in Counters \ {"simulated"} : counts'[d] = counts[d]
    BY <1>1, BumpFacts
  <1> QED  BY <1>1, <1>2, <1>3

(* The outcome of the simulation: the loop goes on with the next           *)
(* opportunity, or this one goes to stage 2, or to the builder.            *)
LEMMA SimulationStep ==
    ASSUME TypeOK, NEW r \in Requests, Simulate(r)
    PROVE  /\ StepsAlone(r) /\ call[r].pc = "simulate" /\ call[r].opps # <<>>
           /\ call'[r].out = call[r].out
           /\ \/ /\ call'[r].pc = IF forkSim THEN "updateBlock" ELSE "build"
                 /\ Len(call'[r].opps) = Len(call[r].opps)
              \/ /\ call'[r].pc \in {"finish", "stage1"}
                 /\ Len(call'[r].opps) = Len(call[r].opps) - 1
           /\ counts' \in [Counters -> Nat]
           /\ counts["succeeded"] <= counts'["succeeded"]
           /\ counts'["succeeded"] <= counts["succeeded"] + 1
           /\ \A d \in Counters \ {"succeeded"} : counts'[d] = counts[d]
           /\ UNCHANGED <<config, blockCtx, published, streams, status>>
  <1> DEFINE good == Head(call[r].opps).stage1
             n == IF good THEN 1 ELSE 0
             pc == IF forkSim THEN "updateBlock" ELSE "build"
  <1>1. /\ call[r].pc = "simulate" /\ call[r].opps # <<>> /\ call[r].out \in Seq(Results)
        /\ Bump("succeeded", n) /\ "succeeded" \in Counters /\ counts["succeeded"] \in Nat
        /\ IF good THEN Goto(r, pc) ELSE call' = [call EXCEPT ![r] = Advance(@, call[r].out)]
        /\ UNCHANGED <<config, blockCtx, published, streams, status>>
    BY Zenon DEF TypeOK, Simulate, Handlers, Counters
  <1>2. n \in Nat /\ n <= 1 /\ pc \in Stages /\ pc \notin {"new", "finish", "answered"}
    BY DEF Stages, Stage2
  <1>3. /\ counts' \in [Counters -> Nat] /\ counts'["succeeded"] = counts["succeeded"] + n
        /\ \A d \in Counters \ {"succeeded"} : counts'[d] = counts[d]
    BY <1>1, <1>2, BumpFacts
  <1>4. CASE good
    <2>1. /\ StepsAlone(r) /\ call'[r].pc = pc
          /\ call'[r].opps = call[r].opps /\ call'[r].out = call[r].out
      BY <1>1, <1>2, <1>4, GotoStep
    <2> QED  BY <1>1, <1>2, <1>3, <2>1
  <1>5. CASE ~good
    <2>1. /\ StepsAlone(r) /\ call'[r].pc \in {"finish", "stage1"}
          /\ Len(call'[r].opps) = Len(call[r].opps) - 1 /\ call'[r].out = call[r].out
      BY <1>1, <1>5, AdvanceStep
    <2> QED  BY <1>1, <1>2, <1>3, <2>1
  <1> QED  BY <1>4, <1>5

LEMMA UpdateBlockStep ==
    ASSUME TypeOK, NEW r \in Requests, UpdateBlock(r)
    PROVE  /\ StepsAlone(r) /\ call[r].pc = "updateBlock" /\ call'[r].pc = "forkStart"
           /\ call[r].opps # <<>> /\ call'[r].opps = call[r].opps /\ call'[r].out = call[r].out
           /\ blockCtx' \in Blocks /\ blockCtx'.baseFee = BaseFee
           /\ UNCHANGED <<config, counts, published, streams, status>>
  <1>1. /\ call[r].pc = "updateBlock" /\ call[r].opps # <<>> /\ Goto(r, "forkStart")
        /\ blockCtx' = [number |-> r, baseFee |-> BaseFee]
        /\ UNCHANGED <<config, counts, published, streams, status>>
    BY Zenon DEF TypeOK, UpdateBlock, Handlers
  <1>2. /\ StepsAlone(r) /\ call'[r].pc = "forkStart"
        /\ call'[r].opps = call[r].opps /\ call'[r].out = call[r].out
    BY <1>1, GotoStep DEF Stages, Stage2
  <1>3. r \in Nat /\ BaseFee \in Nat
    BY ServerAssumption DEF BaseFee
  <1> QED  BY <1>1, <1>2, <1>3 DEF Blocks

LEMMA ForkStartStep ==
    ASSUME TypeOK, NEW r \in Requests, ForkStart(r)
    PROVE  /\ StepsAlone(r) /\ call[r].pc = "forkStart" /\ call'[r].pc = "buildEvm"
           /\ call[r].opps # <<>> /\ call'[r].opps = call[r].opps /\ call'[r].out = call[r].out
           /\ call'[r].ctx = blockCtx
           /\ counts' \in [Counters -> Nat] /\ counts'["forked"] = counts["forked"] + 1
           /\ \A d \in Counters \ {"forked"} : counts'[d] = counts[d]
           /\ UNCHANGED <<config, blockCtx, published, streams, status>>
  <1> DEFINE h == [call[r] EXCEPT !.ctx = blockCtx, !.pc = "buildEvm"]
  <1>1. /\ call[r].pc = "forkStart" /\ call[r].opps # <<>> /\ call[r] \in Handlers
        /\ call' = [call EXCEPT ![r].ctx = blockCtx, ![r].pc = "buildEvm"]
        /\ blockCtx \in Blocks /\ Bump("forked", 1) /\ "forked" \in Counters
        /\ UNCHANGED <<config, blockCtx, published, streams, status>>
    BY DEF TypeOK, ForkStart, Handlers, Counters
  <1>2. /\ h \in Handlers /\ h.pc = "buildEvm" /\ h.ctx = blockCtx
        /\ h.opps = call[r].opps /\ h.out = call[r].out
    BY <1>1, Zenon DEF Handlers, Stages, Stage2
  <1>3. call' = [call EXCEPT ![r] = h]
    BY <1>1, Zenon DEF TypeOK
  <1>4. StepsAlone(r) /\ call'[r] = h
    BY <1>2, <1>3, HandlerStep, Zenon
  <1>5. /\ counts' \in [Counters -> Nat] /\ counts'["forked"] = counts["forked"] + 1
        /\ \A d \in Counters \ {"forked"} : counts'[d] = counts[d]
    BY <1>1, BumpFacts
  <1> QED  BY <1>1, <1>2, <1>4, <1>5, Zenon

LEMMA BuildEvmStep ==
    ASSUME TypeOK, NEW r \in Requests, BuildEvm(r)
    PROVE  /\ StepsAlone(r) /\ call[r].pc = "buildEvm" /\ call'[r].pc = "transact"
           /\ call[r].opps # <<>> /\ call'[r].opps = call[r].opps /\ call'[r].out = call[r].out
           /\ call'[r].ctx = call[r].ctx /\ call'[r].env = blockCtx
           /\ UNCHANGED <<config, blockCtx, counts, published, streams, status>>
  <1> DEFINE h == [call[r] EXCEPT !.env = blockCtx, !.pc = "transact"]
  <1>1. /\ call[r].pc = "buildEvm" /\ call[r].opps # <<>> /\ call[r] \in Handlers
        /\ call' = [call EXCEPT ![r].env = blockCtx, ![r].pc = "transact"]
        /\ blockCtx \in Blocks
        /\ UNCHANGED <<config, blockCtx, counts, published, streams, status>>
    BY DEF TypeOK, BuildEvm, Handlers
  <1>2. /\ h \in Handlers /\ h.pc = "transact" /\ h.env = blockCtx
        /\ h.opps = call[r].opps /\ h.out = call[r].out /\ h.ctx = call[r].ctx
    BY <1>1, Zenon DEF Handlers, Stages, Stage2
  <1>3. call' = [call EXCEPT ![r] = h]
    BY <1>1, Zenon DEF TypeOK
  <1>4. StepsAlone(r) /\ call'[r] = h
    BY <1>2, <1>3, HandlerStep, Zenon
  <1> QED  BY <1>1, <1>2, <1>4, Zenon

(* A call that runs no code returns no profit word.                        *)
LEMMA NoCodeNoProfit ==
    ASSUME NEW target, NEW env, NEW price, NEW res \in Transact(ForkCode, target, env, price)
    PROVE  res.output = 0 /\ res.gas \in Nat
  BY ServerAssumption DEF Transact, ForkCode

LEMMA ProductOfNats ==
    ASSUME NEW a \in Nat, NEW b \in Nat
    PROVE  a * b \in Nat
  OBVIOUS

(* So stage 2 never lets an opportunity pass.                              *)
LEMMA TransactStep ==
    ASSUME TypeOK, NEW r \in Requests, ForkTransact(r)
    PROVE  /\ StepsAlone(r) /\ call[r].pc = "transact" /\ call'[r].pc \in {"finish", "stage1"}
           /\ call[r].opps # <<>> /\ Len(call'[r].opps) = Len(call[r].opps) - 1
           /\ call'[r].out = call[r].out
           /\ UNCHANGED <<config, blockCtx, counts, published, streams, status>>
  <1> DEFINE target == IF contract THEN "contract" ELSE "sender"
             Gross(res) == IF res.success THEN res.output ELSE 0
             Net(res) == Gross(res) - res.gas * call[r].ctx.baseFee
  <1>1. /\ call[r].pc = "transact" /\ call[r].opps # <<>>
        /\ call[r].out \in Seq(Results) /\ call[r].ctx.baseFee \in Nat
        /\ UNCHANGED <<config, blockCtx, counts, published, streams, status>>
    BY Zenon DEF TypeOK, ForkTransact, Handlers, Blocks
  <1>2. PICK res \in Transact(ForkCode, target, call[r].env, blockCtx.baseFee) :
             IF res.success /\ Net(res) > 0 THEN Goto(r, "build")
             ELSE call' = [call EXCEPT ![r] = Advance(@, call[r].out)]
    BY DEF ForkTransact
  <1>3. res.output = 0 /\ res.gas \in Nat
    BY NoCodeNoProfit
  <1>4. Gross(res) = 0 /\ res.gas * call[r].ctx.baseFee \in Nat
    BY <1>1, <1>3, ProductOfNats
  <1>5. ~(Net(res) > 0)
    BY <1>4
  <1>6. call' = [call EXCEPT ![r] = Advance(@, call[r].out)]
    BY <1>2, <1>5
  <1> QED  BY <1>1, <1>6, AdvanceStep, Zenon

LEMMA BuildStep ==
    ASSUME TypeOK, NEW r \in Requests, Build(r)
    PROVE  /\ StepsAlone(r) /\ call[r].pc = "build" /\ call'[r].pc \in {"finish", "stage1"}
           /\ call[r].opps # <<>> /\ Len(call'[r].opps) = Len(call[r].opps) - 1
           /\ \E x \in Results :
                /\ call'[r].out = Append(call[r].out, x)
                /\ counts'["built"] = counts["built"] + (IF x.bundle THEN 1 ELSE 0)
           /\ counts' \in [Counters -> Nat]
           /\ \A d \in Counters \ {"built"} : counts'[d] = counts[d]
           /\ UNCHANGED <<config, blockCtx, published, streams, status>>
  <1> DEFINE opp == Head(call[r].opps)
             ok == contract /\ opp.valid
             x == EncodeOpportunity(opp, ok)
             n == IF ok THEN 1 ELSE 0
  <1>1. /\ call[r].pc = "build" /\ call[r].opps # <<>>
        /\ call[r].out \in Seq(Results) /\ call[r].opps \in Seq(Opportunities)
        /\ Bump("built", n) /\ "built" \in Counters
        /\ call' = [call EXCEPT ![r] = Advance(@, Append(call[r].out, x))]
        /\ UNCHANGED <<config, blockCtx, published, streams, status>>
    BY Zenon DEF TypeOK, Build, Handlers, Counters
  <1>2. opp \in Opportunities
    BY <1>1, TailFacts
  <1>3. ok \in BOOLEAN /\ n \in Nat
    BY <1>2 DEF TypeOK, Opportunities
  <1>4. x \in Results /\ x.bundle = ok
    BY <1>2, <1>3 DEF Opportunities, Results, EncodeOpportunity
  <1>5. Append(call[r].out, x) \in Seq(Results)
    BY <1>1, <1>4, AppendFacts
  <1>6. /\ StepsAlone(r) /\ call'[r].pc \in {"finish", "stage1"}
        /\ Len(call'[r].opps) = Len(call[r].opps) - 1 /\ call'[r].out = Append(call[r].out, x)
    BY <1>1, <1>5, AdvanceStep, Zenon
  <1>7. /\ counts' \in [Counters -> Nat] /\ counts'["built"] = counts["built"] + n
        /\ \A d \in Counters \ {"built"} : counts'[d] = counts[d]
    BY <1>1, <1>3, BumpFacts
  <1>8. counts'["built"] = counts["built"] + (IF x.bundle THEN 1 ELSE 0)
    BY <1>4, <1>7, Zenon
  <1> HIDE DEF x, n
  <1> QED  BY <1>1, <1>4, <1>6, <1>7, <1>8

LEMMA FinishStep ==
    ASSUME TypeOK, NEW r \in Requests, Finish(r)
    PROVE  /\ StepsAlone(r) /\ call[r].pc = "finish" /\ call'[r].pc = "answered"
           /\ call[r].opps = <<>> /\ call'[r].opps = call[r].opps /\ call'[r].out = call[r].out
           /\ published' \in Seq(Seq(Results))
           /\ \/ published' = published
              \/ call[r].out # <<>> /\ published' = Append(published, call[r].out)
           /\ UNCHANGED <<config, blockCtx, counts, streams, status>>
  <1>1. /\ call[r].pc = "finish" /\ call[r].opps = <<>> /\ Goto(r, "answered")
        /\ call[r].out \in Seq(Results) /\ published \in Seq(Seq(Results))
        /\ published' = IF call[r].out # <<>> THEN Append(published, call[r].out) ELSE published
        /\ UNCHANGED <<config, blockCtx, counts, streams, status>>
    BY DEF TypeOK, Finish, Handlers
  <1>2. /\ StepsAlone(r) /\ call'[r].pc = "answered"
        /\ call'[r].opps = call[r].opps /\ call'[r].out = call[r].out
    BY <1>1, GotoStep DEF Stages
  <1>3. published' \in Seq(Seq(Results))
    BY <1>1, AppendFacts
  <1> QED  BY <1>1, <1>2, <1>3

-----------------------------------------------------------------------------
(* The types.                                                              *)

(* Results are only added to the broadcast channel.                        *)
PublishedGrows ==
    /\ published' \in Seq(Seq(Results)) /\ Len(published) <= Len(published')
    /\ \A p \in 1 .. Len(published) : published'[p] = published[p]

LEMMA NoneFalls ==
    ASSUME TypeOK, NEW c \in Counters, NEW n \in Nat, counts'[c] = counts[c] + n,
           \A d \in Counters \ {c} : counts'[d] = counts[d]
    PROVE  \A d \in Counters : counts[d] <= counts'[d]
  <1>1. \A d \in Counters : counts[d] \in Nat
    BY DEF TypeOK
  <1> QED  BY <1>1

(* A step of a handler leaves the streams alone and no counter falls.      *)
LEMMA DetectTypes ==
    ASSUME TypeOK, NEW r \in Requests, Detect(r)
    PROVE  /\ TypeOK' /\ PublishedGrows /\ UNCHANGED <<config, streams, status>>
           /\ \A d \in Counters : counts[d] <= counts'[d]
  <1> USE DEF StepsAlone
  <1>0. /\ counts \in [Counters -> Nat] /\ blockCtx \in Blocks /\ published \in Seq(Seq(Results))
        /\ \A d \in Counters : counts[d] <= counts[d]
    BY DEF TypeOK
  <1>a. published' = published => PublishedGrows
    BY <1>0, LenFacts DEF PublishedGrows
  <1> SUFFICES /\ call' \in [Requests -> Handlers] /\ counts' \in [Counters -> Nat]
               /\ blockCtx' \in Blocks /\ PublishedGrows /\ UNCHANGED <<config, streams, status>>
               /\ \A d \in Counters : counts[d] <= counts'[d]
    BY DEF TypeOK, config, streams, PublishedGrows
  <1>1. CASE ProcessTx(r)
    <2>1. /\ call' \in [Requests -> Handlers] /\ counts' \in [Counters -> Nat]
          /\ counts'["detected"] = counts["detected"] + Len(call'[r].opps)
          /\ \A d \in Counters \ {"detected"} : counts'[d] = counts[d]
          /\ UNCHANGED <<config, blockCtx, published, streams, status>>
      BY <1>1, ProcessStep
    <2>2. Len(call'[r].opps) \in Nat
      BY <2>1, LenFacts DEF Handlers
    <2>3. "detected" \in Counters
      BY DEF Counters
    <2>4. \A d \in Counters : counts[d] <= counts'[d]
      BY <2>1, <2>2, <2>3, NoneFalls
    <2> QED  BY <1>0, <1>a, <2>1, <2>4
  <1>2. CASE SimulateCounts(r)
    <2>1. /\ call' \in [Requests -> Handlers] /\ counts' \in [Counters -> Nat]
          /\ counts'["simulated"] = counts["simulated"] + 1
          /\ \A d \in Counters \ {"simulated"} : counts'[d] = counts[d]
          /\ UNCHANGED <<config, blockCtx, published, streams, status>>
      BY <1>2, CountSimulation
    <2>2. \A d \in Counters : counts[d] <= counts'[d]
      BY <1>0, <2>1
    <2> QED  BY <1>0, <1>a, <2>1, <2>2
  <1>3. CASE Simulate(r)
    <2>1. /\ call' \in [Requests -> Handlers] /\ counts' \in [Counters -> Nat]
          /\ counts["succeeded"] <= counts'["succeeded"]
          /\ \A d \in Counters \ {"succeeded"} : counts'[d] = counts[d]
          /\ UNCHANGED <<config, blockCtx, published, streams, status>>
      BY <1>3, SimulationStep
    <2>2. \A d \in Counters : counts[d] <= counts'[d]
      BY <1>0, <2>1, Zenon
    <2> QED  BY <1>0, <1>a, <2>1, <2>2
  <1>4. CASE UpdateBlock(r)
    BY <1>0, <1>a, <1>4, UpdateBlockStep
  <1>5. CASE ForkStart(r)
    <2>1. /\ call' \in [Requests -> Handlers] /\ counts' \in [Counters -> Nat]
          /\ counts'["forked"] = counts["forked"] + 1
          /\ \A d \in Counters \ {"forked"} : counts'[d] = counts[d]
          /\ UNCHANGED <<config, blockCtx, published, streams, status>>
      BY <1>5, ForkStartStep
    <2>2. \A d \in Counters : counts[d] <= counts'[d]
      BY <1>0, <2>1
    <2> QED  BY <1>0, <1>a, <2>1, <2>2
  <1>6. CASE BuildEvm(r)
    BY <1>0, <1>a, <1>6, BuildEvmStep
  <1>7. CASE ForkTransact(r)
    BY <1>0, <1>a, <1>7, TransactStep
  <1>8. CASE Build(r)
    <2>1. /\ call' \in [Requests -> Handlers] /\ counts' \in [Counters -> Nat]
          /\ \E x \in Results : counts'["built"] = counts["built"] + (IF x.bundle THEN 1 ELSE 0)
          /\ \A d \in Counters \ {"built"} : counts'[d] = counts[d]
          /\ UNCHANGED <<config, blockCtx, published, streams, status>>
      BY <1>8, BuildStep
    <2>2. PICK n \in {0, 1} : counts'["built"] = counts["built"] + n
      BY <2>1
    <2>3. n \in Nat /\ "built" \in Counters
      BY DEF Counters
    <2>4. \A d \in Counters : counts[d] <= counts'[d]
      BY <2>1, <2>2, <2>3, NoneFalls
    <2> QED  BY <1>0, <1>a, <2>1, <2>4
  <1>9. CASE Finish(r)
    <2>1. /\ call' \in [Requests -> Handlers] /\ published' \in Seq(Seq(Results))
          /\ \/ published' = published
             \/ published' = Append(published, call[r].out)
          /\ UNCHANGED <<config, blockCtx, counts, streams, status>>
      BY <1>9, FinishStep
    <2>2. call[r].out \in Seq(Results)
      BY DEF TypeOK, Handlers
    <2>3. ASSUME published' = Append(published, call[r].out)
          PROVE  PublishedGrows
      <3>1. /\ Len(published') = Len(published) + 1 /\ Len(published) \in Nat
            /\ \A i \in 1 .. Len(published) : published'[i] = published[i]
        BY <1>0, <2>2, <2>3, AppendFacts, LenFacts
      <3> QED  BY <2>1, <3>1 DEF PublishedGrows
    <2> QED  BY <1>0, <1>a, <2>1, <2>3
  <1> QED  BY <1>1, <1>2, <1>3, <1>4, <1>5, <1>6, <1>7, <1>8, <1>9 DEF Detect

(* The oldest result the channel holds.                                    *)
LEMMA OldestFacts ==
    ASSUME TypeOK
    PROVE  /\ Len(published) \in Nat /\ Oldest \in Nat \ {0} /\ Oldest <= Len(published) + 1
           /\ Oldest = 1 \/ Oldest = Len(published) - BroadcastCapacity + 1
  BY ServerAssumption, LenFacts DEF Oldest, TypeOK

(* A step of a task or of its subscriber changes only that stream.         *)
StreamsAlone(s) ==
    /\ task' \in [Subscribers -> Tasks] /\ stream' \in [Subscribers -> Seq(Nat)]
    /\ client' \in [Subscribers -> [open : BOOLEAN, got : Seq(Nat)]]
    /\ \A t \in Subscribers \ {s} :
         task'[t] = task[t] /\ stream'[t] = stream[t] /\ client'[t] = client[t]
    /\ UNCHANGED <<config, engine, published, status>>

(* The steps of a stream, by what they change.                             *)
LEMMA TaskStep ==
    ASSUME TypeOK, NEW s \in Subscribers, NEW t \in Tasks, task' = [task EXCEPT ![s] = t],
           stream' = stream, client' = client, UNCHANGED <<config, engine, published, status>>
    PROVE  StreamsAlone(s) /\ task'[s] = t
  BY DEF TypeOK, StreamsAlone

LEMMA SubscribeStep ==
    ASSUME TypeOK, NEW s \in Subscribers, Subscribe(s)
    PROVE  /\ StreamsAlone(s) /\ stream' = stream /\ client' = client
           /\ task[s].pc = "none" /\ task'[s].pc = "recv"
           /\ task'[s].since = Len(published) + 1 /\ task'[s].next = Len(published) + 1
           /\ task'[s].skipped = task[s].skipped
  <1> DEFINE n == Len(published) + 1
             t == [task[s] EXCEPT !.pc = "recv", !.since = n, !.next = n]
  <1>1. /\ task[s] \in Tasks /\ task[s].pc = "none" /\ stream' = stream /\ client' = client
        /\ task' = [task EXCEPT ![s].pc = "recv", ![s].since = n, ![s].next = n]
        /\ UNCHANGED <<config, engine, published, status>>
    BY DEF TypeOK, Subscribe
  <1>2. n \in Nat
    BY LenFacts DEF TypeOK
  <1>3. task' = [task EXCEPT ![s] = t]
    BY <1>1, Zenon DEF TypeOK
  <1> HIDE DEF n
  <1>4. /\ t \in Tasks /\ t.pc = "recv" /\ t.since = n /\ t.next = n
        /\ t.skipped = task[s].skipped
    BY <1>1, <1>2, Zenon DEF Tasks
  <1> HIDE DEF t
  <1>5. StreamsAlone(s) /\ task'[s] = t
    BY <1>1, <1>3, <1>4, TaskStep, Zenon
  <1> QED  BY <1>1, <1>4, <1>5 DEF n

(* Recv tells a task how far it lags, or filters the next result.          *)
LEMMA RecvStep ==
    ASSUME TypeOK, NEW s \in Subscribers, Recv(s)
    PROVE  /\ StreamsAlone(s) /\ stream' = stream /\ client' = client
           /\ task[s].pc = "recv" /\ task[s].next <= Len(published)
           /\ task'[s].since = task[s].since
           /\ \/ /\ task[s].next < Oldest /\ task'[s].next = Oldest /\ task'[s].pc = "recv"
                 /\ task'[s].skipped = task[s].skipped \cup task[s].next .. Oldest - 1
              \/ /\ task'[s].next = task[s].next + 1 /\ task'[s].skipped = task[s].skipped
                 /\ task'[s].pc =
                      IF Wanted(s, published[task[s].next]) THEN "send" ELSE "recv"
  <1> DEFINE n == task[s].next
             wanted == Wanted(s, published[n])
             pc == IF wanted THEN "send" ELSE "recv"
             all == task[s].skipped \cup n .. Oldest - 1
             lag == [task[s] EXCEPT !.next = Oldest, !.skipped = all]
             go == [task[s] EXCEPT !.next = @ + 1, !.pc = pc]
  <1>1. /\ task[s] \in Tasks /\ task[s].pc = "recv" /\ n <= Len(published)
        /\ stream' = stream /\ client' = client
        /\ UNCHANGED <<config, engine, published, status>>
    BY DEF TypeOK, Recv
  <1>2. n \in Nat /\ n + 1 \in Nat /\ Oldest \in Nat /\ pc \in {"recv", "send"}
    BY <1>1, OldestFacts DEF Tasks
  <1>b. all \in SUBSET Nat
    BY <1>1, <1>2 DEF Tasks
  <1>3. \/ n < Oldest /\ task' = [task EXCEPT ![s] = lag]
        \/ task' = [task EXCEPT ![s] = go]
    BY Zenon DEF Recv, TypeOK, Passes, Wanted
  <1> HIDE DEF pc, all
  <1>4. /\ lag \in Tasks /\ lag.next = Oldest /\ lag.pc = task[s].pc
        /\ lag.since = task[s].since /\ lag.skipped = all
    BY <1>1, <1>2, <1>b, Zenon DEF Tasks
  <1>5. /\ go \in Tasks /\ go.next = n + 1 /\ go.pc = pc
        /\ go.since = task[s].since /\ go.skipped = task[s].skipped
    BY <1>1, <1>2, Zenon DEF Tasks
  <1> HIDE DEF lag, go
  <1>6. CASE n < Oldest /\ task' = [task EXCEPT ![s] = lag]
    <2>1. StreamsAlone(s) /\ task'[s] = lag
      BY <1>1, <1>4, <1>6, TaskStep, Zenon
    <2> QED  BY <1>1, <1>4, <1>6, <2>1 DEF all
  <1>7. CASE task' = [task EXCEPT ![s] = go]
    <2>1. StreamsAlone(s) /\ task'[s] = go
      BY <1>1, <1>5, <1>7, TaskStep, Zenon
    <2> QED  BY <1>1, <1>5, <2>1 DEF pc
  <1> QED  BY <1>3, <1>6, <1>7

LEMMA SendStep ==
    ASSUME TypeOK, TaskInv, NEW s \in Subscribers, Send(s)
    PROVE  /\ StreamsAlone(s) /\ client' = client /\ task[s].pc = "send"
           /\ task'[s].since = task[s].since /\ task'[s].next = task[s].next
           /\ task'[s].skipped = task[s].skipped
           /\ \/ ~client[s].open /\ task'[s].pc = "ended" /\ stream'[s] = stream[s]
              \/ /\ client[s].open /\ task'[s].pc = "recv"
                 /\ Len(stream[s]) < StreamBuffer
                 /\ stream'[s] = Append(stream[s], task[s].next - 1)
  <1> DEFINE n == task[s].next - 1
             end == [task[s] EXCEPT !.pc = "ended"]
             go == [task[s] EXCEPT !.pc = "recv"]
  <1>1. /\ task[s] \in Tasks /\ task[s].pc = "send" /\ client' = client
        /\ stream \in [Subscribers -> Seq(Nat)] /\ stream[s] \in Seq(Nat)
        /\ UNCHANGED <<config, engine, published, status>>
    BY DEF TypeOK, Send
  <1>2. n \in Nat
    BY <1>1 DEF TaskInv, TaskPlaced, Tasks
  <1>3. /\ end \in Tasks /\ end.pc = "ended" /\ end.since = task[s].since
        /\ end.next = task[s].next /\ end.skipped = task[s].skipped
        /\ go \in Tasks /\ go.pc = "recv" /\ go.since = task[s].since
        /\ go.next = task[s].next /\ go.skipped = task[s].skipped
    BY <1>1, Zenon DEF Tasks
  <1>4. \/ /\ ~client[s].open /\ task' = [task EXCEPT ![s] = end] /\ stream' = stream
        \/ /\ client[s].open /\ Len(stream[s]) < StreamBuffer
           /\ task' = [task EXCEPT ![s] = go]
           /\ stream' = [stream EXCEPT ![s] = Append(@, n)]
    BY DEF Send, TypeOK
  <1> HIDE DEF n, end, go
  <1>5. CASE ~client[s].open /\ task' = [task EXCEPT ![s] = end] /\ stream' = stream
    <2>1. StreamsAlone(s) /\ task'[s] = end
      BY <1>1, <1>3, <1>5, TaskStep, Zenon
    <2> QED  BY <1>1, <1>3, <1>5, <2>1
  <1>6. CASE /\ client[s].open /\ Len(stream[s]) < StreamBuffer
             /\ task' = [task EXCEPT ![s] = go]
             /\ stream' = [stream EXCEPT ![s] = Append(@, n)]
    <2>1. Append(stream[s], n) \in Seq(Nat)
      BY <1>1, <1>2, AppendFacts
    <2>2. /\ StreamsAlone(s) /\ task'[s] = go /\ stream'[s] = Append(stream[s], n)
      BY <1>1, <1>3, <1>6, <2>1 DEF StreamsAlone, TypeOK
    <2> QED  BY <1>1, <1>3, <1>6, <2>2 DEF n
  <1> QED  BY <1>4, <1>5, <1>6

LEMMA ReadStep ==
    ASSUME TypeOK, NEW s \in Subscribers, ClientReads(s)
    PROVE  /\ StreamsAlone(s) /\ task' = task /\ stream[s] # <<>> /\ client[s].open
           /\ stream'[s] = Tail(stream[s]) /\ client'[s].open = client[s].open
           /\ client'[s].got = Append(client[s].got, Head(stream[s]))
  <1> DEFINE c == [client[s] EXCEPT !.got = Append(@, Head(stream[s]))]
  <1>1. /\ client[s] \in [open : BOOLEAN, got : Seq(Nat)] /\ stream[s] \in Seq(Nat)
        /\ stream[s] # <<>> /\ client[s].open /\ task' = task
        /\ stream' = [stream EXCEPT ![s] = Tail(@)]
        /\ client' = [client EXCEPT ![s] = c]
        /\ UNCHANGED <<config, engine, published, status>>
    BY DEF TypeOK, ClientReads
  <1>2. /\ Tail(stream[s]) \in Seq(Nat) /\ Append(client[s].got, Head(stream[s])) \in Seq(Nat)
    BY <1>1, TailFacts, AppendFacts
  <1>3. /\ c \in [open : BOOLEAN, got : Seq(Nat)] /\ c.open = client[s].open
        /\ c.got = Append(client[s].got, Head(stream[s]))
    BY <1>1, <1>2, Zenon
  <1> HIDE DEF c
  <1>4. StreamsAlone(s) /\ client'[s] = c /\ stream'[s] = Tail(stream[s])
    BY <1>1, <1>2, <1>3 DEF StreamsAlone, TypeOK
  <1> QED  BY <1>1, <1>3, <1>4, Zenon

LEMMA LeaveStep ==
    ASSUME TypeOK, NEW s \in Subscribers, ClientLeaves(s)
    PROVE  /\ StreamsAlone(s) /\ task' = task /\ task[s].pc # "none"
           /\ stream'[s] = <<>> /\ ~client'[s].open
  <1> DEFINE c == [client[s] EXCEPT !.open = FALSE]
  <1>1. /\ client[s] \in [open : BOOLEAN, got : Seq(Nat)] /\ <<>> \in Seq(Nat)
        /\ task' = task /\ task[s].pc # "none"
        /\ stream' = [stream EXCEPT ![s] = <<>>] /\ client' = [client EXCEPT ![s] = c]
        /\ UNCHANGED <<config, engine, published, status>>
    BY DEF TypeOK, ClientLeaves
  <1>2. c \in [open : BOOLEAN, got : Seq(Nat)] /\ ~c.open
    BY <1>1, Zenon
  <1> HIDE DEF c
  <1>3. StreamsAlone(s) /\ client'[s] = c /\ stream'[s] = <<>>
    BY <1>1, <1>2 DEF StreamsAlone, TypeOK
  <1> QED  BY <1>1, <1>2, <1>3

(* get_status appends one more counter.                                    *)
LEMMA StatusStep ==
    ASSUME TypeOK, GetStatus
    PROVE  /\ TypeOK' /\ UNCHANGED <<config, engine, published, streams>>
           /\ Len(status) \in 0 .. 3 /\ Len(status') = Len(status) + 1
           /\ \A i \in 1 .. Len(status) : status'[i] = status[i]
           /\ status'[Len(status) + 1] = StatusFields[Len(status) + 1]
  <1> DEFINE n == Len(status) + 1
             x == StatusFields[n]
  <1>1. /\ status \in Seq(Nat) /\ Len(status) < 4 /\ status' = Append(status, x)
        /\ UNCHANGED <<config, engine, published, streams>>
    BY DEF TypeOK, GetStatus
  <1>2. Len(status) \in 0 .. 3 /\ n \in 1 .. 4
    <2> DEFINE m == Len(status)
    <2>1. m \in Nat /\ m < 4
      BY <1>1, LenFacts
    <2> HIDE DEF m
    <2>2. m \in 0 .. 3 /\ m + 1 \in 1 .. 4
      BY <2>1
    <2> QED  BY <2>2 DEF m
  <1>3. /\ counts["simulated"] \in Nat /\ counts["forked"] \in Nat
        /\ counts["detected"] \in Nat /\ counts["built"] \in Nat
    BY DEF TypeOK, Counters
  <1> HIDE DEF n
  <1>4. x \in Nat
    BY <1>2, <1>3 DEF StatusFields
  <1> HIDE DEF x
  <1>5. /\ status' \in Seq(Nat) /\ Len(status') = Len(status) + 1
        /\ \A i \in 1 .. Len(status) : status'[i] = status[i]
        /\ status'[Len(status) + 1] = x
    BY <1>1, <1>4, AppendFacts
  <1>6. Len(status') <= 4
    BY <1>2, <1>5
  <1>7. TypeOK'
    BY <1>1, <1>5, <1>6 DEF TypeOK, config, engine, streams
  <1> QED  BY <1>1, <1>2, <1>5, <1>7 DEF x, n

(* The five steps of a stream.                                             *)
Streaming(s) == Subscribe(s) \/ Recv(s) \/ Send(s) \/ ClientReads(s) \/ ClientLeaves(s)

LEMMA StreamTypes ==
    ASSUME TypeOK, TaskInv, NEW s \in Subscribers, Streaming(s)
    PROVE  TypeOK' /\ StreamsAlone(s)
  <1>1. \A t \in Subscribers : stream[t] \in Seq(Nat) /\ Len(stream[t]) <= StreamBuffer
    BY DEF TypeOK
  <1>2. StreamBuffer \in Nat /\ Len(stream[s]) \in Nat
    BY <1>1, ServerAssumption, LenFacts
  <1>3. StreamsAlone(s) /\ Len(stream'[s]) <= StreamBuffer
    <2>1. CASE Subscribe(s)
      BY <1>1, <2>1, SubscribeStep
    <2>2. CASE Recv(s)
      BY <1>1, <2>2, RecvStep
    <2>3. CASE Send(s)
      <3>1. /\ StreamsAlone(s)
            /\ \/ stream'[s] = stream[s]
               \/ Len(stream[s]) < StreamBuffer /\ stream'[s] = Append(stream[s], task[s].next - 1)
        BY <2>3, SendStep
      <3>2. task[s].next - 1 \in Nat
        BY <2>3 DEF TypeOK, TaskInv, TaskPlaced, Tasks, Send
      <3>3. Len(Append(stream[s], task[s].next - 1)) = Len(stream[s]) + 1
        BY <1>1, <3>2, AppendFacts
      <3> QED  BY <1>1, <1>2, <3>1, <3>3
    <2>4. CASE ClientReads(s)
      <3>1. StreamsAlone(s) /\ stream[s] # <<>> /\ stream'[s] = Tail(stream[s])
        BY <2>4, ReadStep
      <3>2. Len(Tail(stream[s])) = Len(stream[s]) - 1
        BY <1>1, <3>1, TailFacts
      <3> QED  BY <1>1, <1>2, <3>1, <3>2
    <2>5. CASE ClientLeaves(s)
      <3>1. StreamsAlone(s) /\ stream'[s] = <<>>
        BY <2>5, LeaveStep
      <3> QED  BY <1>2, <3>1
    <2> QED  BY <2>1, <2>2, <2>3, <2>4, <2>5 DEF Streaming
  <1>4. \A t \in Subscribers : Len(stream'[t]) <= StreamBuffer
    BY <1>1, <1>3, Zenon DEF StreamsAlone
  <1> QED  BY <1>3, <1>4 DEF TypeOK, StreamsAlone, config, engine

-----------------------------------------------------------------------------
(* The streams.                                                            *)

LEMMA ConcatFacts ==
    ASSUME NEW S, NEW q \in Seq(S), NEW u \in Seq(S)
    PROVE  q \o u \in Seq(S) /\ \A x \in S : q \o Append(u, x) = Append(q \o u, x)
  OBVIOUS

LEMMA RightEmpty ==
    ASSUME NEW S, NEW q \in Seq(S)
    PROVE  q \o <<>> = q
  OBVIOUS

LEMMA RightOne ==
    ASSUME NEW S, NEW q \in Seq(S), NEW x \in S
    PROVE  q \o <<x>> = Append(q, x)
  OBVIOUS

LEMMA MoveHead ==
    ASSUME NEW S, NEW q \in Seq(S), NEW u \in Seq(S), u # <<>>
    PROVE  Append(q, Head(u)) \o Tail(u) = q \o u
  OBVIOUS

(* A larger number at the end of an ascending sequence.                    *)
LEMMA AscendingAppend ==
    ASSUME NEW q \in Seq(Nat), NEW x \in Nat, Ordered(q), \A y \in Range(q) : y < x
    PROVE  Ordered(Append(q, x)) /\ Range(Append(q, x)) = Range(q) \cup {x}
  <1> DEFINE n == Len(q)
             a == Append(q, x)
  <1>1. /\ n \in Nat /\ DOMAIN q = 1 .. n /\ DOMAIN a = 1 .. (n + 1)
        /\ \A i \in 1 .. n : a[i] = q[i]
        /\ a[n + 1] = x
    BY LenFacts, AppendFacts
  <1>2. Range(q) = {q[i] : i \in 1 .. n} /\ Range(a) = {a[i] : i \in 1 .. (n + 1)}
    BY <1>1 DEF Range
  <1>3. \A i \in 1 .. n : q[i] \in Nat /\ q[i] < x
    BY <1>1, <1>2, LenFacts
  <1> HIDE DEF a, n
  <1>4. \A i, j \in 1 .. (n + 1) : i < j => a[i] < a[j]
    <2> SUFFICES ASSUME NEW i \in 1 .. (n + 1), NEW j \in 1 .. (n + 1), i < j
                 PROVE  a[i] < a[j]
      OBVIOUS
    <2>1. i \in 1 .. n /\ a[i] = q[i]
      BY <1>1
    <2>2. CASE j = n + 1
      BY <1>1, <1>3, <2>1, <2>2
    <2>3. CASE j # n + 1
      <3>1. j \in 1 .. n /\ a[j] = q[j]
        BY <1>1, <2>3
      <3> QED  BY <1>1, <2>1, <3>1 DEF Ordered
    <2> QED  BY <2>2, <2>3
  <1>5. Ordered(a)
    BY <1>1, <1>4 DEF Ordered
  <1>6. Range(a) = Range(q) \cup {x}
    <2>1. ASSUME NEW y \in Range(a)  PROVE  y \in Range(q) \cup {x}
      <3>1. PICK i \in 1 .. (n + 1) : y = a[i]
        BY <1>2, <2>1
      <3>2. i \in 1 .. n \/ i = n + 1
        BY <1>1
      <3> QED  BY <1>1, <1>2, <3>1, <3>2
    <2>2. ASSUME NEW y \in Range(q)  PROVE  y \in Range(a)
      <3>1. PICK i \in 1 .. n : y = q[i]
        BY <1>2, <2>2
      <3>2. i \in 1 .. (n + 1) /\ a[i] = y
        BY <1>1, <3>1
      <3> QED  BY <1>2, <3>2
    <2>3. x \in Range(a)
      <3>1. n + 1 \in 1 .. (n + 1)
        BY <1>1
      <3> QED  BY <1>1, <1>2, <3>1
    <2> QED  BY <2>1, <2>2, <2>3, Zenon
  <1> QED  BY <1>5, <1>6 DEF a

(* A stream that takes no step keeps its place while results are added.    *)
LEMMA PlaceKept ==
    ASSUME TypeOK, NEW t \in Subscribers, TaskPlaced(t),
           Len(published') \in Nat, Len(published) <= Len(published'),
           task'[t] = task[t], stream'[t] = stream[t], client'[t] = client[t]
    PROVE  TaskPlaced(t)'
  <1>1. task[t].next \in Nat /\ Len(published) \in Nat
    BY LenFacts DEF TypeOK, Tasks
  <1>2. Pos(t)' = Pos(t)
    BY DEF Pos
  <1>3. task[t].next <= Len(published) + 1 => task[t].next <= Len(published') + 1
    BY <1>1
  <1> QED  BY <1>2, <1>3 DEF TaskPlaced

LEMMA StreamKept ==
    ASSUME TypeOK, NEW t \in Subscribers, TaskPlaced(t), GetsAll(t), PublishedGrows,
           task'[t] = task[t], stream'[t] = stream[t], client'[t] = client[t]
    PROVE  GetsAll(t)'
  <1>1. Delivered(t)' = Delivered(t) /\ Pos(t)' = Pos(t)
    BY DEF Delivered, Held, Pos
  <1>2. ASSUME task[t].pc # "none"  PROVE  Due(t)' = Due(t)
    <2>1. \A p \in Pos(t) : p \in 1 .. Len(published)
      <3>1. /\ task[t].next \in Nat /\ Len(published) \in Nat /\ task[t].since \in Nat
            /\ task[t].since >= 1 /\ task[t].next <= Len(published) + 1
        BY <1>2, LenFacts DEF TypeOK, Tasks, TaskPlaced
      <3> QED  BY <3>1 DEF Pos
    <2>2. \A p \in Pos(t) : published'[p] = published[p]
      BY <2>1 DEF PublishedGrows
    <2>3. \A p \in Pos(t) : Wanted(t, published[p])' <=> Wanted(t, published[p])
      BY <2>2 DEF Wanted
    <2> QED  BY <1>1, <2>3 DEF Due
  <1> QED  BY <1>1, <1>2 DEF GetsAll

(* The numbers of a task that has started.                                 *)
LEMMA TaskNumbers ==
    ASSUME TypeOK, NEW s \in Subscribers, TaskPlaced(s)
    PROVE  /\ task[s].since \in Nat /\ task[s].next \in Nat /\ Len(published) \in Nat
           /\ task[s].skipped \subseteq Nat
           /\ client[s].got \in Seq(Nat) /\ stream[s] \in Seq(Nat)
           /\ client[s].got \o stream[s] \in Seq(Nat)
           /\ task[s].pc # "none" =>
                /\ task[s].since >= 1 /\ task[s].since <= task[s].next
                /\ task[s].next <= Len(published) + 1 /\ task[s].skipped \subseteq Pos(s)
  <1>1. client[s].got \in Seq(Nat) /\ stream[s] \in Seq(Nat)
    BY DEF TypeOK
  <1>2. client[s].got \o stream[s] \in Seq(Nat)
    BY <1>1, ConcatFacts
  <1> QED  BY <1>1, <1>2, LenFacts DEF TypeOK, Tasks, TaskPlaced

LEMMA SubscribeGets ==
    ASSUME TypeOK, NEW s \in Subscribers, TaskPlaced(s), Subscribe(s)
    PROVE  TaskPlaced(s)' /\ GetsAll(s)'
  <1> DEFINE n == Len(published) + 1
  <1>1. /\ stream'[s] = <<>> /\ client'[s].got = <<>>
        /\ task'[s].pc = "recv" /\ task'[s].since = n /\ task'[s].next = n
        /\ task'[s].skipped = {} /\ published' = published /\ n \in Nat /\ n >= 1
    <2>1. /\ StreamsAlone(s) /\ stream' = stream /\ client' = client
          /\ task[s].pc = "none" /\ task'[s].pc = "recv"
          /\ task'[s].since = n /\ task'[s].next = n /\ task'[s].skipped = task[s].skipped
      BY SubscribeStep
    <2>2. stream[s] = <<>> /\ client[s].got = <<>> /\ task[s].skipped = {}
      BY <2>1 DEF TaskPlaced
    <2>3. n \in Nat /\ n >= 1
      BY TaskNumbers
    <2>4. published' = published
      BY <2>1 DEF StreamsAlone
    <2> QED  BY <2>1, <2>2, <2>3, <2>4
  <1> HIDE DEF n
  <1>2. Pos(s)' = {}
    BY <1>1 DEF Pos
  <1>3. TaskPlaced(s)'
    BY SMTT(20), <1>1 DEF TaskPlaced, n
  <1>4. Delivered(s)' = <<>> /\ Due(s)' = {}
    BY <1>1, <1>2 DEF Delivered, Held, Due
  <1>5. Ordered(<<>>) /\ Range(<<>>) = {}
    BY DEF Ordered, Range
  <1> QED  BY <1>3, <1>4, <1>5 DEF GetsAll

(* A task that lags skips what the channel has dropped, and nothing else.  *)
LEMMA LagGets ==
    ASSUME TypeOK, NEW s \in Subscribers, TaskPlaced(s), GetsAll(s), Recv(s),
           task[s].next < Oldest, task'[s].next = Oldest, task'[s].pc = "recv",
           task'[s].skipped = task[s].skipped \cup task[s].next .. Oldest - 1
    PROVE  TaskPlaced(s)' /\ GetsAll(s)'
  <1> DEFINE n == task[s].next
             a == task[s].since
             o == Oldest
  <1>1. /\ stream'[s] = stream[s] /\ client'[s] = client[s] /\ published' = published
        /\ task[s].pc = "recv" /\ task'[s].since = a
    BY RecvStep DEF StreamsAlone
  <1>2. /\ a \in Nat /\ n \in Nat /\ o \in Nat /\ a >= 1 /\ a <= n /\ n < o
        /\ o <= Len(published) + 1 /\ task[s].skipped \subseteq Pos(s)
    BY <1>1, TaskNumbers, OldestFacts
  <1>3. Pos(s) = a .. n - 1 /\ Pos(s)' = a .. o - 1
    BY <1>1 DEF Pos
  <1> HIDE DEF a, n, o
  <1>4. Pos(s) \cup n .. o - 1 = Pos(s)' /\ Pos(s) \cap n .. o - 1 = {}
    BY <1>2, <1>3
  <1>5. task'[s].skipped = task[s].skipped \cup n .. o - 1
    BY DEF n, o
  <1>6. TaskPlaced(s)'
    <2>1. task'[s].skipped \subseteq Pos(s)'
      BY <1>2, <1>4, <1>5
    <2>2. task'[s].since >= 1 /\ task'[s].since <= task'[s].next
      BY <1>1, <1>2 DEF o
    <2>3. task'[s].next <= Len(published') + 1
      BY <1>1, <1>2 DEF o
    <2> QED  BY <2>1, <2>2, <2>3 DEF TaskPlaced
  <1>7. Due(s)' = Due(s)
    <2>1. (Pos(s) \ task[s].skipped)' = Pos(s) \ task[s].skipped
      BY <1>2, <1>4, <1>5
    <2>2. \A p : Wanted(s, published[p])' <=> Wanted(s, published[p])
      BY <1>1 DEF Wanted
    <2> QED  BY <2>1, <2>2 DEF Due
  <1>8. Delivered(s)' = Delivered(s)
    BY <1>1 DEF Delivered, Held
  <1> QED  BY <1>1, <1>6, <1>7, <1>8 DEF GetsAll

(* A result that is received is taken for the subscriber or filtered out.  *)
LEMMA FilterGets ==
    ASSUME TypeOK, NEW s \in Subscribers, TaskPlaced(s), GetsAll(s), Recv(s),
           task'[s].next = task[s].next + 1, task'[s].skipped = task[s].skipped,
           task'[s].pc = IF Wanted(s, published[task[s].next]) THEN "send" ELSE "recv"
    PROVE  TaskPlaced(s)' /\ GetsAll(s)'
  <1> DEFINE n == task[s].next
             a == task[s].since
             sk == task[s].skipped
             d == client[s].got \o stream[s]
  <1>1. /\ stream'[s] = stream[s] /\ client'[s] = client[s] /\ published' = published
        /\ task[s].pc = "recv" /\ task'[s].since = a /\ n <= Len(published)
    BY RecvStep DEF StreamsAlone
  <1>2. /\ a \in Nat /\ n \in Nat /\ a >= 1 /\ a <= n /\ sk \subseteq Pos(s) /\ d \in Seq(Nat)
        /\ Len(published) \in Nat
    BY <1>1, TaskNumbers
  <1>3. Pos(s) = a .. n - 1 /\ Pos(s)' = a .. (n + 1) - 1
    BY <1>1 DEF Pos
  <1>4. Pos(s)' = Pos(s) \cup {n} /\ n \notin Pos(s) /\ \A p \in Pos(s) : p < n
    BY SMTT(20), <1>2, <1>3
  <1>5. TaskPlaced(s)'
    <2>1. task'[s].skipped \subseteq Pos(s)'
      BY <1>2, <1>4
    <2>2. /\ task'[s].since >= 1 /\ task'[s].since < task'[s].next
          /\ task'[s].since <= task'[s].next /\ task'[s].next <= Len(published') + 1
      BY SMTT(20), <1>1, <1>2
    <2>3. task'[s].pc # "none"
      OBVIOUS
    <2> QED  BY <2>1, <2>2, <2>3 DEF TaskPlaced
  <1>6. \A p : Wanted(s, published[p])' <=> Wanted(s, published[p])
    BY <1>1 DEF Wanted
  <1>7. (Pos(s) \ task[s].skipped)' = (Pos(s) \ sk) \cup {n}
    BY <1>2, <1>4
  <1>8. Delivered(s) = d
    BY <1>1, <1>2, RightEmpty DEF Delivered, Held
  <1>9. task'[s].pc # "none" /\ client'[s].open = client[s].open
    BY <1>1
  <1> SUFFICES ASSUME client[s].open
               PROVE  Ordered(Delivered(s)') /\ Range(Delivered(s)') = Due(s)'
    BY <1>5, <1>9 DEF GetsAll
  <1>10. Ordered(d) /\ Range(d) = Due(s)
    BY <1>1, <1>8 DEF GetsAll
  <1>11. CASE Wanted(s, published[n])
    <2>1. Due(s)' = Due(s) \cup {n}
      BY <1>6, <1>7, <1>11 DEF Due
    <2>2. Delivered(s)' = Append(d, n)
      <3>1. Held(s)' = <<n>>
        <4>1. task'[s].pc = "send" /\ task'[s].next - 1 = n
          BY <1>2, <1>11
        <4> QED  BY <4>1 DEF Held
      <3>2. Delivered(s)' = d \o <<n>>
        BY <1>1, <3>1 DEF Delivered
      <3> QED  BY <1>2, <3>2, RightOne, Zenon
    <2>3. \A y \in Range(d) : y < n
      BY <1>4, <1>10 DEF Due
    <2>4. Ordered(Append(d, n)) /\ Range(Append(d, n)) = Range(d) \cup {n}
      BY <1>2, <1>10, <2>3, AscendingAppend, Zenon
    <2> QED  BY <1>10, <2>1, <2>2, <2>4
  <1>12. CASE ~Wanted(s, published[n])
    <2>1. Due(s)' = Due(s)
      BY <1>6, <1>7, <1>12 DEF Due
    <2>2. Delivered(s)' = d
      <3>1. Held(s)' = <<>>
        BY <1>12 DEF Held
      <3>2. Delivered(s)' = d \o <<>>
        BY <1>1, <3>1 DEF Delivered
      <3> QED  BY <1>2, <3>2, RightEmpty
    <2> QED  BY <1>10, <2>1, <2>2
  <1> QED  BY <1>11, <1>12

(* What the task holds enters the channel; what is read leaves it.         *)
LEMMA SendGets ==
    ASSUME TypeOK, TaskInv, NEW s \in Subscribers, GetsAll(s), Send(s)
    PROVE  TaskPlaced(s)' /\ GetsAll(s)'
  <1> DEFINE n == task[s].next - 1
             g == client[s].got
             q == stream[s]
  <1>1. /\ client' = client /\ task[s].pc = "send" /\ published' = published
        /\ task'[s].since = task[s].since /\ task'[s].next = task[s].next
        /\ task'[s].skipped = task[s].skipped /\ task'[s].pc \in {"ended", "recv"}
        /\ \/ ~client[s].open
           \/ task'[s].pc = "recv" /\ stream'[s] = Append(q, n)
    BY SendStep DEF StreamsAlone
  <1>2. TaskPlaced(s)
    BY DEF TaskInv
  <1>3. Pos(s)' = Pos(s)
    BY <1>1 DEF Pos
  <1>4. TaskPlaced(s)'
    BY <1>1, <1>2, <1>3 DEF TaskPlaced
  <1>5. Due(s)' = Due(s)
    <2>1. \A p : Wanted(s, published[p])' <=> Wanted(s, published[p])
      BY <1>1 DEF Wanted
    <2> QED  BY <1>1, <1>3, <2>1 DEF Due
  <1> SUFFICES ASSUME client[s].open
               PROVE  Delivered(s)' = Delivered(s)
    BY <1>1, <1>4, <1>5 DEF GetsAll
  <1>6. g \in Seq(Nat) /\ q \in Seq(Nat) /\ n \in Nat
    <2>1. task[s].since \in Nat /\ task[s].next \in Nat /\ task[s].since < task[s].next
      BY <1>1, <1>2, TaskNumbers DEF TaskPlaced
    <2> QED  BY SMTT(20), <1>2, <2>1, TaskNumbers
  <1>7. Delivered(s) = (g \o q) \o <<n>>
    BY <1>1 DEF Delivered, Held
  <1>8. Delivered(s)' = (g \o Append(q, n)) \o <<>>
    BY <1>1, Zenon DEF Delivered, Held
  <1> HIDE DEF g, q, n
  <1>9. g \o q \in Seq(Nat) /\ g \o Append(q, n) = Append(g \o q, n)
    BY <1>6, ConcatFacts
  <1>10. (g \o q) \o <<n>> = Append(g \o q, n) /\ Append(g \o q, n) \in Seq(Nat)
    BY <1>6, <1>9, RightOne, AppendFacts
  <1>11. Append(g \o q, n) \o <<>> = Append(g \o q, n)
    BY <1>10, RightEmpty
  <1> QED  BY <1>7, <1>8, <1>9, <1>10, <1>11

LEMMA ReadGets ==
    ASSUME TypeOK, NEW s \in Subscribers, TaskPlaced(s), GetsAll(s), ClientReads(s)
    PROVE  TaskPlaced(s)' /\ GetsAll(s)'
  <1>1. /\ task' = task /\ published' = published /\ stream[s] # <<>>
        /\ stream'[s] = Tail(stream[s]) /\ client'[s].open = client[s].open
        /\ client'[s].got = Append(client[s].got, Head(stream[s]))
    BY ReadStep DEF StreamsAlone
  <1>2. task[s].pc # "none"
    BY <1>1 DEF TaskPlaced
  <1>3. Pos(s)' = Pos(s) /\ Held(s)' = Held(s)
    BY <1>1 DEF Pos, Held
  <1>4. TaskPlaced(s)'
    BY <1>1, <1>2, <1>3 DEF TaskPlaced
  <1>5. client'[s].got \o stream'[s] = client[s].got \o stream[s]
    BY <1>1, MoveHead, TaskNumbers, Zenon
  <1>6. Delivered(s)' = Delivered(s)
    BY <1>3, <1>5 DEF Delivered
  <1>7. Due(s)' = Due(s)
    <2>1. \A p : Wanted(s, published[p])' <=> Wanted(s, published[p])
      BY <1>1 DEF Wanted
    <2> QED  BY <1>1, <1>3, <2>1 DEF Due
  <1> QED  BY <1>1, <1>4, <1>6, <1>7 DEF GetsAll

LEMMA LeaveGets ==
    ASSUME TypeOK, NEW s \in Subscribers, TaskPlaced(s), ClientLeaves(s)
    PROVE  TaskPlaced(s)' /\ GetsAll(s)'
  <1>1. /\ task' = task /\ published' = published /\ task[s].pc # "none" /\ ~client'[s].open
    BY LeaveStep DEF StreamsAlone
  <1>2. Pos(s)' = Pos(s)
    BY <1>1 DEF Pos
  <1>3. TaskPlaced(s)'
    BY <1>1, <1>2 DEF TaskPlaced
  <1> QED  BY <1>1, <1>3 DEF GetsAll

(* Every step keeps all streams in place and complete.                     *)
LEMMA StreamsNext ==
    ASSUME TypeOK, TaskInv, StreamComplete, [Next]_vars
    PROVE  TypeOK' /\ TaskInv' /\ StreamComplete'
  <1>0. \A t \in Subscribers : TaskPlaced(t) /\ GetsAll(t)
    BY DEF TaskInv, StreamComplete
  <1>a. published \in Seq(Seq(Results)) /\ Len(published) \in Nat
    BY LenFacts DEF TypeOK
  <1>b. ASSUME TypeOK', PublishedGrows, UNCHANGED streams
        PROVE  TypeOK' /\ TaskInv' /\ StreamComplete'
    <2>1. Len(published') \in Nat /\ Len(published) <= Len(published')
      BY <1>b, LenFacts DEF PublishedGrows
    <2>2. ASSUME NEW t \in Subscribers  PROVE  TaskPlaced(t)' /\ GetsAll(t)'
      <3>1. task'[t] = task[t] /\ stream'[t] = stream[t] /\ client'[t] = client[t]
        BY <1>b DEF streams
      <3>2. TaskPlaced(t)'
        BY <1>0, <2>1, <3>1, PlaceKept
      <3>3. GetsAll(t)'
        BY <1>0, <1>b, <3>1, StreamKept
      <3> QED  BY <3>2, <3>3
    <2> QED  BY <1>b, <2>2 DEF TaskInv, StreamComplete
  <1>1. ASSUME NEW r \in Requests, Detect(r)  PROVE  TypeOK' /\ TaskInv' /\ StreamComplete'
    <2>1. TypeOK' /\ PublishedGrows /\ UNCHANGED streams
      BY <1>1, DetectTypes
    <2> QED  BY <1>b, <2>1
  <1>2. ASSUME NEW s \in Subscribers, Streaming(s)
        PROVE  TypeOK' /\ TaskInv' /\ StreamComplete'
    <2>1. TypeOK' /\ StreamsAlone(s)
      BY <1>2, StreamTypes
    <2>2. TaskPlaced(s)' /\ GetsAll(s)'
      <3>0. TaskPlaced(s) /\ GetsAll(s)
        BY <1>0
      <3>1. CASE Subscribe(s)
        BY <3>0, <3>1, SubscribeGets
      <3>2. CASE Recv(s)
        BY <3>0, <3>2, RecvStep, LagGets, FilterGets
      <3>3. CASE Send(s)
        BY <3>0, <3>3, SendGets
      <3>4. CASE ClientReads(s)
        BY <3>0, <3>4, ReadGets
      <3>5. CASE ClientLeaves(s)
        BY <3>0, <3>5, LeaveGets
      <3> QED  BY <1>2, <3>1, <3>2, <3>3, <3>4, <3>5 DEF Streaming
    <2>3. published' = published
      BY <2>1 DEF StreamsAlone
    <2>4. PublishedGrows /\ Len(published') \in Nat /\ Len(published) <= Len(published')
      BY <1>a, <2>3 DEF PublishedGrows
    <2>5. ASSUME NEW t \in Subscribers \ {s}  PROVE  TaskPlaced(t)' /\ GetsAll(t)'
      <3>1. task'[t] = task[t] /\ stream'[t] = stream[t] /\ client'[t] = client[t]
        BY <2>1 DEF StreamsAlone
      <3>2. TaskPlaced(t)'
        BY <1>0, <2>4, <3>1, PlaceKept
      <3>3. GetsAll(t)'
        BY <1>0, <2>4, <3>1, StreamKept
      <3> QED  BY <3>2, <3>3
    <2> QED  BY <2>1, <2>2, <2>5 DEF TaskInv, StreamComplete
  <1>3. CASE GetStatus
    <2>1. TypeOK' /\ UNCHANGED <<published, streams>>
      BY <1>3, StatusStep
    <2>2. PublishedGrows
      BY <1>a, <2>1 DEF PublishedGrows
    <2> QED  BY <1>b, <2>1, <2>2
  <1>4. CASE UNCHANGED vars
    <2>1. UNCHANGED <<config, engine, published, streams, status>>
      BY <1>4 DEF vars
    <2>2. TypeOK'
      BY <2>1 DEF TypeOK, config, engine, streams
    <2>3. PublishedGrows
      BY <1>a, <2>1 DEF PublishedGrows
    <2> QED  BY <1>b, <2>1, <2>2, <2>3
  <1> QED  BY <1>1, <1>2, <1>3, <1>4 DEF Next, Streaming

LEMMA StreamsInit ==
    ASSUME Init
    PROVE  TypeOK /\ TaskInv /\ StreamComplete
  <1>1. FloorFee \in Nat /\ NoBlock \in Blocks
    BY ServerAssumption DEF NoBlock, Blocks
  <1>2. call \in [Requests -> Handlers]
    BY <1>1 DEF Init, Handlers, Stages
  <1>3. task \in [Subscribers -> Tasks] /\ \A s \in Subscribers : task[s].pc = "none"
    BY DEF Init, Tasks
  <1>4. /\ forkSim \in BOOLEAN /\ contract \in BOOLEAN /\ blockCtx \in Blocks
        /\ counts \in [Counters -> Nat] /\ published \in Seq(Seq(Results))
        /\ status \in Seq(Nat) /\ Len(status) <= 4
    BY <1>1 DEF Init
  <1>5. /\ stream \in [Subscribers -> Seq(Nat)]
        /\ client \in [Subscribers -> [open : BOOLEAN, got : Seq(Nat)]]
        /\ \A s \in Subscribers : Len(stream[s]) <= StreamBuffer
    <2>1. Len(<<>>) = 0 /\ 0 <= StreamBuffer
      BY ServerAssumption
    <2> QED  BY <2>1 DEF Init
  <1>6. TypeOK
    BY <1>2, <1>3, <1>4, <1>5 DEF TypeOK
  <1>7. TaskInv
    BY <1>3 DEF Init, TaskInv, TaskPlaced
  <1>8. StreamComplete
    BY <1>3 DEF StreamComplete, GetsAll
  <1> QED  BY <1>6, <1>7, <1>8

(* The position of every task, and the types the proofs rest on.           *)
THEOREM TypesAndPlaces == Spec => [](TypeOK /\ TaskInv)
  <1>1. Init => TypeOK /\ TaskInv /\ StreamComplete
    BY StreamsInit
  <1>2. TypeOK /\ TaskInv /\ StreamComplete /\ [Next]_vars =>
          TypeOK' /\ TaskInv' /\ StreamComplete'
    BY StreamsNext
  <1> QED  BY <1>1, <1>2, PTL DEF Spec

(* Every stream is complete and in order: whatever the handlers, the tasks *)
(* and the subscribers do in between, a subscriber of stream_opportunities *)
(* is given exactly the results that reach its min_profit and that its     *)
(* task did not lag behind on, each once, in the order of publication.     *)
THEOREM StreamInvariant == Spec => []StreamComplete
  <1>1. Init => TypeOK /\ TaskInv /\ StreamComplete
    BY StreamsInit
  <1>2. TypeOK /\ TaskInv /\ StreamComplete /\ [Next]_vars =>
          TypeOK' /\ TaskInv' /\ StreamComplete'
    BY StreamsNext
  <1> QED  BY <1>1, <1>2, PTL DEF Spec

(* What one step may skip.                                                 *)
LossStep ==
    \A s \in Subscribers : \A p \in task'[s].skipped \ task[s].skipped :
        Len(published) - p >= BroadcastCapacity

LEMMA LossIsOld ==
    ASSUME TypeOK, TaskInv, [Next]_vars
    PROVE  [LossStep]_vars
  <1>1. ASSUME NEW s \in Subscribers, Streaming(s)  PROVE  LossStep
    <2>0. StreamsAlone(s)
      BY <1>1, StreamTypes
    <2>1. \A t \in Subscribers \ {s} : task'[t] = task[t]
      BY <2>0 DEF StreamsAlone
    <2>2. CASE task'[s].skipped = task[s].skipped
      BY <2>1, <2>2 DEF LossStep
    <2>3. CASE task'[s].skipped # task[s].skipped
      <3>1. Recv(s)
        BY <1>1, <2>3, SubscribeStep, SendStep, ReadStep, LeaveStep DEF Streaming
      <3>2. /\ task[s].pc = "recv" /\ task[s].next < Oldest
            /\ task'[s].skipped = task[s].skipped \cup task[s].next .. Oldest - 1
        BY <2>3, <3>1, RecvStep
      <3> DEFINE n == task[s].next
                 l == Len(published)
      <3>3. /\ n \in Nat /\ l \in Nat /\ n >= 1
            /\ Oldest \in Nat /\ BroadcastCapacity \in Nat
            /\ Oldest = 1 \/ Oldest = l - BroadcastCapacity + 1
        <4>1. TaskPlaced(s)
          BY DEF TaskInv
        <4>2. n \in Nat /\ task[s].since \in Nat /\ task[s].since >= 1 /\ task[s].since <= n
          BY <3>2, <4>1, TaskNumbers
        <4>3. n >= 1
          BY <4>2
        <4> QED  BY <4>2, <4>3, OldestFacts, ServerAssumption
      <3>4. Oldest = l - BroadcastCapacity + 1
        BY <3>2, <3>3
      <3> HIDE DEF n, l
      <3>5. ASSUME NEW p \in n .. Oldest - 1  PROVE  l - p >= BroadcastCapacity
        BY <3>3, <3>4
      <3>6. \A p \in task'[s].skipped \ task[s].skipped : p \in n .. Oldest - 1
        BY <3>2 DEF n
      <3> QED  BY <2>1, <3>5, <3>6 DEF LossStep, l
    <2> QED  BY <2>2, <2>3
  <1>2. task' = task => LossStep
    BY DEF LossStep
  <1>3. ASSUME NEW r \in Requests, Detect(r)  PROVE  task' = task
    BY <1>3, DetectTypes DEF streams
  <1>4. GetStatus => task' = task
    BY StatusStep DEF streams
  <1> QED  BY <1>1, <1>2, <1>3, <1>4 DEF Next, Streaming

(* The broadcast channel loses no result early: a task is told it lagged   *)
(* behind on a result only when BroadcastCapacity newer ones have been     *)
(* published (stream_opportunities, the Lagged arm).                       *)
THEOREM LossBounded == Spec => LossNeedsLag
  <1>1. TypeOK /\ TaskInv /\ [Next]_vars => [LossStep]_vars
    BY LossIsOld
  <1>2. Spec => [][LossStep]_vars
    BY <1>1, TypesAndPlaces, PTL DEF Spec
  <1> QED  BY <1>2 DEF LossNeedsLag, LossStep
=============================================================================
