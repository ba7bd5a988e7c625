------------------------ MODULE OpportunityServerBooks ------------------------
(***************************************************************************)
(* Proofs about the gRPC server of the core, continued: one base fee for   *)
(* stage 2, the counters of the parts and the status reports read from     *)
(* them, for every number of concurrent calls.                             *)
(***************************************************************************)
EXTENDS OpportunityServerProofs, FiniteSetTheorems

-----------------------------------------------------------------------------
(* The fee of stage 2.                                                     *)

LEMMA FeeStep ==
    ASSUME TypeOK, NEW r \in Requests, Detect(r), \A q \in Requests : FeeKept(q)
    PROVE  \A q \in Requests : FeeKept(q)'
  <1>0. FeeKept(r)
    OBVIOUS
  <1>1. /\ StepsAlone(r) /\ FeeKept(r)'
        /\ blockCtx' = blockCtx \/ blockCtx'.baseFee = BaseFee
    <2>1. CASE ProcessTx(r)
      BY <1>0, <2>1, ProcessStep, Zenon DEF FeeKept
    <2>2. CASE SimulateCounts(r)
      BY <1>0, <2>2, CountSimulation DEF FeeKept
    <2>3. CASE Simulate(r)
      BY <1>0, <2>3, SimulationStep DEF FeeKept
    <2>4. CASE UpdateBlock(r)
      BY <1>0, <2>4, UpdateBlockStep DEF FeeKept
    <2>5. CASE ForkStart(r)
      BY <1>0, <2>5, ForkStartStep DEF FeeKept
    <2>6. CASE BuildEvm(r)
      BY <1>0, <2>6, BuildEvmStep DEF FeeKept
    <2>7. CASE ForkTransact(r)
      BY <1>0, <2>7, TransactStep DEF FeeKept
    <2>8. CASE Build(r)
      BY <1>0, <2>8, BuildStep DEF FeeKept
    <2>9. CASE Finish(r)
      BY <1>0, <2>9, FinishStep DEF FeeKept
    <2> QED  BY <2>1, <2>2, <2>3, <2>4, <2>5, <2>6, <2>7, <2>8, <2>9 DEF Detect
  <1>2. ASSUME NEW q \in Requests \ {r}  PROVE  FeeKept(q)'
    BY <1>1 DEF StepsAlone, FeeKept
  <1> QED  BY <1>1, <1>2

(* A handler in stage 2 pays gas at the fee its EVM ran with, although     *)
(* every handler writes the one block context of the simulator: they all   *)
(* write the same base fee (detect_opportunity, update_block, build_evm).  *)
THEOREM OneFee == Spec => []Stage2OneFee
  <1> DEFINE Kept == \A q \in Requests : FeeKept(q)
  <1>1. Init => Kept
    BY DEF Init, FeeKept
  <1>2. TypeOK /\ TaskInv /\ Kept /\ [Next]_vars => Kept'
    <2> SUFFICES ASSUME TypeOK, TaskInv, Kept, [Next]_vars
                 PROVE  Kept'
      OBVIOUS
    <2>1. ASSUME NEW r \in Requests, Detect(r)  PROVE  Kept'
      BY <2>1, FeeStep
    <2>2. ASSUME UNCHANGED <<call, blockCtx>>  PROVE  Kept'
      BY <2>2 DEF FeeKept
    <2>3. ASSUME NEW s \in Subscribers, Streaming(s)  PROVE  UNCHANGED <<call, blockCtx>>
      BY <2>3, StreamTypes DEF StreamsAlone, engine
    <2>4. GetStatus => UNCHANGED <<call, blockCtx>>
      BY StatusStep DEF engine
    <2>5. UNCHANGED vars => UNCHANGED <<call, blockCtx>>
      BY DEF vars, engine
    <2> QED  BY <2>1, <2>2, <2>3, <2>4, <2>5 DEF Next, Streaming
  <1>3. Kept => Stage2OneFee
    BY DEF Stage2OneFee, FeeKept
  <1> QED  BY <1>1, <1>2, <1>3, TypesAndPlaces, PTL DEF Spec

-----------------------------------------------------------------------------
(* The sets behind the counters.                                           *)

LEMMA WaitingMembers ==
    /\ \A x \in Waiting : \E q \in Requests : \E i \in 1 .. Uncounted(q) : x = <<q, i>>
    /\ \A q \in Requests : \A i \in 1 .. Uncounted(q) : <<q, i>> \in Waiting
    /\ \A q, i : <<q, i>> \in Waiting => q \in Requests /\ i \in 1 .. Uncounted(q)
  BY DEF Waiting

LEMMA BundledMembers ==
    /\ \A x \in Bundled : \E q \in Requests : \E i \in Bundles(q) : x = <<q, i>>
    /\ \A q \in Requests : \A i \in Bundles(q) : <<q, i>> \in Bundled
    /\ \A q, i : <<q, i>> \in Bundled => q \in Requests /\ i \in Bundles(q)
  BY DEF Bundled

(* How a handler's step changes the opportunities that wait.               *)
LEMMA WaitingSame ==
    ASSUME NEW r \in Requests, StepsAlone(r), Uncounted(r)' = Uncounted(r)
    PROVE  Waiting' = Waiting
  <1>1. \A q \in Requests : Uncounted(q)' = Uncounted(q)
    BY DEF StepsAlone, Uncounted
  <1> QED  BY <1>1 DEF Waiting

LEMMA OthersUncounted ==
    ASSUME NEW r \in Requests, StepsAlone(r)
    PROVE  \A q \in Requests \ {r} : Uncounted(q)' = Uncounted(q) /\ Bundles(q)' = Bundles(q)
  BY DEF StepsAlone, Uncounted, Bundles

LEMMA WaitingLess ==
    ASSUME NEW r \in Requests, StepsAlone(r), NEW n \in Nat, IsFiniteSet(Waiting),
           Uncounted(r) = n + 1, Uncounted(r)' = n
    PROVE  IsFiniteSet(Waiting') /\ Cardinality(Waiting) = Cardinality(Waiting') + 1
  <1> DEFINE x == <<r, n + 1>>
  <1>1. x \in Waiting
    BY WaitingMembers
  <1>2. ASSUME NEW y \in Waiting'  PROVE  y \in Waiting \ {x}
    <2>1. PICK q \in Requests : \E i \in 1 .. Uncounted(q)' : y = <<q, i>>
      BY <1>2 DEF Waiting
    <2>2. PICK i \in 1 .. Uncounted(q)' : y = <<q, i>>
      BY <2>1
    <2>3. i \in 1 .. Uncounted(q) /\ (q = r => i # n + 1)
      BY <2>2, OthersUncounted
    <2> QED  BY <2>2, <2>3, WaitingMembers
  <1>3. ASSUME NEW y \in Waiting, y # x  PROVE  y \in Waiting'
    <2>1. PICK q \in Requests : \E i \in 1 .. Uncounted(q) : y = <<q, i>>
      BY <1>3, WaitingMembers
    <2>2. PICK i \in 1 .. Uncounted(q) : y = <<q, i>>
      BY <2>1
    <2>3. i \in 1 .. Uncounted(q)'
      BY <1>3, <2>2, OthersUncounted
    <2> QED  BY <2>2, <2>3 DEF Waiting
  <1>4. Waiting' = Waiting \ {x}
    BY <1>2, <1>3
  <1> HIDE DEF x
  <1>5. IsFiniteSet(Waiting') /\ Cardinality(Waiting') = Cardinality(Waiting) - 1
    BY <1>1, <1>4, FS_RemoveElement
  <1>6. Cardinality(Waiting) \in Nat
    BY FS_CardinalityType
  <1> QED  BY <1>5, <1>6

LEMMA WaitingMore ==
    ASSUME NEW r \in Requests, StepsAlone(r), NEW n \in Nat, IsFiniteSet(Waiting),
           Uncounted(r) = 0, Uncounted(r)' = n
    PROVE  IsFiniteSet(Waiting') /\ Cardinality(Waiting') = Cardinality(Waiting) + n
  <1> DEFINE new == {r} \X (1 .. n)
  <1>1. IsFiniteSet(new) /\ Cardinality(new) = n
    <2>1. IsFiniteSet({r}) /\ Cardinality({r}) = 1
      BY FS_Singleton, Zenon
    <2>2. IsFiniteSet(1 .. n) /\ Cardinality(1 .. n) = n
      BY FS_Interval
    <2>3. IsFiniteSet(new) /\ Cardinality(new) = Cardinality({r}) * Cardinality(1 .. n)
      BY <2>1, <2>2, FS_Product, Zenon
    <2>4. Cardinality(new) = 1 * n
      BY <2>1, <2>2, <2>3, Zenon
    <2> HIDE DEF new
    <2> QED  BY <2>3, <2>4
  <1>2. ASSUME NEW y \in Waiting'  PROVE  y \in Waiting \cup new
    <2>1. PICK q \in Requests : \E i \in 1 .. Uncounted(q)' : y = <<q, i>>
      BY <1>2 DEF Waiting
    <2>2. PICK i \in 1 .. Uncounted(q)' : y = <<q, i>>
      BY <2>1
    <2> QED  BY <2>2, OthersUncounted, WaitingMembers
  <1>3. ASSUME NEW y \in Waiting  PROVE  y \in Waiting' /\ y \notin new
    <2>1. PICK q \in Requests : \E i \in 1 .. Uncounted(q) : y = <<q, i>>
      BY <1>3, WaitingMembers
    <2>2. PICK i \in 1 .. Uncounted(q) : y = <<q, i>>
      BY <2>1
    <2>3. q # r
      BY <2>2
    <2>4. i \in 1 .. Uncounted(q)'
      BY <2>2, <2>3, OthersUncounted
    <2> QED  BY <2>2, <2>3, <2>4 DEF Waiting
  <1>4. new \subseteq Waiting'
    BY DEF Waiting
  <1>5. Waiting' = Waiting \cup new /\ Waiting \cap new = {}
    BY <1>2, <1>3, <1>4
  <1> HIDE DEF new
  <1>6. Cardinality(Waiting) \in Nat
    BY FS_CardinalityType
  <1>7. /\ IsFiniteSet(Waiting \cup new)
        /\ Cardinality(Waiting \cup new) = Cardinality(Waiting) + n - Cardinality(Waiting \cap new)
    BY <1>1, FS_Union
  <1>8. Cardinality(Waiting \cap new) = 0
    BY <1>5, FS_EmptySet
  <1> QED  BY <1>5, <1>6, <1>7, <1>8

(* How it changes the bundles in the results.                              *)
LEMMA BundledSame ==
    ASSUME NEW r \in Requests, StepsAlone(r), call'[r].out = call[r].out
    PROVE  Bundled' = Bundled
  <1>1. \A q \in Requests : Bundles(q)' = Bundles(q)
    BY DEF StepsAlone, Bundles
  <1> QED  BY <1>1 DEF Bundled

LEMMA BundledMore ==
    ASSUME TypeOK, NEW r \in Requests, StepsAlone(r), NEW x \in Results,
           call'[r].out = Append(call[r].out, x), IsFiniteSet(Bundled)
    PROVE  /\ IsFiniteSet(Bundled')
           /\ Cardinality(Bundled') = Cardinality(Bundled) + (IF x.bundle THEN 1 ELSE 0)
  <1> DEFINE out == call[r].out
             n == Len(out) + 1
  <1>1. out \in Seq(Results)
    BY DEF TypeOK, Handlers
  <1>2. /\ DOMAIN out = 1 .. Len(out) /\ DOMAIN (call'[r].out) = 1 .. n /\ Len(out) \in Nat
        /\ \A i \in 1 .. Len(out) : call'[r].out[i] = out[i]
        /\ call'[r].out[n] = x
    BY <1>1, LenFacts, AppendFacts
  <1>3. Bundles(r) = {i \in 1 .. Len(out) : out[i].bundle}
        /\ Bundles(r)' = {i \in 1 .. n : call'[r].out[i].bundle}
    BY <1>2 DEF Bundles
  <1>4. n \notin Bundles(r) /\ n \in 1 .. n
    BY <1>2, <1>3
  <1>5. \A i \in 1 .. n : i = n \/ i \in 1 .. Len(out)
    BY <1>2
  <1>6. \A i \in 1 .. Len(out) : i \in 1 .. n /\ i # n
    BY <1>2
  <1> HIDE DEF n
  <1>7. CASE x.bundle
    <2>1. Bundles(r)' = Bundles(r) \cup {n}
      BY <1>2, <1>3, <1>4, <1>5, <1>6, <1>7
    <2>2. Bundled' = Bundled \cup {<<r, n>>}
      BY <2>1, OthersUncounted DEF Bundled
    <2>3. <<r, n>> \notin Bundled
      BY <1>4, BundledMembers
    <2> QED  BY <1>7, <2>2, <2>3, FS_AddElement, Zenon
  <1>8. CASE ~x.bundle
    <2>1. Bundles(r)' = Bundles(r)
      BY <1>2, <1>3, <1>4, <1>5, <1>6, <1>8
    <2>2. Bundled' = Bundled
      BY <2>1, OthersUncounted DEF Bundled
    <2>3. Cardinality(Bundled) \in Nat
      BY FS_CardinalityType
    <2> QED  BY <1>8, <2>2, <2>3
  <1> QED  BY <1>7, <1>8

(* How it changes who is at a stage.                                       *)
LEMMA AtSame ==
    ASSUME NEW r \in Requests, StepsAlone(r), NEW pcs, call'[r].pc \in pcs <=> call[r].pc \in pcs
    PROVE  At(pcs)' = At(pcs)
  BY DEF StepsAlone, At

LEMMA AtEnters ==
    ASSUME NEW r \in Requests, StepsAlone(r), NEW pcs, call'[r].pc \in pcs, call[r].pc \notin pcs,
           IsFiniteSet(At(pcs))
    PROVE  IsFiniteSet(At(pcs)') /\ Cardinality(At(pcs)') = Cardinality(At(pcs)) + 1
  <1>1. At(pcs)' = At(pcs) \cup {r} /\ r \notin At(pcs)
    BY DEF StepsAlone, At
  <1> QED  BY <1>1, FS_AddElement

LEMMA AtLeaves ==
    ASSUME NEW r \in Requests, StepsAlone(r), NEW pcs, call'[r].pc \notin pcs, call[r].pc \in pcs,
           IsFiniteSet(At(pcs))
    PROVE  IsFiniteSet(At(pcs)') /\ Cardinality(At(pcs)) = Cardinality(At(pcs)') + 1
  <1>1. At(pcs)' = At(pcs) \ {r} /\ r \in At(pcs)
    BY DEF StepsAlone, At
  <1>2. Cardinality(At(pcs)) \in Nat
    BY FS_CardinalityType
  <1>3. IsFiniteSet(At(pcs)') /\ Cardinality(At(pcs)') = Cardinality(At(pcs)) - 1
    BY <1>1, FS_RemoveElement
  <1> QED  BY <1>2, <1>3

-----------------------------------------------------------------------------
(* The counters.                                                           *)

Balance(c, w, b, s, f) ==
    /\ c["detected"] = c["simulated"] + w /\ c["built"] = b
    /\ c["succeeded"] + s <= c["simulated"] /\ c["forked"] + f <= c["simulated"]

LEMMA CountsAreBalance ==
    CountsAgree <=> Balance(counts, Cardinality(Waiting), Cardinality(Bundled),
                            Cardinality(Simulating), Cardinality(Forking))
  BY DEF CountsAgree, Balance

(* The three steps that count, in numbers.                                 *)
LEMMA BalanceDetected ==
    ASSUME NEW c \in [Counters -> Nat], NEW e \in [Counters -> Nat], NEW n \in Nat,
           NEW w \in Nat, NEW b \in Nat, NEW s \in Nat, NEW f \in Nat, Balance(c, w, b, s, f),
           e["detected"] = c["detected"] + n, \A d \in Counters \ {"detected"} : e[d] = c[d]
    PROVE  Balance(e, w + n, b, s, f)
  <1>1. /\ c["detected"] \in Nat /\ c["simulated"] \in Nat
        /\ e["simulated"] = c["simulated"] /\ e["built"] = c["built"]
        /\ e["succeeded"] = c["succeeded"] /\ e["forked"] = c["forked"]
    BY DEF Counters
  <1> QED  BY <1>1 DEF Balance

LEMMA BalanceSimulated ==
    ASSUME NEW c \in [Counters -> Nat], NEW e \in [Counters -> Nat], NEW w \in Nat,
           NEW v \in Nat, NEW b \in Nat, NEW s \in Nat, NEW f \in Nat, Balance(c, w, b, s, f),
           w = v + 1, e["simulated"] = c["simulated"] + 1,
           \A d \in Counters \ {"simulated"} : e[d] = c[d]
    PROVE  Balance(e, v, b, s + 1, f + 1)
  <1>1. /\ c["detected"] \in Nat /\ c["simulated"] \in Nat /\ c["succeeded"] \in Nat
        /\ c["forked"] \in Nat
        /\ e["detected"] = c["detected"] /\ e["built"] = c["built"]
        /\ e["succeeded"] = c["succeeded"] /\ e["forked"] = c["forked"]
    BY DEF Counters
  <1> QED  BY <1>1 DEF Balance

LEMMA BalanceSucceeded ==
    ASSUME NEW c \in [Counters -> Nat], NEW e \in [Counters -> Nat], NEW w \in Nat,
           NEW b \in Nat, NEW s \in Nat, NEW t \in Nat, NEW f \in Nat, NEW g \in Nat,
           Balance(c, w, b, s, f), s = t + 1, g <= f, e["succeeded"] <= c["succeeded"] + 1,
           \A d \in Counters \ {"succeeded"} : e[d] = c[d]
    PROVE  Balance(e, w, b, t, g)
  <1>1. /\ c["simulated"] \in Nat /\ c["succeeded"] \in Nat /\ e["succeeded"] \in Nat
        /\ c["forked"] \in Nat
        /\ e["detected"] = c["detected"] /\ e["built"] = c["built"]
        /\ e["simulated"] = c["simulated"] /\ e["forked"] = c["forked"]
    BY DEF Counters
  <1> QED  BY <1>1 DEF Balance

LEMMA OneLess ==
    ASSUME NEW a \in Nat, NEW b \in Nat, a = b + 1
    PROVE  b <= a
  OBVIOUS

(* A step that counts nothing and moves nobody between the sets.           *)
LEMMA CountsKept ==
    ASSUME SetsFinite, CountsAgree, counts' = counts, Waiting' = Waiting, Bundled' = Bundled,
           Simulating' = Simulating, Forking' = Forking
    PROVE  SetsFinite' /\ CountsAgree'
  BY DEF SetsFinite, CountsAgree

LEMMA UncountedLen ==
    ASSUME NEW r \in Requests
    PROVE  /\ call[r].pc \in {"new", "stage1", "finish", "answered"} =>
                Uncounted(r) = Len(call[r].opps)
           /\ call[r].pc \notin {"new", "stage1", "finish", "answered"} =>
                Uncounted(r) = Len(call[r].opps) - 1
  BY DEF Uncounted

(* One step of a handler keeps the books.                                  *)
LEMMA DetectCounts ==
    ASSUME TypeOK, SetsFinite, CountsAgree, NEW r \in Requests, Detect(r)
    PROVE  SetsFinite' /\ CountsAgree'
  <1> DEFINE W == Cardinality(Waiting)
             B == Cardinality(Bundled)
             S == Cardinality(Simulating)
             F == Cardinality(Forking)
             old == Len(call[r].opps)
             new == Len(call'[r].opps)
             out == call[r].out
  <1>0. /\ counts["detected"] \in Nat /\ counts["simulated"] \in Nat /\ counts["built"] \in Nat
        /\ counts["succeeded"] \in Nat /\ counts["forked"] \in Nat
    BY DEF TypeOK, Counters
  <1>a. /\ IsFiniteSet(Waiting) /\ IsFiniteSet(Bundled)
        /\ IsFiniteSet(Simulating) /\ IsFiniteSet(Forking)
    BY DEF SetsFinite
  <1>b. W \in Nat /\ B \in Nat /\ S \in Nat /\ F \in Nat
    BY <1>a, FS_CardinalityType
  <1>c. Balance(counts, W, B, S, F)
    BY CountsAreBalance
  <1>d. /\ "detected" \in Counters /\ "simulated" \in Counters /\ "built" \in Counters
        /\ "succeeded" \in Counters /\ "forked" \in Counters
    BY DEF Counters
  <1>e. /\ old \in Nat /\ call[r].opps # <<>> => old >= 1
    BY LenFacts DEF TypeOK, Handlers
  <1>f. ASSUME call' \in [Requests -> Handlers]  PROVE  new \in Nat
    BY <1>f, LenFacts DEF Handlers
  <1>g. ASSUME IsFiniteSet(Waiting'), IsFiniteSet(Bundled'), IsFiniteSet(Simulating'),
               IsFiniteSet(Forking'), Balance(counts', W', B', S', F')
        PROVE  SetsFinite' /\ CountsAgree'
    BY <1>g DEF SetsFinite, CountsAgree, Balance
  <1>h. counts \in [Counters -> Nat] /\ counts' \in [Counters -> Nat]
    BY DetectTypes DEF TypeOK
  <1>1. CASE ProcessTx(r)
    <2>1. /\ StepsAlone(r) /\ call[r].pc = "new" /\ call'[r].pc \in {"answered", "stage1"}
          /\ call[r].opps = <<>> /\ call'[r].out = call[r].out
          /\ counts'["detected"] = counts["detected"] + new
          /\ \A d \in Counters \ {"detected"} : counts'[d] = counts[d]
      BY <1>1, ProcessStep
    <2>2. Uncounted(r) = 0 /\ Uncounted(r)' = new /\ new \in Nat
      <3>1. Uncounted(r) = 0 /\ Uncounted(r)' = new
        BY <2>1 DEF Uncounted
      <3> QED  BY <1>f, <2>1, <3>1 DEF StepsAlone
    <2>3. IsFiniteSet(Waiting') /\ W' = W + new
      BY <1>a, <2>1, <2>2, WaitingMore
    <2>4. Bundled' = Bundled
      BY <2>1, BundledSame
    <2>5. Simulating' = Simulating /\ Forking' = Forking
      BY <2>1, AtSame DEF Simulating, Forking
    <2>6. Balance(counts', W', B, S, F)
      <3> HIDE DEF W, B, S, F, new
      <3>1. Balance(counts', W + new, B, S, F)
        BY <1>b, <1>c, <1>h, <2>1, <2>2, BalanceDetected, Zenon
      <3> QED  BY <2>3, <3>1, Zenon
    <2> QED  BY <1>a, <1>g, <2>3, <2>4, <2>5, <2>6
  <1>2. CASE SimulateCounts(r)
    <2>1. /\ StepsAlone(r) /\ call[r].pc = "stage1" /\ call'[r].pc = "simulate"
          /\ call[r].opps # <<>> /\ call'[r].opps = call[r].opps /\ call'[r].out = call[r].out
          /\ counts'["simulated"] = counts["simulated"] + 1
          /\ \A d \in Counters \ {"simulated"} : counts'[d] = counts[d]
      BY <1>2, CountSimulation
    <2>2. PICK n \in Nat : Uncounted(r) = n + 1 /\ Uncounted(r)' = n
      <3>1. Uncounted(r) = old /\ Uncounted(r)' = old - 1
        BY <2>1 DEF Uncounted
      <3>2. old - 1 \in Nat /\ old = (old - 1) + 1
        BY <1>e, <2>1
      <3> QED  BY <3>1, <3>2, Zenon
    <2>3. IsFiniteSet(Waiting') /\ W = W' + 1
      BY <1>a, <2>1, <2>2, WaitingLess
    <2>4. Bundled' = Bundled
      BY <2>1, BundledSame
    <2>5. IsFiniteSet(Simulating') /\ S' = S + 1
      BY <1>a, <2>1, AtEnters DEF Simulating
    <2>6. IsFiniteSet(Forking') /\ F' = F + 1
      BY <1>a, <2>1, AtEnters DEF Forking
    <2>7. W' \in Nat
      BY <2>3, FS_CardinalityType
    <2>8. Balance(counts', W', B, S', F')
      <3> HIDE DEF W, B, S, F
      <3>1. Balance(counts', W', B, S + 1, F + 1)
        BY <1>b, <1>c, <1>h, <2>1, <2>3, <2>7, BalanceSimulated, Zenon
      <3> QED  BY <2>5, <2>6, <3>1, Zenon
    <2> QED  BY <1>a, <1>g, <2>3, <2>4, <2>5, <2>6, <2>8
  <1>3. CASE Simulate(r)
    <2>1. /\ StepsAlone(r) /\ call[r].pc = "simulate" /\ call[r].opps # <<>>
          /\ call'[r].out = call[r].out
          /\ \/ call'[r].pc \in {"updateBlock", "build"} /\ new = old
             \/ call'[r].pc \in {"finish", "stage1"} /\ new = old - 1
          /\ counts'["succeeded"] <= counts["succeeded"] + 1
          /\ counts' \in [Counters -> Nat]
          /\ \A d \in Counters \ {"succeeded"} : counts'[d] = counts[d]
      BY <1>3, SimulationStep
    <2>2. Uncounted(r)' = Uncounted(r)
      BY <2>1, Zenon DEF Uncounted
    <2>3. Waiting' = Waiting /\ Bundled' = Bundled
      BY <2>1, <2>2, WaitingSame, BundledSame
    <2>4. IsFiniteSet(Simulating') /\ S = S' + 1
      <3>1. call'[r].pc \notin {"simulate"} /\ call[r].pc \in {"simulate"}
        BY <2>1
      <3> QED  BY <1>a, <2>1, <3>1, AtLeaves DEF Simulating
    <2>5. IsFiniteSet(Forking') /\ F' <= F
      <3>1. CASE call'[r].pc = "updateBlock"
        <4>1. Forking' = Forking
          BY <2>1, <3>1, AtSame DEF Forking
        <4> QED  BY <1>a, <1>b, <4>1
      <3>2. CASE call'[r].pc # "updateBlock"
        <4>1. call'[r].pc \notin {"simulate", "updateBlock", "forkStart"}
          BY <2>1, <3>2
        <4>2. IsFiniteSet(Forking') /\ F = F' + 1
          BY <1>a, <2>1, <4>1, AtLeaves DEF Forking
        <4>3. F' \in Nat
          BY <4>2, FS_CardinalityType
        <4> HIDE DEF F
        <4> QED  BY <1>b, <4>2, <4>3, OneLess, Zenon
      <3> QED  BY <3>1, <3>2
    <2>6. S' \in Nat /\ F' \in Nat
      BY <2>4, <2>5, FS_CardinalityType
    <2>7. Balance(counts', W, B, S', F')
      <3> HIDE DEF W, B, S, F
      <3> QED  BY <1>b, <1>c, <1>h, <2>1, <2>4, <2>5, <2>6, BalanceSucceeded, Zenon
    <2> QED  BY <1>a, <1>g, <2>3, <2>4, <2>5, <2>7
  <1>4. CASE UpdateBlock(r)
    <2>1. /\ StepsAlone(r) /\ call[r].pc = "updateBlock" /\ call'[r].pc = "forkStart"
          /\ call'[r].opps = call[r].opps /\ call'[r].out = call[r].out /\ counts' = counts
      BY <1>4, UpdateBlockStep
    <2>2. Uncounted(r)' = Uncounted(r)
      BY <2>1 DEF Uncounted
    <2>3. Waiting' = Waiting /\ Bundled' = Bundled
      BY <2>1, <2>2, WaitingSame, BundledSame
    <2>4. Simulating' = Simulating /\ Forking' = Forking
      BY <2>1, AtSame DEF Simulating, Forking
    <2> QED  BY <2>1, <2>3, <2>4, CountsKept
  <1>5. CASE ForkStart(r)
    <2>1. /\ StepsAlone(r) /\ call[r].pc = "forkStart" /\ call'[r].pc = "buildEvm"
          /\ call'[r].opps = call[r].opps /\ call'[r].out = call[r].out
          /\ counts'["forked"] = counts["forked"] + 1
          /\ \A d \in Counters \ {"forked"} : counts'[d] = counts[d]
      BY <1>5, ForkStartStep
    <2>2. Uncounted(r)' = Uncounted(r)
      BY <2>1 DEF Uncounted
    <2>3. Waiting' = Waiting /\ Bundled' = Bundled
      BY <2>1, <2>2, WaitingSame, BundledSame
    <2>4. Simulating' = Simulating
      BY <2>1, AtSame DEF Simulating
    <2>5. IsFiniteSet(Forking') /\ F = F' + 1
      BY <1>a, <2>1, AtLeaves DEF Forking
    <2>6. F' \in Nat
      BY <2>5, FS_CardinalityType
    <2>7. Balance(counts', W, B, S, F')
      <3> HIDE DEF W, B, S, F
      <3> QED  BY <1>0, <1>b, <1>c, <1>d, <2>1, <2>5, <2>6 DEF Balance
    <2> QED  BY <1>a, <1>g, <2>3, <2>4, <2>5, <2>7
  <1>6. CASE BuildEvm(r)
    <2>1. /\ StepsAlone(r) /\ call[r].pc = "buildEvm" /\ call'[r].pc = "transact"
          /\ call'[r].opps = call[r].opps /\ call'[r].out = call[r].out /\ counts' = counts
      BY <1>6, BuildEvmStep
    <2>2. Uncounted(r)' = Uncounted(r)
      BY <2>1 DEF Uncounted
    <2>3. Waiting' = Waiting /\ Bundled' = Bundled
      BY <2>1, <2>2, WaitingSame, BundledSame
    <2>4. Simulating' = Simulating /\ Forking' = Forking
      BY <2>1, AtSame DEF Simulating, Forking
    <2> QED  BY <2>1, <2>3, <2>4, CountsKept
  <1>7. CASE ForkTransact(r)
    <2>1. /\ StepsAlone(r) /\ call[r].pc = "transact" /\ call'[r].pc \in {"finish", "stage1"}
          /\ new = old - 1 /\ call'[r].out = call[r].out /\ counts' = counts
      BY <1>7, TransactStep
    <2>2. Uncounted(r)' = Uncounted(r)
      BY <2>1 DEF Uncounted
    <2>3. Waiting' = Waiting /\ Bundled' = Bundled
      BY <2>1, <2>2, WaitingSame, BundledSame
    <2>4. Simulating' = Simulating /\ Forking' = Forking
      BY <2>1, AtSame DEF Simulating, Forking
    <2> QED  BY <2>1, <2>3, <2>4, CountsKept
  <1>8. CASE Build(r)
    <2>1. /\ StepsAlone(r) /\ call[r].pc = "build" /\ call'[r].pc \in {"finish", "stage1"}
          /\ new = old - 1
          /\ \E x \in Results :
               /\ call'[r].out = Append(out, x)
               /\ counts'["built"] = counts["built"] + (IF x.bundle THEN 1 ELSE 0)
          /\ \A d \in Counters \ {"built"} : counts'[d] = counts[d]
      BY <1>8, BuildStep
    <2>2. Uncounted(r)' = Uncounted(r)
      BY <2>1 DEF Uncounted
    <2>3. Waiting' = Waiting
      BY <2>1, <2>2, WaitingSame
    <2>4. Simulating' = Simulating /\ Forking' = Forking
      BY <2>1, AtSame DEF Simulating, Forking
    <2>5. PICK x \in Results :
               /\ call'[r].out = Append(out, x)
               /\ counts'["built"] = counts["built"] + (IF x.bundle THEN 1 ELSE 0)
      BY <2>1
    <2>6. IsFiniteSet(Bundled') /\ B' = B + (IF x.bundle THEN 1 ELSE 0)
      BY <1>a, <2>1, <2>5, BundledMore
    <2>7. Balance(counts', W, B', S, F)
      <3> HIDE DEF W, B, S, F
      <3>1. counts["built"] = B
        BY <1>c DEF Balance
      <3>2. counts'["built"] = B'
        BY <2>5, <2>6, <3>1
      <3> QED  BY <1>0, <1>b, <1>c, <1>d, <2>1, <3>2, Zenon DEF Balance
    <2> QED  BY <1>a, <1>g, <2>3, <2>4, <2>6, <2>7
  <1>9. CASE Finish(r)
    <2>1. /\ StepsAlone(r) /\ call[r].pc = "finish" /\ call'[r].pc = "answered"
          /\ call'[r].opps = call[r].opps /\ call'[r].out = call[r].out /\ counts' = counts
      BY <1>9, FinishStep
    <2>2. Uncounted(r)' = Uncounted(r)
      BY <2>1 DEF Uncounted
    <2>3. Waiting' = Waiting /\ Bundled' = Bundled
      BY <2>1, <2>2, WaitingSame, BundledSame
    <2>4. Simulating' = Simulating /\ Forking' = Forking
      BY <2>1, AtSame DEF Simulating, Forking
    <2> QED  BY <2>1, <2>3, <2>4, CountsKept
  <1> QED  BY <1>1, <1>2, <1>3, <1>4, <1>5, <1>6, <1>7, <1>8, <1>9 DEF Detect

-----------------------------------------------------------------------------
(* Stage 2 and the results; the status reports.                            *)

LEMMA NothingStep ==
    ASSUME TypeOK, NEW r \in Requests, Detect(r), NothingBuilt, ForkSimFindsNothing
    PROVE  NothingBuilt' /\ ForkSimFindsNothing'
  <1>1. forkSim' = forkSim
    BY DetectTypes DEF config
  <1> SUFFICES ASSUME forkSim
               PROVE  /\ \A q \in Requests : call'[q].pc # "build" /\ call'[q].out = <<>>
                      /\ published' = <<>>
    BY <1>1 DEF NothingBuilt, ForkSimFindsNothing
  <1>2. /\ \A q \in Requests : call[q].pc # "build" /\ call[q].out = <<>>
        /\ published = <<>>
    BY DEF NothingBuilt, ForkSimFindsNothing
  <1>3. /\ StepsAlone(r) /\ call'[r].pc # "build" /\ call'[r].out = call[r].out
        /\ published' = published
    <2>1. CASE ProcessTx(r)
      BY <2>1, ProcessStep
    <2>2. CASE SimulateCounts(r)
      BY <2>2, CountSimulation
    <2>3. CASE Simulate(r)
      BY <2>3, SimulationStep
    <2>4. CASE UpdateBlock(r)
      BY <2>4, UpdateBlockStep
    <2>5. CASE ForkStart(r)
      BY <2>5, ForkStartStep
    <2>6. CASE BuildEvm(r)
      BY <2>6, BuildEvmStep
    <2>7. CASE ForkTransact(r)
      BY <2>7, TransactStep
    <2>8. CASE Build(r)
      BY <1>2, <2>8, BuildStep
    <2>9. CASE Finish(r)
      BY <1>2, <2>9, FinishStep
    <2> QED  BY <2>1, <2>2, <2>3, <2>4, <2>5, <2>6, <2>7, <2>8, <2>9 DEF Detect
  <1> QED  BY <1>2, <1>3 DEF StepsAlone

(* Counters only grow, so what a status report has read stays a bound.     *)
LEMMA StatusKept ==
    ASSUME TypeOK, TypeOK', StatusRead, StatusCoherent, status' = status,
           counts["simulated"] <= counts'["simulated"]
    PROVE  StatusRead' /\ StatusCoherent'
  <1> DEFINE m == counts["simulated"]
             k == counts'["simulated"]
  <1>1. m \in Nat /\ k \in Nat /\ m <= k
    BY DEF TypeOK, Counters
  <1>2. status \in Seq(Nat) /\ Len(status) \in Nat /\ \A i \in 1 .. Len(status) : status[i] \in Nat
    BY LenFacts DEF TypeOK
  <1>3. ASSUME Len(status) >= 1  PROVE  status[1] <= k
    <2>1. status[1] \in Nat /\ status[1] <= m
      BY <1>2, <1>3 DEF StatusRead
    <2> QED  BY <1>1, <2>1
  <1>4. ASSUME Len(status) >= 2  PROVE  status[2] <= k
    <2>1. status[2] \in Nat /\ status[2] <= m
      BY <1>2, <1>4 DEF StatusRead
    <2> QED  BY <1>1, <2>1
  <1>5. StatusRead'
    BY <1>3, <1>4 DEF StatusRead
  <1>6. StatusCoherent'
    BY DEF StatusCoherent
  <1> QED  BY <1>5, <1>6

LEMMA StatusReads ==
    ASSUME TypeOK, SetsFinite, CountsAgree, StatusRead, StatusCoherent, GetStatus
    PROVE  StatusRead' /\ StatusCoherent'
  <1> DEFINE m == counts["simulated"]
             f == counts["forked"]
             d == counts["detected"]
             n == Len(status)
  <1>1. m \in Nat /\ f \in Nat /\ d \in Nat
    BY DEF TypeOK, Counters
  <1>2. f <= m /\ m <= d
    <2> DEFINE F == Cardinality(Forking)
               W == Cardinality(Waiting)
    <2>1. F \in Nat /\ W \in Nat
      BY FS_CardinalityType DEF SetsFinite
    <2>2. f + F <= m /\ d = m + W
      BY DEF CountsAgree
    <2> HIDE DEF m, f, d, F, W
    <2> QED  BY <1>1, <2>1, <2>2
  <1>3. /\ counts' = counts /\ n \in 0 .. 3 /\ Len(status') = n + 1
        /\ \A i \in 1 .. n : status'[i] = status[i]
        /\ status'[n + 1] = StatusFields[n + 1]
    BY StatusStep DEF engine
  <1>4. StatusFields[1] = m /\ StatusFields[2] = f /\ StatusFields[3] = d
    BY DEF StatusFields
  <1>5. status \in Seq(Nat) /\ \A i \in 1 .. n : status[i] \in Nat
    BY LenFacts DEF TypeOK
  <1>6. n >= 1 => status[1] <= m /\ status[1] \in Nat
    BY <1>3, <1>5 DEF StatusRead
  <1>7. n >= 2 => status[2] <= m /\ status[2] \in Nat
    BY <1>3, <1>5 DEF StatusRead
  <1>8. n >= 3 => status[1] <= status[3] /\ status[2] <= status[3]
    BY DEF StatusCoherent
  <1>9. counts'["simulated"] = m
    BY <1>3
  <1> SUFFICES /\ status'[1] <= m /\ (n >= 1 => status'[2] <= m)
               /\ n >= 2 => status'[1] <= status'[3] /\ status'[2] <= status'[3]
    <2>1. n + 1 >= 1 /\ (n + 1 >= 2 => n >= 1) /\ (n + 1 >= 3 => n >= 2)
      BY <1>3
    <2> QED  BY <1>3, <1>9, <2>1 DEF StatusRead, StatusCoherent
  <1> HIDE DEF m, f, d, n
  <1>10. CASE n = 0
    <2>1. status'[1] = m
      BY <1>3, <1>4, <1>10
    <2> QED  BY <1>1, <1>10, <2>1
  <1>11. CASE n = 1
    <2>1. status'[1] = status[1] /\ status'[2] = f
      BY <1>3, <1>4, <1>11
    <2> QED  BY <1>2, <1>6, <1>11, <2>1
  <1>12. CASE n = 2
    <2>1. status'[1] = status[1] /\ status'[2] = status[2] /\ status'[3] = d
      BY <1>3, <1>4, <1>12
    <2>2. /\ status[1] <= m /\ status[1] \in Nat /\ status[2] <= m /\ status[2] \in Nat
      BY <1>6, <1>7, <1>12
    <2>3. status[1] <= d /\ status[2] <= d
      BY <1>1, <1>2, <2>2
    <2> QED  BY <2>1, <2>2, <2>3
  <1>13. CASE n = 3
    <2>1. status'[1] = status[1] /\ status'[2] = status[2] /\ status'[3] = status[3]
      BY <1>3, <1>13
    <2>2. /\ status[1] <= m /\ status[2] <= m /\ status[1] <= status[3] /\ status[2] <= status[3]
      BY <1>6, <1>7, <1>8, <1>13
    <2> QED  BY <2>1, <2>2
  <1> QED  BY <1>3, <1>10, <1>11, <1>12, <1>13

-----------------------------------------------------------------------------
(* All books.                                                              *)

Books ==
    /\ SetsFinite /\ CountsAgree
    /\ StatusRead /\ StatusCoherent
    /\ NothingBuilt /\ ForkSimFindsNothing

LEMMA BooksInit ==
    ASSUME Init
    PROVE  Books
  <1>1. /\ \A r \in Requests :
             /\ call[r].pc = "new" /\ call[r].opps = <<>> /\ call[r].out = <<>>
        /\ counts["detected"] = 0 /\ counts["simulated"] = 0 /\ counts["built"] = 0
        /\ counts["succeeded"] = 0 /\ counts["forked"] = 0
        /\ published = <<>> /\ status = <<>>
    BY DEF Init, Counters
  <1>2. \A r \in Requests : Uncounted(r) = 0 /\ Bundles(r) = {}
    BY <1>1 DEF Uncounted, Bundles
  <1>3. Waiting = {} /\ Bundled = {}
    BY <1>2 DEF Waiting, Bundled
  <1>4. Simulating = {} /\ Forking = {}
    BY <1>1 DEF Simulating, Forking, At
  <1>5. SetsFinite
    BY <1>3, <1>4, FS_EmptySet DEF SetsFinite
  <1>6. CountsAgree
    <2>1. Cardinality({}) = 0
      BY FS_EmptySet
    <2> QED  BY <1>1, <1>3, <1>4, <2>1 DEF CountsAgree
  <1>7. StatusRead /\ StatusCoherent
    <2>1. Len(status) = 0
      BY <1>1
    <2> QED  BY <2>1 DEF StatusRead, StatusCoherent
  <1>8. NothingBuilt /\ ForkSimFindsNothing
    BY <1>1 DEF NothingBuilt, ForkSimFindsNothing
  <1> QED  BY <1>5, <1>6, <1>7, <1>8 DEF Books

LEMMA BooksNext ==
    ASSUME TypeOK, TypeOK', TaskInv, Books, [Next]_vars
    PROVE  Books'
  <1>0. /\ SetsFinite /\ CountsAgree /\ StatusRead /\ StatusCoherent
        /\ NothingBuilt /\ ForkSimFindsNothing
    BY DEF Books
  <1>a. "simulated" \in Counters /\ counts["simulated"] \in Nat
    BY DEF Counters, TypeOK
  <1>1. ASSUME NEW r \in Requests, Detect(r)  PROVE  Books'
    <2>1. SetsFinite' /\ CountsAgree'
      BY <1>0, <1>1, DetectCounts
    <2>2. NothingBuilt' /\ ForkSimFindsNothing'
      BY <1>0, <1>1, NothingStep
    <2>3. status' = status /\ counts["simulated"] <= counts'["simulated"]
      BY <1>1, <1>a, DetectTypes
    <2>4. StatusRead' /\ StatusCoherent'
      BY <1>0, <2>3, StatusKept
    <2> QED  BY <2>1, <2>2, <2>4 DEF Books
  <1>2. ASSUME UNCHANGED <<config, engine, published>>
        PROVE  SetsFinite' /\ CountsAgree' /\ NothingBuilt' /\ ForkSimFindsNothing'
    <2>1. call' = call /\ counts' = counts /\ forkSim' = forkSim /\ published' = published
      BY <1>2 DEF config, engine
    <2>2. \A r \in Requests : Uncounted(r)' = Uncounted(r) /\ Bundles(r)' = Bundles(r)
      BY <2>1 DEF Uncounted, Bundles
    <2>3. /\ Waiting' = Waiting /\ Bundled' = Bundled
          /\ Simulating' = Simulating /\ Forking' = Forking
      BY <2>1, <2>2 DEF Waiting, Bundled, Simulating, Forking, At
    <2>4. SetsFinite' /\ CountsAgree'
      BY <1>0, <2>1, <2>3, CountsKept
    <2> QED  BY <1>0, <2>1, <2>4 DEF NothingBuilt, ForkSimFindsNothing
  <1>3. ASSUME UNCHANGED <<config, engine, published, status>>  PROVE  Books'
    <2>1. status' = status /\ counts' = counts
      BY <1>3 DEF engine
    <2>2. StatusRead' /\ StatusCoherent'
      BY <1>0, <1>a, <2>1, StatusKept
    <2> QED  BY <1>2, <1>3, <2>2 DEF Books
  <1>4. ASSUME NEW s \in Subscribers, Streaming(s)  PROVE  Books'
    BY <1>3, <1>4, StreamTypes DEF StreamsAlone
  <1>5. CASE GetStatus
    <2>1. UNCHANGED <<config, engine, published>>
      BY <1>5, StatusStep
    <2>2. StatusRead' /\ StatusCoherent'
      BY <1>0, <1>5, StatusReads
    <2> QED  BY <1>2, <2>1, <2>2 DEF Books
  <1>6. CASE UNCHANGED vars
    BY <1>3, <1>6 DEF vars
  <1> QED  BY <1>1, <1>4, <1>5, <1>6 DEF Next, Streaming

(* The books of the server agree at every moment, for any number of calls  *)
(* in flight: what process_tx counted is simulated or still waits, what    *)
(* the builder counted is in a result, get_status never reports more       *)
(* simulations than detections, and with stage 2 on nothing is found.      *)
THEOREM ServerInvariant == Spec => []ServerInv
  <1>1. Init => Books
    BY BooksInit
  <1>2. TypeOK /\ TypeOK' /\ TaskInv /\ Books /\ [Next]_vars => Books'
    BY BooksNext
  <1>3. Spec => []Books
    BY <1>1, <1>2, TypesAndPlaces, PTL DEF Spec
  <1>4. TypeOK /\ TaskInv /\ Books => ServerInv
    BY DEF Books, ServerInv
  <1> QED  BY <1>3, <1>4, TypesAndPlaces, PTL
=============================================================================
