-------------------- MODULE MultiThreadedDetectorProofs --------------------
(***************************************************************************)
(* The multi-threaded detector, for any number of workers, any             *)
(* transactions, pools, updates and sizes of the channels: no transaction  *)
(* is searched twice or dropped while a worker lives, ids are distinct,    *)
(* the counters agree and the steps of every path join.                    *)
(***************************************************************************)
EXTENDS MultiThreadedDetector, TLAPS

-----------------------------------------------------------------------------
(* The inductive invariant.                                                *)

TxIds == DOMAIN Txs
Nets == {calculate_2hop_profit(Txs[i].info, p1, p2) - GasCost :
            i \in TxIds, p1 \in Pool, p2 \in Pool}
Opp == [trigger : TxIds, pool1 : Addresses, pool2 : Addresses, token_in : Tokens,
        mid : Tokens, token_out : Tokens, net : Nets]
Numbered == [opp : Opp, id : Nat]

DispatcherPcs == {"off", "check", "recv", "send", "done"}
WorkerPcs == {"off", "check", "collect", "tx", "find", "number", "send", "done", "dead"}
Thread == [pc : WorkerPcs, batch : Seq(TxIds), pos : Nat, hop : Nat, opps : Seq(Opp), id : Nat]

DispatcherTypes ==
    /\ running \in BOOLEAN /\ input \in Seq(TxIds) /\ work \in Seq(TxIds)
    /\ dispatcher \in [pc : DispatcherPcs, tx : TxIds \cup {None}]
    /\ stats \in [processed : Nat, found : Nat, profitable : Nat]
    /\ outcome \in [TxIds -> Int]

ChannelTypes ==
    /\ channel \in [open : BOOLEAN, queue : Seq(Numbered)] /\ received \in Seq(Numbered)

(* A pool of the map has the tokens it was loaded with, and the lists of a *)
(* token name pools that were loaded, or are being loaded, with it.        *)
PoolsInd ==
    /\ token_to_pools \in [Tokens -> Seq(Addresses)]
    /\ DOMAIN pools \subseteq Addresses /\ pools \in [DOMAIN pools -> Pool]
    /\ loader \in [done : 0 .. Len(Loads), step : 0 .. 2]
    /\ \A a \in DOMAIN pools, l \in DOMAIN Loads :
          Loads[l].address = a => /\ pools[a].token0 = Loads[l].token0
                                  /\ pools[a].token1 = Loads[l].token1
    /\ \A t \in Tokens : \A k \in DOMAIN token_to_pools[t] :
          \E l \in DOMAIN Loads : /\ Loads[l].address = token_to_pools[t][k]
                                  /\ t \in {Loads[l].token0, Loads[l].token1}

(* Where a worker is in its batch.                                         *)
ThreadInd(map, w, r) ==
    /\ r \in Thread /\ Len(r.batch) <= BatchSize
    /\ r.pc = "collect" => r.pos = 1
    /\ r.pos >= 1 /\ r.hop >= 1 /\ r.id >= w * Stride
    /\ r.pc \in {"find", "number", "send"} =>
          r.pos <= Len(r.batch) /\ Parsed(Txs[r.batch[r.pos]])
    /\ r.pc = "send" => r.opps # <<>>
    /\ \A k \in DOMAIN r.opps : Joins(map, r.opps[k])

WorkersInd == worker \in [Workers -> Thread] /\ \A w \in Workers : ThreadInd(pools, w, worker[w])

(* A transaction is dropped only after the start and without workers.      *)
DispatchInd ==
    /\ Len(work) <= WorkCap /\ Len(channel.queue) <= OppCap
    /\ (dispatcher.pc = "send") <=> (dispatcher.tx # None)
    /\ dispatcher.pc = "off" => \A w \in Workers : worker[w].pc = "off"
    /\ \A i \in TxIds : outcome[i] = None => Disconnected /\ dispatcher.pc # "off"

(* Every id sent was taken from the range of some worker.                  *)
IdsInd ==
    \A i \in DOMAIN Sent : \E v \in Workers : v * Stride <= Sent[i].id /\ Sent[i].id < worker[v].id

DetectorInd ==
    /\ DispatcherTypes /\ ChannelTypes /\ PoolsInd /\ WorkersInd /\ DispatchInd
    /\ SearchedOnce /\ IdsInd /\ IdsDistinct /\ CountersAgree /\ StepsJoin

-----------------------------------------------------------------------------
(* Sequences.                                                              *)

LEMMA ElementOf == \A S : \A s \in Seq(S) : \A i \in DOMAIN s : s[i] \in S
  OBVIOUS

LEMMA RangeOf == \A S : \A s \in Seq(S) : Range(s) \subseteq S
  BY ElementOf, Zenon DEF Range

LEMMA EmptySeq == \A S : <<>> \in Seq(S) /\ Len(<<>>) = 0 /\ DOMAIN <<>> = {}
  OBVIOUS

LEMMA SeqLen == \A S : \A s \in Seq(S) : Len(s) \in Nat /\ DOMAIN s = 1 .. Len(s)
  OBVIOUS

LEMMA AppendTo ==
    ASSUME NEW S, NEW s \in Seq(S), NEW e \in S
    PROVE  /\ Append(s, e) \in Seq(S) /\ Len(s) \in Nat /\ Len(Append(s, e)) = Len(s) + 1
           /\ Append(s, e)[Len(s) + 1] = e /\ Len(s) + 1 \in DOMAIN Append(s, e)
           /\ \A k \in DOMAIN Append(s, e) : k \in DOMAIN s \/ k = Len(s) + 1
           /\ \A k \in DOMAIN s : /\ k \in DOMAIN Append(s, e) /\ Append(s, e)[k] = s[k]
                                 /\ k # Len(s) + 1
  OBVIOUS

LEMMA TailOf ==
    ASSUME NEW S, NEW s \in Seq(S), s # <<>>
    PROVE  /\ Head(s) \in S /\ Tail(s) \in Seq(S) /\ Len(s) \in Nat
           /\ Len(Tail(s)) = Len(s) - 1 /\ Head(s) = s[1] /\ 1 \in DOMAIN s
           /\ \A k \in DOMAIN Tail(s) : /\ k \in Nat /\ k + 1 \in DOMAIN s /\ k + 1 # 1
                                      /\ Tail(s)[k] = s[k + 1]
           /\ \A k \in DOMAIN s : k # 1 => k - 1 \in DOMAIN Tail(s) /\ Tail(s)[k - 1] = s[k]
  OBVIOUS

LEMMA SuccessorInjective == \A i, j \in Nat : i + 1 = j + 1 => i = j
  OBVIOUS

(* Taking the first element of a list without repetitions.                 *)
LEMMA TailInjective ==
    ASSUME NEW S, NEW s \in Seq(S), s # <<>>, IsInjective(s)
    PROVE  /\ IsInjective(Tail(s)) /\ Range(Tail(s)) = Range(s) \ {Head(s)}
           /\ Head(s) \in Range(s)
  <1>0. /\ Head(s) = s[1] /\ 1 \in DOMAIN s
        /\ \A k \in DOMAIN Tail(s) : /\ k \in Nat /\ k + 1 \in DOMAIN s /\ k + 1 # 1
                                   /\ Tail(s)[k] = s[k + 1]
        /\ \A k \in DOMAIN s : k # 1 => k - 1 \in DOMAIN Tail(s) /\ Tail(s)[k - 1] = s[k]
    BY TailOf, Zenon
  <1>1. \A i, j \in DOMAIN s : s[i] = s[j] => i = j
    BY Zenon DEF IsInjective
  <1>2. IsInjective(Tail(s))
    <2> SUFFICES ASSUME NEW i \in DOMAIN Tail(s), NEW j \in DOMAIN Tail(s), Tail(s)[i] = Tail(s)[j]
                 PROVE  i = j
      BY Zenon DEF IsInjective
    <2>1. i + 1 \in DOMAIN s /\ j + 1 \in DOMAIN s /\ s[i + 1] = s[j + 1]
      BY <1>0, Zenon
    <2>2. i + 1 = j + 1
      BY <1>1, <2>1, Zenon
    <2> QED BY <1>0, <2>2, SuccessorInjective, Zenon
  <1>3. ASSUME NEW k \in DOMAIN Tail(s) PROVE Tail(s)[k] \in Range(s) \ {Head(s)}
    <2>1. k + 1 \in DOMAIN s /\ Tail(s)[k] = s[k + 1] /\ k + 1 # 1
      BY <1>0, Zenon
    <2>2. s[k + 1] # s[1]
      BY <1>0, <1>1, <2>1, Zenon
    <2> QED BY <1>0, <2>1, <2>2, Zenon DEF Range
  <1>4. ASSUME NEW k \in DOMAIN s, s[k] # Head(s) PROVE s[k] \in Range(Tail(s))
    <2>1. k - 1 \in DOMAIN Tail(s) /\ Tail(s)[k - 1] = s[k]
      BY <1>0, <1>4, Zenon
    <2> QED BY <2>1, Zenon DEF Range
  <1>6. Range(Tail(s)) = Range(s) \ {Head(s)}
    BY <1>3, <1>4, Zenon DEF Range
  <1>5. Head(s) \in Range(s)
    BY <1>0, Zenon DEF Range
  <1> QED BY <1>2, <1>5, <1>6, Zenon

(* Adding an element a list does not have.                                 *)
LEMMA AppendInjective ==
    ASSUME NEW s \in Seq(TxIds), NEW e \in TxIds, IsInjective(s), e \notin Range(s)
    PROVE  IsInjective(Append(s, e)) /\ Range(Append(s, e)) = Range(s) \cup {e}
  <1>0. /\ Append(s, e)[Len(s) + 1] = e /\ Len(s) + 1 \in DOMAIN Append(s, e)
        /\ \A k \in DOMAIN Append(s, e) : k \in DOMAIN s \/ k = Len(s) + 1
        /\ \A k \in DOMAIN s : k \in DOMAIN Append(s, e) /\ Append(s, e)[k] = s[k]
    OBVIOUS
  <1>1. /\ \A i, j \in DOMAIN s : s[i] = s[j] => i = j
        /\ \A i \in DOMAIN s : s[i] # e
    BY Zenon DEF IsInjective, Range
  <1>2. IsInjective(Append(s, e))
    BY <1>0, <1>1, Zenon DEF IsInjective
  <1>3. Range(Append(s, e)) = Range(s) \cup {e}
    BY <1>0, Zenon DEF Range
  <1> QED BY <1>2, <1>3, Zenon

LEMMA EmptyInjective == IsInjective(<<>>) /\ Range(<<>>) = {}
  BY EmptySeq, Zenon DEF IsInjective, Range

-----------------------------------------------------------------------------
(* The maps.                                                               *)

(* Pools keep their tokens while the map grows.                            *)
LEMMA TokensKept ==
    ASSUME PoolsInd, PoolsInd', DOMAIN pools \subseteq DOMAIN pools'
    PROVE  \A a \in DOMAIN pools : /\ a \in DOMAIN pools' /\ pools'[a].token0 = pools[a].token0
                                  /\ pools'[a].token1 = pools[a].token1
  <1> SUFFICES ASSUME NEW a \in DOMAIN pools
               PROVE  pools'[a].token0 = pools[a].token0 /\ pools'[a].token1 = pools[a].token1
    BY Zenon
  <1>0. a \in Addresses
    BY Zenon DEF PoolsInd
  <1>1. PICK l \in DOMAIN Loads : Loads[l].address = a
    BY <1>0, Zenon DEF Addresses
  <1>2. pools[a].token0 = Loads[l].token0 /\ pools[a].token1 = Loads[l].token1
    BY <1>1, Zenon DEF PoolsInd
  <1>3. pools'[a].token0 = Loads[l].token0 /\ pools'[a].token1 = Loads[l].token1
    <2>1. \A b \in DOMAIN pools', m \in DOMAIN Loads :
             Loads[m].address = b => /\ pools'[b].token0 = Loads[m].token0
                                     /\ pools'[b].token1 = Loads[m].token1
      BY PoolsInd', Zenon DEF PoolsInd
    <2>2. a \in DOMAIN pools'
      OBVIOUS
    <2> QED BY <1>1, <2>1, <2>2, Zenon
  <1> QED BY <1>2, <1>3, Zenon

(* So steps that join stay joined.                                         *)
LEMMA JoinsKept ==
    ASSUME PoolsInd, PoolsInd', DOMAIN pools \subseteq DOMAIN pools'
    PROVE  \A o : Joins(pools, o) => Joins(pools', o)
  <1>1. \A a \in DOMAIN pools : /\ a \in DOMAIN pools' /\ pools'[a].token0 = pools[a].token0
                               /\ pools'[a].token1 = pools[a].token1
    BY TokensKept, Zenon
  <1> SUFFICES ASSUME NEW o, Joins(pools, o) PROVE Joins(pools', o)
    BY Zenon
  <1>2. /\ o.pool1 \in DOMAIN pools /\ o.pool2 \in DOMAIN pools
        /\ Holds(pools[o.pool1], o.token_in) /\ Holds(pools[o.pool1], o.mid)
        /\ Holds(pools[o.pool2], o.mid) /\ Holds(pools[o.pool2], o.token_out)
    BY Zenon DEF Joins
  <1>3. /\ o.pool1 \in DOMAIN pools' /\ o.pool2 \in DOMAIN pools'
        /\ Holds(pools'[o.pool1], o.token_in) /\ Holds(pools'[o.pool1], o.mid)
        /\ Holds(pools'[o.pool2], o.mid) /\ Holds(pools'[o.pool2], o.token_out)
    BY <1>1, <1>2, Zenon DEF Holds
  <1> QED BY <1>3, Zenon DEF Joins

LEMMA LoadTypes ==
    /\ Loads \in Seq(Pool) /\ Len(Loads) \in Nat /\ DOMAIN Loads = 1 .. Len(Loads)
    /\ \A l \in DOMAIN Loads : /\ Loads[l] \in Pool /\ Loads[l].address \in Addresses
                               /\ Loads[l].token0 \in Tokens /\ Loads[l].token1 \in Tokens
  <1>1. Loads \in Seq(Pool)
    BY DetectorAssumption, Zenon
  <1>2. Len(Loads) \in Nat /\ DOMAIN Loads = 1 .. Len(Loads)
    BY <1>1, SeqLen, Zenon
  <1>3. \A l \in DOMAIN Loads : Loads[l] \in Pool
    BY <1>1, ElementOf, Zenon
  <1>4. \A q \in Pool : q.token0 \in Tokens /\ q.token1 \in Tokens /\ q.address \in Addresses
    BY DEF Pool
  <1> QED BY <1>1, <1>2, <1>3, <1>4, Zenon

(* load_pools adds a pool to the list of one of its tokens.                *)
LEMMA IndexStep ==
    ASSUME PoolsInd, NEW l \in DOMAIN Loads, NEW t \in {Loads[l].token0, Loads[l].token1},
           token_to_pools' = [token_to_pools EXCEPT ![t] = Append(@, Loads[l].address)],
           UNCHANGED pools, loader' \in [done : 0 .. Len(Loads), step : 0 .. 2]
    PROVE  PoolsInd'
  <1>0. t \in Tokens /\ Loads[l].address \in Addresses
    BY LoadTypes, Zenon
  <1>1. token_to_pools \in [Tokens -> Seq(Addresses)] /\ token_to_pools[t] \in Seq(Addresses)
    BY <1>0, Zenon DEF PoolsInd
  <1> DEFINE old == token_to_pools[t]
             new == Loads[l].address
             s == Append(token_to_pools[t], Loads[l].address)
  <1>2. /\ s \in Seq(Addresses) /\ s[Len(token_to_pools[t]) + 1] = Loads[l].address
        /\ \A k \in DOMAIN s : k \in DOMAIN token_to_pools[t] \/ k = Len(token_to_pools[t]) + 1
        /\ \A k \in DOMAIN token_to_pools[t] : s[k] = token_to_pools[t][k]
    <2>1. old \in Seq(Addresses) /\ new \in Addresses /\ s = Append(old, new)
      BY <1>0, <1>1, Zenon
    <2> HIDE DEF s, old, new
    <2>2. /\ s \in Seq(Addresses) /\ s[Len(old) + 1] = new
          /\ \A k \in DOMAIN s : k \in DOMAIN old \/ k = Len(old) + 1
          /\ \A k \in DOMAIN old : s[k] = old[k]
      BY <2>1, AppendTo, Zenon
    <2> QED BY <2>2, Zenon DEF old, new
  <1>3. token_to_pools' = [token_to_pools EXCEPT ![t] = s]
    OBVIOUS
  <1> HIDE DEF s
  <1>4. /\ token_to_pools' \in [Tokens -> Seq(Addresses)] /\ token_to_pools'[t] = s
        /\ \A u \in Tokens : u # t => token_to_pools'[u] = token_to_pools[u]
    BY <1>0, <1>1, <1>2, <1>3
  <1>5. ASSUME NEW u \in Tokens, NEW k \in DOMAIN token_to_pools'[u]
        PROVE  \E m \in DOMAIN Loads : /\ Loads[m].address = token_to_pools'[u][k]
                                       /\ u \in {Loads[m].token0, Loads[m].token1}
    <2>1. CASE u = t /\ k = Len(token_to_pools[t]) + 1
      BY <1>2, <1>4, <2>1, Zenon
    <2>2. CASE ~(u = t /\ k = Len(token_to_pools[t]) + 1)
      <3>1. k \in DOMAIN token_to_pools[u] /\ token_to_pools'[u][k] = token_to_pools[u][k]
        BY <1>2, <1>4, <1>5, <2>2, Zenon
      <3>2. \A x \in Tokens : \A j \in DOMAIN token_to_pools[x] :
                \E m \in DOMAIN Loads : /\ Loads[m].address = token_to_pools[x][j]
                                        /\ x \in {Loads[m].token0, Loads[m].token1}
        BY Zenon DEF PoolsInd
      <3>3. PICK m \in DOMAIN Loads : /\ Loads[m].address = token_to_pools[u][k]
                                     /\ u \in {Loads[m].token0, Loads[m].token1}
        BY <3>1, <3>2, Zenon
      <3> QED BY <3>1, <3>3, Zenon
    <2> QED BY <2>1, <2>2, Zenon
  <1>6. \A u \in Tokens : \A k \in DOMAIN token_to_pools'[u] :
          \E m \in DOMAIN Loads : /\ Loads[m].address = token_to_pools'[u][k]
                                  /\ u \in {Loads[m].token0, Loads[m].token1}
    BY <1>5, Zenon
  <1> QED BY <1>4, <1>6, SMTT(20) DEF PoolsInd

(* load_pools stores a pool, or update_pool its reserves.                  *)
LEMMA StoreStep ==
    ASSUME PoolsInd, NEW a \in Addresses, NEW q \in Pool,
           \A l \in DOMAIN Loads : Loads[l].address = a => /\ q.token0 = Loads[l].token0
                                                          /\ q.token1 = Loads[l].token1,
           pools' = [b \in DOMAIN pools \cup {a} |-> IF b = a THEN q ELSE pools[b]],
           UNCHANGED token_to_pools, loader' \in [done : 0 .. Len(Loads), step : 0 .. 2]
    PROVE  PoolsInd' /\ DOMAIN pools \subseteq DOMAIN pools'
  <1>1. /\ DOMAIN pools' = DOMAIN pools \cup {a} /\ pools'[a] = q
        /\ \A b \in DOMAIN pools' : b # a => b \in DOMAIN pools /\ pools'[b] = pools[b]
    BY Zenon
  <1>2. DOMAIN pools \subseteq Addresses /\ \A b \in DOMAIN pools : pools[b] \in Pool
    BY Zenon DEF PoolsInd
  <1>3. DOMAIN pools' \subseteq Addresses /\ pools' \in [DOMAIN pools' -> Pool]
    BY <1>1, <1>2
  <1>4. \A b \in DOMAIN pools', l \in DOMAIN Loads :
            Loads[l].address = b => /\ pools'[b].token0 = Loads[l].token0
                                    /\ pools'[b].token1 = Loads[l].token1
    <2>1. \A b \in DOMAIN pools, l \in DOMAIN Loads :
            Loads[l].address = b => /\ pools[b].token0 = Loads[l].token0
                                    /\ pools[b].token1 = Loads[l].token1
      BY Zenon DEF PoolsInd
    <2> SUFFICES ASSUME NEW b \in DOMAIN pools', NEW l \in DOMAIN Loads, Loads[l].address = b
                 PROVE  /\ pools'[b].token0 = Loads[l].token0
                        /\ pools'[b].token1 = Loads[l].token1
      BY Zenon
    <2>2. CASE b = a
      BY <1>1, <2>2, Zenon
    <2>3. CASE b # a
      BY <1>1, <2>1, <2>3, Zenon
    <2> QED BY <2>2, <2>3, Zenon
  <1>5. DOMAIN pools \subseteq DOMAIN pools'
    BY <1>1, Zenon
  <1>6. PoolsInd'
    <2>1. /\ token_to_pools' = token_to_pools /\ token_to_pools \in [Tokens -> Seq(Addresses)]
          /\ \A t \in Tokens : \A k \in DOMAIN token_to_pools[t] :
                \E l \in DOMAIN Loads : /\ Loads[l].address = token_to_pools[t][k]
                                        /\ t \in {Loads[l].token0, Loads[l].token1}
      BY Zenon DEF PoolsInd
    <2> QED BY <1>3, <1>4, <2>1 DEF PoolsInd
  <1> QED BY <1>5, <1>6, Zenon

-----------------------------------------------------------------------------
(* What does not change.                                                   *)

LEMMA WorkersFrame ==
    ASSUME WorkersInd, UNCHANGED worker, \A o : Joins(pools, o) => Joins(pools', o)
    PROVE  WorkersInd'
  <1>1. \A w \in Workers : ThreadInd(pools', w, worker[w])
    BY Zenon DEF WorkersInd, ThreadInd
  <1>2. worker' = worker /\ worker \in [Workers -> Thread]
    BY Zenon DEF WorkersInd
  <1> QED BY <1>1, <1>2, Zenon DEF WorkersInd

LEMMA JoinFrame ==
    ASSUME StepsJoin, UNCHANGED <<channel, received>>,
           \A o : Joins(pools, o) => Joins(pools', o)
    PROVE  StepsJoin'
  <1>1. Sent' = Sent
    BY Zenon DEF Sent
  <1> QED BY <1>1, Zenon DEF StepsJoin

LEMMA PoolsFrame ==
    ASSUME PoolsInd, UNCHANGED maps
    PROVE  PoolsInd' /\ \A o : Joins(pools, o) => Joins(pools', o)
  <1>1. token_to_pools' = token_to_pools /\ pools' = pools /\ loader' = loader
    BY Zenon DEF maps
  <1>2. PoolsInd'
    BY <1>1 DEF PoolsInd
  <1> QED BY <1>1, <1>2, Zenon

(* Batches and positions, the input and the work channel are as they were. *)
LEMMA OnceFrame ==
    ASSUME SearchedOnce, UNCHANGED <<input, work, outcome>>, dispatcher'.tx = dispatcher.tx,
           \A w \in Workers : /\ worker'[w].batch = worker[w].batch
                              /\ worker'[w].pos = worker[w].pos
    PROVE  SearchedOnce'
  <1>1. Queued' = Queued /\ input' = input /\ work' = work /\ outcome' = outcome
    BY Zenon DEF Queued
  <1>2. \A w \in Workers : Left(w)' = Left(w) /\ InHand(w)' = InHand(w)
    BY Zenon DEF Left, InHand
  <1>3. /\ IsInjective(input') /\ IsInjective(work') /\ Range(input') \cap Range(work') = {}
        /\ dispatcher'.tx \notin Range(input') \cup Range(work')
    BY <1>1, Zenon DEF SearchedOnce
  <1>4. \A w \in Workers :
          /\ \A k, l \in Left(w)' : worker'[w].batch[k] = worker'[w].batch[l] => k = l
          /\ InHand(w)' \cap Queued' = {}
          /\ \A v \in Workers \ {w} : InHand(v)' \cap InHand(w)' = {}
    BY <1>1, <1>2, Zenon DEF SearchedOnce
  <1>5. UNION {InHand(w)' : w \in Workers} = UNION {InHand(w) : w \in Workers}
    BY <1>2, Zenon
  <1>6. /\ \A i \in Queued' \cup UNION {InHand(w)' : w \in Workers} : outcome'[i] = 0
        /\ \A i \in DOMAIN Txs : outcome'[i] <= 1
    BY <1>1, <1>5, Zenon DEF SearchedOnce
  <1> QED BY <1>3, <1>4, <1>6, Zenon DEF SearchedOnce

(* Threads that have ended stay so.                                        *)
LEMMA DispatchFrame ==
    ASSUME DispatchInd, Len(work') <= WorkCap, Len(channel'.queue) <= OppCap,
           UNCHANGED outcome, (dispatcher'.pc = "send") <=> (dispatcher'.tx # None),
           dispatcher'.pc = "off" => UNCHANGED <<dispatcher, worker>>,
           \A w \in Workers : worker[w].pc \in Ended => worker'[w].pc \in Ended
    PROVE  DispatchInd'
  <1>1. Disconnected => Disconnected'
    BY Zenon DEF Disconnected
  <1>2. dispatcher'.pc = "off" => dispatcher.pc = "off" /\ worker' = worker
    BY Zenon
  <1>3. dispatcher'.pc = "off" => \A w \in Workers : worker'[w].pc = "off"
    BY <1>2, Zenon DEF DispatchInd
  <1>4. \A i \in TxIds : outcome'[i] = None => Disconnected' /\ dispatcher'.pc # "off"
    BY <1>1, <1>2, Zenon DEF DispatchInd
  <1> QED BY <1>3, <1>4, Zenon DEF DispatchInd

(* Ids only grow.                                                          *)
LEMMA IdsFrame ==
    ASSUME IdsInd, IdsDistinct, WorkersInd, WorkersInd', ChannelTypes, Sent' = Sent,
           \A w \in Workers : worker[w].id <= worker'[w].id
    PROVE  IdsInd' /\ IdsDistinct'
  <1>0. /\ Workers \subseteq Nat /\ Stride \in Nat
        /\ \A w \in Workers : worker[w].id \in Nat /\ worker'[w].id \in Nat
    BY DetectorAssumption DEF WorkersInd, Thread
  <1>1. \A i \in DOMAIN Sent : Sent[i].id \in Nat
    <2>1. Sent \in Seq(Numbered)
      BY DEF ChannelTypes, Sent
    <2>2. \A i \in DOMAIN Sent : Sent[i] \in Numbered
      BY <2>1, ElementOf, Zenon
    <2> QED BY <2>2 DEF Numbered
  <1>2. \A a, b, c \in Nat : a < b /\ b <= c => a < c
    OBVIOUS
  <1>3. \A a, b \in Nat : \A c \in Int : a <= b /\ b <= c => a <= c
    OBVIOUS
  <1>4. \A w \in Workers : (w + 1) * Stride \in Int
    BY <1>0
  <1>5. IdsInd'
    <2> SUFFICES ASSUME NEW i \in DOMAIN Sent
                 PROVE  \E v \in Workers : v * Stride <= Sent[i].id /\ Sent[i].id < worker'[v].id
      BY Zenon DEF IdsInd
    <2>1. PICK v \in Workers : v * Stride <= Sent[i].id /\ Sent[i].id < worker[v].id
      BY Zenon DEF IdsInd
    <2> QED BY <1>0, <1>1, <1>2, <2>1, Zenon
  <1>6. IdsDistinct'
    <2> SUFFICES ASSUME \A w \in Workers : worker'[w].id <= (w + 1) * Stride
                 PROVE  \A i, j \in DOMAIN Sent : i # j => Sent[i].id # Sent[j].id
      BY Zenon DEF IdsDistinct
    <2>1. \A w \in Workers : worker[w].id <= (w + 1) * Stride
      BY <1>0, <1>3, <1>4, Zenon
    <2> QED BY <2>1, Zenon DEF IdsDistinct
  <1> QED BY <1>5, <1>6, Zenon

LEMMA CountersFrame ==
    ASSUME CountersAgree, UNCHANGED outcome, channel'.open = channel.open, Sent' = Sent,
           stats'.profitable = stats.profitable, stats'.found = stats.found,
           \A w \in Workers : (worker'[w].pc = "send") <=> (worker[w].pc = "send")
    PROVE  CountersAgree'
  <1>1. {w \in Workers : worker'[w].pc = "send"} = {w \in Workers : worker[w].pc = "send"}
    BY Zenon
  <1> QED BY <1>1, Zenon DEF CountersAgree

-----------------------------------------------------------------------------
(* The caller's steps.                                                     *)

LEMMA MapsMove ==
    ASSUME DetectorInd, PoolsInd', DOMAIN pools \subseteq DOMAIN pools',
           UNCHANGED <<running, input, dispatcher, work, worker, channel, received, stats, outcome>>
    PROVE  DetectorInd'
  <1>0. /\ running' = running /\ input' = input /\ dispatcher' = dispatcher /\ work' = work
        /\ worker' = worker /\ channel' = channel /\ received' = received /\ stats' = stats
        /\ outcome' = outcome
    BY Zenon
  <1>1. /\ DispatcherTypes /\ ChannelTypes /\ PoolsInd /\ WorkersInd /\ DispatchInd
        /\ SearchedOnce /\ IdsInd /\ IdsDistinct /\ CountersAgree /\ StepsJoin
    BY Zenon DEF DetectorInd
  <1>2. \A o : Joins(pools, o) => Joins(pools', o)
    BY <1>1, JoinsKept, Zenon
  <1>3. DispatcherTypes' /\ ChannelTypes'
    BY <1>0, <1>1, Zenon DEF DispatcherTypes, ChannelTypes
  <1>4. WorkersInd' /\ StepsJoin'
    BY <1>0, <1>1, <1>2, WorkersFrame, JoinFrame, Zenon
  <1>5. DispatchInd'
    BY <1>0, <1>1, Zenon DEF DispatchInd, Disconnected
  <1>6. SearchedOnce'
    BY <1>0, <1>1, OnceFrame, Zenon
  <1>7. Sent' = Sent
    BY <1>0, Zenon DEF Sent
  <1>8. IdsInd' /\ IdsDistinct' /\ CountersAgree'
    BY <1>0, <1>1, <1>7, Zenon DEF IdsInd, IdsDistinct, CountersAgree
  <1> QED BY <1>3, <1>4, <1>5, <1>6, <1>8, Zenon DEF DetectorInd

LEMMA LoadKeeps == ASSUME DetectorInd, LoadPool PROVE DetectorInd'
  <1> DEFINE l == loader.done + 1
             pool == Loads[loader.done + 1]
             token == IF loader.step = 0 THEN pool.token0 ELSE pool.token1
  <1>0. PoolsInd
    BY Zenon DEF DetectorInd
  <1>1. /\ loader \in [done : 0 .. Len(Loads), step : 0 .. 2] /\ loader.done < Len(Loads)
        /\ UNCHANGED <<running, input, dispatcher, work, worker, channel, received, stats, outcome>>
    BY <1>0, Zenon DEF PoolsInd, LoadPool
  <1>2. l \in DOMAIN Loads
    BY <1>1, LoadTypes
  <1>3. token \in {pool.token0, pool.token1}
    BY Zenon
  <1>4. CASE /\ loader.step < 2 /\ loader' = [loader EXCEPT !.step = @ + 1] /\ UNCHANGED pools
             /\ token_to_pools' = [token_to_pools EXCEPT ![token] = Append(@, pool.address)]
    <2>1. loader' \in [done : 0 .. Len(Loads), step : 0 .. 2]
      BY <1>1, <1>4
    <2>2. DOMAIN pools \subseteq DOMAIN pools'
      BY <1>4, Zenon
    <2> HIDE DEF token
    <2>3. PoolsInd'
      BY <1>0, <1>2, <1>3, <1>4, <2>1, IndexStep, Zenon
    <2> QED BY <1>1, <2>2, <2>3, MapsMove, Zenon
  <1>5. CASE /\ loader.step = 2 /\ loader' = [done |-> loader.done + 1, step |-> 0]
             /\ UNCHANGED token_to_pools
             /\ pools' = [a \in DOMAIN pools \union {pool.address} |->
                             IF a = pool.address THEN pool ELSE pools[a]]
    <2>1. loader' \in [done : 0 .. Len(Loads), step : 0 .. 2]
      BY <1>1, <1>5, LoadTypes
    <2>2. pool \in Pool /\ pool.address \in Addresses
      BY <1>2, LoadTypes, Zenon
    <2>3. \A m \in DOMAIN Loads : Loads[m].address = pool.address =>
              pool.token0 = Loads[m].token0 /\ pool.token1 = Loads[m].token1
      BY <1>2, DetectorAssumption, Zenon
    <2> DEFINE address == pool.address
    <2>5. /\ pools' = [a \in DOMAIN pools \cup {address} |-> IF a = address THEN pool ELSE pools[a]]
          /\ address \in Addresses /\ token_to_pools' = token_to_pools
          /\ \A m \in DOMAIN Loads : Loads[m].address = address =>
                pool.token0 = Loads[m].token0 /\ pool.token1 = Loads[m].token1
      BY <1>5, <2>2, <2>3, Zenon
    <2> HIDE DEF pool, address
    <2>4. PoolsInd' /\ DOMAIN pools \subseteq DOMAIN pools'
      BY <1>0, <2>1, <2>2, <2>5, StoreStep, Zenon
    <2> QED BY <1>1, <2>4, MapsMove, Zenon
  <1> QED BY <1>4, <1>5, Zenon DEF LoadPool

LEMMA UpdateKeeps == ASSUME DetectorInd, NEW u \in Updates, update_pool(u) PROVE DetectorInd'
  <1>0. PoolsInd
    BY Zenon DEF DetectorInd
  <1>1. /\ UNCHANGED <<running, input, dispatcher, work, worker, token_to_pools, loader, channel,
                       received, stats, outcome>>
        /\ u.reserve0 \in Nat /\ u.reserve1 \in Nat
    BY DetectorAssumption, Zenon DEF update_pool
  <1>2. CASE ~Known(u.address)
    <2>1. pools' = pools
      BY <1>2, Zenon DEF update_pool
    <2>2. PoolsInd' /\ DOMAIN pools \subseteq DOMAIN pools'
      BY <1>0, <1>1, <2>1 DEF PoolsInd
    <2> QED BY <1>1, <2>2, MapsMove, Zenon
  <1>3. CASE Known(u.address)
    <2> DEFINE a == u.address
               q == [pools[u.address] EXCEPT !.reserve0 = u.reserve0, !.reserve1 = u.reserve1]
    <2>1. /\ a \in DOMAIN pools /\ a \in Addresses /\ pools[a] \in Pool
          /\ pools \in [DOMAIN pools -> Pool] /\ loader' \in [done : 0 .. Len(Loads), step : 0 .. 2]
      BY <1>0, <1>1, <1>3, Zenon DEF PoolsInd, Known
    <2>2. q \in Pool /\ q.token0 = pools[a].token0 /\ q.token1 = pools[a].token1
      BY <1>1, <2>1 DEF Pool
    <2>3. pools' = [pools EXCEPT ![u.address].reserve0 = u.reserve0,
                                 ![u.address].reserve1 = u.reserve1]
      BY <1>3, Zenon DEF update_pool
    <2>4. pools' = [b \in DOMAIN pools \cup {a} |-> IF b = a THEN q ELSE pools[b]]
      BY <2>1, <2>3
    <2>5. \A m \in DOMAIN Loads : Loads[m].address = a =>
              q.token0 = Loads[m].token0 /\ q.token1 = Loads[m].token1
      BY <1>0, <2>1, <2>2, Zenon DEF PoolsInd
    <2> HIDE DEF a, q
    <2>6. PoolsInd' /\ DOMAIN pools \subseteq DOMAIN pools'
      <3>1. /\ a \in Addresses /\ q \in Pool /\ UNCHANGED token_to_pools
            /\ loader' \in [done : 0 .. Len(Loads), step : 0 .. 2]
        BY <1>1, <2>1, <2>2, Zenon
      <3> QED BY <1>0, <2>4, <2>5, <3>1, StoreStep, Zenon
    <2> QED BY <1>1, <2>6, MapsMove, Zenon
  <1> QED BY <1>2, <1>3, Zenon

LEMMA IndParts ==
    DetectorInd => /\ DispatcherTypes /\ ChannelTypes /\ PoolsInd /\ WorkersInd /\ DispatchInd
                   /\ SearchedOnce /\ IdsInd /\ IdsDistinct /\ CountersAgree /\ StepsJoin
  BY Zenon DEF DetectorInd

LEMMA ThreadFields ==
    ASSUME NEW r \in Thread
    PROVE  /\ r.pc \in WorkerPcs /\ r.batch \in Seq(TxIds) /\ r.pos \in Nat /\ r.hop \in Nat
           /\ r.opps \in Seq(Opp) /\ r.id \in Nat
  BY DEF Thread

(* start: the threads run.                                                 *)
LEMMA StartKeeps == ASSUME DetectorInd, Start PROVE DetectorInd'
  <1>0. /\ dispatcher.pc = "off" /\ dispatcher' = [dispatcher EXCEPT !.pc = "check"] /\ running' = TRUE
        /\ worker' = [w \in Workers |-> [worker[w] EXCEPT !.pc = "check"]]
        /\ UNCHANGED maps /\ input' = input /\ work' = work /\ channel' = channel
        /\ received' = received /\ stats' = stats /\ outcome' = outcome
    BY Zenon DEF Start
  <1>1. /\ DispatcherTypes /\ ChannelTypes /\ PoolsInd /\ WorkersInd /\ DispatchInd
        /\ SearchedOnce /\ IdsInd /\ IdsDistinct /\ CountersAgree /\ StepsJoin
    BY IndParts, Zenon
  <1>2. \A w \in Workers : worker[w] \in Thread /\ worker[w].pc = "off"
    BY <1>0, <1>1, Zenon DEF WorkersInd, DispatchInd
  <1>3. \A w \in Workers : /\ worker'[w] \in Thread /\ worker'[w].pc = "check"
                           /\ worker'[w].batch = worker[w].batch /\ worker'[w].pos = worker[w].pos
                           /\ worker'[w].hop = worker[w].hop /\ worker'[w].opps = worker[w].opps
                           /\ worker'[w].id = worker[w].id
    BY <1>0, <1>2 DEF Thread, WorkerPcs
  <1>4. /\ dispatcher'.pc = "check" /\ dispatcher'.tx = dispatcher.tx /\ dispatcher.tx = None
        /\ dispatcher' \in [pc : DispatcherPcs, tx : TxIds \cup {None}]
    <2>1. dispatcher \in [pc : DispatcherPcs, tx : TxIds \cup {None}] /\ dispatcher.tx = None
      BY <1>0, <1>1, Zenon DEF DispatcherTypes, DispatchInd
    <2> QED BY <1>0, <2>1 DEF DispatcherPcs
  <1>5. DispatcherTypes' /\ ChannelTypes'
    BY <1>0, <1>1, <1>4, Zenon DEF DispatcherTypes, ChannelTypes
  <1>6. PoolsInd' /\ (\A o : Joins(pools, o) => Joins(pools', o)) /\ pools' = pools
    BY <1>0, <1>1, PoolsFrame, Zenon DEF maps
  <1>7. WorkersInd'
    <2>1. worker' \in [Workers -> Thread]
      BY <1>0, <1>3
    <2>2. ASSUME NEW w \in Workers PROVE ThreadInd(pools, w, worker'[w])
      <3>1. ThreadInd(pools, w, worker[w])
        BY <1>1, Zenon DEF WorkersInd
      <3> QED BY <1>3, <3>1, Zenon DEF ThreadInd
    <2> QED BY <1>6, <2>1, <2>2, Zenon DEF WorkersInd
  <1>8. DispatchInd'
    <2>1. \A i \in TxIds : outcome[i] # None
      BY <1>0, <1>1, Zenon DEF DispatchInd
    <2>2. Len(work) <= WorkCap /\ Len(channel.queue) <= OppCap
      BY <1>1, Zenon DEF DispatchInd
    <2> QED BY <1>0, <1>4, <2>1, <2>2, Zenon DEF DispatchInd
  <1>9. SearchedOnce'
    BY <1>0, <1>1, <1>3, <1>4, OnceFrame, Zenon
  <1>10. Sent' = Sent
    BY <1>0, Zenon DEF Sent
  <1>11. \A w \in Workers : worker[w].id <= worker'[w].id
    BY <1>2, <1>3, ThreadFields
  <1>12. IdsInd' /\ IdsDistinct'
    BY <1>1, <1>7, <1>10, <1>11, IdsFrame, Zenon
  <1>13. CountersAgree'
    BY <1>0, <1>1, <1>2, <1>3, <1>10, CountersFrame, Zenon
  <1>14. StepsJoin'
    BY <1>0, <1>1, <1>6, JoinFrame, Zenon
  <1> QED BY <1>5, <1>6, <1>7, <1>8, <1>9, <1>12, <1>13, <1>14, Zenon DEF DetectorInd

LEMMA StopKeeps == ASSUME DetectorInd, Stop PROVE DetectorInd'
  <1>0. /\ running' = FALSE /\ UNCHANGED maps /\ input' = input /\ dispatcher' = dispatcher
        /\ work' = work /\ worker' = worker /\ channel' = channel /\ received' = received
        /\ stats' = stats /\ outcome' = outcome
    BY Zenon DEF Stop
  <1>1. /\ DispatcherTypes /\ ChannelTypes /\ PoolsInd /\ WorkersInd /\ DispatchInd
        /\ SearchedOnce /\ IdsInd /\ IdsDistinct /\ CountersAgree /\ StepsJoin
    BY IndParts, Zenon
  <1>2. DispatcherTypes' /\ ChannelTypes'
    BY <1>0, <1>1, Zenon DEF DispatcherTypes, ChannelTypes
  <1>3. PoolsInd' /\ \A o : Joins(pools, o) => Joins(pools', o)
    BY <1>0, <1>1, PoolsFrame, Zenon
  <1>4. WorkersInd' /\ StepsJoin'
    BY <1>0, <1>1, <1>3, WorkersFrame, JoinFrame, Zenon
  <1>5. DispatchInd'
    BY <1>0, <1>1, Zenon DEF DispatchInd, Disconnected
  <1>6. SearchedOnce'
    BY <1>0, <1>1, OnceFrame, Zenon
  <1>7. Sent' = Sent
    BY <1>0, Zenon DEF Sent
  <1>8. IdsInd' /\ IdsDistinct' /\ CountersAgree'
    BY <1>0, <1>1, <1>7, Zenon DEF IdsInd, IdsDistinct, CountersAgree
  <1> QED BY <1>2, <1>3, <1>4, <1>5, <1>6, <1>8, Zenon DEF DetectorInd

LEMMA ReadMovesHead ==
    ASSUME NEW S, NEW r \in Seq(S), NEW q \in Seq(S), q # <<>>
    PROVE  Append(r, Head(q)) \o Tail(q) = r \o q
  <1> DEFINE u == Append(r, Head(q)) \o Tail(q)
             v == r \o q
  <1>0. /\ Head(q) \in S /\ Tail(q) \in Seq(S) /\ Len(q) \in Nat /\ Len(Tail(q)) = Len(q) - 1
        /\ Append(r, Head(q)) \in Seq(S) /\ Len(Append(r, Head(q))) = Len(r) + 1 /\ Len(r) \in Nat
    BY TailOf, AppendTo
  <1>1. u \in Seq(S) /\ v \in Seq(S) /\ Len(u) = Len(r) + Len(q) /\ Len(v) = Len(r) + Len(q)
    BY <1>0
  <1>2. ASSUME NEW i \in 1 .. Len(r) + Len(q) PROVE u[i] = v[i]
    OBVIOUS
  <1> HIDE DEF u, v
  <1>3. \A i \in 1 .. Len(u) : u[i] = v[i]
    BY <1>1, <1>2, Zenon
  <1>4. u = v
    BY <1>1, <1>3
  <1> QED BY <1>4 DEF u, v

LEMMA PrefixOfConcat ==
    ASSUME NEW S, NEW r \in Seq(S), NEW q \in Seq(S)
    PROVE  /\ r \o <<>> = r /\ r \o q \in Seq(S) /\ Len(r \o q) = Len(r) + Len(q)
           /\ \A i \in DOMAIN r : i \in DOMAIN (r \o q) /\ (r \o q)[i] = r[i]
  OBVIOUS

(* Steps of the receiver.                                                  *)
LEMMA ReceiverMoves ==
    ASSUME DetectorInd, UNCHANGED maps, UNCHANGED <<running, input, dispatcher, work, worker>>,
           UNCHANGED <<stats, outcome>>, ChannelTypes', Len(channel'.queue) <= OppCap
    PROVE  /\ DispatcherTypes' /\ PoolsInd' /\ WorkersInd' /\ DispatchInd' /\ SearchedOnce'
           /\ \A o : Joins(pools, o) => Joins(pools', o)
  <1>0. /\ running' = running /\ input' = input /\ dispatcher' = dispatcher
        /\ work' = work /\ worker' = worker /\ stats' = stats /\ outcome' = outcome
    BY Zenon
  <1>1. /\ DispatcherTypes /\ PoolsInd /\ WorkersInd /\ DispatchInd /\ SearchedOnce
    BY IndParts, Zenon
  <1>2. DispatcherTypes'
    BY <1>0, <1>1, Zenon DEF DispatcherTypes
  <1>3. PoolsInd' /\ \A o : Joins(pools, o) => Joins(pools', o)
    BY <1>1, PoolsFrame, Zenon
  <1>4. WorkersInd' /\ SearchedOnce'
    BY <1>0, <1>1, <1>3, WorkersFrame, OnceFrame, Zenon
  <1>5. DispatchInd'
    BY <1>0, <1>1, Zenon DEF DispatchInd, Disconnected
  <1> QED BY <1>2, <1>3, <1>4, <1>5, Zenon

LEMMA ConsumeKeeps == ASSUME DetectorInd, Consume PROVE DetectorInd'
  <1>0. /\ channel.queue # <<>> /\ received' = Append(received, Head(channel.queue))
        /\ channel' = [channel EXCEPT !.queue = Tail(@)]
        /\ UNCHANGED maps /\ UNCHANGED <<running, input, dispatcher, work, worker>>
        /\ UNCHANGED <<stats, outcome>>
    BY Zenon DEF Consume
  <1>1. /\ ChannelTypes /\ WorkersInd /\ IdsInd /\ IdsDistinct /\ CountersAgree /\ StepsJoin
        /\ Len(channel.queue) <= OppCap
    BY IndParts, Zenon DEF DispatchInd
  <1>2. /\ channel \in [open : BOOLEAN, queue : Seq(Numbered)] /\ received \in Seq(Numbered)
        /\ channel.queue \in Seq(Numbered)
    BY <1>1 DEF ChannelTypes
  <1>3. channel'.queue = Tail(channel.queue) /\ channel'.open = channel.open
    BY <1>0, <1>2
  <1> DEFINE q == channel.queue
  <1>4. /\ q \in Seq(Numbered) /\ q # <<>> /\ received' = Append(received, Head(q))
        /\ channel'.queue = Tail(q)
    BY <1>0, <1>2, <1>3, Zenon
  <1> HIDE DEF q
  <1>5. /\ Head(q) \in Numbered /\ Tail(q) \in Seq(Numbered) /\ Len(q) \in Nat
        /\ Len(Tail(q)) = Len(q) - 1
    BY <1>4, TailOf, Zenon
  <1>6. ChannelTypes'
    <2>1. received' \in Seq(Numbered)
      BY <1>2, <1>4, <1>5, AppendTo, Zenon
    <2>2. channel' \in [open : BOOLEAN, queue : Seq(Numbered)]
      BY <1>0, <1>2, <1>4, <1>5
    <2> QED BY <2>1, <2>2, Zenon DEF ChannelTypes
  <1>7. Len(channel'.queue) <= OppCap
    <2>1. OppCap \in Nat
      BY DetectorAssumption, Zenon
    <2>2. Len(q) <= OppCap
      BY <1>1, Zenon DEF q
    <2> QED BY ONLY <1>4, <1>5, <2>1, <2>2
  <1>8. Sent' = Sent
    <2>1. Sent' = Append(received, Head(q)) \o Tail(q)
      BY <1>4, Zenon DEF Sent
    <2>2. Sent = received \o q
      BY Zenon DEF Sent, q
    <2> QED BY <1>2, <1>4, <2>1, <2>2, ReadMovesHead, Zenon
  <1>9. /\ DispatcherTypes' /\ PoolsInd' /\ WorkersInd' /\ DispatchInd' /\ SearchedOnce'
        /\ \A o : Joins(pools, o) => Joins(pools', o)
    BY <1>0, <1>6, <1>7, ReceiverMoves, Zenon
  <1>10. worker' = worker /\ outcome' = outcome /\ stats' = stats
    BY <1>0, Zenon
  <1>11. IdsInd' /\ IdsDistinct'
    BY <1>1, <1>8, <1>10, Zenon DEF IdsInd, IdsDistinct
  <1>12. CountersAgree'
    BY <1>1, <1>3, <1>8, <1>10, CountersFrame, Zenon
  <1>13. StepsJoin'
    BY <1>1, <1>8, <1>9, Zenon DEF StepsJoin
  <1> QED BY <1>6, <1>9, <1>11, <1>12, <1>13, Zenon DEF DetectorInd

LEMMA DropKeeps == ASSUME DetectorInd, DropReceiver PROVE DetectorInd'
  <1>0. /\ channel' = [open |-> FALSE, queue |-> <<>>] /\ received' = received
        /\ UNCHANGED maps /\ UNCHANGED <<running, input, dispatcher, work, worker>>
        /\ UNCHANGED <<stats, outcome>>
    BY Zenon DEF DropReceiver
  <1>1. /\ ChannelTypes /\ WorkersInd /\ IdsInd /\ IdsDistinct /\ CountersAgree /\ StepsJoin
    BY IndParts, Zenon
  <1>2. channel.queue \in Seq(Numbered) /\ received \in Seq(Numbered) /\ OppCap \in Nat
    BY <1>1, DetectorAssumption DEF ChannelTypes
  <1>3. channel'.queue = <<>> /\ channel'.open = FALSE
    BY <1>0
  <1>4. ChannelTypes' /\ Len(channel'.queue) <= OppCap
    BY <1>0, <1>2, EmptySeq DEF ChannelTypes
  <1>5. Sent' = received /\ \A i \in DOMAIN received : i \in DOMAIN Sent /\ Sent[i] = received[i]
    <2> DEFINE q == channel.queue
    <2>1. q \in Seq(Numbered) /\ Sent = received \o q /\ Sent' = received \o <<>>
      BY <1>0, <1>2, <1>3, Zenon DEF Sent
    <2> HIDE DEF q
    <2> QED BY <1>2, <2>1, PrefixOfConcat, Zenon
  <1>6. /\ DispatcherTypes' /\ PoolsInd' /\ WorkersInd' /\ DispatchInd' /\ SearchedOnce'
        /\ \A o : Joins(pools, o) => Joins(pools', o)
    BY <1>0, <1>4, ReceiverMoves, Zenon
  <1>7. worker' = worker /\ outcome' = outcome /\ stats' = stats
    BY <1>0, Zenon
  <1>8. IdsInd'
    BY <1>1, <1>5, <1>7, Zenon DEF IdsInd
  <1>9. IdsDistinct'
    <2> SUFFICES ASSUME \A w \in Workers : worker'[w].id <= (w + 1) * Stride
                 PROVE  \A i, j \in DOMAIN received : i # j => received[i].id # received[j].id
      BY <1>5, Zenon DEF IdsDistinct
    <2>1. \A i, j \in DOMAIN Sent : i # j => Sent[i].id # Sent[j].id
      BY <1>1, <1>7, Zenon DEF IdsDistinct
    <2> QED BY <1>5, <2>1, Zenon
  <1>10. CountersAgree'
    BY <1>1, <1>3, <1>7, Zenon DEF CountersAgree
  <1>11. StepsJoin'
    BY <1>1, <1>5, <1>6, Zenon DEF StepsJoin
  <1> QED BY <1>4, <1>6, <1>8, <1>9, <1>10, <1>11, Zenon DEF DetectorInd

-----------------------------------------------------------------------------
(* The dispatcher's steps.                                                 *)

(* Transactions move towards the workers, or leave.                        *)
LEMMA QueueMoves ==
    ASSUME SearchedOnce, UNCHANGED worker,
           IsInjective(input'), IsInjective(work'), Range(input') \cap Range(work') = {},
           dispatcher'.tx \notin Range(input') \cup Range(work'), Queued' \subseteq Queued,
           \A i \in Queued' : outcome'[i] = outcome[i],
           \A i \in TxIds : outcome'[i] <= 1,
           \A w \in Workers : \A i \in InHand(w) : outcome'[i] = outcome[i]
    PROVE  SearchedOnce'
  <1>1. \A w \in Workers : Left(w)' = Left(w) /\ InHand(w)' = InHand(w)
    BY Zenon DEF Left, InHand
  <1>2. \A w \in Workers :
          /\ \A k, l \in Left(w)' : worker'[w].batch[k] = worker'[w].batch[l] => k = l
          /\ \A v \in Workers \ {w} : InHand(v)' \cap InHand(w)' = {}
    <2>1. \A w \in Workers :
            /\ \A k, l \in Left(w) : worker[w].batch[k] = worker[w].batch[l] => k = l
            /\ \A v \in Workers \ {w} : InHand(v) \cap InHand(w) = {}
      BY Zenon DEF SearchedOnce
    <2> QED BY <1>1, <2>1, Zenon
  <1>3. \A w \in Workers : InHand(w)' \cap Queued' = {}
    <2>1. \A w \in Workers : InHand(w) \cap Queued = {}
      BY Zenon DEF SearchedOnce
    <2> QED BY <1>1, <2>1, Zenon
  <1>4. \A i \in Queued' \cup UNION {InHand(w)' : w \in Workers} : outcome'[i] = 0
    <2>1. \A i \in Queued : outcome[i] = 0
      BY Zenon DEF SearchedOnce
    <2>2. \A w \in Workers : \A i \in InHand(w) : outcome[i] = 0
      BY Zenon DEF SearchedOnce
    <2>3. \A i \in Queued' : outcome'[i] = 0
      BY <2>1, Zenon
    <2>4. \A w \in Workers : \A i \in InHand(w)' : outcome'[i] = 0
      BY <1>1, <2>2, Zenon
    <2> QED BY <2>3, <2>4, Zenon
  <1> QED BY <1>2, <1>3, <1>4, Zenon DEF SearchedOnce, TxIds

(* What the dispatcher leaves alone: the maps, the workers, the receiver.  *)
LEMMA DispatcherMoves ==
    ASSUME DetectorInd, UNCHANGED maps, UNCHANGED <<worker, channel, received>>
    PROVE  /\ ChannelTypes' /\ PoolsInd' /\ WorkersInd' /\ StepsJoin' /\ IdsInd' /\ IdsDistinct'
           /\ Sent' = Sent
  <1>0. worker' = worker /\ channel' = channel /\ received' = received
    BY Zenon
  <1>1. ChannelTypes /\ PoolsInd /\ WorkersInd /\ StepsJoin /\ IdsInd /\ IdsDistinct
    BY IndParts, Zenon
  <1>2. PoolsInd' /\ \A o : Joins(pools, o) => Joins(pools', o)
    BY <1>1, PoolsFrame, Zenon
  <1>3. WorkersInd' /\ StepsJoin'
    BY <1>0, <1>1, <1>2, WorkersFrame, JoinFrame, Zenon
  <1>4. Sent' = Sent
    BY <1>0, Zenon DEF Sent
  <1>5. ChannelTypes' /\ IdsInd' /\ IdsDistinct'
    BY <1>0, <1>1, <1>4, Zenon DEF ChannelTypes, IdsInd, IdsDistinct
  <1> QED BY <1>2, <1>3, <1>4, <1>5, Zenon

LEMMA DispatchCheckKeeps == ASSUME DetectorInd, DispatchCheck PROVE DetectorInd'
  <1>0. /\ dispatcher.pc = "check"
        /\ dispatcher' = [dispatcher EXCEPT !.pc = IF running THEN "recv" ELSE "done"]
        /\ UNCHANGED maps /\ UNCHANGED <<worker, channel, received>>
        /\ running' = running /\ input' = input /\ work' = work /\ stats' = stats
        /\ outcome' = outcome
    BY Zenon DEF DispatchCheck
  <1>1. DispatcherTypes /\ DispatchInd /\ SearchedOnce /\ CountersAgree
    BY IndParts, Zenon
  <1>2. dispatcher \in [pc : DispatcherPcs, tx : TxIds \cup {None}]
    BY <1>1, Zenon DEF DispatcherTypes
  <1>3. /\ dispatcher' \in [pc : DispatcherPcs, tx : TxIds \cup {None}]
        /\ dispatcher'.tx = dispatcher.tx /\ dispatcher'.pc \in {"recv", "done"}
    BY <1>0, <1>2 DEF DispatcherPcs
  <1>4. dispatcher.tx = None
    BY <1>0, <1>1 DEF DispatchInd
  <1>5. /\ ChannelTypes' /\ PoolsInd' /\ WorkersInd' /\ StepsJoin' /\ IdsInd' /\ IdsDistinct'
        /\ Sent' = Sent
    BY <1>0, DispatcherMoves, Zenon
  <1>6. DispatcherTypes'
    BY <1>0, <1>1, <1>3, Zenon DEF DispatcherTypes
  <1>7. worker' = worker /\ channel' = channel
    BY <1>0, Zenon
  <1>8. SearchedOnce' /\ CountersAgree'
    BY <1>0, <1>1, <1>3, <1>5, <1>7, OnceFrame, CountersFrame, Zenon
  <1>9. DispatchInd'
    <2>1. Len(work') <= WorkCap /\ Len(channel'.queue) <= OppCap
      BY <1>0, <1>1, <1>7, Zenon DEF DispatchInd
    <2>2. dispatcher'.pc # "off" /\ dispatcher'.pc # "send" /\ dispatcher'.tx = None
      BY <1>3, <1>4
    <2> QED BY <1>0, <1>1, <1>7, <2>1, <2>2, DispatchFrame, Zenon
  <1> QED BY <1>5, <1>6, <1>8, <1>9, Zenon DEF DetectorInd

LEMMA TxIdsAreNot == None \notin TxIds /\ TxIds \subseteq Nat /\ -1 \notin TxIds
  BY DetectorAssumption DEF TxIds, None

(* recv_timeout takes the next transaction, or finds none.                 *)
LEMMA DispatchRecvKeeps == ASSUME DetectorInd, DispatchRecv PROVE DetectorInd'
  <1>0. /\ dispatcher.pc = "recv" /\ UNCHANGED maps /\ UNCHANGED <<worker, channel, received>>
        /\ running' = running /\ work' = work /\ outcome' = outcome
        /\ worker' = worker /\ channel' = channel
    BY Zenon DEF DispatchRecv
  <1>1. DispatcherTypes /\ DispatchInd /\ SearchedOnce /\ CountersAgree
    BY IndParts, Zenon
  <1>2. /\ dispatcher \in [pc : DispatcherPcs, tx : TxIds \cup {None}] /\ input \in Seq(TxIds)
        /\ stats \in [processed : Nat, found : Nat, profitable : Nat]
    BY <1>1, Zenon DEF DispatcherTypes
  <1>3. dispatcher.tx = None
    BY <1>0, <1>1 DEF DispatchInd
  <1>4. /\ ChannelTypes' /\ PoolsInd' /\ WorkersInd' /\ StepsJoin' /\ IdsInd' /\ IdsDistinct'
        /\ Sent' = Sent
    BY <1>0, DispatcherMoves, Zenon
  <1>5. Len(work') <= WorkCap /\ Len(channel'.queue) <= OppCap
    BY <1>0, <1>1, Zenon DEF DispatchInd
  <1>6. CASE input # <<>>
    <2>1. /\ dispatcher' = [pc |-> "send", tx |-> Head(input)] /\ input' = Tail(input)
          /\ stats' = [stats EXCEPT !.processed = @ + 1]
      BY <1>6, Zenon DEF DispatchRecv
    <2>2. Head(input) \in TxIds /\ Tail(input) \in Seq(TxIds)
      BY <1>2, <1>6, TailOf, Zenon
    <2>3. /\ dispatcher' \in [pc : DispatcherPcs, tx : TxIds \cup {None}]
          /\ dispatcher'.pc = "send" /\ dispatcher'.tx = Head(input) /\ Head(input) # None
      BY <2>1, <2>2, TxIdsAreNot DEF DispatcherPcs
    <2>4. /\ stats' \in [processed : Nat, found : Nat, profitable : Nat]
          /\ stats'.found = stats.found /\ stats'.profitable = stats.profitable
      BY <1>2, <2>1
    <2>5. DispatcherTypes'
      BY <1>0, <1>1, <2>1, <2>2, <2>3, <2>4, Zenon DEF DispatcherTypes
    <2>6. CountersAgree'
      BY <1>0, <1>1, <1>4, <2>4, CountersFrame, Zenon
    <2>7. DispatchInd'
      BY <1>0, <1>1, <1>5, <2>3, DispatchFrame
    <2>8. SearchedOnce'
      <3>1. /\ IsInjective(input) /\ IsInjective(work) /\ Range(input) \cap Range(work) = {}
            /\ \A i \in TxIds : outcome[i] <= 1
        BY <1>1, Zenon DEF SearchedOnce, TxIds
      <3>2. /\ IsInjective(Tail(input)) /\ Range(Tail(input)) = Range(input) \ {Head(input)}
            /\ Head(input) \in Range(input)
        BY <1>2, <1>6, <3>1, TailInjective, Zenon
      <3>3. Queued' \subseteq Queued
        BY <1>0, <2>1, <2>3, <3>2, Zenon DEF Queued
      <3>4. Range(input') \cap Range(work') = {} /\ dispatcher'.tx \notin Range(input') \cup Range(work')
        BY <1>0, <2>1, <2>3, <3>1, <3>2, Zenon
      <3> QED BY <1>0, <1>1, <2>1, <3>1, <3>2, <3>3, <3>4, QueueMoves, Zenon
    <2> QED BY <1>4, <2>5, <2>6, <2>7, <2>8, Zenon DEF DetectorInd
  <1>7. CASE input = <<>>
    <2>1. /\ dispatcher' = [dispatcher EXCEPT !.pc = "check"] /\ input' = input /\ stats' = stats
      BY <1>7, Zenon DEF DispatchRecv
    <2>2. /\ dispatcher' \in [pc : DispatcherPcs, tx : TxIds \cup {None}]
          /\ dispatcher'.pc = "check" /\ dispatcher'.tx = dispatcher.tx
      BY <1>2, <2>1 DEF DispatcherPcs
    <2>3. DispatcherTypes'
      BY <1>0, <1>1, <2>1, <2>2, Zenon DEF DispatcherTypes
    <2>4. SearchedOnce' /\ CountersAgree'
      BY <1>0, <1>1, <1>4, <2>1, <2>2, OnceFrame, CountersFrame, Zenon
    <2>5. DispatchInd'
      BY <1>0, <1>1, <1>3, <1>5, <2>2, DispatchFrame
    <2> QED BY <1>4, <2>3, <2>4, <2>5, Zenon DEF DetectorInd
  <1> QED BY <1>6, <1>7, Zenon

LEMMA PlacesOfTxs ==
    ASSUME DetectorInd
    PROVE  Queued \subseteq TxIds /\ \A w \in Workers : InHand(w) \subseteq TxIds
  <1>1. /\ input \in Seq(TxIds) /\ work \in Seq(TxIds) /\ WorkersInd
        /\ dispatcher \in [pc : DispatcherPcs, tx : TxIds \cup {None}]
    BY IndParts, Zenon DEF DispatcherTypes
  <1>2. Queued \subseteq TxIds
    <2>1. Range(input) \subseteq TxIds /\ Range(work) \subseteq TxIds
      BY <1>1, RangeOf, Zenon
    <2>2. dispatcher.tx \in TxIds \cup {None}
      BY <1>1
    <2> QED BY <2>1, <2>2, Zenon DEF Queued
  <1>3. ASSUME NEW w \in Workers PROVE InHand(w) \subseteq TxIds
    <2>1. worker[w].batch \in Seq(TxIds) /\ worker[w].pos \in Nat /\ worker[w].pos >= 1
      BY <1>1, ThreadFields, Zenon DEF WorkersInd, ThreadInd
    <2> QED BY <2>1 DEF InHand, Left
  <1> QED BY <1>2, <1>3, Zenon

(* A blocking send: the transaction joins the work channel, or is dropped  *)
(* when no worker is left.                                                 *)
LEMMA DispatchSendKeeps == ASSUME DetectorInd, DispatchSend PROVE DetectorInd'
  <1> DEFINE tx == dispatcher.tx
  <1>0. /\ dispatcher.pc = "send" /\ UNCHANGED maps /\ UNCHANGED <<worker, channel, received>>
        /\ running' = running /\ input' = input /\ stats' = stats
        /\ worker' = worker /\ channel' = channel
        /\ dispatcher' = [pc |-> "check", tx |-> None]
        /\ Disconnected \/ Len(work) < WorkCap
    BY Zenon DEF DispatchSend
  <1>1. DispatcherTypes /\ DispatchInd /\ SearchedOnce /\ CountersAgree
    BY IndParts, Zenon
  <1>2. /\ dispatcher \in [pc : DispatcherPcs, tx : TxIds \cup {None}] /\ work \in Seq(TxIds)
        /\ outcome \in [TxIds -> Int]
    BY <1>1, Zenon DEF DispatcherTypes
  <1>3. tx \in TxIds /\ tx # None
    BY <1>0, <1>1, <1>2 DEF DispatchInd
  <1>4. /\ ChannelTypes' /\ PoolsInd' /\ WorkersInd' /\ StepsJoin' /\ IdsInd' /\ IdsDistinct'
        /\ Sent' = Sent
    BY <1>0, DispatcherMoves, Zenon
  <1>5. Len(work) <= WorkCap /\ Len(channel'.queue) <= OppCap
    BY <1>0, <1>1, Zenon DEF DispatchInd
  <1>6. /\ dispatcher' \in [pc : DispatcherPcs, tx : TxIds \cup {None}]
        /\ dispatcher'.pc = "check" /\ dispatcher'.tx = None
    BY <1>0 DEF DispatcherPcs
  <1>7. /\ IsInjective(input) /\ IsInjective(work) /\ Range(input) \cap Range(work) = {}
        /\ tx \notin Range(input) /\ tx \notin Range(work) /\ tx \in Queued /\ outcome[tx] = 0
        /\ \A w \in Workers : InHand(w) \cap Queued = {}
        /\ \A i \in TxIds : outcome[i] <= 1
    BY <1>1, <1>3, Zenon DEF SearchedOnce, Queued, TxIds
  <1>8. None \notin Range(input) /\ None \notin Range(work)
    <2>1. input \in Seq(TxIds)
      BY <1>1, Zenon DEF DispatcherTypes
    <2> QED BY <1>2, <2>1, RangeOf, TxIdsAreNot, Zenon
  <1>9. CASE Disconnected
    <2>1. outcome' = [outcome EXCEPT ![tx] = None] /\ work' = work
      BY <1>9, Zenon DEF DispatchSend
    <2>2. /\ outcome' \in [TxIds -> Int] /\ outcome'[tx] = None
          /\ \A i \in TxIds : i # tx => outcome'[i] = outcome[i]
      BY <1>2, <1>3, <2>1 DEF None
    <2>3. DispatcherTypes'
      BY <1>0, <1>1, <1>6, <2>1, <2>2, Zenon DEF DispatcherTypes
    <2>4. CountersAgree'
      <3>1. \A i \in TxIds : outcome'[i] = 1 <=> outcome[i] = 1
        BY <1>7, <2>2 DEF None
      <3>2. {i \in DOMAIN Txs : Txs[i].is_swap /\ outcome'[i] = 1}
              = {i \in DOMAIN Txs : Txs[i].is_swap /\ outcome[i] = 1}
        BY <3>1, Zenon DEF TxIds
      <3> QED BY <1>0, <1>1, <1>4, <3>2, Zenon DEF CountersAgree
    <2>5. DispatchInd'
      <3>1. Disconnected'
        BY <1>0, <1>9, Zenon DEF Disconnected
      <3> QED BY <1>5, <1>6, <2>1, <3>1 DEF DispatchInd
    <2>6. SearchedOnce'
      <3>1. Queued' \subseteq Queued /\ tx \notin Queued'
        BY <1>0, <1>6, <1>7, <2>1, Zenon DEF Queued
      <3>2. Queued \subseteq TxIds /\ \A w \in Workers : InHand(w) \subseteq TxIds
        BY PlacesOfTxs, Zenon
      <3>3. \A i \in Queued' : outcome'[i] = outcome[i]
        BY <2>2, <3>1, <3>2, Zenon
      <3>4. \A w \in Workers : \A i \in InHand(w) : outcome'[i] = outcome[i]
        BY <1>7, <2>2, <3>2, Zenon
      <3>5. \A i \in TxIds : outcome'[i] <= 1
        BY <1>7, <2>2 DEF None
      <3>6. dispatcher'.tx \notin Range(input') \cup Range(work')
        BY <1>0, <1>6, <1>8, <2>1, Zenon
      <3> QED BY <1>0, <1>1, <1>7, <2>1, <3>1, <3>3, <3>4, <3>5, <3>6, QueueMoves, Zenon
    <2> QED BY <1>4, <2>3, <2>4, <2>5, <2>6, Zenon DEF DetectorInd
  <1>10. CASE ~Disconnected
    <2>1. outcome' = outcome /\ work' = Append(work, tx) /\ Len(work) < WorkCap
      BY <1>0, <1>10, Zenon DEF DispatchSend
    <2>2. work' \in Seq(TxIds) /\ Len(work') <= WorkCap
      BY <1>2, <1>3, <2>1, DetectorAssumption
    <2>3. DispatcherTypes'
      BY <1>0, <1>1, <1>6, <2>1, <2>2, Zenon DEF DispatcherTypes
    <2>4. CountersAgree'
      BY <1>0, <1>1, <1>4, <2>1, CountersFrame, Zenon
    <2>5. DispatchInd'
      BY <1>0, <1>1, <1>5, <1>6, <2>1, <2>2, DispatchFrame
    <2>6. SearchedOnce'
      <3>0. IsInjective(work') /\ Range(work') = Range(work) \cup {tx}
        <4>1. work \in Seq(TxIds) /\ tx \in TxIds /\ IsInjective(work) /\ tx \notin Range(work)
          BY <1>2, <1>3, <1>7, Zenon
        <4> HIDE DEF tx
        <4>2. IsInjective(Append(work, tx)) /\ Range(Append(work, tx)) = Range(work) \cup {tx}
          BY <4>1, AppendInjective, Zenon
        <4> QED BY <2>1, <4>2, Zenon
      <3>1. Queued' \subseteq Queued
        BY <1>0, <1>3, <1>6, <3>0, Zenon DEF Queued
      <3>2. Range(input') \cap Range(work') = {}
        BY <1>0, <1>7, <3>0, Zenon
      <3>3. dispatcher'.tx \notin Range(input') \cup Range(work')
        BY <1>0, <1>3, <1>6, <1>8, <3>0, Zenon
      <3> QED BY <1>0, <1>1, <1>7, <2>1, <3>0, <3>1, <3>2, <3>3, QueueMoves, Zenon
    <2> QED BY <1>4, <2>3, <2>4, <2>5, <2>6, Zenon DEF DetectorInd
  <1> QED BY <1>9, <1>10, Zenon

-----------------------------------------------------------------------------
(* A worker's steps.                                                       *)

(* A step of one worker that sends nothing.                                *)
LEMMA WorkerMoves ==
    ASSUME DetectorInd, NEW w \in Workers, NEW r, worker' = [worker EXCEPT ![w] = r],
           ThreadInd(pools, w, r), worker[w].id <= r.id,
           UNCHANGED maps, UNCHANGED <<channel, received>>
    PROVE  /\ ChannelTypes' /\ PoolsInd' /\ WorkersInd' /\ StepsJoin' /\ IdsInd' /\ IdsDistinct'
           /\ Sent' = Sent /\ worker'[w] = r
           /\ \A v \in Workers : v # w => worker'[v] = worker[v]
  <1>0. channel' = channel /\ received' = received /\ pools' = pools
    BY Zenon DEF maps
  <1>1. ChannelTypes /\ PoolsInd /\ WorkersInd /\ StepsJoin /\ IdsInd /\ IdsDistinct
    BY IndParts, Zenon
  <1>2. worker \in [Workers -> Thread] /\ r \in Thread
    BY <1>1, Zenon DEF WorkersInd, ThreadInd
  <1>3. /\ worker' \in [Workers -> Thread] /\ worker'[w] = r
        /\ \A v \in Workers : v # w => worker'[v] = worker[v]
    BY <1>2, Zenon
  <1>4. WorkersInd'
    BY <1>0, <1>1, <1>3, Zenon DEF WorkersInd
  <1>5. Sent' = Sent
    BY <1>0, Zenon DEF Sent
  <1>6. \A v \in Workers : worker[v].id <= worker'[v].id
    <2> SUFFICES ASSUME NEW v \in Workers PROVE worker[v].id <= worker'[v].id
      OBVIOUS
    <2>1. worker[v].id \in Nat
      BY <1>2, ThreadFields, Zenon
    <2>2. worker[v].id <= worker[v].id
      BY <2>1
    <2> QED BY <1>3, <2>2, Zenon
  <1>7. IdsInd' /\ IdsDistinct'
    BY <1>1, <1>4, <1>5, <1>6, IdsFrame, Zenon
  <1>8. PoolsInd' /\ StepsJoin' /\ ChannelTypes'
    <2>1. PoolsInd' /\ StepsJoin'
      BY <1>1, PoolsFrame, JoinFrame, Zenon
    <2> QED BY <1>0, <1>1, <2>1, Zenon DEF ChannelTypes
  <1> QED BY <1>3, <1>4, <1>5, <1>7, <1>8, Zenon

(* While a worker runs, nothing was dropped.                               *)
LEMMA WorkerDispatch ==
    ASSUME DispatchInd, NEW w \in Workers, worker[w].pc \notin Ended, worker[w].pc # "off",
           UNCHANGED dispatcher, Len(work') <= WorkCap, Len(channel'.queue) <= OppCap,
           \A i \in TxIds : outcome'[i] = None => outcome[i] = None
    PROVE  DispatchInd'
  <1>1. ~Disconnected /\ dispatcher.pc # "off"
    BY Zenon DEF Disconnected, DispatchInd
  <1>2. \A i \in TxIds : outcome'[i] # None
    BY <1>1, Zenon DEF DispatchInd
  <1>3. dispatcher' = dispatcher
    OBVIOUS
  <1> QED BY <1>1, <1>2, <1>3, Zenon DEF DispatchInd

(* A worker takes transactions from the work channel or finishes its own.  *)
LEMMA WorkerOnce ==
    ASSUME DetectorInd, NEW w \in Workers, UNCHANGED <<input, dispatcher>>,
           \A v \in Workers : v # w => worker'[v] = worker[v],
           IsInjective(work'), Range(work') \subseteq Range(work),
           InHand(w)' \subseteq InHand(w) \cup (Range(work) \ Range(work')),
           \A k, l \in Left(w)' : worker'[w].batch[k] = worker'[w].batch[l] => k = l,
           \A i \in TxIds : outcome'[i] <= 1,
           \A i \in TxIds : outcome'[i] # outcome[i] => i \in InHand(w) /\ i \notin InHand(w)'
    PROVE  SearchedOnce'
  <1>0. input' = input /\ dispatcher' = dispatcher
    BY Zenon
  <1>1. SearchedOnce
    BY IndParts, Zenon
  <1>2. /\ IsInjective(input) /\ Range(input) \cap Range(work) = {}
        /\ dispatcher.tx \notin Range(input) \cup Range(work)
    BY <1>1, Zenon DEF SearchedOnce
  <1>3. /\ \A v \in Workers : InHand(v) \cap Queued = {}
        /\ \A u, v \in Workers : u # v => InHand(u) \cap InHand(v) = {}
    BY <1>1, Zenon DEF SearchedOnce
  <1>4. /\ \A i \in Queued : outcome[i] = 0
        /\ \A v \in Workers : \A i \in InHand(v) : outcome[i] = 0
    <2>1. \A i \in Queued \cup UNION {InHand(v) : v \in Workers} : outcome[i] = 0
      BY <1>1, Zenon DEF SearchedOnce
    <2> QED BY <2>1, Zenon
  <1>5. \A v \in Workers : \A k, l \in Left(v) : worker[v].batch[k] = worker[v].batch[l] => k = l
    BY <1>1, Zenon DEF SearchedOnce
  <1>6. Queued \subseteq TxIds /\ \A v \in Workers : InHand(v) \subseteq TxIds
    BY PlacesOfTxs, Zenon
  <1>7. Range(work) \subseteq Queued /\ Queued' \subseteq Queued /\ Queued' \cap (Range(work) \ Range(work')) = {}
    <2>1. Range(work) \subseteq Queued /\ Queued' \subseteq Queued
      BY <1>0, Zenon DEF Queued
    <2>2. ASSUME NEW i \in Queued', i \in Range(work), i \notin Range(work') PROVE FALSE
      BY <1>0, <1>2, <2>2, Zenon DEF Queued
    <2> QED BY <2>1, <2>2, Zenon
  <1>8. \A v \in Workers : v # w => Left(v)' = Left(v) /\ InHand(v)' = InHand(v)
    <2> SUFFICES ASSUME NEW v \in Workers, v # w
                 PROVE  Left(v)' = Left(v) /\ InHand(v)' = InHand(v)
      BY Zenon
    <2>1. worker'[v] = worker[v]
      BY Zenon
    <2> QED BY <2>1 DEF Left, InHand
  <1>9. \A v \in Workers : \A k, l \in Left(v)' :
          worker'[v].batch[k] = worker'[v].batch[l] => k = l
    <2> SUFFICES ASSUME NEW v \in Workers, v # w
                 PROVE  \A k, l \in Left(v)' : worker'[v].batch[k] = worker'[v].batch[l] => k = l
      BY Zenon
    <2>1. worker'[v] = worker[v] /\ Left(v)' = Left(v)
      BY <1>8, Zenon
    <2> QED BY <1>5, <2>1
  <1>10. \A v \in Workers : InHand(v)' \cap Queued' = {}
    <2>1. ASSUME NEW v \in Workers, v # w PROVE InHand(v)' \cap Queued' = {}
      <3>1. InHand(v)' = InHand(v) /\ InHand(v) \cap Queued = {}
        BY <1>3, <1>8, <2>1, Zenon
      <3> QED BY <1>7, <3>1, Zenon
    <2>2. InHand(w) \cap Queued' = {}
      BY <1>3, <1>7, Zenon
    <2>3. InHand(w)' \cap Queued' = {}
      BY <1>7, <2>2, Zenon
    <2> QED BY <2>1, <2>3, Zenon
  <1>11. \A u, v \in Workers : u # v => InHand(u)' \cap InHand(v)' = {}
    <2>1. ASSUME NEW v \in Workers, v # w PROVE InHand(v)' \cap InHand(w)' = {}
      <3>1. InHand(v)' = InHand(v) /\ InHand(v) \cap InHand(w) = {} /\ InHand(v) \cap Queued = {}
        BY <1>3, <1>8, <2>1, Zenon
      <3>2. InHand(w)' \subseteq InHand(w) \cup Queued
        BY <1>7, Zenon
      <3> QED BY <3>1, <3>2, Zenon
    <2> SUFFICES ASSUME NEW u \in Workers, NEW v \in Workers, u # v
                 PROVE  InHand(u)' \cap InHand(v)' = {}
      BY Zenon
    <2>2. CASE u = w \/ v = w
      BY <2>1, <2>2, Zenon
    <2>3. CASE u # w /\ v # w
      <3>1. InHand(u)' = InHand(u) /\ InHand(v)' = InHand(v) /\ InHand(u) \cap InHand(v) = {}
        BY <1>3, <1>8, <2>3, Zenon
      <3> QED BY <3>1, Zenon
    <2> QED BY <2>2, <2>3, Zenon
  <1>12. \A i \in Queued' : outcome'[i] = 0
    BY <1>3, <1>4, <1>6, <1>7, Zenon
  <1>13. \A v \in Workers : \A i \in InHand(v)' : outcome'[i] = 0
    <2>1. \A i \in InHand(w)' : outcome'[i] = 0
      BY <1>4, <1>6, <1>7, Zenon
    <2>2. ASSUME NEW v \in Workers, v # w, NEW i \in InHand(v)' PROVE outcome'[i] = 0
      <3>1. i \in InHand(v) /\ i \in TxIds /\ outcome[i] = 0 /\ i \notin InHand(w)
        BY <1>3, <1>4, <1>6, <1>8, <2>2, Zenon
      <3> QED BY <3>1, Zenon
    <2> QED BY <2>1, <2>2, Zenon
  <1>14. /\ IsInjective(input') /\ Range(input') \cap Range(work') = {}
         /\ dispatcher'.tx \notin Range(input') \cup Range(work')
    BY <1>0, <1>2, Zenon
  <1>15. \A i \in Queued' \cup UNION {InHand(v)' : v \in Workers} : outcome'[i] = 0
    <2>1. ASSUME NEW i \in UNION {InHand(v)' : v \in Workers} PROVE outcome'[i] = 0
      <3>1. PICK v \in Workers : i \in InHand(v)'
        BY Zenon
      <3> QED BY <1>13, <3>1, Zenon
    <2> QED BY <1>12, <2>1, Zenon
  <1> QED BY <1>9, <1>10, <1>11, <1>14, <1>15, Zenon DEF SearchedOnce, TxIds

(* A step of one worker within a transaction.                              *)
LEMMA WorkerQuiet ==
    ASSUME DetectorInd, NEW w \in Workers, NEW r, worker' = [worker EXCEPT ![w] = r],
           ThreadInd(pools, w, r), worker[w].id <= r.id,
           r.batch = worker[w].batch, r.pos = worker[w].pos,
           worker[w].pc \notin Ended, worker[w].pc # "off",
           (r.pc = "send") <=> (worker[w].pc = "send"), UNCHANGED maps,
           UNCHANGED <<running, input, dispatcher, work, channel, received, stats, outcome>>
    PROVE  DetectorInd'
  <1>0. /\ running' = running /\ input' = input /\ dispatcher' = dispatcher /\ work' = work
        /\ channel' = channel /\ received' = received /\ stats' = stats /\ outcome' = outcome
    BY Zenon
  <1>1. DispatcherTypes /\ DispatchInd /\ SearchedOnce /\ CountersAgree
    BY IndParts, Zenon
  <1>2. /\ ChannelTypes' /\ PoolsInd' /\ WorkersInd' /\ StepsJoin' /\ IdsInd' /\ IdsDistinct'
        /\ Sent' = Sent /\ worker'[w] = r
        /\ \A v \in Workers : v # w => worker'[v] = worker[v]
    BY <1>0, WorkerMoves, Zenon
  <1>3. DispatcherTypes'
    BY <1>0, <1>1, Zenon DEF DispatcherTypes
  <1>4. DispatchInd'
    <2>1. Len(work') <= WorkCap /\ Len(channel'.queue) <= OppCap
      BY <1>0, <1>1, Zenon DEF DispatchInd
    <2> QED BY <1>0, <1>1, <2>1, WorkerDispatch, Zenon
  <1>5. \A v \in Workers : /\ worker'[v].batch = worker[v].batch /\ worker'[v].pos = worker[v].pos
                           /\ (worker'[v].pc = "send") <=> (worker[v].pc = "send")
    <2> SUFFICES ASSUME NEW v \in Workers
                 PROVE  /\ worker'[v].batch = worker[v].batch /\ worker'[v].pos = worker[v].pos
                        /\ (worker'[v].pc = "send") <=> (worker[v].pc = "send")
      BY Zenon
    <2> QED BY <1>2
  <1>6. SearchedOnce' /\ CountersAgree'
    BY <1>0, <1>1, <1>2, <1>5, OnceFrame, CountersFrame, Zenon
  <1> QED BY <1>2, <1>3, <1>4, <1>6, Zenon DEF DetectorInd

LEMMA WorkerOf ==
    ASSUME DetectorInd, NEW w \in Workers
    PROVE  /\ worker \in [Workers -> Thread] /\ worker[w] \in Thread
           /\ ThreadInd(pools, w, worker[w])
  BY IndParts, Zenon DEF WorkersInd

(* The flag is read: the batch is cleared.                                 *)
LEMMA WorkerCheckKeeps ==
    ASSUME DetectorInd, NEW w \in Workers, WorkerCheck(w) PROVE DetectorInd'
  <1> DEFINE r == [worker[w] EXCEPT !.pc = IF running THEN "collect" ELSE "done",
                                    !.batch = <<>>, !.pos = 1]
  <1>0. /\ worker[w].pc = "check" /\ UNCHANGED maps
        /\ running' = running /\ input' = input /\ dispatcher' = dispatcher /\ work' = work
        /\ channel' = channel /\ received' = received /\ stats' = stats /\ outcome' = outcome
    BY Zenon DEF WorkerCheck
  <1>1. DispatcherTypes /\ DispatchInd /\ SearchedOnce /\ CountersAgree
    BY IndParts, Zenon
  <1>2. /\ worker \in [Workers -> Thread] /\ worker[w] \in Thread
        /\ ThreadInd(pools, w, worker[w])
    BY WorkerOf, Zenon
  <1>3. worker' = [worker EXCEPT ![w] = r]
    BY <1>2 DEF WorkerCheck
  <1>4. /\ r \in Thread /\ r.pc \in {"collect", "done"} /\ r.batch = <<>> /\ r.pos = 1
        /\ r.hop = worker[w].hop /\ r.opps = worker[w].opps /\ r.id = worker[w].id
    <2>1. <<>> \in Seq(TxIds) /\ 1 \in Nat
      BY EmptySeq
    <2> QED BY <1>2, <2>1 DEF Thread, WorkerPcs
  <1> HIDE DEF r
  <1>5. BatchSize \in Nat /\ worker[w].id \in Nat
    BY <1>2, ThreadFields, DetectorAssumption
  <1>6. ThreadInd(pools, w, r) /\ worker[w].id <= r.id
    BY <1>2, <1>4, <1>5 DEF ThreadInd
  <1>7. /\ ChannelTypes' /\ PoolsInd' /\ WorkersInd' /\ StepsJoin' /\ IdsInd' /\ IdsDistinct'
        /\ Sent' = Sent /\ worker'[w] = r
        /\ \A v \in Workers : v # w => worker'[v] = worker[v]
    BY <1>0, <1>3, <1>6, WorkerMoves, Zenon
  <1>8. DispatcherTypes'
    BY <1>0, <1>1, Zenon DEF DispatcherTypes
  <1>9. DispatchInd'
    <2>1. Len(work') <= WorkCap /\ Len(channel'.queue) <= OppCap
      BY <1>0, <1>1, Zenon DEF DispatchInd
    <2>2. worker[w].pc \notin Ended /\ worker[w].pc # "off"
      BY <1>0 DEF Ended
    <2> QED BY <1>0, <1>1, <2>1, <2>2, WorkerDispatch, Zenon
  <1>10. SearchedOnce'
    <2>1. Left(w)' = {}
      BY <1>4, <1>7 DEF Left
    <2>2. InHand(w)' = {}
      BY <2>1, Zenon DEF InHand
    <2>3. IsInjective(work') /\ \A i \in TxIds : outcome'[i] <= 1
      BY <1>0, <1>1, Zenon DEF SearchedOnce, TxIds
    <2> QED BY <1>0, <1>7, <2>1, <2>2, <2>3, WorkerOnce, Zenon
  <1>11. CountersAgree'
    <2>1. \A v \in Workers : (worker'[v].pc = "send") <=> (worker[v].pc = "send")
      BY <1>0, <1>4, <1>7
    <2> QED BY <1>0, <1>1, <1>7, <2>1, CountersFrame, Zenon
  <1> QED BY <1>7, <1>8, <1>9, <1>10, <1>11, Zenon DEF DetectorInd

(* One try_recv: the head of the work channel joins the batch, or the      *)
(* collection ends.                                                        *)
LEMMA CollectKeeps ==
    ASSUME DetectorInd, NEW w \in Workers, Collect(w) PROVE DetectorInd'
  <1>0. /\ worker[w].pc = "collect" /\ UNCHANGED maps
        /\ running' = running /\ input' = input /\ dispatcher' = dispatcher
        /\ channel' = channel /\ received' = received /\ stats' = stats /\ outcome' = outcome
    BY Zenon DEF Collect
  <1>1. DispatcherTypes /\ DispatchInd /\ SearchedOnce /\ CountersAgree
    BY IndParts, Zenon
  <1>2. /\ worker \in [Workers -> Thread] /\ worker[w] \in Thread
        /\ ThreadInd(pools, w, worker[w])
    BY WorkerOf, Zenon
  <1>3. /\ worker[w].batch \in Seq(TxIds) /\ worker[w].id \in Nat /\ worker[w].pos = 1
        /\ BatchSize \in Nat /\ work \in Seq(TxIds)
        /\ worker[w].pc \notin Ended /\ worker[w].pc # "off"
    BY <1>0, <1>1, <1>2, ThreadFields, DetectorAssumption DEF ThreadInd, Ended, DispatcherTypes
  <1>4. CASE Len(worker[w].batch) < BatchSize /\ work # <<>>
    <2> DEFINE b == worker[w].batch
               h == Head(work)
               r == [worker[w] EXCEPT !.batch = Append(b, h)]
    <2>1. worker' = [worker EXCEPT ![w] = r] /\ work' = Tail(work)
      BY <1>2, <1>4 DEF Collect
    <2>2. h \in TxIds /\ Tail(work) \in Seq(TxIds) /\ Len(Tail(work)) = Len(work) - 1 /\ Len(work) \in Nat
      BY <1>3, <1>4, TailOf, Zenon
    <2>3. /\ IsInjective(b) /\ IsInjective(work) /\ b \in Seq(TxIds) /\ InHand(w) = Range(b)
          /\ Left(w) = DOMAIN b
      <3>1. Left(w) = DOMAIN b
        BY <1>3 DEF Left
      <3>2. \A k, l \in Left(w) : b[k] = b[l] => k = l
        BY <1>1, Zenon DEF SearchedOnce
      <3>3. IsInjective(b)
        BY <3>1, <3>2, Zenon DEF IsInjective
      <3>4. IsInjective(work)
        BY <1>1, Zenon DEF SearchedOnce
      <3>5. InHand(w) = Range(b)
        BY <3>1, Zenon DEF InHand, Range
      <3> QED BY <1>3, <3>1, <3>3, <3>4, <3>5, Zenon
    <2>4. /\ IsInjective(Tail(work)) /\ Range(Tail(work)) = Range(work) \ {h} /\ h \in Range(work)
      BY <1>3, <1>4, <2>3, TailInjective, Zenon
    <2>5. h \notin Range(b)
      <3>1. InHand(w) \cap Queued = {} /\ Range(work) \subseteq Queued
        BY <1>1, Zenon DEF SearchedOnce, Queued
      <3> QED BY <2>3, <2>4, <3>1, Zenon
    <2>6. Append(b, h) \in Seq(TxIds) /\ Len(Append(b, h)) = Len(b) + 1 /\ Len(b) \in Nat
      <3>1. h \in TxIds /\ b \in Seq(TxIds)
        BY <2>2, <2>3, Zenon
      <3> HIDE DEF b, h
      <3> QED BY <3>1
    <2>7. IsInjective(Append(b, h)) /\ Range(Append(b, h)) = Range(b) \cup {h}
      <3> HIDE DEF b, h
      <3>1. h \in TxIds /\ b \in Seq(TxIds) /\ IsInjective(b)
        BY <2>2, <2>3, Zenon
      <3> QED BY <2>5, <3>1, AppendInjective, Zenon
    <2>8. /\ r \in Thread /\ r.pc = "collect" /\ r.batch = Append(b, h) /\ r.pos = 1
          /\ r.hop = worker[w].hop /\ r.opps = worker[w].opps /\ r.id = worker[w].id
      <3> DEFINE ab == Append(b, h)
      <3>1. ab \in Seq(TxIds)
        BY <2>6, Zenon
      <3> HIDE DEF ab
      <3>2. r = [worker[w] EXCEPT !.batch = ab]
        BY Zenon DEF ab
      <3>3. /\ r \in Thread /\ r.pc = "collect" /\ r.batch = ab /\ r.pos = 1
            /\ r.hop = worker[w].hop /\ r.opps = worker[w].opps /\ r.id = worker[w].id
        BY <1>0, <1>2, <1>3, <3>1, <3>2 DEF Thread
      <3> QED BY <3>3, Zenon DEF ab
    <2> HIDE DEF b, h, r
    <2>9. ThreadInd(pools, w, r) /\ worker[w].id <= r.id
      <3>1. Len(r.batch) <= BatchSize
        BY <1>3, <1>4, <2>6, <2>8 DEF b
      <3> QED BY <1>2, <1>3, <2>8, <3>1 DEF ThreadInd
    <2>10. /\ ChannelTypes' /\ PoolsInd' /\ WorkersInd' /\ StepsJoin' /\ IdsInd' /\ IdsDistinct'
           /\ Sent' = Sent /\ worker'[w] = r
           /\ \A v \in Workers : v # w => worker'[v] = worker[v]
      BY <1>0, <2>1, <2>9, WorkerMoves, Zenon
    <2>11. DispatcherTypes'
      BY <1>0, <1>1, <2>1, <2>2, Zenon DEF DispatcherTypes
    <2>12. DispatchInd'
      <3>1. Len(work) <= WorkCap /\ Len(channel'.queue) <= OppCap
        BY <1>0, <1>1, Zenon DEF DispatchInd
      <3>2. Len(work') <= WorkCap
        BY <2>1, <2>2, <3>1, DetectorAssumption
      <3> QED BY <1>0, <1>1, <1>3, <3>1, <3>2, WorkerDispatch, Zenon
    <2>13. SearchedOnce'
      <3>1. Left(w)' = DOMAIN r.batch
        BY <2>6, <2>8, <2>10 DEF Left
      <3>2. InHand(w)' = Range(r.batch)
        BY <2>10, <3>1, Zenon DEF InHand, Range
      <3>3. InHand(w)' \subseteq InHand(w) \cup (Range(work) \ Range(work'))
        BY <2>1, <2>3, <2>4, <2>7, <2>8, <3>2, Zenon
      <3>4. \A k, l \in Left(w)' : worker'[w].batch[k] = worker'[w].batch[l] => k = l
        BY <2>7, <2>8, <2>10, <3>1, Zenon DEF IsInjective
      <3>5. \A i \in TxIds : outcome'[i] <= 1
        BY <1>0, <1>1, Zenon DEF SearchedOnce, TxIds
      <3>6. IsInjective(work') /\ Range(work') \subseteq Range(work)
        BY <2>1, <2>4, Zenon
      <3> QED BY <1>0, <2>10, <3>3, <3>4, <3>5, <3>6, WorkerOnce, Zenon
    <2>14. CountersAgree'
      <3>1. \A v \in Workers : (worker'[v].pc = "send") <=> (worker[v].pc = "send")
        BY <1>0, <2>8, <2>10
      <3> QED BY <1>0, <1>1, <2>10, <3>1, CountersFrame, Zenon
    <2> QED BY <2>10, <2>11, <2>12, <2>13, <2>14, Zenon DEF DetectorInd
  <1>5. CASE ~(Len(worker[w].batch) < BatchSize /\ work # <<>>)
    <2> DEFINE r == [worker[w] EXCEPT !.pc = IF worker[w].batch = <<>> THEN "check" ELSE "tx"]
    <2>1. worker' = [worker EXCEPT ![w] = r] /\ work' = work
      BY <1>2, <1>5 DEF Collect
    <2>2. /\ r \in Thread /\ r.pc \in {"check", "tx"} /\ r.batch = worker[w].batch
          /\ r.pos = worker[w].pos /\ r.hop = worker[w].hop /\ r.opps = worker[w].opps
          /\ r.id = worker[w].id
      BY <1>2 DEF Thread, WorkerPcs
    <2> HIDE DEF r
    <2>3. /\ ThreadInd(pools, w, r) /\ worker[w].id <= r.id
          /\ (r.pc = "send") <=> (worker[w].pc = "send")
      BY <1>0, <1>2, <1>3, <2>2 DEF ThreadInd
    <2> QED BY <1>0, <1>3, <2>1, <2>2, <2>3, WorkerQuiet, Zenon
  <1> QED BY <1>4, <1>5, Zenon

-----------------------------------------------------------------------------
(* Steps that count.                                                       *)

(* What the counting needs of finite sets: the last section shows it.      *)
FiniteFacts ==
    /\ Cardinality({}) = 0
    /\ \A S, e : IsFiniteSet(S) /\ e \notin S =>
          Cardinality(S) \in Nat /\ Cardinality(S \cup {e}) = Cardinality(S) + 1
    /\ \A S : S \subseteq TxIds => IsFiniteSet(S)
    /\ \A S : S \subseteq Workers => IsFiniteSet(S)
    /\ \A n \in Nat : \A S : S \subseteq 1 .. n => Cardinality(S) \in Nat

(* The transaction at hand is finished, and counted when it is a swap.     *)
LEMMA FinishKeeps ==
    ASSUME FiniteFacts, DetectorInd, NEW w \in Workers, worker[w].pc \in {"tx", "number"},
           worker[w].pos <= Len(worker[w].batch), NEW found \in {0, 1},
           (found = 1) <=> Txs[Tx(w)].is_swap, Finish(w, found), UNCHANGED maps,
           UNCHANGED <<running, input, dispatcher, work, channel, received>>
    PROVE  DetectorInd'
  <1> DEFINE tx == Tx(w)
             r == [worker[w] EXCEPT !.pc = "tx", !.pos = worker[w].pos + 1]
  <1>0. /\ running' = running /\ input' = input /\ dispatcher' = dispatcher /\ work' = work
        /\ channel' = channel /\ received' = received
        /\ outcome' = [outcome EXCEPT ![tx] = outcome[tx] + 1]
        /\ stats' = [stats EXCEPT !.found = stats.found + found]
    BY Zenon DEF Finish
  <1>1. DispatcherTypes /\ DispatchInd /\ SearchedOnce /\ CountersAgree
    BY IndParts, Zenon
  <1>2. /\ worker \in [Workers -> Thread] /\ worker[w] \in Thread
        /\ ThreadInd(pools, w, worker[w])
    BY WorkerOf, Zenon
  <1>3. /\ worker[w].batch \in Seq(TxIds) /\ worker[w].id \in Nat /\ worker[w].pos \in Nat
        /\ worker[w].pos >= 1 /\ worker[w].pc \notin Ended /\ worker[w].pc # "off"
    BY <1>2, ThreadFields DEF ThreadInd, Ended
  <1>4. worker' = [worker EXCEPT ![w] = r]
    BY <1>2 DEF Finish
  <1>5. /\ r \in Thread /\ r.pc = "tx" /\ r.batch = worker[w].batch
        /\ r.pos = worker[w].pos + 1 /\ r.hop = worker[w].hop /\ r.opps = worker[w].opps
        /\ r.id = worker[w].id
    <2> DEFINE p == worker[w].pos + 1
    <2>1. p \in Nat
      BY <1>3
    <2> HIDE DEF p
    <2>2. r = [worker[w] EXCEPT !.pc = "tx", !.pos = p]
      BY Zenon DEF p
    <2>3. /\ r \in Thread /\ r.pc = "tx" /\ r.batch = worker[w].batch
          /\ r.pos = p /\ r.hop = worker[w].hop /\ r.opps = worker[w].opps /\ r.id = worker[w].id
      BY <1>2, <2>1, <2>2 DEF Thread, WorkerPcs
    <2> QED BY <2>3, Zenon DEF p
  <1> HIDE DEF r
  <1>6. ThreadInd(pools, w, r) /\ worker[w].id <= r.id
    BY <1>2, <1>3, <1>5 DEF ThreadInd
  <1>7. /\ ChannelTypes' /\ PoolsInd' /\ WorkersInd' /\ StepsJoin' /\ IdsInd' /\ IdsDistinct'
        /\ Sent' = Sent /\ worker'[w] = r
        /\ \A v \in Workers : v # w => worker'[v] = worker[v]
    BY <1>0, <1>4, <1>6, WorkerMoves, Zenon
  <1>8. worker[w].pos \in Left(w) /\ tx \in TxIds /\ tx \in InHand(w)
    <2>1. worker[w].pos \in Left(w)
      BY <1>3 DEF Left
    <2>2. tx \in InHand(w)
      BY <2>1, Zenon DEF InHand, Tx
    <2> QED BY <2>1, <2>2, PlacesOfTxs, Zenon
  <1>9. outcome \in [TxIds -> Int] /\ outcome[tx] = 0 /\ \A i \in TxIds : outcome[i] <= 1
    <2>1. outcome \in [TxIds -> Int] /\ \A i \in TxIds : outcome[i] <= 1
      BY <1>1, Zenon DEF DispatcherTypes, SearchedOnce, TxIds
    <2>2. \A v \in Workers : \A i \in InHand(v) : outcome[i] = 0
      BY <1>1, Zenon DEF SearchedOnce
    <2> QED BY <1>8, <2>1, <2>2, Zenon
  <1> HIDE DEF tx
  <1>10. /\ outcome' \in [TxIds -> Int] /\ outcome'[tx] = 1
         /\ \A i \in TxIds : i # tx => outcome'[i] = outcome[i]
         /\ \A i \in TxIds : outcome'[i] <= 1
    BY <1>0, <1>8, <1>9
  <1>11. stats \in [processed : Nat, found : Nat, profitable : Nat]
    BY <1>1, Zenon DEF DispatcherTypes
  <1>12. /\ stats' \in [processed : Nat, found : Nat, profitable : Nat]
         /\ stats'.found = stats.found + found /\ stats'.profitable = stats.profitable
         /\ stats.found \in Nat
    BY <1>0, <1>11
  <1>13. DispatcherTypes'
    BY <1>0, <1>1, <1>10, <1>12, Zenon DEF DispatcherTypes
  <1>14. DispatchInd'
    <2>1. Len(work') <= WorkCap /\ Len(channel'.queue) <= OppCap
      BY <1>0, <1>1, Zenon DEF DispatchInd
    <2>2. 1 # None
      BY DEF None
    <2>3. \A i \in TxIds : outcome'[i] = None => outcome[i] = None
      BY <1>10, <2>2, Zenon
    <2> QED BY <1>0, <1>1, <1>3, <2>1, <2>3, WorkerDispatch, Zenon
  <1>15. SearchedOnce'
    <2>1. /\ \A k \in Left(w)' : k \in Left(w) /\ k # worker[w].pos
          /\ worker'[w].batch = worker[w].batch
      BY <1>3, <1>5, <1>7 DEF Left
    <2>2. \A k, l \in Left(w) : worker[w].batch[k] = worker[w].batch[l] => k = l
      BY <1>1, Zenon DEF SearchedOnce
    <2>3. InHand(w)' \subseteq InHand(w)
      BY <2>1, Zenon DEF InHand
    <2>4. tx \notin InHand(w)'
      <3> SUFFICES ASSUME NEW k \in Left(w)', worker'[w].batch[k] = tx PROVE FALSE
        BY Zenon DEF InHand
      <3>1. worker[w].batch[k] = worker[w].batch[worker[w].pos]
        BY <2>1, Zenon DEF tx, Tx
      <3> QED BY <1>8, <2>1, <2>2, <3>1, Zenon
    <2>5. \A k, l \in Left(w)' : worker'[w].batch[k] = worker'[w].batch[l] => k = l
      BY <2>1, <2>2, Zenon
    <2>6. IsInjective(work') /\ Range(work') \subseteq Range(work)
      BY <1>0, <1>1, Zenon DEF SearchedOnce
    <2>7. \A i \in TxIds : outcome'[i] # outcome[i] => i \in InHand(w) /\ i \notin InHand(w)'
      BY <1>8, <1>10, <2>4, Zenon
    <2> QED BY <1>0, <1>7, <1>10, <2>3, <2>5, <2>6, <2>7, WorkerOnce, Zenon
  <1>16. CountersAgree'
    <2> DEFINE S == {i \in DOMAIN Txs : Txs[i].is_swap /\ outcome[i] = 1}
               T == {i \in DOMAIN Txs : Txs[i].is_swap /\ outcome'[i] = 1}
    <2>1. S \subseteq TxIds /\ tx \notin S /\ IsFiniteSet(S)
      <3>1. S \subseteq TxIds /\ tx \notin S
        BY <1>9 DEF TxIds
      <3> HIDE DEF S
      <3> QED BY <3>1, Zenon DEF FiniteFacts
    <2>2. Cardinality(S) \in Nat /\ Cardinality(S \cup {tx}) = Cardinality(S) + 1
      <3> HIDE DEF S
      <3> QED BY <2>1, Zenon DEF FiniteFacts
    <2>3. /\ Txs[tx].is_swap => T = S \cup {tx}
          /\ ~Txs[tx].is_swap => T = S
      BY <1>8, <1>9, <1>10 DEF TxIds
    <2>4. {v \in Workers : worker'[v].pc = "send"} = {v \in Workers : worker[v].pc = "send"}
      BY <1>5, <1>7
    <2>5. stats.found = Cardinality(S)
      BY <1>1, Zenon DEF CountersAgree
    <2>6. stats'.found = Cardinality(T)
      <3> HIDE DEF S, T
      <3>1. CASE found = 1
        <4>1. T = S \cup {tx}
          BY <2>3, <3>1, Zenon DEF tx
        <4> QED BY <1>12, <2>2, <2>5, <3>1, <4>1
      <3>2. CASE found = 0
        <4>1. T = S
          BY <2>3, <3>2 DEF tx
        <4> QED BY <1>12, <2>5, <3>2, <4>1
      <3> QED BY <3>1, <3>2
    <2>7. channel'.open => stats'.profitable
            = Len(Sent') + Cardinality({v \in Workers : worker'[v].pc = "send"})
      BY <1>0, <1>1, <1>7, <1>12, <2>4, Zenon DEF CountersAgree
    <2> QED BY <2>6, <2>7, Zenon DEF CountersAgree
  <1> QED BY <1>7, <1>13, <1>14, <1>15, <1>16, Zenon DEF DetectorInd

(* The head of the loop over the batch.                                    *)
LEMMA NextTxKeeps ==
    ASSUME FiniteFacts, DetectorInd, NEW w \in Workers, NextTx(w) PROVE DetectorInd'
  <1>0. /\ worker[w].pc = "tx" /\ UNCHANGED maps
        /\ UNCHANGED <<running, input, dispatcher, work, channel, received>>
        /\ running' = running /\ input' = input /\ dispatcher' = dispatcher /\ work' = work
        /\ channel' = channel /\ received' = received
    BY Zenon DEF NextTx
  <1>1. /\ worker \in [Workers -> Thread] /\ worker[w] \in Thread
        /\ ThreadInd(pools, w, worker[w])
    BY WorkerOf, Zenon
  <1>2. /\ worker[w].batch \in Seq(TxIds) /\ worker[w].id \in Nat /\ worker[w].pos \in Nat
        /\ worker[w].pos >= 1 /\ worker[w].pc \notin Ended /\ worker[w].pc # "off"
    BY <1>0, <1>1, ThreadFields DEF ThreadInd, Ended
  <1>3. CASE worker' = [worker EXCEPT ![w].pc = "check"] /\ UNCHANGED <<stats, outcome>>
    <2> DEFINE r == [worker[w] EXCEPT !.pc = "check"]
    <2>1. worker' = [worker EXCEPT ![w] = r]
      BY <1>1, <1>3
    <2>2. /\ r \in Thread /\ r.pc = "check" /\ r.batch = worker[w].batch
          /\ r.pos = worker[w].pos /\ r.hop = worker[w].hop /\ r.opps = worker[w].opps
          /\ r.id = worker[w].id
      BY <1>1 DEF Thread, WorkerPcs
    <2> HIDE DEF r
    <2>3. /\ ThreadInd(pools, w, r) /\ worker[w].id <= r.id
          /\ (r.pc = "send") <=> (worker[w].pc = "send")
      BY <1>0, <1>1, <1>2, <2>2 DEF ThreadInd
    <2> QED BY <1>0, <1>2, <1>3, <2>1, <2>2, <2>3, WorkerQuiet, Zenon
  <1>4. CASE worker[w].pos <= Len(worker[w].batch) /\ Finish(w, 0) /\ ~Txs[Tx(w)].is_swap
    <2>1. 0 \in {0, 1} /\ ((0 = 1) <=> Txs[Tx(w)].is_swap) /\ worker[w].pc \in {"tx", "number"}
      BY <1>0, <1>4
    <2> QED BY <1>0, <1>4, <2>1, FinishKeeps, Zenon
  <1>5. CASE worker[w].pos <= Len(worker[w].batch) /\ Finish(w, 1) /\ Txs[Tx(w)].is_swap
    <2>1. 1 \in {0, 1} /\ ((1 = 1) <=> Txs[Tx(w)].is_swap) /\ worker[w].pc \in {"tx", "number"}
      BY <1>0, <1>5, Zenon
    <2> QED BY <1>0, <1>5, <2>1, FinishKeeps, Zenon
  <1>6. CASE /\ worker[w].pos <= Len(worker[w].batch) /\ Parsed(Txs[Tx(w)])
             /\ worker' = [worker EXCEPT ![w].pc = "find", ![w].hop = 1, ![w].opps = <<>>]
             /\ UNCHANGED <<stats, outcome>>
    <2> DEFINE r == [worker[w] EXCEPT !.pc = "find", !.hop = 1, !.opps = <<>>]
    <2>1. worker' = [worker EXCEPT ![w] = r]
      BY <1>1, <1>6
    <2>2. /\ r \in Thread /\ r.pc = "find" /\ r.batch = worker[w].batch
          /\ r.pos = worker[w].pos /\ r.hop = 1 /\ r.opps = <<>> /\ r.id = worker[w].id
      <3>1. <<>> \in Seq(Opp) /\ 1 \in Nat
        BY EmptySeq
      <3> QED BY <1>1, <3>1 DEF Thread, WorkerPcs
    <2> HIDE DEF r
    <2>3. /\ worker[w].id <= r.id /\ r.pc # "send" /\ worker[w].pc # "send"
          /\ r.pos <= Len(r.batch) /\ Parsed(Txs[r.batch[r.pos]]) /\ DOMAIN r.opps = {}
      BY <1>0, <1>2, <1>6, <2>2 DEF Tx
    <2>4. ThreadInd(pools, w, r)
      BY <1>1, <1>2, <2>2, <2>3 DEF ThreadInd
    <2> QED BY <1>0, <1>2, <1>6, <2>1, <2>2, <2>3, <2>4, WorkerQuiet, Zenon
  <1>7. \/ worker' = [worker EXCEPT ![w].pc = "check"] /\ UNCHANGED <<stats, outcome>>
        \/ worker[w].pos <= Len(worker[w].batch) /\ Finish(w, 0) /\ ~Txs[Tx(w)].is_swap
        \/ worker[w].pos <= Len(worker[w].batch) /\ Finish(w, 1) /\ Txs[Tx(w)].is_swap
        \/ /\ worker[w].pos <= Len(worker[w].batch) /\ Parsed(Txs[Tx(w)])
           /\ worker' = [worker EXCEPT ![w].pc = "find", ![w].hop = 1, ![w].opps = <<>>]
           /\ UNCHANGED <<stats, outcome>>
    BY Zenon DEF NextTx, Parsed
  <1> QED BY <1>3, <1>4, <1>5, <1>6, <1>7, Zenon

-----------------------------------------------------------------------------
(* The search for paths.                                                   *)

(* What a path names: pools that are stored, each with the tokens it is    *)
(* given and is to return.  The lists name a pool before it is stored, so  *)
(* the second pool has the middle token because it was loaded with it.     *)
LEMMA PathJoins ==
    ASSUME PoolsInd, NEW tx \in TxIds, Parsed(Txs[tx]), NEW a1 \in Addresses,
           NEW k \in Paths(Txs[tx].info, a1)
    PROVE  Opportunity(tx, a1, k) \in Opp /\ Joins(pools, Opportunity(tx, a1, k))
  <1> DEFINE swap == Txs[tx].info
             mid == Other(pools[a1], swap.token_out)
             a2 == ReturnList(swap, a1)[k]
  <1>1. swap.token_in \in Tokens /\ swap.token_out \in Tokens
    BY DetectorAssumption DEF TxIds
  <1>2. /\ a1 \in DOMAIN pools /\ Holds(pools[a1], swap.token_out)
        /\ k \in DOMAIN ReturnList(swap, a1) /\ a2 \in DOMAIN pools
        /\ Holds(pools[a2], swap.token_in)
    BY Zenon DEF Paths, ReturnPools, Known
  <1>3. DOMAIN pools \subseteq Addresses /\ \A a \in DOMAIN pools : pools[a] \in Pool
    BY DEF PoolsInd
  <1>4. pools[a1] \in Pool /\ pools[a2] \in Pool /\ a2 \in Addresses
    BY <1>2, <1>3, Zenon
  <1>5. mid \in Tokens /\ Holds(pools[a1], mid)
    BY <1>2, <1>4 DEF Other, Holds, Pool
  <1>6. Holds(pools[a2], mid)
    <2>1. ReturnList(swap, a1) = token_to_pools[mid]
      BY Zenon DEF ReturnList
    <2>2. PICK l \in DOMAIN Loads : Loads[l].address = a2 /\ mid \in {Loads[l].token0, Loads[l].token1}
      <3>1. \A t \in Tokens : \A n \in DOMAIN token_to_pools[t] :
              \E l \in DOMAIN Loads : /\ Loads[l].address = token_to_pools[t][n]
                                      /\ t \in {Loads[l].token0, Loads[l].token1}
        BY Zenon DEF PoolsInd
      <3>2. k \in DOMAIN token_to_pools[mid] /\ a2 = token_to_pools[mid][k]
        BY <1>2, <2>1, Zenon
      <3> HIDE DEF mid, a2
      <3>3. mid \in Tokens
        BY <1>5, Zenon
      <3>4. \E l \in DOMAIN Loads : /\ Loads[l].address = token_to_pools[mid][k]
                                    /\ mid \in {Loads[l].token0, Loads[l].token1}
        BY <3>1, <3>2, <3>3
      <3> QED BY <3>2, <3>4, Zenon
    <2>3. pools[a2].token0 = Loads[l].token0 /\ pools[a2].token1 = Loads[l].token1
      <3>1. \A a \in DOMAIN pools, n \in DOMAIN Loads :
              Loads[n].address = a => /\ pools[a].token0 = Loads[n].token0
                                      /\ pools[a].token1 = Loads[n].token1
        BY Zenon DEF PoolsInd
      <3> QED BY <1>2, <2>2, <3>1, Zenon
    <2> QED BY <2>2, <2>3, Zenon DEF Holds
  <1>7. Profit(swap, a1, k) - GasCost \in Nets
    <2>1. Profit(swap, a1, k) = calculate_2hop_profit(Txs[tx].info, pools[a1], pools[a2])
      BY Zenon DEF Profit
    <2>2. \A p1, p2 \in Pool : calculate_2hop_profit(Txs[tx].info, p1, p2) - GasCost \in Nets
      BY DEF Nets
    <2>3. calculate_2hop_profit(Txs[tx].info, pools[a1], pools[a2]) - GasCost \in Nets
      BY <1>4, <2>2, Zenon
    <2> QED BY <2>1, <2>3, Zenon
  <1> DEFINE o == Opportunity(tx, a1, k)
  <1>8. o = [trigger |-> tx, pool1 |-> a1, pool2 |-> a2, token_in |-> swap.token_out,
             mid |-> mid, token_out |-> swap.token_in, net |-> Profit(swap, a1, k) - GasCost]
    BY Zenon DEF Opportunity
  <1> DEFINE tin == swap.token_in
             tout == swap.token_out
             net == Profit(swap, a1, k) - GasCost
  <1>9. tin \in Tokens /\ tout \in Tokens /\ net \in Nets
    BY <1>1, <1>7, Zenon
  <1>10. o = [trigger |-> tx, pool1 |-> a1, pool2 |-> a2, token_in |-> tout,
              mid |-> mid, token_out |-> tin, net |-> net]
    BY <1>8, Zenon
  <1> HIDE DEF a2, mid, tin, tout, net, o
  <1>11. /\ o \in Opp /\ o.trigger = tx /\ o.pool1 = a1 /\ o.pool2 = a2 /\ o.token_in = tout
         /\ o.mid = mid /\ o.token_out = tin
    BY <1>4, <1>5, <1>9, <1>10 DEF Opp
  <1>12. Joins(pools, o)
    BY <1>2, <1>5, <1>6, <1>11, Zenon DEF Joins, tin, tout
  <1> QED BY <1>11, <1>12, Zenon DEF o

(* The paths through one pool are finitely many: they can be listed.       *)
LEMMA PathsFinite ==
    ASSUME FiniteFacts, PoolsInd, NEW tx \in TxIds, Parsed(Txs[tx]), NEW a1 \in Addresses
    PROVE  Cardinality(Paths(Txs[tx].info, a1)) \in Nat
  <1> DEFINE swap == Txs[tx].info
             list == ReturnList(swap, a1)
             P == Paths(swap, a1)
  <1>1. CASE ~Known(a1) \/ ~Holds(pools[a1], swap.token_out)
    <2>1. P = {}
      BY <1>1, Zenon DEF Paths
    <2>2. Cardinality({}) \in Nat
      <3>1. Cardinality({}) = 0
        BY Zenon DEF FiniteFacts
      <3> QED BY <3>1
    <2> QED BY <2>1, <2>2, Zenon
  <1>2. CASE Known(a1) /\ Holds(pools[a1], swap.token_out)
    <2>1. P \subseteq DOMAIN list
      BY <1>2, Zenon DEF Paths, ReturnPools
    <2>2. Other(pools[a1], swap.token_out) \in Tokens
      <3>1. pools[a1] \in Pool
        BY <1>2, Zenon DEF Known, PoolsInd
      <3> QED BY <3>1 DEF Other, Pool
    <2>3. list \in Seq(Addresses)
      <3>1. token_to_pools \in [Tokens -> Seq(Addresses)]
        BY Zenon DEF PoolsInd
      <3> QED BY <2>2, <3>1, Zenon DEF ReturnList
    <2> HIDE DEF P, list
    <2>4. Len(list) \in Nat /\ DOMAIN list = 1 .. Len(list)
      BY <2>3, SeqLen, Zenon
    <2>5. Cardinality(P) \in Nat
      BY <2>1, <2>4, Zenon DEF FiniteFacts
    <2> QED BY <2>5, Zenon DEF P
  <1> QED BY <1>1, <1>2, Zenon

(* Lists put one after the other.                                          *)
LEMMA ConcatOf ==
    ASSUME NEW s \in Seq(Opp), NEW n \in Nat, NEW f \in [1 .. n -> Opp]
    PROVE  /\ s \o f \in Seq(Opp)
           /\ \A k \in DOMAIN (s \o f) :
                 \/ k \in DOMAIN s /\ (s \o f)[k] = s[k]
                 \/ k - Len(s) \in 1 .. n /\ (s \o f)[k] = f[k - Len(s)]
  <1>1. f \in Seq(Opp) /\ Len(f) = n /\ DOMAIN f = 1 .. n
    OBVIOUS
  <1>2. /\ s \o f \in Seq(Opp) /\ Len(s \o f) = Len(s) + n /\ Len(s) \in Nat
        /\ DOMAIN (s \o f) = 1 .. Len(s) + n /\ DOMAIN s = 1 .. Len(s)
    BY <1>1
  <1>3. ASSUME NEW k \in DOMAIN (s \o f), k <= Len(s) PROVE k \in DOMAIN s /\ (s \o f)[k] = s[k]
    BY <1>1, <1>2, <1>3
  <1>4. ASSUME NEW k \in DOMAIN (s \o f), ~(k <= Len(s))
        PROVE  k - Len(s) \in 1 .. n /\ (s \o f)[k] = f[k - Len(s)]
    BY <1>1, <1>2, <1>4
  <1> QED BY <1>2, <1>3, <1>4, Zenon

(* One first pool of find_arbitrage_paths.                                 *)
LEMMA PathKeeps ==
    ASSUME FiniteFacts, DetectorInd, NEW w \in Workers, Path(w) PROVE DetectorInd'
  <1> DEFINE tx == Tx(w)
             list == token_to_pools[Txs[tx].info.token_out]
             a1 == list[worker[w].hop]
             P == Paths(Txs[tx].info, a1)
  <1>0. /\ worker[w].pc = "find" /\ UNCHANGED maps
        /\ UNCHANGED <<running, input, dispatcher, work, channel, received, stats, outcome>>
    BY Zenon DEF Path
  <1>1. /\ worker \in [Workers -> Thread] /\ worker[w] \in Thread /\ PoolsInd
        /\ ThreadInd(pools, w, worker[w])
    BY WorkerOf, IndParts, Zenon
  <1>2. /\ worker[w].batch \in Seq(TxIds) /\ worker[w].id \in Nat /\ worker[w].pos \in Nat
        /\ worker[w].hop \in Nat /\ worker[w].opps \in Seq(Opp)
        /\ worker[w].pos >= 1 /\ worker[w].pc \notin Ended /\ worker[w].pc # "off"
        /\ worker[w].pos <= Len(worker[w].batch) /\ worker[w].hop >= 1
    BY <1>0, <1>1, ThreadFields DEF ThreadInd, Ended
  <1>3. tx \in TxIds /\ Parsed(Txs[tx])
    <2>1. tx \in TxIds
      BY <1>2 DEF Tx
    <2>2. Parsed(Txs[tx])
      BY <1>0, <1>1 DEF ThreadInd, Tx
    <2> QED BY <2>1, <2>2, Zenon
  <1>4. list \in Seq(Addresses)
    <2>1. Txs[tx].info.token_out \in Tokens
      BY <1>3, DetectorAssumption DEF TxIds
    <2>2. token_to_pools \in [Tokens -> Seq(Addresses)]
      BY <1>1, Zenon DEF PoolsInd
    <2> QED BY <2>1, <2>2, Zenon
  <1>5. \/ \E x \in {"number", "dead"} : worker' = [worker EXCEPT ![w].pc = x]
        \/ /\ ~(worker[w].hop > Len(list))
           /\ \E order \in InOrder(P) :
                worker' = [worker EXCEPT ![w].hop = @ + 1,
                             ![w].opps = @ \o [n \in DOMAIN order |-> Opportunity(tx, a1, order[n])]]
    BY Zenon DEF Path, Swap
  <1>6. ASSUME NEW x \in {"number", "dead"}, worker' = [worker EXCEPT ![w].pc = x]
        PROVE  DetectorInd'
    <2> DEFINE r == [worker[w] EXCEPT !.pc = x]
    <2>1. worker' = [worker EXCEPT ![w] = r]
      BY <1>1, <1>6
    <2>2. /\ r \in Thread /\ r.pc = x /\ r.batch = worker[w].batch
          /\ r.pos = worker[w].pos /\ r.hop = worker[w].hop /\ r.opps = worker[w].opps
          /\ r.id = worker[w].id
      BY <1>1 DEF Thread, WorkerPcs
    <2> HIDE DEF r
    <2>3. /\ ThreadInd(pools, w, r) /\ worker[w].id <= r.id
          /\ (r.pc = "send") <=> (worker[w].pc = "send")
      <3>1. worker[w].id <= r.id
        <4>1. worker[w].id \in Nat /\ r.id = worker[w].id
          BY <1>2, <2>2, Zenon
        <4> QED BY <4>1
      <3>2. /\ r.pc \notin {"collect", "send"} /\ worker[w].pc # "send"
            /\ r.pos <= Len(r.batch) /\ Parsed(Txs[r.batch[r.pos]])
        BY <1>0, <1>1, <1>2, <1>6, <2>2, Zenon DEF ThreadInd
      <3>3. /\ Len(r.batch) <= BatchSize /\ r.pos >= 1 /\ r.hop >= 1 /\ r.id >= w * Stride
            /\ \A k \in DOMAIN r.opps : Joins(pools, r.opps[k])
        BY <1>1, <2>2, Zenon DEF ThreadInd
      <3> QED BY <2>2, <3>1, <3>2, <3>3, Zenon DEF ThreadInd
    <2> QED BY <1>0, <1>2, <2>1, <2>2, <2>3, WorkerQuiet, Zenon
  <1>7. ASSUME ~(worker[w].hop > Len(list)), NEW order \in InOrder(P),
               worker' = [worker EXCEPT ![w].hop = @ + 1,
                            ![w].opps = @ \o [n \in DOMAIN order |-> Opportunity(tx, a1, order[n])]]
        PROVE  DetectorInd'
    <2> DEFINE c == Cardinality(P)
               new == [n \in DOMAIN order |-> Opportunity(tx, a1, order[n])]
               all == worker[w].opps \o new
               hop == worker[w].hop + 1
               r == [worker[w] EXCEPT !.hop = hop, !.opps = all]
    <2>1. a1 \in Addresses
      <3> HIDE DEF list
      <3>1. worker[w].hop \in DOMAIN list
        BY <1>2, <1>4, <1>7
      <3> QED BY <1>4, <3>1, ElementOf, Zenon
    <2> HIDE DEF list, a1, tx
    <2>2. c \in Nat
      BY <1>1, <1>3, <2>1, PathsFinite, Zenon
    <2>3. \A k \in P : Opportunity(tx, a1, k) \in Opp /\ Joins(pools, Opportunity(tx, a1, k))
      BY <1>1, <1>3, <2>1, PathJoins, Zenon
    <2>4. order \in [1 .. c -> P] /\ DOMAIN order = 1 .. c
      BY <1>7, Zenon DEF InOrder
    <2> HIDE DEF P, c
    <2>5. new \in [1 .. c -> Opp] /\ \A n \in 1 .. c : Joins(pools, new[n])
      BY <2>3, <2>4, Zenon
    <2> HIDE DEF new
    <2>6. /\ all \in Seq(Opp)
          /\ \A k \in DOMAIN all : \/ k \in DOMAIN worker[w].opps /\ all[k] = worker[w].opps[k]
                                   \/ k - Len(worker[w].opps) \in 1 .. c
                                        /\ all[k] = new[k - Len(worker[w].opps)]
      <3> DEFINE old == worker[w].opps
      <3>1. old \in Seq(Opp)
        BY <1>2, Zenon
      <3> HIDE DEF old
      <3>2. /\ old \o new \in Seq(Opp)
            /\ \A k \in DOMAIN (old \o new) :
                  \/ k \in DOMAIN old /\ (old \o new)[k] = old[k]
                  \/ k - Len(old) \in 1 .. c /\ (old \o new)[k] = new[k - Len(old)]
        <4>1. new \in [1 .. c -> Opp]
          BY <2>5, Zenon
        <4> QED BY <2>2, <3>1, <4>1, ConcatOf, Zenon
      <3> QED BY <3>2, Zenon DEF old
    <2>7. \A k \in DOMAIN all : Joins(pools, all[k])
      <3>1. \A k \in DOMAIN worker[w].opps : Joins(pools, worker[w].opps[k])
        BY <1>1, Zenon DEF ThreadInd
      <3> HIDE DEF all
      <3> QED BY <2>5, <2>6, <3>1, Zenon
    <2>8. worker' = [worker EXCEPT ![w] = r]
      <3>1. worker' = [worker EXCEPT ![w].hop = @ + 1, ![w].opps = @ \o new]
        BY <1>7, Zenon DEF new
      <3> QED BY <1>1, <3>1
    <2>9. hop \in Nat /\ hop >= 1
      BY <1>2
    <2> HIDE DEF all, hop
    <2>10. /\ r \in Thread /\ r.pc = "find" /\ r.batch = worker[w].batch
           /\ r.pos = worker[w].pos /\ r.hop = hop /\ r.opps = all /\ r.id = worker[w].id
      BY <1>0, <1>1, <2>6, <2>9 DEF Thread
    <2> HIDE DEF r
    <2>11. /\ ThreadInd(pools, w, r) /\ worker[w].id <= r.id
           /\ (r.pc = "send") <=> (worker[w].pc = "send")
      <3>1. worker[w].id <= r.id
        <4>1. worker[w].id \in Nat /\ r.id = worker[w].id
          BY <1>2, <2>10, Zenon
        <4> QED BY <4>1
      <3>2. /\ r.pc \notin {"collect", "send"} /\ worker[w].pc # "send"
            /\ r.pos <= Len(r.batch) /\ Parsed(Txs[r.batch[r.pos]])
        BY <1>0, <1>1, <1>2, <2>10, Zenon DEF ThreadInd
      <3>3. /\ Len(r.batch) <= BatchSize /\ r.pos >= 1 /\ r.hop >= 1 /\ r.id >= w * Stride
            /\ \A k \in DOMAIN r.opps : Joins(pools, r.opps[k])
        BY <1>1, <2>7, <2>9, <2>10, Zenon DEF ThreadInd
      <3> QED BY <2>10, <3>1, <3>2, <3>3, Zenon DEF ThreadInd
    <2> QED BY <1>0, <1>2, <2>8, <2>10, <2>11, WorkerQuiet, Zenon
  <1> QED BY <1>5, <1>6, <1>7, Zenon

-----------------------------------------------------------------------------
(* Numbering and sending.                                                  *)

LEMMA SendersMove ==
    ASSUME FiniteFacts, NEW w \in Workers, \A v \in Workers : v # w => worker'[v] = worker[v],
           worker'[w].pc = "send", worker[w].pc # "send"
    PROVE  /\ Cardinality({v \in Workers : worker[v].pc = "send"}) \in Nat
           /\ Cardinality({v \in Workers : worker'[v].pc = "send"})
                = Cardinality({v \in Workers : worker[v].pc = "send"}) + 1
  <1> DEFINE A == {v \in Workers : worker[v].pc = "send"}
             B == {v \in Workers : worker'[v].pc = "send"}
  <1>1. A \subseteq Workers /\ w \notin A /\ B = A \cup {w}
    BY Zenon
  <1>2. Cardinality(A) \in Nat /\ Cardinality(B) = Cardinality(A) + 1
    <2> HIDE DEF A, B
    <2>1. IsFiniteSet(A)
      BY <1>1, Zenon DEF FiniteFacts
    <2> QED BY <1>1, <2>1, Zenon DEF FiniteFacts
  <1> QED BY <1>2, Zenon

LEMMA SenderLeaves ==
    ASSUME FiniteFacts, NEW w \in Workers, \A v \in Workers : v # w => worker'[v] = worker[v],
           worker[w].pc = "send", worker'[w].pc # "send"
    PROVE  /\ Cardinality({v \in Workers : worker'[v].pc = "send"}) \in Nat
           /\ Cardinality({v \in Workers : worker[v].pc = "send"})
                = Cardinality({v \in Workers : worker'[v].pc = "send"}) + 1
  <1> DEFINE A == {v \in Workers : worker[v].pc = "send"}
             B == {v \in Workers : worker'[v].pc = "send"}
  <1>1. B \subseteq Workers /\ w \notin B /\ A = B \cup {w}
    BY Zenon
  <1>2. Cardinality(B) \in Nat /\ Cardinality(A) = Cardinality(B) + 1
    <2> HIDE DEF A, B
    <2>1. IsFiniteSet(B)
      BY <1>1, Zenon DEF FiniteFacts
    <2> QED BY <1>1, <2>1, Zenon DEF FiniteFacts
  <1> QED BY <1>2, Zenon

(* The thread after an opportunity: its list is shorter, its id larger.    *)
LEMMA TailThread ==
    ASSUME DetectorInd, NEW w \in Workers, worker[w].pc \in {"number", "send"},
           worker[w].opps # <<>>, NEW r,
           r = [worker[w] EXCEPT !.pc = "number", !.opps = Tail(worker[w].opps),
                                 !.id = worker[w].id + 1]
    PROVE  /\ ThreadInd(pools, w, r) /\ worker[w].id \in Nat /\ r.id = worker[w].id + 1
           /\ r.batch = worker[w].batch /\ r.pos = worker[w].pos /\ r.pc = "number"
           /\ Head(worker[w].opps) \in Opp /\ Joins(pools, Head(worker[w].opps))
  <1> DEFINE s == worker[w].opps
             t == Tail(s)
             id == worker[w].id + 1
  <1>1. worker[w] \in Thread /\ ThreadInd(pools, w, worker[w]) /\ s \in Seq(Opp) /\ worker[w].id \in Nat
    BY WorkerOf, ThreadFields, Zenon
  <1>2. /\ t \in Seq(Opp) /\ Head(s) \in Opp /\ Head(s) = s[1] /\ 1 \in DOMAIN s
        /\ \A k \in DOMAIN t : k + 1 \in DOMAIN s /\ t[k] = s[k + 1]
    <2> HIDE DEF s
    <2>1. s # <<>>
      BY Zenon DEF s
    <2> QED BY <1>1, <2>1, TailOf, Zenon
  <1>3. \A k \in DOMAIN s : Joins(pools, s[k])
    BY <1>1, Zenon DEF ThreadInd
  <1>4. \A k \in DOMAIN t : Joins(pools, t[k])
    <2> HIDE DEF s, t
    <2> QED BY <1>2, <1>3, Zenon
  <1>5. Joins(pools, Head(s))
    <2> HIDE DEF s
    <2> QED BY <1>2, <1>3, Zenon
  <1>6. id \in Nat /\ worker[w].id <= id
    BY <1>1
  <1>7. r = [worker[w] EXCEPT !.pc = "number", !.opps = t, !.id = id]
    BY Zenon
  <1> HIDE DEF t, id
  <1>8. /\ r \in Thread /\ r.pc = "number" /\ r.batch = worker[w].batch
        /\ r.pos = worker[w].pos /\ r.hop = worker[w].hop /\ r.opps = t /\ r.id = id
    BY <1>1, <1>2, <1>6, <1>7 DEF Thread, WorkerPcs
  <1>9. r.id >= w * Stride
    <2>1. w * Stride \in Nat /\ worker[w].id >= w * Stride
      BY <1>1, DetectorAssumption DEF ThreadInd
    <2> QED BY <1>1, <1>6, <1>8, <2>1
  <1>10. ThreadInd(pools, w, r)
    BY <1>1, <1>4, <1>8, <1>9 DEF ThreadInd
  <1> QED BY <1>1, <1>2, <1>5, <1>8, <1>10, Zenon DEF id

(* The next opportunity is counted when it pays; the swap, when none is    *)
(* left.                                                                   *)
LEMMA NumberKeeps ==
    ASSUME FiniteFacts, DetectorInd, NEW w \in Workers, Number(w) PROVE DetectorInd'
  <1>0. /\ worker[w].pc = "number" /\ UNCHANGED maps
        /\ UNCHANGED <<running, input, dispatcher, work, channel, received>>
        /\ running' = running /\ input' = input /\ dispatcher' = dispatcher /\ work' = work
        /\ channel' = channel /\ received' = received
    BY Zenon DEF Number
  <1>1. /\ worker \in [Workers -> Thread] /\ worker[w] \in Thread
        /\ ThreadInd(pools, w, worker[w]) /\ worker[w].id \in Nat
    BY WorkerOf, ThreadFields, Zenon
  <1>2. /\ worker[w].pc \notin Ended /\ worker[w].pc # "off"
        /\ worker[w].pos <= Len(worker[w].batch) /\ Parsed(Txs[Tx(w)])
    BY <1>0, <1>1 DEF ThreadInd, Ended, Tx
  <1>3. CASE worker[w].opps = <<>>
    <2>1. Finish(w, 1)
      BY <1>3, Zenon DEF Number
    <2>2. 1 \in {0, 1} /\ ((1 = 1) <=> Txs[Tx(w)].is_swap) /\ worker[w].pc \in {"tx", "number"}
      BY <1>0, <1>2, Zenon DEF Parsed
    <2> QED BY <1>0, <1>2, <2>1, <2>2, FinishKeeps, Zenon
  <1>4. CASE worker[w].opps # <<>> /\ Head(worker[w].opps).net >= MinProfit
    <2> DEFINE r == [worker[w] EXCEPT !.pc = "send"]
    <2>0. DispatcherTypes /\ DispatchInd /\ SearchedOnce /\ CountersAgree
      BY IndParts, Zenon
    <2>1. /\ worker' = [worker EXCEPT ![w] = r] /\ outcome' = outcome
          /\ stats' = [stats EXCEPT !.profitable = @ + 1]
      BY <1>1, <1>4 DEF Number
    <2>2. /\ r \in Thread /\ r.pc = "send" /\ r.batch = worker[w].batch
          /\ r.pos = worker[w].pos /\ r.hop = worker[w].hop /\ r.opps = worker[w].opps
          /\ r.id = worker[w].id
      BY <1>1 DEF Thread, WorkerPcs
    <2> HIDE DEF r
    <2>3. ThreadInd(pools, w, r) /\ worker[w].id <= r.id
      <3>1. worker[w].id <= r.id
        <4>1. worker[w].id \in Nat /\ r.id = worker[w].id
          BY <1>1, <2>2, Zenon
        <4> QED BY <4>1
      <3>2. /\ r.pc # "collect" /\ r.opps # <<>>
            /\ r.pos <= Len(r.batch) /\ Parsed(Txs[r.batch[r.pos]])
        BY <1>0, <1>1, <1>2, <1>4, <2>2, Zenon DEF ThreadInd
      <3>3. /\ Len(r.batch) <= BatchSize /\ r.pos >= 1 /\ r.hop >= 1 /\ r.id >= w * Stride
            /\ \A k \in DOMAIN r.opps : Joins(pools, r.opps[k])
        BY <1>1, <2>2, Zenon DEF ThreadInd
      <3> QED BY <2>2, <3>1, <3>2, <3>3, Zenon DEF ThreadInd
    <2>4. /\ ChannelTypes' /\ PoolsInd' /\ WorkersInd' /\ StepsJoin' /\ IdsInd' /\ IdsDistinct'
          /\ Sent' = Sent /\ worker'[w] = r
          /\ \A v \in Workers : v # w => worker'[v] = worker[v]
      BY <1>0, <2>1, <2>3, WorkerMoves, Zenon
    <2>5. /\ stats' \in [processed : Nat, found : Nat, profitable : Nat]
          /\ stats'.found = stats.found /\ stats'.profitable = stats.profitable + 1
          /\ stats.profitable \in Nat
      <3>1. stats \in [processed : Nat, found : Nat, profitable : Nat]
        BY <2>0, Zenon DEF DispatcherTypes
      <3> QED BY <2>1, <3>1
    <2>6. DispatcherTypes'
      BY <1>0, <2>0, <2>1, <2>5, Zenon DEF DispatcherTypes
    <2>7. DispatchInd'
      <3>1. Len(work') <= WorkCap /\ Len(channel'.queue) <= OppCap
        BY <1>0, <2>0, Zenon DEF DispatchInd
      <3> QED BY <1>0, <1>2, <2>0, <2>1, <3>1, WorkerDispatch, Zenon
    <2>8. SearchedOnce'
      <3>1. \A v \in Workers : worker'[v].batch = worker[v].batch /\ worker'[v].pos = worker[v].pos
        BY <2>2, <2>4
      <3> QED BY <1>0, <2>0, <2>1, <3>1, OnceFrame, Zenon
    <2>9. CountersAgree'
      <3> DEFINE A == {v \in Workers : worker[v].pc = "send"}
                 B == {v \in Workers : worker'[v].pc = "send"}
      <3>1. Cardinality(A) \in Nat /\ Cardinality(B) = Cardinality(A) + 1
        <4>1. worker'[w].pc = "send" /\ worker[w].pc # "send"
          BY <1>0, <2>2, <2>4
        <4> QED BY <2>4, <4>1, SendersMove, Zenon
      <3>2. channel.open => stats.profitable = Len(Sent) + Cardinality(A)
        BY <2>0, Zenon DEF CountersAgree
      <3>3. Len(Sent) \in Nat
        <4>1. Sent \in Seq(Numbered)
          BY IndParts DEF ChannelTypes, Sent
        <4> QED BY <4>1, SeqLen, Zenon
      <3>4. channel'.open => stats'.profitable = Len(Sent') + Cardinality(B)
        <4> HIDE DEF A, B
        <4> QED BY <1>0, <2>4, <2>5, <3>1, <3>2, <3>3
      <3>5. stats'.found = Cardinality({i \in DOMAIN Txs : Txs[i].is_swap /\ outcome'[i] = 1})
        BY <2>0, <2>1, <2>5, Zenon DEF CountersAgree
      <3> QED BY <3>4, <3>5, Zenon DEF CountersAgree
    <2> QED BY <2>4, <2>6, <2>7, <2>8, <2>9, Zenon DEF DetectorInd
  <1>5. CASE worker[w].opps # <<>> /\ ~(Head(worker[w].opps).net >= MinProfit)
    <2> DEFINE r == [worker[w] EXCEPT !.pc = "number", !.opps = Tail(worker[w].opps),
                                      !.id = worker[w].id + 1]
    <2>1. worker' = [worker EXCEPT ![w] = r] /\ outcome' = outcome /\ stats' = stats
      <3>1. /\ worker' = [worker EXCEPT ![w].opps = Tail(@), ![w].id = @ + 1]
            /\ outcome' = outcome /\ stats' = stats
        BY <1>5, Zenon DEF Number
      <3>2. r = [worker[w] EXCEPT !.opps = Tail(worker[w].opps), !.id = worker[w].id + 1]
        BY <1>0, <1>1 DEF Thread
      <3> HIDE DEF r
      <3> QED BY <1>1, <3>1, <3>2
    <2> HIDE DEF r
    <2>2. /\ ThreadInd(pools, w, r) /\ r.id = worker[w].id + 1
          /\ r.batch = worker[w].batch /\ r.pos = worker[w].pos /\ r.pc = "number"
      <3>1. worker[w].pc \in {"number", "send"}
        BY <1>0
      <3> QED BY <1>5, <3>1, TailThread, Zenon DEF r
    <2>3. worker[w].id <= r.id /\ ((r.pc = "send") <=> (worker[w].pc = "send"))
      BY <1>0, <1>1, <2>2
    <2> QED BY <1>0, <1>2, <2>1, <2>2, <2>3, WorkerQuiet, Zenon
  <1> QED BY <1>3, <1>4, <1>5, Zenon

(* The ranges of two workers' ids do not meet.                             *)
LEMMA RangesApart == \A v, w, s \in Nat : v < w => (v + 1) * s <= w * s
  <1> SUFFICES ASSUME NEW v \in Nat, NEW w \in Nat, NEW s \in Nat, v < w
               PROVE  (v + 1) * s <= w * s
    OBVIOUS
  <1> DEFINE d == w - (v + 1)
  <1>1. d \in Nat /\ w = (v + 1) + d
    OBVIOUS
  <1> HIDE DEF d
  <1>2. w * s = (v + 1) * s + d * s
    BY <1>1
  <1>3. d * s \in Nat /\ (v + 1) * s \in Nat
    BY <1>1
  <1> QED BY <1>2, <1>3

LEMMA ConcatAppend ==
    ASSUME NEW S, NEW s \in Seq(S), NEW t \in Seq(S), NEW e \in S
    PROVE  s \o Append(t, e) = Append(s \o t, e) /\ s \o t \in Seq(S)
  OBVIOUS

(* A new id is not that of an opportunity sent before: an id sent is below *)
(* the id its worker is at, and above where that worker began.             *)
LEMMA IdIsNew ==
    ASSUME NEW w \in Workers, NEW v \in Workers, NEW id \in Nat, NEW old \in Nat, NEW at \in Nat,
           v = w => at = id, w * Stride <= id, id + 1 <= (w + 1) * Stride,
           at <= (v + 1) * Stride, v * Stride <= old, old < at
    PROVE  old # id
  <1>0. v \in Nat /\ w \in Nat /\ Stride \in Nat
    BY DetectorAssumption
  <1>1. CASE v = w
    BY <1>1
  <1>2. CASE v < w
    <2>1. (v + 1) * Stride <= w * Stride
      BY <1>0, <1>2, RangesApart
    <2>2. (v + 1) * Stride \in Nat /\ w * Stride \in Nat
      BY <1>0
    <2> QED BY <2>1, <2>2
  <1>3. CASE w < v
    <2>1. (w + 1) * Stride <= v * Stride
      BY <1>0, <1>3, RangesApart
    <2>2. (w + 1) * Stride \in Nat /\ v * Stride \in Nat
      BY <1>0
    <2> QED BY <2>1, <2>2
  <1> QED BY <1>0, <1>1, <1>2, <1>3

(* A list of sent opportunities with one more.                             *)
LEMMA SentGrows ==
    ASSUME DetectorInd, NEW w \in Workers, NEW e \in Numbered, Sent' = Append(Sent, e),
           WorkersInd', \A v \in Workers : v # w => worker'[v] = worker[v],
           e.id = worker[w].id, worker'[w].id = worker[w].id + 1
    PROVE  IdsInd' /\ IdsDistinct'
  <1>0. ChannelTypes /\ WorkersInd /\ IdsInd /\ IdsDistinct
    BY IndParts, Zenon
  <1>1. Sent \in Seq(Numbered)
    BY <1>0 DEF ChannelTypes, Sent
  <1>2. /\ Workers \subseteq Nat /\ Stride \in Nat
        /\ \A v \in Workers : worker[v].id \in Nat /\ worker'[v].id \in Nat
        /\ \A v \in Workers : v * Stride <= worker[v].id
    <2>1. Workers \subseteq Nat /\ Stride \in Nat
      BY DetectorAssumption
    <2>2. \A v \in Workers : worker[v].id \in Nat /\ worker'[v].id \in Nat
      BY <1>0, ThreadFields, Zenon DEF WorkersInd
    <2>3. \A v \in Workers : worker[v].id >= v * Stride
      BY <1>0, Zenon DEF WorkersInd, ThreadInd
    <2> QED BY <2>1, <2>2, <2>3
  <1>3. \A v \in Workers : worker[v].id <= worker'[v].id
    <2> SUFFICES ASSUME NEW v \in Workers PROVE worker[v].id <= worker'[v].id
      OBVIOUS
    <2>1. worker[v].id \in Nat /\ worker[w].id \in Nat
      BY <1>2, Zenon
    <2>2. worker[v].id <= worker[v].id /\ worker[w].id <= worker[w].id + 1
      BY <2>1
    <2> QED BY <2>2, Zenon
  <1> DEFINE n == Len(Sent) + 1
             s == Sent
             t == Append(Sent, e)
  <1>4. /\ \A k \in DOMAIN t : k \in DOMAIN s \/ k = n
        /\ t[n] = e /\ n \in DOMAIN t
        /\ \A k \in DOMAIN s : k \in DOMAIN t /\ t[k] = s[k] /\ k # n
    <2> HIDE DEF s
    <2>1. s \in Seq(Numbered) /\ n = Len(s) + 1 /\ t = Append(s, e)
      BY <1>1, Zenon DEF s
    <2>2. /\ \A k \in DOMAIN Append(s, e) : k \in DOMAIN s \/ k = Len(s) + 1
          /\ Append(s, e)[Len(s) + 1] = e /\ Len(s) + 1 \in DOMAIN Append(s, e)
          /\ \A k \in DOMAIN s : /\ k \in DOMAIN Append(s, e) /\ Append(s, e)[k] = s[k]
                                /\ k # Len(s) + 1
      BY <2>1
    <2> HIDE DEF n, t
    <2> QED BY <2>1, <2>2, Zenon
  <1>5. Sent' = t
    BY Zenon
  <1>6. \A k \in DOMAIN s : s[k].id \in Nat
    <2>1. \A k \in DOMAIN s : s[k] \in Numbered
      BY <1>1, ElementOf, Zenon
    <2> QED BY <2>1 DEF Numbered
  <1>7. \A k \in DOMAIN s : \E v \in Workers : v * Stride <= s[k].id /\ s[k].id < worker[v].id
    BY <1>0, Zenon DEF IdsInd
  <1> HIDE DEF n, s, t
  <1>8. IdsInd'
    <2> SUFFICES ASSUME NEW k \in DOMAIN t
                 PROVE  \E v \in Workers : v * Stride <= t[k].id /\ t[k].id < worker'[v].id
      BY <1>5, Zenon DEF IdsInd
    <2>1. CASE k \in DOMAIN s
      <3>1. PICK v \in Workers : v * Stride <= s[k].id /\ s[k].id < worker[v].id
        BY <1>7, <2>1, Zenon
      <3>2. t[k].id = s[k].id /\ s[k].id \in Nat
        BY <1>4, <1>6, <2>1, Zenon
      <3>3. s[k].id < worker'[v].id
        <4>1. \A a, b, c \in Nat : a < b /\ b <= c => a < c
          OBVIOUS
        <4> QED BY <1>2, <1>3, <3>1, <3>2, <4>1, Zenon
      <3> QED BY <3>1, <3>2, <3>3, Zenon
    <2>2. CASE k = n
      <3>1. t[k].id = worker[w].id
        BY <1>4, <2>2, Zenon
      <3>2. w * Stride <= worker[w].id /\ worker[w].id < worker'[w].id
        BY <1>2
      <3> QED BY <3>1, <3>2, Zenon
    <2> QED BY <1>4, <2>1, <2>2, Zenon
  <1>9. IdsDistinct'
    <2> SUFFICES ASSUME \A v \in Workers : worker'[v].id <= (v + 1) * Stride
                 PROVE  \A i, j \in DOMAIN t : i # j => t[i].id # t[j].id
      BY <1>5, Zenon DEF IdsDistinct
    <2>1. \A v \in Workers : worker[v].id <= (v + 1) * Stride
      <3> SUFFICES ASSUME NEW v \in Workers PROVE worker[v].id <= (v + 1) * Stride
        OBVIOUS
      <3>1. /\ (v + 1) * Stride \in Nat /\ worker[v].id \in Nat /\ worker'[v].id \in Nat
            /\ worker[v].id <= worker'[v].id /\ worker'[v].id <= (v + 1) * Stride
        BY <1>2, <1>3
      <3> QED BY <3>1
    <2>2. \A i, j \in DOMAIN s : i # j => s[i].id # s[j].id
      BY <1>0, <2>1, Zenon DEF IdsDistinct, s
    <2>3. ASSUME NEW k \in DOMAIN s PROVE s[k].id # e.id
      <3>1. PICK v \in Workers : v * Stride <= s[k].id /\ s[k].id < worker[v].id
        BY <1>7, Zenon
      <3>2. w * Stride <= worker[w].id /\ worker[w].id + 1 <= (w + 1) * Stride
        BY <1>2, Zenon
      <3>3. s[k].id # worker[w].id
        BY <1>2, <1>6, <2>1, <3>1, <3>2, IdIsNew, Zenon
      <3> QED BY <3>3, Zenon
    <2> SUFFICES ASSUME NEW i \in DOMAIN t, NEW j \in DOMAIN t, i # j PROVE t[i].id # t[j].id
      BY Zenon
    <2>4. \A k \in DOMAIN s : t[k] = s[k]
      BY <1>4, Zenon
    <2>5. CASE i \in DOMAIN s /\ j \in DOMAIN s
      BY <2>2, <2>4, <2>5, Zenon
    <2>6. CASE i = n \/ j = n
      BY <1>4, <2>3, <2>4, <2>6, Zenon
    <2> QED BY <1>4, <2>5, <2>6, Zenon
  <1> QED BY <1>8, <1>9, Zenon

(* The blocking send of an opportunity.                                    *)
LEMMA SendOppKeeps ==
    ASSUME FiniteFacts, DetectorInd, NEW w \in Workers, SendOpp(w) PROVE DetectorInd'
  <1> DEFINE r == [worker[w] EXCEPT !.pc = "number", !.opps = Tail(worker[w].opps),
                                    !.id = worker[w].id + 1]
             e == [opp |-> Head(worker[w].opps), id |-> worker[w].id]
  <1>0. /\ worker[w].pc = "send" /\ UNCHANGED maps
        /\ running' = running /\ input' = input /\ dispatcher' = dispatcher /\ work' = work
        /\ received' = received /\ stats' = stats /\ outcome' = outcome
        /\ channel.open => Len(channel.queue) < OppCap
    BY Zenon DEF SendOpp
  <1>1. /\ worker \in [Workers -> Thread] /\ worker[w] \in Thread
        /\ ThreadInd(pools, w, worker[w])
    BY WorkerOf, Zenon
  <1>2. /\ worker[w].pc \notin Ended /\ worker[w].pc # "off" /\ worker[w].opps # <<>>
        /\ worker[w].pc \in {"number", "send"}
    BY <1>0, <1>1 DEF ThreadInd, Ended
  <1>3. /\ DispatcherTypes /\ ChannelTypes /\ PoolsInd /\ WorkersInd /\ DispatchInd
        /\ SearchedOnce /\ CountersAgree /\ StepsJoin
    BY IndParts, Zenon
  <1>4. worker' = [worker EXCEPT ![w] = r]
    BY <1>1 DEF SendOpp
  <1> HIDE DEF r
  <1>5. /\ ThreadInd(pools, w, r) /\ worker[w].id \in Nat /\ r.id = worker[w].id + 1
        /\ r.batch = worker[w].batch /\ r.pos = worker[w].pos /\ r.pc = "number"
        /\ Head(worker[w].opps) \in Opp /\ Joins(pools, Head(worker[w].opps))
    BY <1>2, TailThread, Zenon DEF r
  <1>6. /\ worker' \in [Workers -> Thread] /\ worker'[w] = r
        /\ \A v \in Workers : v # w => worker'[v] = worker[v]
    <2>1. r \in Thread
      BY <1>5, Zenon DEF ThreadInd
    <2> QED BY <1>1, <1>4, <2>1, Zenon
  <1>7. DispatcherTypes'
    BY <1>0, <1>3, Zenon DEF DispatcherTypes
  <1>8. SearchedOnce'
    <2>1. \A v \in Workers : worker'[v].batch = worker[v].batch /\ worker'[v].pos = worker[v].pos
      BY <1>5, <1>6
    <2> QED BY <1>0, <1>3, <2>1, OnceFrame, Zenon
  <1>9. Len(channel'.queue) <= OppCap => DispatchInd'
    <2>1. Len(work') <= WorkCap
      BY <1>0, <1>3, Zenon DEF DispatchInd
    <2> QED BY <1>0, <1>2, <1>3, <2>1, WorkerDispatch, Zenon
  <1>10. stats'.found = Cardinality({i \in DOMAIN Txs : Txs[i].is_swap /\ outcome'[i] = 1})
    BY <1>0, <1>3, Zenon DEF CountersAgree
  <1>11. CASE ~channel.open
    <2>1. channel' = channel
      BY <1>11, Zenon DEF SendOpp
    <2>2. worker[w].id <= r.id
      BY <1>5
    <2>3. ChannelTypes' /\ PoolsInd' /\ WorkersInd' /\ StepsJoin' /\ IdsInd' /\ IdsDistinct'
      BY <1>0, <1>4, <1>5, <2>1, <2>2, WorkerMoves, Zenon
    <2>4. DispatchInd'
      <3>1. Len(channel'.queue) <= OppCap
        BY <1>3, <2>1, Zenon DEF DispatchInd
      <3> QED BY <1>9, <3>1, Zenon
    <2>5. CountersAgree'
      BY <1>10, <1>11, <2>1, Zenon DEF CountersAgree
    <2> QED BY <1>7, <1>8, <2>3, <2>4, <2>5, Zenon DEF DetectorInd
  <1>12. CASE channel.open
    <2>1. channel' = [channel EXCEPT !.queue = Append(channel.queue, e)]
      BY <1>12, Zenon DEF SendOpp
    <2>2. e \in Numbered /\ e.id = worker[w].id /\ e.opp = Head(worker[w].opps)
      BY <1>5 DEF Numbered
    <2> HIDE DEF e
    <2>3. /\ channel \in [open : BOOLEAN, queue : Seq(Numbered)] /\ received \in Seq(Numbered)
          /\ channel.queue \in Seq(Numbered)
      BY <1>3 DEF ChannelTypes
    <2> DEFINE q == channel.queue
    <2>4. q \in Seq(Numbered)
      BY <2>3, Zenon
    <2>5. /\ Append(q, e) \in Seq(Numbered) /\ Len(Append(q, e)) = Len(q) + 1 /\ Len(q) \in Nat
          /\ received \o Append(q, e) = Append(received \o q, e) /\ received \o q \in Seq(Numbered)
      <3> HIDE DEF q
      <3>1. Append(q, e) \in Seq(Numbered) /\ Len(Append(q, e)) = Len(q) + 1 /\ Len(q) \in Nat
        BY <2>2, <2>4, AppendTo, Zenon
      <3>2. received \in Seq(Numbered) /\ e \in Numbered
        BY <2>2, <2>3, Zenon
      <3>3. received \o Append(q, e) = Append(received \o q, e) /\ received \o q \in Seq(Numbered)
        BY <2>4, <3>2, ConcatAppend, Zenon
      <3> QED BY <3>1, <3>3, Zenon
    <2>6. channel'.queue = Append(q, e) /\ channel'.open = channel.open
      BY <2>1, <2>3
    <2>7. ChannelTypes'
      <3>1. channel' \in [open : BOOLEAN, queue : Seq(Numbered)]
        <4> DEFINE a == Append(q, e)
        <4>1. a \in Seq(Numbered) /\ channel' = [channel EXCEPT !.queue = a]
          BY <2>1, <2>5, Zenon
        <4> HIDE DEF a
        <4> QED BY <2>3, <4>1
      <3> QED BY <1>0, <2>3, <3>1, Zenon DEF ChannelTypes
    <2>8. Sent' = Append(Sent, e) /\ Sent \in Seq(Numbered)
      BY <1>0, <2>5, <2>6, Zenon DEF Sent
    <2>9. pools' = pools /\ PoolsInd'
      <3>1. pools' = pools
        BY <1>0, Zenon DEF maps
      <3> QED BY <1>0, <1>3, <3>1, PoolsFrame, Zenon
    <2>10. WorkersInd'
      BY <1>3, <1>5, <1>6, <2>9, Zenon DEF WorkersInd
    <2>11. IdsInd' /\ IdsDistinct'
      <3>1. worker'[w].id = worker[w].id + 1
        BY <1>5, <1>6, Zenon
      <3> QED BY <1>6, <2>2, <2>8, <2>10, <3>1, SentGrows, Zenon
    <2> DEFINE s == Sent
    <2>12. /\ s \in Seq(Numbered) /\ Len(Append(s, e)) = Len(s) + 1 /\ Len(s) \in Nat
           /\ Append(s, e)[Len(s) + 1] = e
           /\ \A k \in DOMAIN Append(s, e) : k \in DOMAIN s \/ k = Len(s) + 1
           /\ \A k \in DOMAIN s : Append(s, e)[k] = s[k]
      <3>1. s \in Seq(Numbered)
        BY <2>8, Zenon
      <3> HIDE DEF s
      <3> QED BY <2>2, <3>1, AppendTo, Zenon
    <2>13. StepsJoin'
      <3>1. \A k \in DOMAIN s : Joins(pools, s[k].opp)
        BY <1>3, Zenon DEF StepsJoin
      <3>2. Joins(pools, e.opp)
        BY <1>5, <2>2, Zenon
      <3> DEFINE t == Append(s, e)
      <3>3. \A k \in DOMAIN t : t[k] = e \/ (k \in DOMAIN s /\ t[k] = s[k])
        <4> HIDE DEF s
        <4> QED BY <2>12, Zenon
      <3>4. Sent' = t
        BY <2>8, Zenon
      <3> HIDE DEF s, t
      <3>5. \A k \in DOMAIN t : Joins(pools, t[k].opp)
        BY <3>1, <3>2, <3>3, Zenon
      <3> QED BY <2>9, <3>4, <3>5, Zenon DEF StepsJoin
    <2>14. DispatchInd'
      <3>1. Len(channel'.queue) <= OppCap
        BY <1>0, <1>12, <2>5, <2>6, DetectorAssumption
      <3> QED BY <1>9, <3>1, Zenon
    <2>15. CountersAgree'
      <3> DEFINE A == {v \in Workers : worker[v].pc = "send"}
                 B == {v \in Workers : worker'[v].pc = "send"}
      <3>1. Cardinality(B) \in Nat /\ Cardinality(A) = Cardinality(B) + 1
        <4>1. worker[w].pc = "send" /\ worker'[w].pc # "send"
          BY <1>0, <1>5, <1>6
        <4> QED BY <1>6, <4>1, SenderLeaves, Zenon
      <3>2. stats.profitable = Len(s) + Cardinality(A)
        BY <1>3, <1>12, Zenon DEF CountersAgree
      <3>3. Len(Sent') = Len(s) + 1
        BY <2>8, <2>12, Zenon
      <3>4. stats'.profitable = Len(Sent') + Cardinality(B)
        <4> HIDE DEF A, B, s
        <4> QED BY <1>0, <2>12, <3>1, <3>2, <3>3
      <3> QED BY <1>10, <3>4, Zenon DEF CountersAgree
    <2> QED BY <1>7, <1>8, <2>7, <2>9, <2>10, <2>11, <2>13, <2>14, <2>15, Zenon DEF DetectorInd
  <1> QED BY <1>11, <1>12, Zenon

-----------------------------------------------------------------------------
(* The invariant.                                                          *)

LEMMA InitHolds == ASSUME FiniteFacts, Init PROVE DetectorInd
  <1>0. /\ running = FALSE /\ input \in Inputs /\ dispatcher = [pc |-> "off", tx |-> None]
        /\ work = <<>> /\ worker = [w \in Workers |-> NoWorker(w)]
        /\ token_to_pools = [t \in Tokens |-> <<>>] /\ pools = << >>
        /\ loader = [done |-> 0, step |-> 0] /\ channel = [open |-> TRUE, queue |-> <<>>]
        /\ received = <<>> /\ stats = [processed |-> 0, found |-> 0, profitable |-> 0]
        /\ outcome = [i \in TxIds |-> 0]
    BY Zenon DEF Init, TxIds
  <1>1. input \in Seq(TxIds) /\ IsInjective(input)
    BY <1>0, DetectorAssumption, Zenon DEF TxIds
  <1>2. \A w \in Workers : /\ worker[w].pc = "off" /\ worker[w].batch = <<>> /\ worker[w].pos = 1
                           /\ worker[w].hop = 1 /\ worker[w].opps = <<>>
                           /\ worker[w].id = w * Stride /\ worker[w].id \in Nat
                           /\ worker[w] \in Thread
    <2> SUFFICES ASSUME NEW w \in Workers
                 PROVE  /\ worker[w].pc = "off" /\ worker[w].batch = <<>> /\ worker[w].pos = 1
                        /\ worker[w].hop = 1 /\ worker[w].opps = <<>>
                        /\ worker[w].id = w * Stride /\ worker[w].id \in Nat
                        /\ worker[w] \in Thread
      BY Zenon
    <2>1. worker[w] = NoWorker(w)
      BY <1>0, Zenon
    <2>2. w \in Nat /\ Stride \in Nat
      BY DetectorAssumption
    <2>3. w * Stride \in Nat
      BY <2>2
    <2>4. <<>> \in Seq(TxIds) /\ <<>> \in Seq(Opp)
      BY EmptySeq, Zenon
    <2> QED BY <2>1, <2>3, <2>4 DEF NoWorker, Thread, WorkerPcs
  <1>3. DispatcherTypes
    <2>1. work \in Seq(TxIds) /\ running \in BOOLEAN
      BY <1>0, EmptySeq, Zenon
    <2>2. dispatcher \in [pc : DispatcherPcs, tx : TxIds \cup {None}]
      BY <1>0 DEF DispatcherPcs
    <2>3. stats \in [processed : Nat, found : Nat, profitable : Nat] /\ outcome \in [TxIds -> Int]
      BY <1>0
    <2> QED BY <1>1, <2>1, <2>2, <2>3, Zenon DEF DispatcherTypes
  <1>4. ChannelTypes
    BY <1>0 DEF ChannelTypes
  <1>5. PoolsInd
    <2>1. Len(Loads) \in Nat
      BY DetectorAssumption
    <2>2. DOMAIN pools = {} /\ pools \in [DOMAIN pools -> Pool]
      BY <1>0
    <2>3. loader \in [done : 0 .. Len(Loads), step : 0 .. 2]
      BY <1>0, <2>1
    <2>4. token_to_pools \in [Tokens -> Seq(Addresses)] /\ \A t \in Tokens : DOMAIN token_to_pools[t] = {}
      BY <1>0
    <2> QED BY <2>2, <2>3, <2>4, Zenon DEF PoolsInd
  <1>6. WorkersInd
    <2>1. worker \in [Workers -> Thread]
      BY <1>0, <1>2, Zenon
    <2>2. ASSUME NEW w \in Workers PROVE ThreadInd(pools, w, worker[w])
      <3>1. BatchSize \in Nat
        BY DetectorAssumption
      <3> QED BY <1>2, <3>1 DEF ThreadInd
    <2> QED BY <2>1, <2>2, Zenon DEF WorkersInd
  <1>7. DispatchInd
    <2>1. \A i \in TxIds : outcome[i] # None
      BY <1>0 DEF None
    <2>2. Len(work) <= WorkCap /\ Len(channel.queue) <= OppCap
      <3>1. WorkCap \in Nat /\ OppCap \in Nat
        BY DetectorAssumption
      <3>2. work = <<>> /\ channel.queue = <<>>
        BY <1>0
      <3> QED BY <3>1, <3>2
    <2>3. dispatcher.pc = "off" /\ dispatcher.tx = None
      BY <1>0
    <2> QED BY <1>2, <2>1, <2>2, <2>3 DEF DispatchInd
  <1>8. SearchedOnce
    <2>1. Range(work) = {} /\ IsInjective(work)
      BY <1>0 DEF Range, IsInjective
    <2>2. \A w \in Workers : Left(w) = {}
      BY <1>2 DEF Left
    <2>3. \A w \in Workers : InHand(w) = {}
      BY <2>2, Zenon DEF InHand
    <2>4. dispatcher.tx = None /\ None \notin Range(input)
      BY <1>0, <1>1, RangeOf, TxIdsAreNot
    <2>5. Queued \subseteq TxIds
      BY <1>1, <2>1, <2>4, RangeOf, Zenon DEF Queued
    <2>6. \A i \in TxIds : outcome[i] = 0 /\ outcome[i] <= 1
      BY <1>0
    <2>7. \A i \in Queued \cup UNION {InHand(w) : w \in Workers} : outcome[i] = 0
      BY <2>3, <2>5, <2>6, Zenon
    <2> QED BY <1>1, <2>1, <2>2, <2>3, <2>4, <2>6, <2>7, Zenon DEF SearchedOnce, TxIds
  <1>9. Sent = <<>> /\ Len(Sent) = 0 /\ DOMAIN Sent = {}
    BY <1>0 DEF Sent
  <1>10. IdsInd /\ IdsDistinct /\ StepsJoin
    BY <1>9, Zenon DEF IdsInd, IdsDistinct, StepsJoin
  <1>11. CountersAgree
    <2>1. {w \in Workers : worker[w].pc = "send"} = {}
      BY <1>2
    <2>2. {i \in DOMAIN Txs : Txs[i].is_swap /\ outcome[i] = 1} = {}
      BY <1>0 DEF TxIds
    <2>3. Cardinality({}) = 0
      BY Zenon DEF FiniteFacts
    <2>4. stats.profitable = 0 /\ stats.found = 0
      BY <1>0
    <2>5. stats.profitable = Len(Sent) + Cardinality({w \in Workers : worker[w].pc = "send"})
      <3>1. 0 = 0 + 0
        OBVIOUS
      <3> QED BY <1>9, <2>1, <2>3, <2>4, <3>1, Zenon
    <2>6. stats.found = Cardinality({i \in DOMAIN Txs : Txs[i].is_swap /\ outcome[i] = 1})
      BY <2>2, <2>3, <2>4, Zenon
    <2> QED BY <2>5, <2>6, Zenon DEF CountersAgree
  <1> QED BY <1>3, <1>4, <1>5, <1>6, <1>7, <1>8, <1>10, <1>11, Zenon DEF DetectorInd

LEMMA StutterKeeps == ASSUME DetectorInd, UNCHANGED vars PROVE DetectorInd'
  <1>0. /\ running' = running /\ input' = input /\ dispatcher' = dispatcher /\ work' = work
        /\ worker' = worker /\ UNCHANGED maps /\ UNCHANGED <<worker, channel, received>>
        /\ channel' = channel /\ stats' = stats /\ outcome' = outcome
    BY DEF vars, maps
  <1>1. DispatcherTypes /\ DispatchInd /\ SearchedOnce /\ CountersAgree
    BY IndParts, Zenon
  <1>2. /\ ChannelTypes' /\ PoolsInd' /\ WorkersInd' /\ StepsJoin' /\ IdsInd' /\ IdsDistinct'
        /\ Sent' = Sent
    BY <1>0, DispatcherMoves, Zenon
  <1>3. DispatcherTypes'
    BY <1>0, <1>1, Zenon DEF DispatcherTypes
  <1>4. SearchedOnce' /\ CountersAgree'
    BY <1>0, <1>1, <1>2, OnceFrame, CountersFrame, Zenon
  <1>5. DispatchInd'
    BY <1>0, <1>1, Zenon DEF DispatchInd, Disconnected
  <1> QED BY <1>2, <1>3, <1>4, <1>5, Zenon DEF DetectorInd

LEMMA StepKeeps == ASSUME FiniteFacts, DetectorInd, [Next]_vars PROVE DetectorInd'
  <1>1. CASE UNCHANGED vars
    BY <1>1, StutterKeeps, Zenon
  <1>2. CASE Start \/ Stop \/ LoadPool \/ Consume \/ DropReceiver
    BY <1>2, StartKeeps, StopKeeps, LoadKeeps, ConsumeKeeps, DropKeeps, Zenon
  <1>3. CASE \E u \in Updates : update_pool(u)
    BY <1>3, UpdateKeeps, Zenon
  <1>4. CASE Dispatch
    BY <1>4, DispatchCheckKeeps, DispatchRecvKeeps, DispatchSendKeeps, Zenon DEF Dispatch
  <1>5. ASSUME NEW w \in Workers, WorkerStep(w) PROVE DetectorInd'
    BY <1>5, WorkerCheckKeeps, CollectKeeps, NextTxKeeps, PathKeeps, NumberKeeps, SendOppKeeps,
       Zenon DEF WorkerStep
  <1> QED BY <1>1, <1>2, <1>3, <1>4, <1>5, Zenon DEF Next

LEMMA IndImplies == DetectorInd => DetectorInv
  <1> SUFFICES ASSUME DetectorInd PROVE DetectorInv
    OBVIOUS
  <1>1. /\ DispatcherTypes /\ WorkersInd /\ DispatchInd
        /\ SearchedOnce /\ IdsDistinct /\ CountersAgree /\ StepsJoin
    BY IndParts, Zenon
  <1>2. TypeOK
    <2>1. running \in BOOLEAN /\ outcome \in [DOMAIN Txs -> Int]
      BY <1>1, Zenon DEF DispatcherTypes, TxIds
    <2>2. dispatcher.pc \in {"off", "check", "recv", "send", "done"}
      BY <1>1 DEF DispatcherTypes, DispatcherPcs
    <2>3. Len(work) <= WorkCap /\ Len(channel.queue) <= OppCap
      BY <1>1, Zenon DEF DispatchInd
    <2>4. ASSUME NEW w \in Workers
          PROVE  /\ worker[w].pc \in {"off", "check", "collect", "tx", "find", "number", "send"}
                                       \cup Ended
                 /\ Len(worker[w].batch) <= BatchSize
      <3>1. worker[w].pc \in WorkerPcs /\ Len(worker[w].batch) <= BatchSize
        BY <1>1, ThreadFields, Zenon DEF WorkersInd, ThreadInd
      <3> QED BY <3>1 DEF WorkerPcs, Ended
    <2> QED BY <2>1, <2>2, <2>3, <2>4, Zenon DEF TypeOK
  <1>3. DropNeedsNoWorker
    BY <1>1, Zenon DEF DropNeedsNoWorker, DispatchInd, TxIds
  <1> QED BY <1>1, <1>2, <1>3, Zenon DEF DetectorInv

-----------------------------------------------------------------------------
(* Finite sets, and the theorem.                                           *)

INSTANCE FiniteSetTheorems

LEMMA FiniteFactsHold == FiniteFacts
  <1>1. Cardinality({}) = 0
    BY FS_EmptySet, Zenon
  <1>2. \A S, e : IsFiniteSet(S) /\ e \notin S =>
          Cardinality(S) \in Nat /\ Cardinality(S \cup {e}) = Cardinality(S) + 1
    BY FS_AddElement, FS_CardinalityType, Zenon
  <1>3. \A n \in Nat : IsFiniteSet(1 .. n)
    <2>1. 1 \in Int /\ \A n \in Nat : n \in Int
      OBVIOUS
    <2> QED BY <2>1, FS_Interval, Zenon
  <1>4. \A S : S \subseteq TxIds => IsFiniteSet(S)
    <2>1. TxIds = 1 .. Len(Txs) /\ Len(Txs) \in Nat
      BY DetectorAssumption DEF TxIds
    <2>2. IsFiniteSet(TxIds)
      BY <1>3, <2>1, Zenon
    <2> QED BY <2>2, FS_Subset, Zenon
  <1>5. \A S : S \subseteq Workers => IsFiniteSet(S)
    <2>1. IsFiniteSet(Workers)
      BY DetectorAssumption, Zenon
    <2> QED BY <2>1, FS_Subset, Zenon
  <1>6. ASSUME NEW n \in Nat, NEW S, S \subseteq 1 .. n PROVE Cardinality(S) \in Nat
    <2>1. IsFiniteSet(S)
      BY <1>3, <1>6, FS_Subset, Zenon
    <2> QED BY <2>1, FS_CardinalityType, Zenon
  <1> QED BY <1>1, <1>2, <1>4, <1>5, <1>6, Zenon DEF FiniteFacts

(* The multi-threaded detector repeats and miscounts nothing, for any      *)
(* workers, transactions, pools and channel sizes: a transaction waits in  *)
(* at most one place and is finished at most once, and is dropped only     *)
(* when every worker has ended; ids are distinct while no worker has used  *)
(* up its range; opportunities_found and profitable_count agree with what  *)
(* was searched and sent; and both pools of every path hold the tokens     *)
(* they exchange, however load_pools and update_pool interleave with the   *)
(* search.                                                                 *)
THEOREM DetectorInvariant == Spec => []DetectorInv
  <1>1. Init => DetectorInd
    BY FiniteFactsHold, InitHolds, Zenon
  <1>2. DetectorInd /\ [Next]_vars => DetectorInd'
    BY FiniteFactsHold, StepKeeps, Zenon
  <1>3. DetectorInd => DetectorInv
    BY IndImplies
  <1> QED BY <1>1, <1>2, <1>3, PTL DEF Spec
=============================================================================
