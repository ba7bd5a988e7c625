-------------------------- MODULE NetworkNodeProofs --------------------------
(***************************************************************************)
(* The transaction path of the Go node, for every set of transactions and  *)
(* of workers, every chain and every size of the channels: the watcher's   *)
(* and the pipeline's invariants hold while the parts run together, the    *)
(* block feed arrives in the pipeline's input, and the pipeline is quiet   *)
(* once main has stopped it.                                               *)
(***************************************************************************)
EXTENDS NetworkNode, TLAPS

-----------------------------------------------------------------------------
(* Sequences over a set, and what the steps do to a channel.               *)

LEMMA ElementOf == \A S : \A s \in Seq(S) : \A i \in DOMAIN s : s[i] \in S
  OBVIOUS

LEMMA AppendTo ==
    ASSUME NEW S, NEW s \in Seq(S), NEW e \in S
    PROVE  /\ Append(s, e) \in Seq(S) /\ Append(s, e) # <<>>
           /\ Len(s) \in Nat /\ Len(Append(s, e)) = Len(s) + 1
           /\ Append(s, e)[Len(s) + 1] = e
           /\ \A k \in DOMAIN Append(s, e) : k \in DOMAIN s \/ k = Len(s) + 1
           /\ \A k \in DOMAIN s : k \in DOMAIN Append(s, e) /\ Append(s, e)[k] = s[k]
  OBVIOUS

LEMMA RoomFor ==
    ASSUME NEW S, NEW s \in Seq(S), NEW e \in S, NEW b \in Nat, Len(s) < b
    PROVE  Append(s, e) \in Seq(S) /\ Len(Append(s, e)) <= b
  BY AppendTo

LEMMA EmptyFits == ASSUME NEW S, NEW b \in Nat PROVE <<>> \in Seq(S) /\ Len(<<>>) <= b
  OBVIOUS

LEMMA TailOf ==
    ASSUME NEW S, NEW s \in Seq(S), s # <<>>
    PROVE  /\ Head(s) \in S /\ Tail(s) \in Seq(S) /\ Len(s) \in Nat \ {0}
           /\ Len(Tail(s)) = Len(s) - 1 /\ s = <<Head(s)>> \o Tail(s) /\ Head(s) = s[1]
           /\ \A k \in DOMAIN Tail(s) : k + 1 \in DOMAIN s /\ Tail(s)[k] = s[k + 1]
  OBVIOUS

LEMMA LongerTail ==
    ASSUME NEW S, NEW s \in Seq(S), s # <<>>, Len(s) # 1
    PROVE  Tail(s) # <<>>
  <1>1. Len(Tail(s)) # 0
    BY TailOf
  <1>2. Len(<<>>) = 0
    OBVIOUS
  <1> QED BY Zenon, <1>1, <1>2

LEMMA StoreIn ==
    ASSUME NEW S, NEW s \in Seq(S), NEW i \in DOMAIN s, NEW e \in S
    PROVE  /\ [s EXCEPT ![i] = e] \in Seq(S) /\ DOMAIN [s EXCEPT ![i] = e] = DOMAIN s
           /\ [s EXCEPT ![i] = e][i] = e
           /\ \A k \in DOMAIN s : k # i => [s EXCEPT ![i] = e][k] = s[k]
  OBVIOUS

-----------------------------------------------------------------------------
(* The block watcher.                                                      *)

WatcherInd ==
    Watcher!TypeOK /\ Watcher!OnChain /\ Watcher!LastSeen /\ Watcher!PollRemembers

(* The latest header is the tip, so the target is the block after it.      *)
LEMMA TipFollows == WatcherInd => Watcher!WatcherInv /\ Watcher!PollRemembers
  <1> SUFFICES ASSUME WatcherInd, watch = "subscribed", fresh, heads = <<>>
               PROVE  latest = Watcher!Tip /\ Watcher!TargetBlock = Len(chain) + 1
    BY DEF WatcherInd, Watcher!WatcherInv, Watcher!TipKnown
  <1>1. latest = Watcher!Tip /\ chain \in Seq(0 .. MaxReorgs) /\ chain # <<>>
    BY DEF WatcherInd, Watcher!LastSeen, Watcher!OnChain, Watcher!TypeOK
  <1>2. Len(chain) \in Nat \ {0}
    BY <1>1
  <1> QED BY <1>1, <1>2 DEF Watcher!Tip, Watcher!TargetBlock, Watcher!NoHeader

(* The chain gets a new tip, which is delivered to a subscriber.           *)
LEMMA ChainKeeps ==
    ASSUME WatcherInd, Watcher!ChainStep
    PROVE  WatcherInd' /\ UNCHANGED <<ctxDone, blockTxChan>>
  <1>0. /\ MaxReorgs \in Nat /\ MaxHeight \in Nat /\ chain \in Seq(0 .. MaxReorgs)
        /\ reorgs \in 0 .. MaxReorgs /\ Len(chain) <= MaxHeight /\ Len(chain) \in Nat
        /\ HeadBuffer \in Nat /\ heads \in Seq(Watcher!Headers) /\ Len(heads) <= HeadBuffer
    BY NodeAssumption DEF WatcherInd, Watcher!TypeOK
  <1>1. /\ chain' \in Seq(0 .. MaxReorgs) /\ reorgs' \in 0 .. MaxReorgs
        /\ Len(chain') \in 1 .. MaxHeight /\ Len(chain') >= Len(chain)
        /\ Watcher!Deliver
    <2>1. CASE Watcher!ChainGrows
      <3>1. /\ Len(chain) < MaxHeight /\ chain' = Append(chain, reorgs) /\ reorgs' = reorgs
            /\ Watcher!Deliver
        BY <2>1 DEF Watcher!ChainGrows
      <3>2. chain' \in Seq(0 .. MaxReorgs) /\ Len(chain') = Len(chain) + 1
        BY <1>0, <3>1
      <3> QED BY <1>0, <3>1, <3>2
    <2>2. CASE Watcher!ChainReorgs
      BY <1>0, <2>2 DEF Watcher!ChainReorgs
    <2> QED BY <2>1, <2>2 DEF Watcher!ChainStep
  <1> DEFINE tip == Watcher!Tip'
  <1>2. tip \in Watcher!Headers /\ tip.number = Len(chain')
    <2>1. chain'[Len(chain')] \in 0 .. MaxReorgs
      <3>1. Len(chain') \in DOMAIN chain'
        BY <1>0, <1>1
      <3> QED BY <1>1, <3>1, ElementOf, Zenon
    <2> QED BY <1>1, <2>1 DEF Watcher!Tip, Watcher!Headers
  <1>3. /\ \/ watch' = "looping" /\ heads' = <<>>
           \/ watch' = watch /\ watch = "subscribed" /\ heads' = Append(heads, tip)
              /\ Len(heads) # HeadBuffer
           \/ watch' = watch /\ watch # "subscribed" /\ heads' = heads
        /\ UNCHANGED <<ctxDone, lastBlock, fresh, latest, headerChan, scans, blockTxChan>>
    BY <1>1 DEF Watcher!Deliver
  <1> HIDE DEF tip
  <1>4. /\ heads' \in Seq(Watcher!Headers) /\ Len(heads') <= HeadBuffer
        /\ \A k \in DOMAIN heads' : heads'[k].number <= Len(chain')
        /\ watch' = "subscribed" => heads'[Len(heads')] = tip /\ heads' # <<>>
    <2>1. \A k \in DOMAIN heads : heads[k].number <= Len(chain')
      <3>1. \A k \in DOMAIN heads : heads[k].number \in Nat /\ heads[k].number <= Len(chain)
        <4>1. \A k \in DOMAIN heads : heads[k] \in Watcher!Headers
          BY <1>0
        <4>2. \A h \in Watcher!Headers : h.number \in Nat
          BY <1>0 DEF Watcher!Headers
        <4> QED BY <4>1, <4>2 DEF WatcherInd, Watcher!OnChain
      <3> QED BY <1>0, <1>1, <3>1
    <2>2. CASE watch' = "looping" /\ heads' = <<>>
      BY <1>0, <2>2
    <2>3. CASE watch # "subscribed" /\ watch' = watch /\ heads' = heads
      BY <1>0, <2>1, <2>3
    <2>4. CASE heads' = Append(heads, tip) /\ Len(heads) # HeadBuffer
      <3>1. heads' \in Seq(Watcher!Headers) /\ Len(heads') = Len(heads) + 1
            /\ heads'[Len(heads')] = tip /\ \A k \in DOMAIN heads : heads'[k] = heads[k]
        BY <1>0, <1>2, <2>4
      <3>2. \A k \in DOMAIN heads' : k \in DOMAIN heads \/ k = Len(heads')
        BY <1>0, <3>1
      <3>3. Len(heads') <= HeadBuffer /\ heads' # <<>>
        BY <1>0, <3>1, <2>4
      <3>4. \A k \in DOMAIN heads' : heads'[k].number <= Len(chain')
        <4>1. tip.number <= Len(chain')
          BY <1>1, <1>2
        <4> QED BY Zenon, <2>1, <3>1, <3>2, <4>1
      <3> QED BY Zenon, <3>1, <3>3, <3>4
    <2> QED BY <1>3, <2>2, <2>3, <2>4
  <1>5. Watcher!TypeOK'
    BY <1>1, <1>3, <1>4 DEF WatcherInd, Watcher!TypeOK, Watcher!Headers, Watcher!Scans, Watcher!NoHeader
  <1>6. Watcher!OnChain'
    <2>1. chain' # <<>> /\ scans' = scans /\ Len(chain') \in Nat
      BY <1>1, <1>3
    <2>2. \A i \in DOMAIN scans : scans[i].at \in {"waiting", "fetching"} =>
                scans[i].block \in 1 .. Len(chain')
      BY <1>0, <1>1, <2>1 DEF WatcherInd, Watcher!OnChain
    <2> QED BY <1>4, <2>1, <2>2 DEF WatcherInd, Watcher!OnChain
  <1>7. Watcher!LastSeen' /\ Watcher!PollRemembers'
    <2>1. Watcher!LastSeen'
      BY <1>4 DEF Watcher!LastSeen, tip
    <2>2. Watcher!PollRemembers'
      BY <1>3 DEF WatcherInd, Watcher!PollRemembers
    <2> QED BY <2>1, <2>2
  <1> QED BY <1>3, <1>5, <1>6, <1>7 DEF WatcherInd

(* A handled header becomes the latest, and its block is scanned.          *)
LEMMA HeaderTaken ==
    ASSUME WatcherInd, NEW h \in Watcher!Headers, h.number <= Len(chain),
           Watcher!HandleHeader(h)
    PROVE  /\ latest' = h /\ Len(chain) \in Nat \ {0} /\ chain # <<>>
           /\ headerChan' \in Seq(Watcher!Headers) /\ Len(headerChan') <= HeaderBuffer
           /\ scans' \in Seq(Watcher!Scans)
           /\ \A i \in DOMAIN scans' :
                /\ scans'[i].at \in {"waiting", "fetching"} => scans'[i].block \in 1 .. Len(chain)
                /\ scans'[i].at = "pushing" => scans'[i].left # <<>>
  <1> DEFINE new == [block |-> h.number, at |-> "waiting", left |-> <<>>]
  <1>0. /\ MaxHeight \in Nat /\ HeaderBuffer \in Nat /\ chain \in Seq(0 .. MaxReorgs)
        /\ headerChan \in Seq(Watcher!Headers) /\ Len(headerChan) <= HeaderBuffer
        /\ scans \in Seq(Watcher!Scans)
    BY NodeAssumption DEF WatcherInd, Watcher!TypeOK
  <1>1. h.number \in 1 .. MaxHeight /\ h.number \in 1 .. Len(chain) /\ Len(chain) \in Nat \ {0}
    BY <1>0 DEF Watcher!Headers
  <1>2. new \in Watcher!Scans /\ new.at = "waiting" /\ new.block = h.number
    BY <1>0, <1>1 DEF Watcher!Scans
  <1>3. /\ latest' = h /\ scans' = Append(scans, new)
        /\ \/ headerChan' = headerChan
           \/ headerChan' = Append(headerChan, h) /\ Len(headerChan) < HeaderBuffer
    BY DEF Watcher!HandleHeader
  <1> HIDE DEF new
  <1>4. headerChan' \in Seq(Watcher!Headers) /\ Len(headerChan') <= HeaderBuffer
    <2>1. Len(headerChan) < HeaderBuffer =>
            /\ Append(headerChan, h) \in Seq(Watcher!Headers)
            /\ Len(Append(headerChan, h)) <= HeaderBuffer
      BY Zenon, <1>0, RoomFor
    <2> QED BY Zenon, <1>0, <1>3, <2>1
  <1>5. /\ scans' \in Seq(Watcher!Scans)
        /\ \A i \in DOMAIN scans' : scans'[i] = new \/ (i \in DOMAIN scans /\ scans'[i] = scans[i])
    BY <1>0, <1>2, <1>3, AppendTo
  <1> QED BY <1>0, <1>1, <1>2, <1>3, <1>4, <1>5 DEF WatcherInd, Watcher!OnChain

(* Subscribing, polling and what a subscription or a poll yields.          *)
LEMMA WatchKeeps ==
    ASSUME WatcherInd, Watcher!WatchStep
    PROVE  WatcherInd' /\ UNCHANGED <<ctxDone, blockTxChan>>
  <1>0. /\ MaxHeight \in Nat /\ chain \in Seq(0 .. MaxReorgs) /\ Len(chain) <= MaxHeight
        /\ HeadBuffer \in Nat /\ heads \in Seq(Watcher!Headers) /\ Len(heads) <= HeadBuffer
    BY NodeAssumption DEF WatcherInd, Watcher!TypeOK
  <1>1. CASE Watcher!Subscribe \/ Watcher!SubscriptionEnds \/ Watcher!PollCancelled
    <2>1. /\ watch' \in {"looping", "subscribed", "polling", "stopped"}
          /\ watch' = "subscribed" => heads' = <<>>
          /\ watch' \in {"subscribed", "polling"} => fresh' = FALSE
          /\ heads' \in {heads, <<>>} /\ fresh' \in {fresh, FALSE} /\ lastBlock' \in {lastBlock, 0}
          /\ UNCHANGED <<ctxDone, chain, reorgs, latest, headerChan, scans, blockTxChan>>
      BY <1>1, Zenon DEF Watcher!Subscribe, Watcher!SubscriptionEnds, Watcher!PollCancelled
    <2>2. /\ heads' \in Seq(Watcher!Headers) /\ Len(heads') <= HeadBuffer
          /\ fresh' \in BOOLEAN /\ lastBlock' \in 0 .. MaxHeight
      <3>1. <<>> \in Seq(Watcher!Headers) /\ Len(<<>>) <= HeadBuffer /\ 0 \in 0 .. MaxHeight
        BY <1>0, EmptyFits
      <3> QED BY Zenon, <1>0, <2>1, <3>1 DEF WatcherInd, Watcher!TypeOK
    <2>3. Watcher!TypeOK'
      BY Zenon, <2>1, <2>2 DEF WatcherInd, Watcher!TypeOK, Watcher!Headers, Watcher!Scans,
                              Watcher!NoHeader
    <2>4. Watcher!OnChain'
      <3>1. \A k \in DOMAIN heads' : heads'[k].number <= Len(chain)
        <4>1. DOMAIN <<>> = {}
          OBVIOUS
        <4> QED BY Zenon, <2>1, <4>1 DEF WatcherInd, Watcher!OnChain
      <3>2. fresh' => chain # <<>>
        BY <2>1, Zenon DEF WatcherInd, Watcher!OnChain
      <3> QED BY Zenon, <2>1, <3>1, <3>2 DEF WatcherInd, Watcher!OnChain
    <2>5. Watcher!LastSeen' /\ Watcher!PollRemembers'
      BY <2>1 DEF Watcher!LastSeen, Watcher!PollRemembers
    <2> QED BY <2>1, <2>3, <2>4, <2>5 DEF WatcherInd
  <1>3. CASE Watcher!ReceiveHeader
    <2>1. /\ watch = "subscribed" /\ heads # <<>> /\ heads' = Tail(heads) /\ fresh' = TRUE
          /\ Watcher!HandleHeader(Head(heads))
          /\ UNCHANGED <<ctxDone, chain, reorgs, watch, lastBlock, blockTxChan>>
      BY <1>3 DEF Watcher!ReceiveHeader
    <2>2. /\ Head(heads) \in Watcher!Headers /\ Head(heads).number <= Len(chain)
          /\ Tail(heads) \in Seq(Watcher!Headers) /\ Len(Tail(heads)) <= HeadBuffer
          /\ \A k \in DOMAIN heads' : heads'[k].number <= Len(chain)
          /\ heads' # <<>> => heads'[Len(heads')] = heads[Len(heads)]
          /\ heads' = <<>> => Head(heads) = heads[Len(heads)]
      <3>1. \A k \in DOMAIN heads : heads[k].number <= Len(chain)
        BY DEF WatcherInd, Watcher!OnChain
      <3>2. Head(heads) \in Watcher!Headers /\ Tail(heads) \in Seq(Watcher!Headers)
            /\ Len(heads') = Len(heads) - 1 /\ Len(heads) \in Nat \ {0} /\ Head(heads) = heads[1]
            /\ \A k \in DOMAIN heads' : k + 1 \in DOMAIN heads /\ heads'[k] = heads[k + 1]
        BY <1>0, <2>1, TailOf
      <3>3. 1 \in DOMAIN heads /\ Len(heads) \in DOMAIN heads
        BY <1>0, <3>2
      <3>4. heads' # <<>> => heads'[Len(heads')] = heads[Len(heads)]
        <4> HAVE heads' # <<>>
        <4>1. Len(heads') \in DOMAIN heads' /\ Len(heads') + 1 = Len(heads)
          BY <2>1, <3>2
        <4> QED BY <3>2, <4>1
      <3>5. heads' = <<>> => Head(heads) = heads[Len(heads)]
        <4> HAVE heads' = <<>>
        <4>1. Len(heads) = 1
          BY <3>2
        <4> QED BY <3>2, <4>1
      <3> QED BY <1>0, <2>1, <3>1, <3>2, <3>3, <3>4, <3>5
    <2>3. /\ latest' = Head(heads) /\ chain # <<>>
          /\ headerChan' \in Seq(Watcher!Headers) /\ Len(headerChan') <= HeaderBuffer
          /\ scans' \in Seq(Watcher!Scans)
          /\ \A i \in DOMAIN scans' :
                /\ scans'[i].at \in {"waiting", "fetching"} => scans'[i].block \in 1 .. Len(chain)
                /\ scans'[i].at = "pushing" => scans'[i].left # <<>>
      BY <2>1, <2>2, HeaderTaken
    <2>4. Watcher!TypeOK'
      BY Zenon, <2>1, <2>2, <2>3 DEF WatcherInd, Watcher!TypeOK, Watcher!Headers, Watcher!Scans,
                              Watcher!NoHeader
    <2>5. Watcher!OnChain'
      BY <2>1, <2>2, <2>3 DEF Watcher!OnChain
    <2>6. Watcher!LastSeen' /\ Watcher!PollRemembers'
      BY <2>1, <2>2, <2>3 DEF WatcherInd, Watcher!LastSeen, Watcher!PollRemembers, Watcher!Tip
    <2> QED BY <2>1, <2>4, <2>5, <2>6 DEF WatcherInd
  <1>4. ASSUME NEW n \in 1 .. Len(chain), Watcher!Poll(n)
        PROVE  WatcherInd' /\ UNCHANGED <<ctxDone, blockTxChan>>
    <2> DEFINE h == [number |-> n, fork |-> chain[n]]
    <2>1. /\ watch = "polling" /\ lastBlock' = n /\ fresh' = TRUE /\ Watcher!HandleHeader(h)
          /\ UNCHANGED <<ctxDone, chain, reorgs, watch, heads, blockTxChan>>
      BY <1>4 DEF Watcher!Poll
    <2>2. h \in Watcher!Headers /\ h.number = n /\ n <= Len(chain) /\ n \in 0 .. MaxHeight
      <3>1. n \in DOMAIN chain /\ n \in 1 .. MaxHeight
        BY <1>0
      <3>2. chain[n] \in 0 .. MaxReorgs
        BY <1>0, <3>1, ElementOf, Zenon
      <3> QED BY <1>0, <3>1, <3>2 DEF Watcher!Headers
    <2> HIDE DEF h
    <2>3. /\ latest' = h /\ chain # <<>>
          /\ headerChan' \in Seq(Watcher!Headers) /\ Len(headerChan') <= HeaderBuffer
          /\ scans' \in Seq(Watcher!Scans)
          /\ \A i \in DOMAIN scans' :
                /\ scans'[i].at \in {"waiting", "fetching"} => scans'[i].block \in 1 .. Len(chain)
                /\ scans'[i].at = "pushing" => scans'[i].left # <<>>
      BY <2>1, <2>2, HeaderTaken
    <2>4. Watcher!TypeOK'
      BY <2>1, <2>2, <2>3 DEF WatcherInd, Watcher!TypeOK, Watcher!Headers, Watcher!Scans,
                              Watcher!NoHeader
    <2>5. Watcher!OnChain'
      BY <2>1, <2>2, <2>3 DEF WatcherInd, Watcher!OnChain
    <2>6. Watcher!LastSeen' /\ Watcher!PollRemembers'
      BY <2>1, <2>2, <2>3 DEF WatcherInd, Watcher!LastSeen, Watcher!PollRemembers, Watcher!Tip
    <2> QED BY <2>1, <2>4, <2>5, <2>6 DEF WatcherInd
  <1> QED BY <1>1, <1>3, <1>4 DEF Watcher!WatchStep, Watcher!PollStep

(* A step of a scan: it touches its own record and puts at most one        *)
(* transaction into the channel.                                           *)
LEMMA ScanKeeps ==
    ASSUME WatcherInd, NEW i \in DOMAIN scans, Watcher!ScanStep(i)
    PROVE  /\ WatcherInd' /\ UNCHANGED ctxDone
           /\ \/ UNCHANGED blockTxChan
              \/ \E tx \in Txs : blockTxChan' = Append(blockTxChan, tx)
  <1>0. /\ scans \in Seq(Watcher!Scans) /\ scans[i] \in Watcher!Scans /\ TxBuffer \in Nat
        /\ blockTxChan \in Seq(Txs) /\ Len(blockTxChan) <= TxBuffer /\ MaxHeight \in Nat
        /\ chain \in Seq(0 .. MaxReorgs) /\ Len(chain) <= MaxHeight
    BY NodeAssumption, ElementOf DEF WatcherInd, Watcher!TypeOK
  <1>1. /\ scans[i].at \in {"waiting", "fetching"} => scans[i].block \in 1 .. Len(chain)
        /\ scans[i].at = "pushing" => scans[i].left # <<>>
        /\ scans[i].left \in Seq(Txs) /\ scans[i].block \in 0 .. MaxHeight
    BY <1>0, Zenon DEF WatcherInd, Watcher!OnChain, Watcher!Scans
  <1> DEFINE Good(e) == /\ e \in Watcher!Scans
                        /\ e.at \in {"waiting", "fetching"} => e.block \in 1 .. Len(chain)
                        /\ e.at = "pushing" => e.left # <<>>
  <1>2. Good(Watcher!Ended)
    BY <1>0 DEF Watcher!Ended, Watcher!Scans
  <1>3. /\ \E e : Good(e) /\ scans' = [scans EXCEPT ![i] = e]
        /\ \/ UNCHANGED blockTxChan
           \/ Len(blockTxChan) < TxBuffer /\ \E tx \in Txs : blockTxChan' = Append(blockTxChan, tx)
        /\ UNCHANGED <<ctxDone, chain, reorgs, watch, heads, lastBlock, fresh, latest, headerChan>>
    <2>1. CASE Watcher!ScanAcquire(i)
      <3> DEFINE e == [scans[i] EXCEPT !.at = "fetching"]
      <3>1. Good(e)
        BY <1>0, <1>1, <2>1, Zenon DEF Watcher!Scans, Watcher!ScanAcquire
      <3>2. scans' = [scans EXCEPT ![i] = e] /\ UNCHANGED blockTxChan
        BY <2>1 DEF Watcher!ScanAcquire, Watcher!ScanAt
      <3> QED BY <2>1, <3>1, <3>2, Zenon DEF Watcher!ScanAcquire
    <2>2. CASE Watcher!ScanFetch(i)
      <3> DEFINE txs == Body[scans[i].block][chain[scans[i].block]]
                 e == [scans[i] EXCEPT !.at = "pushing", !.left = txs]
      <3>1. txs \in Seq(Txs)
        <4>1. scans[i].block \in DOMAIN chain /\ scans[i].block \in 1 .. MaxHeight
          BY <1>0, <1>1, <2>2 DEF Watcher!ScanFetch
        <4>2. chain[scans[i].block] \in 0 .. MaxReorgs
          BY <1>0, <4>1, ElementOf, Zenon
        <4> QED BY Zenon, <4>1, <4>2, NodeAssumption
      <3>2. CASE Watcher!ScanEnds(i)
        BY <2>2, <3>2, <1>2, Zenon DEF Watcher!ScanFetch, Watcher!ScanEnds
      <3>3. CASE txs # <<>> /\ scans' = [scans EXCEPT ![i].at = "pushing", ![i].left = txs]
        <4>1. Good(e)
          BY <1>0, <1>1, <3>1, <3>3, Zenon DEF Watcher!Scans
        <4>2. scans' = [scans EXCEPT ![i] = e]
          BY <3>3, Zenon
        <4> QED BY <2>2, <4>1, <4>2, Zenon DEF Watcher!ScanFetch
      <3> QED BY <2>2, <3>2, <3>3 DEF Watcher!ScanFetch
    <2>3. CASE Watcher!ScanPush(i)
      <3> DEFINE e == [scans[i] EXCEPT !.left = Tail(@)]
      <3>1. /\ scans[i].at = "pushing" /\ scans[i].left # <<>>
            /\ Head(scans[i].left) \in Txs /\ Tail(scans[i].left) \in Seq(Txs)
            /\ Len(scans[i].left) # 1 => Tail(scans[i].left) # <<>>
        <4>1. scans[i].at = "pushing" /\ scans[i].left # <<>> /\ scans[i].left \in Seq(Txs)
          BY Zenon, <1>1, <2>3 DEF Watcher!ScanPush
        <4>2. Len(scans[i].left) # 1 => Tail(scans[i].left) # <<>>
          BY Zenon, <4>1, LongerTail
        <4>3. Head(scans[i].left) \in Txs /\ Tail(scans[i].left) \in Seq(Txs)
          BY Zenon, <4>1, TailOf
        <4> QED BY Zenon, <4>1, <4>2, <4>3
      <3>2. Len(scans[i].left) # 1 => Good(e)
        BY <1>0, <1>1, <3>1, Zenon DEF Watcher!Scans
      <3>3. \/ scans' = [scans EXCEPT ![i] = Watcher!Ended]
            \/ Len(scans[i].left) # 1 /\ scans' = [scans EXCEPT ![i] = e]
        BY <2>3 DEF Watcher!ScanPush, Watcher!ScanEnds
      <3>4. \E f : Good(f) /\ scans' = [scans EXCEPT ![i] = f]
        BY <1>2, <3>2, <3>3, Zenon
      <3> QED BY <2>3, <3>1, <3>4, Zenon DEF Watcher!ScanPush
    <2> QED BY <2>1, <2>2, <2>3 DEF Watcher!ScanStep
  <1>4. PICK e : Good(e) /\ scans' = [scans EXCEPT ![i] = e]
    BY <1>3, Zenon
  <1>5. /\ scans' \in Seq(Watcher!Scans)
        /\ \A k \in DOMAIN scans' : k \in DOMAIN scans /\ (scans'[k] = e \/ scans'[k] = scans[k])
    BY <1>0, <1>4, StoreIn
  <1>6. blockTxChan' \in Seq(Txs) /\ Len(blockTxChan') <= TxBuffer
    <2>1. CASE UNCHANGED blockTxChan
      BY <1>0, <2>1, Zenon
    <2>2. ASSUME Len(blockTxChan) < TxBuffer, NEW tx \in Txs,
                 blockTxChan' = Append(blockTxChan, tx)
          PROVE  blockTxChan' \in Seq(Txs) /\ Len(blockTxChan') <= TxBuffer
      BY <1>0, <2>2, RoomFor, Zenon
    <2> QED BY <1>3, <2>1, <2>2, Zenon
  <1>7. Watcher!TypeOK'
    BY <1>3, <1>5, <1>6 DEF WatcherInd, Watcher!TypeOK, Watcher!Headers, Watcher!Scans,
                            Watcher!NoHeader
  <1>8. Watcher!OnChain'
    BY <1>3, <1>4, <1>5 DEF WatcherInd, Watcher!OnChain
  <1>9. Watcher!LastSeen' /\ Watcher!PollRemembers'
    BY <1>3 DEF WatcherInd, Watcher!LastSeen, Watcher!PollRemembers, Watcher!Tip
  <1> QED BY <1>3, <1>7, <1>8, <1>9 DEF WatcherInd

-----------------------------------------------------------------------------
(* The pipeline.                                                           *)

Ats == {"select", "classify", "count", "emit", "stopped"}

(* What a step of a worker does to its own record and to the channels.     *)
LEMMA WorkerMoves ==
    ASSUME Pipeline!TypeOK, NEW w \in Workers, Pipeline!WorkerStep(w)
    PROVE  /\ \E e \in [at : Ats, tx : Txs \cup {NoTx}] :
                /\ worker' = [worker EXCEPT ![w] = e]
                /\ e.tx = NoTx <=> e.at \in {"select", "stopped"}
           /\ merged' \in Seq(Txs) /\ Len(merged') <= MergeBuffer
           /\ outputChan' \in Seq(Txs) /\ Len(outputChan') <= OutputBuffer
           /\ worker[w].at # "stopped"
           /\ UNCHANGED <<ctxDone, outputClosed, reporter>>
  <1>0. /\ OutputBuffer \in Nat /\ NoTx \notin Txs
        /\ merged \in Seq(Txs) /\ Len(merged) <= MergeBuffer
        /\ outputChan \in Seq(Txs) /\ Len(outputChan) <= OutputBuffer
        /\ worker[w] \in [at : Ats, tx : Txs \cup {NoTx}]
        /\ worker[w].tx = NoTx <=> worker[w].at \in {"select", "stopped"}
    BY NodeAssumption DEF Pipeline!TypeOK, Ats
  <1>1. CASE Pipeline!WorkerTakes(w)
    <2> DEFINE e == [at |-> "classify", tx |-> Head(merged)]
    <2>1. Head(merged) \in Txs /\ merged' \in Seq(Txs) /\ Len(merged') <= MergeBuffer
      <3>1. MergeBuffer \in Nat /\ merged # <<>> /\ merged' = Tail(merged)
        BY <1>1, NodeAssumption DEF Pipeline!WorkerTakes
      <3>2. Head(merged) \in Txs /\ Tail(merged) \in Seq(Txs) /\ Len(Tail(merged)) = Len(merged) - 1
            /\ Len(merged) \in Nat
        BY <1>0, <3>1, TailOf
      <3> QED BY <1>0, <3>1, <3>2
    <2>2. e \in [at : Ats, tx : Txs \cup {NoTx}] /\ (e.tx = NoTx <=> e.at \in {"select", "stopped"})
      BY <1>0, <2>1 DEF Ats
    <2>3. worker' = [worker EXCEPT ![w] = e] /\ worker[w].at # "stopped"
          /\ UNCHANGED <<outputChan, ctxDone, outputClosed, reporter>>
      BY <1>1 DEF Pipeline!WorkerTakes, Pipeline!WorkerAt
    <2> QED BY <1>0, <2>1, <2>2, <2>3, Zenon
  <1>2. CASE Pipeline!WorkerStops(w)
    <2> DEFINE e == [at |-> "stopped", tx |-> NoTx]
    <2>1. e \in [at : Ats, tx : Txs \cup {NoTx}] /\ (e.tx = NoTx <=> e.at \in {"select", "stopped"})
      BY DEF Ats
    <2>2. worker' = [worker EXCEPT ![w] = e] /\ worker[w].at # "stopped"
          /\ UNCHANGED <<merged, outputChan, ctxDone, outputClosed, reporter>>
      BY <1>2 DEF Pipeline!WorkerStops, Pipeline!WorkerAt
    <2> QED BY <1>0, <2>1, <2>2, Zenon
  <1> DEFINE idle == [at |-> "select", tx |-> NoTx]
  <1>3. idle \in [at : Ats, tx : Txs \cup {NoTx}]
        /\ (idle.tx = NoTx <=> idle.at \in {"select", "stopped"})
    BY DEF Ats
  <1>4. CASE Pipeline!Classify(w)
    <2> DEFINE e == [at |-> "count", tx |-> worker[w].tx]
    <2>1. e \in [at : Ats, tx : Txs \cup {NoTx}] /\ (e.tx = NoTx <=> e.at \in {"select", "stopped"})
      BY <1>0, <1>4 DEF Ats, Pipeline!Classify
    <2>2. worker' \in {[worker EXCEPT ![w] = e], [worker EXCEPT ![w] = idle]}
          /\ worker[w].at # "stopped"
          /\ UNCHANGED <<merged, outputChan, ctxDone, outputClosed, reporter>>
      BY <1>4 DEF Pipeline!Classify, Pipeline!WorkerAt, Pipeline!Idle
    <2> QED BY <1>0, <1>3, <2>1, <2>2
  <1>5. CASE Pipeline!Count(w)
    <2> DEFINE e == [at |-> "emit", tx |-> worker[w].tx]
    <2>1. e \in [at : Ats, tx : Txs \cup {NoTx}] /\ (e.tx = NoTx <=> e.at \in {"select", "stopped"})
      BY <1>0, <1>5 DEF Ats, Pipeline!Count
    <2>2. worker' = [worker EXCEPT ![w] = e] /\ worker[w].at # "stopped"
          /\ UNCHANGED <<merged, outputChan, ctxDone, outputClosed, reporter>>
      BY <1>5 DEF Pipeline!Count, Pipeline!WorkerAt
    <2> QED BY <1>0, <2>1, <2>2, Zenon
  <1>6. CASE Pipeline!Emit(w)
    <2>1. worker[w].tx \in Txs
      BY <1>0, <1>6 DEF Pipeline!Emit
    <2>2. worker' = [worker EXCEPT ![w] = idle] /\ worker[w].at # "stopped"
          /\ UNCHANGED <<merged, ctxDone, outputClosed, reporter>>
          /\ \/ UNCHANGED outputChan
             \/ Len(outputChan) < OutputBuffer /\ outputChan' = Append(outputChan, worker[w].tx)
      BY <1>6 DEF Pipeline!Emit, Pipeline!WorkerAt, Pipeline!Idle
    <2>3. outputChan' \in Seq(Txs) /\ Len(outputChan') <= OutputBuffer
      <3>1. OutputBuffer \in Nat /\ outputChan \in Seq(Txs) /\ Len(outputChan) <= OutputBuffer
        BY Zenon, <1>0
      <3>2. Len(outputChan) < OutputBuffer =>
                /\ Append(outputChan, worker[w].tx) \in Seq(Txs)
                /\ Len(Append(outputChan, worker[w].tx)) <= OutputBuffer
        BY Zenon, <2>1, <3>1, RoomFor
      <3> QED BY Zenon, <2>2, <3>1, <3>2
    <2> QED BY <1>0, <1>3, <2>2, <2>3, Zenon
  <1> QED BY <1>1, <1>2, <1>4, <1>5, <1>6 DEF Pipeline!WorkerStep

(* The counters a step of a worker changes keep their types.               *)
LEMMA WorkerCounts ==
    ASSUME Pipeline!TypeOK, NEW w \in Workers, Pipeline!WorkerStep(w)
    PROVE  processed' \in Nat /\ filtered' \in Nat /\ emitted' \in [sent : Nat, dropped : Nat]
  BY DEF Pipeline!TypeOK, Pipeline!WorkerStep, Pipeline!WorkerTakes, Pipeline!WorkerStops,
         Pipeline!Classify, Pipeline!Count, Pipeline!Emit

(* A worker's step keeps the pipeline's types, and is taken only while the *)
(* output is open.                                                         *)
LEMMA WorkerTypes ==
    ASSUME Pipeline!TypeOK, Pipeline!NoSendOnClosed, NEW w \in Workers, Pipeline!WorkerStep(w)
    PROVE  Pipeline!TypeOK' /\ Pipeline!NoSendOnClosed' /\ ~outputClosed
  <1>1. PICK e \in [at : Ats, tx : Txs \cup {NoTx}] :
            worker' = [worker EXCEPT ![w] = e] /\ (e.tx = NoTx <=> e.at \in {"select", "stopped"})
    BY WorkerMoves
  <1>2. /\ merged' \in Seq(Txs) /\ Len(merged') <= MergeBuffer
        /\ outputChan' \in Seq(Txs) /\ Len(outputChan') <= OutputBuffer
        /\ worker[w].at # "stopped" /\ UNCHANGED <<ctxDone, outputClosed, reporter>>
    BY WorkerMoves
  <1>3. ~outputClosed
    BY <1>2 DEF Pipeline!NoSendOnClosed
  <1>4. /\ worker' \in [Workers -> [at : Ats, tx : Txs \cup {NoTx}]]
        /\ \A v \in Workers : worker'[v].tx = NoTx <=> worker'[v].at \in {"select", "stopped"}
    BY <1>1 DEF Pipeline!TypeOK, Ats
  <1>5. Pipeline!TypeOK'
    BY <1>2, <1>4, WorkerCounts DEF Pipeline!TypeOK, Ats
  <1> QED BY <1>2, <1>3, <1>5 DEF Pipeline!NoSendOnClosed

-----------------------------------------------------------------------------
(* What the steps of one part leave to the others.                         *)

(* The watcher does not mind who reads its channels, or the signal.        *)
LEMMA WatcherFrame ==
    ASSUME WatcherInd, ctxDone' \in BOOLEAN,
           UNCHANGED <<chain, reorgs, watch, heads, lastBlock, fresh, latest, scans>>,
           headerChan' \in Seq(Watcher!Headers), Len(headerChan') <= HeaderBuffer,
           blockTxChan' \in Seq(Txs), Len(blockTxChan') <= TxBuffer
    PROVE  WatcherInd'
  BY Zenon DEF WatcherInd, Watcher!TypeOK, Watcher!OnChain, Watcher!LastSeen,
               Watcher!PollRemembers, Watcher!Tip, Watcher!Headers, Watcher!Scans, Watcher!NoHeader

(* Nor does the pipeline.                                                  *)
LEMMA PipelineFrame ==
    ASSUME Pipeline!TypeOK, Pipeline!NoSendOnClosed, ctxDone' \in BOOLEAN,
           UNCHANGED <<outputClosed, worker, reporter, processed, filtered, emitted>>,
           merged' \in Seq(Txs), Len(merged') <= MergeBuffer,
           outputChan' \in Seq(Txs), Len(outputChan') <= OutputBuffer
    PROVE  Pipeline!TypeOK' /\ Pipeline!NoSendOnClosed'
  BY Zenon DEF Pipeline!TypeOK, Pipeline!NoSendOnClosed

(* The rest of NodeInv: the composition's own variables and the monitor.   *)
OwnTypes ==
    /\ Monitor!TypeOK
    /\ forwarder \in [Feeds -> Txs \cup {NoTx}]
    /\ consumer \in {"select", "busy", "stopped"}
    /\ loops \subseteq {"oracle", "health"}
    /\ stage \in {"running", "stopPipeline", "stopMonitor", "stopOracle", "stopWatcher",
                  "stopRelayAndPool", "exited"}
    /\ put \in [Feeds -> Seq(Txs)] /\ sent \in [Feeds -> Seq(Txs)]

PipelineInd == Pipeline!TypeOK /\ Pipeline!NoSendOnClosed
NodeInd == WatcherInd /\ PipelineInd /\ OwnTypes /\ StageInv /\ BlockFeedArrives

LEMMA NodeInit == Init => NodeInd
  <1> SUFFICES ASSUME Init PROVE NodeInd
    OBVIOUS
  <1>0. /\ {MaxHeight, MaxReorgs, HeadBuffer, HeaderBuffer, TxBuffer, MonitorBuffer, HashBuffer,
            OutputBuffer, MergeBuffer} \subseteq Nat
    BY NodeAssumption
  <1>a. \A S : \A b \in Nat : <<>> \in Seq(S) /\ Len(<<>>) <= b
    BY Zenon, EmptyFits
  <1>b. DOMAIN <<>> = {} /\ 0 \in Nat /\ \A b \in Nat : 0 \in 0 .. b
    OBVIOUS
  <1>1. WatcherInd
    <2> USE DEF Init, Watcher!Init
    <2>1. Watcher!TypeOK
      BY Zenon, <1>0, <1>a, <1>b DEF Watcher!TypeOK
    <2>2. Watcher!OnChain
      BY Zenon, <1>b DEF Watcher!OnChain
    <2>3. Watcher!LastSeen /\ Watcher!PollRemembers
      BY DEF Watcher!LastSeen, Watcher!PollRemembers
    <2> QED BY <2>1, <2>2, <2>3 DEF WatcherInd
  <1>2. PipelineInd
    <2> USE DEF Init, Pipeline!InitPipeline
    <2>1. /\ worker \in [Workers -> [at : Ats, tx : Txs \cup {NoTx}]]
          /\ \A w \in Workers : worker[w].tx = NoTx <=> worker[w].at \in {"select", "stopped"}
          /\ emitted \in [sent : Nat, dropped : Nat]
      BY DEF Ats
    <2>2. Pipeline!TypeOK
      BY Zenon, <1>0, <1>a, <1>b, <2>1 DEF Pipeline!TypeOK, Ats, Monitor!Init
    <2> QED BY <2>2 DEF PipelineInd, Pipeline!NoSendOnClosed
  <1>3. OwnTypes
    <2>1. Monitor!TypeOK
      BY Zenon, <1>0, <1>a DEF Init, Monitor!Init, Monitor!TypeOK
    <2>2. put \in [Feeds -> Seq(Txs)] /\ sent \in [Feeds -> Seq(Txs)]
          /\ forwarder \in [Feeds -> Txs \cup {NoTx}]
      BY DEF Init
    <2> QED BY <2>1, <2>2 DEF Init, OwnTypes
  <1>4. StageInv
    BY DEF Init, Monitor!Init, StageInv
  <1>5. BlockFeedArrives
    BY DEF Init, Watcher!Init, BlockFeedArrives, Arrives, Held, Feeds, FeedChan
  <1> QED BY <1>1, <1>2, <1>3, <1>4, <1>5 DEF NodeInd

(* A feed, from what was sent over what is held to what is queued, when    *)
(* something is queued, taken and sent.                                    *)
LEMMA FeedQueues ==
    ASSUME NEW S, NEW a \in Seq(S), NEW b \in Seq(S), NEW c \in Seq(S), NEW e \in S
    PROVE  a \o b \o Append(c, e) = Append(a \o b \o c, e)
  OBVIOUS

LEMMA FeedTakes ==
    ASSUME NEW S, NEW a \in Seq(S), NEW c \in Seq(S), c # <<>>
    PROVE  a \o <<Head(c)>> \o Tail(c) = a \o <<>> \o c
  OBVIOUS

LEMMA FeedSends ==
    ASSUME NEW S, NEW a \in Seq(S), NEW c \in Seq(S), NEW e \in S
    PROVE  Append(a, e) \o <<>> \o c = a \o <<e>> \o c
  OBVIOUS

(* A history keeps its type, and that of the other feed its value.         *)
LEMMA LoggedTypes ==
    ASSUME NEW h \in [Feeds -> Seq(Txs)], NEW f \in Feeds, NEW chan \in Seq(Txs),
           NEW new \in Seq(Txs)
    PROVE  Logged(h, f, chan, new) \in [Feeds -> Seq(Txs)]
  <1>1. Len(new) > Len(chan) => new[Len(new)] \in Txs
    <2>1. Len(new) > Len(chan) => Len(new) \in DOMAIN new
      OBVIOUS
    <2> QED BY <2>1, ElementOf
  <1> QED BY <1>1 DEF Logged

LEMMA LoggedOther ==
    ASSUME NEW h \in [Feeds -> Seq(Txs)], NEW f \in Feeds, NEW g \in Feeds, g # f, NEW chan, NEW new
    PROVE  Logged(h, f, chan, new)[g] = h[g]
  BY DEF Logged

(* What a step that appends, or one that does not, does to a history.      *)
LEMMA LoggedAppend ==
    ASSUME NEW h \in [Feeds -> Seq(Txs)], NEW f \in Feeds, NEW chan \in Seq(Txs), NEW e \in Txs
    PROVE  /\ Logged(h, f, chan, Append(chan, e))[f] = Append(h[f], e)
           /\ Logged(h, f, chan, chan) = h
  <1>1. /\ Len(chan) \in Nat /\ Len(Append(chan, e)) = Len(chan) + 1
        /\ Append(chan, e)[Len(chan) + 1] = e
    BY AppendTo
  <1>2. Len(Append(chan, e)) > Len(chan) /\ ~(Len(chan) > Len(chan))
    BY <1>1
  <1> QED BY <1>1, <1>2 DEF Logged

(* A sequence over the pending transactions is one over the transactions.  *)
LEMMA PendingAreTxs == \A s \in Seq(PendingTxs) : s \in Seq(Txs)
  <1>1. PendingTxs \subseteq Txs
    BY NodeAssumption
  <1> QED BY <1>1

(* The monitor keeps its types.                                            *)
LEMMA MonitorTypes ==
    ASSUME Monitor!TypeOK,
           (\E tx \in PendingTxs : Monitor!Announce(tx)) \/ Monitor!SubscriberStep
               \/ Monitor!ProcessorStep
    PROVE  Monitor!TypeOK' /\ UNCHANGED ctxDone
  <1>0. /\ HashBuffer \in Nat /\ MonitorBuffer \in Nat /\ CoreAttached \in BOOLEAN
        /\ hashes \in Seq(PendingTxs) /\ Len(hashes) <= HashBuffer
        /\ txChan \in Seq(PendingTxs) /\ Len(txChan) <= MonitorBuffer
    BY NodeAssumption DEF Monitor!TypeOK
  <1>1. ASSUME NEW tx \in PendingTxs, Monitor!Announce(tx)
        PROVE  Monitor!TypeOK' /\ UNCHANGED ctxDone
    <2>1. Len(hashes) < HashBuffer => /\ Append(hashes, tx) \in Seq(PendingTxs)
                                      /\ Len(Append(hashes, tx)) <= HashBuffer
      BY Zenon, <1>0, RoomFor
    <2>2. /\ hashes' = hashes \/ (Len(hashes) < HashBuffer /\ hashes' = Append(hashes, tx))
          /\ pending' = pending \ {tx} /\ UNCHANGED <<ctxDone, panicked, subscriber, txChan, processor>>
      BY <1>1 DEF Monitor!Announce
    <2> QED BY <1>0, <2>1, <2>2 DEF Monitor!TypeOK
  <1>2. CASE Monitor!Subscribe \/ Monitor!SubscriptionEnds
    <2>1. <<>> \in Seq(PendingTxs) /\ Len(<<>>) <= HashBuffer
      BY <1>0, EmptyFits
    <2>2. /\ hashes' \in {hashes, <<>>} /\ subscriber' \in {"looping", "subscribed", "stopped"}
          /\ UNCHANGED <<ctxDone, panicked, pending, txChan, processor>>
      BY <1>2 DEF Monitor!Subscribe, Monitor!SubscriptionEnds
    <2> QED BY Zenon, <1>0, <2>1, <2>2 DEF Monitor!TypeOK
  <1>3. CASE Monitor!HandleTransaction
    <2>1. /\ hashes # <<>> /\ hashes' = Tail(hashes)
          /\ txChan' = txChan \/ (Len(txChan) < MonitorBuffer /\ txChan' = Append(txChan, Head(hashes)))
          /\ UNCHANGED <<ctxDone, panicked, pending, subscriber, processor>>
      BY <1>3 DEF Monitor!HandleTransaction
    <2>2. Head(hashes) \in PendingTxs /\ hashes' \in Seq(PendingTxs)
          /\ Len(hashes') = Len(hashes) - 1 /\ Len(hashes) \in Nat
      BY <1>0, <2>1, TailOf
    <2>3. Len(txChan) < MonitorBuffer => /\ Append(txChan, Head(hashes)) \in Seq(PendingTxs)
                                         /\ Len(Append(txChan, Head(hashes))) <= MonitorBuffer
      BY Zenon, <1>0, <2>2, RoomFor
    <2>4. Len(hashes') <= HashBuffer
      BY <1>0, <2>2
    <2> QED BY Zenon, <1>0, <2>1, <2>2, <2>3, <2>4 DEF Monitor!TypeOK
  <1>4. CASE Monitor!ProcessorTakes
    <2>1. /\ txChan # <<>> /\ txChan' = Tail(txChan) /\ panicked' \in BOOLEAN
          /\ UNCHANGED <<ctxDone, pending, subscriber, hashes, processor>>
      BY <1>0, <1>4 DEF Monitor!ProcessorTakes, Monitor!ForwardToCore
    <2>2. txChan' \in Seq(PendingTxs) /\ Len(txChan') = Len(txChan) - 1 /\ Len(txChan) \in Nat
      BY <1>0, <2>1, TailOf
    <2>3. Len(txChan') <= MonitorBuffer
      BY <1>0, <2>2
    <2> QED BY Zenon, <1>0, <2>1, <2>2, <2>3 DEF Monitor!TypeOK
  <1>5. CASE Monitor!ProcessorStops
    BY <1>5 DEF Monitor!ProcessorStops, Monitor!TypeOK
  <1> QED BY <1>1, <1>2, <1>3, <1>4, <1>5 DEF Monitor!SubscriberStep, Monitor!ProcessorStep

(* The block feed, spelled out.                                            *)
LEMMA BlockFeed ==
    BlockFeedArrives <=> sent["block"] \o Held("block") \o blockTxChan = put["block"]
  BY DEF BlockFeedArrives, Arrives, FeedChan

LEMMA FeedFrame ==
    ASSUME BlockFeedArrives, put'["block"] = put["block"], sent'["block"] = sent["block"],
           forwarder'["block"] = forwarder["block"], UNCHANGED blockTxChan
    PROVE  BlockFeedArrives'
  <1>1. Held("block")' = Held("block")
    BY DEF Held
  <1>2. (sent["block"] \o Held("block") \o blockTxChan = put["block"])'
    BY <1>1, BlockFeed
  <1> QED BY <1>2 DEF BlockFeedArrives, Arrives, FeedChan

-----------------------------------------------------------------------------
(* The steps of the node.                                                  *)

LEMMA MonitorKeeps ==
    ASSUME NodeInd, MonitorStep
    PROVE  NodeInd'
  <1>1. /\ Monitor!TypeOK' /\ UNCHANGED ctxDone
        /\ UNCHANGED <<watcherVars, merged, pipelineVars, forwarder, mainVars, sent>>
    BY MonitorTypes DEF NodeInd, OwnTypes, MonitorStep
  <1>2. put' \in [Feeds -> Seq(Txs)] /\ put'["block"] = put["block"]
    <2>1. txChan \in Seq(Txs) /\ txChan' \in Seq(Txs)
      BY <1>1, PendingAreTxs DEF NodeInd, OwnTypes, Monitor!TypeOK
    <2>2. put' = Logged(put, "mempool", txChan, txChan') /\ put \in [Feeds -> Seq(Txs)]
      BY DEF NodeInd, OwnTypes, MonitorStep
    <2>3. "mempool" \in Feeds /\ "block" \in Feeds /\ "mempool" # "block"
      BY DEF Feeds
    <2>4. Logged(put, "mempool", txChan, txChan') \in [Feeds -> Seq(Txs)]
      BY <2>1, <2>2, <2>3, LoggedTypes, Zenon
    <2>5. Logged(put, "mempool", txChan, txChan')["block"] = put["block"]
      <3>1. \A g \in Feeds \ {"mempool"} : Logged(put, "mempool", txChan, txChan')[g] = put[g]
        BY <2>2, <2>3, LoggedOther
      <3> QED BY Zenon, <2>3, <3>1
    <2> QED BY Zenon, <2>2, <2>4, <2>5
  <1>3. WatcherInd'
    BY <1>1, WatcherFrame DEF NodeInd, WatcherInd, Watcher!TypeOK, watcherVars
  <1>4. PipelineInd'
    BY <1>1, PipelineFrame DEF NodeInd, PipelineInd, Pipeline!TypeOK, pipelineVars
  <1>5. OwnTypes' /\ StageInv'
    BY Zenon, <1>1, <1>2 DEF NodeInd, OwnTypes, StageInv, pipelineVars, mainVars
  <1>6. BlockFeedArrives'
    BY <1>1, <1>2, FeedFrame DEF NodeInd, watcherVars
  <1> QED BY <1>3, <1>4, <1>5, <1>6 DEF NodeInd

LEMMA WatcherKeeps ==
    ASSUME NodeInd, WatcherStep
    PROVE  NodeInd'
  <1>0. /\ put \in [Feeds -> Seq(Txs)] /\ sent \in [Feeds -> Seq(Txs)] /\ blockTxChan \in Seq(Txs)
        /\ "block" \in Feeds /\ Held("block") \in Seq(Txs)
        /\ sent["block"] \in Seq(Txs) /\ put["block"] \in Seq(Txs)
    BY DEF NodeInd, OwnTypes, WatcherInd, Watcher!TypeOK, Held, Feeds
  <1>1. /\ WatcherInd' /\ UNCHANGED ctxDone
        /\ \/ UNCHANGED blockTxChan
           \/ \E tx \in Txs : blockTxChan' = Append(blockTxChan, tx)
    BY ChainKeeps, WatchKeeps, ScanKeeps DEF NodeInd, WatcherStep
  <1>2. /\ put' = Logged(put, "block", blockTxChan, blockTxChan')
        /\ UNCHANGED <<panicked, monitorVars, merged, pipelineVars, forwarder, mainVars, sent>>
    BY DEF WatcherStep
  <1>3. put' \in [Feeds -> Seq(Txs)]
    <2>1. blockTxChan' \in Seq(Txs)
      BY <1>1 DEF WatcherInd, Watcher!TypeOK
    <2> QED BY Zenon, <1>0, <1>2, <2>1, LoggedTypes
  <1>4. PipelineInd'
    BY <1>1, <1>2, PipelineFrame DEF NodeInd, PipelineInd, Pipeline!TypeOK, pipelineVars
  <1>5. Monitor!TypeOK'
    BY Zenon, <1>1, <1>2 DEF NodeInd, OwnTypes, Monitor!TypeOK, monitorVars
  <1>6. OwnTypes' /\ StageInv'
    BY Zenon, <1>1, <1>2, <1>3, <1>5 DEF NodeInd, OwnTypes, StageInv, pipelineVars, mainVars
  <1>7. BlockFeedArrives'
    <2> DEFINE a == sent["block"]  b == Held("block")
    <2>1. b' = b /\ a' = a
      BY <1>2 DEF Held
    <2>2. a \o b \o blockTxChan = put["block"]
      BY BlockFeed DEF NodeInd
    <2>3. CASE UNCHANGED blockTxChan
      <3>1. put' = put
        BY <1>2, <2>3 DEF Logged
      <3> QED BY <1>2, <2>3, <3>1, FeedFrame DEF NodeInd
    <2>4. ASSUME NEW tx \in Txs, blockTxChan' = Append(blockTxChan, tx)
          PROVE  BlockFeedArrives'
      <3>1. put'["block"] = Append(put["block"], tx)
        BY <1>0, <1>2, <2>4, LoggedAppend, Zenon
      <3>2. a \o b \o Append(blockTxChan, tx) = Append(a \o b \o blockTxChan, tx)
        BY <1>0, FeedQueues
      <3>3. a' \o b' \o blockTxChan' = put'["block"]
        BY Zenon, <2>1, <2>2, <2>4, <3>1, <3>2
      <3> QED BY <3>3 DEF BlockFeedArrives, Arrives, FeedChan
    <2> QED BY <1>1, <2>3, <2>4
  <1> QED BY <1>1, <1>4, <1>6, <1>7 DEF NodeInd

(* A step of the pipeline, and that it counts and emits only while its     *)
(* output is open.                                                         *)
LEMMA PipelineKeeps ==
    ASSUME NodeInd, PipelineStep
    PROVE  NodeInd' /\ (outputClosed => UNCHANGED <<processed, filtered, emitted>>)
  <1>1. UNCHANGED <<panicked, monitorVars, watcherVars, forwarder, mainVars, put, sent>>
    BY DEF PipelineStep, history
  <1>2. PipelineInd' /\ UNCHANGED <<ctxDone, outputClosed>>
        /\ (outputClosed => UNCHANGED <<processed, filtered, emitted>>)
    <2>1. CASE Pipeline!ReporterStops
      BY <2>1 DEF NodeInd, PipelineInd, Pipeline!TypeOK, Pipeline!NoSendOnClosed,
                  Pipeline!ReporterStops
    <2>2. ASSUME NEW w \in Workers, Pipeline!WorkerStep(w)
          PROVE  PipelineInd' /\ UNCHANGED <<ctxDone, outputClosed>> /\ ~outputClosed
      BY <2>2, WorkerMoves, WorkerTypes DEF NodeInd, PipelineInd
    <2> QED BY <2>1, <2>2 DEF PipelineStep, Pipeline!ReporterStops
  <1>3. WatcherInd'
    BY <1>1, <1>2, WatcherFrame DEF NodeInd, WatcherInd, Watcher!TypeOK, watcherVars
  <1>4. Monitor!TypeOK'
    BY Zenon, <1>1, <1>2 DEF NodeInd, OwnTypes, Monitor!TypeOK, monitorVars
  <1>5. OwnTypes' /\ StageInv'
    BY Zenon, <1>1, <1>2, <1>4 DEF NodeInd, OwnTypes, StageInv, mainVars
  <1>6. BlockFeedArrives'
    BY <1>1, FeedFrame DEF NodeInd, watcherVars
  <1> QED BY <1>2, <1>3, <1>5, <1>6 DEF NodeInd

LEMMA ForwardTakeKeeps ==
    ASSUME NodeInd, NEW f \in Feeds, ForwardTakes(f)
    PROVE  NodeInd'
  <1>0. /\ sent["block"] \in Seq(Txs) /\ blockTxChan \in Seq(Txs) /\ Len(blockTxChan) <= TxBuffer
        /\ txChan \in Seq(PendingTxs) /\ Len(txChan) <= MonitorBuffer
        /\ TxBuffer \in Nat /\ MonitorBuffer \in Nat /\ NoTx \notin Txs
        /\ forwarder \in [Feeds -> Txs \cup {NoTx}]
    BY NodeAssumption DEF NodeInd, OwnTypes, WatcherInd, Watcher!TypeOK, Monitor!TypeOK, Feeds
  <1>1. /\ forwarder[f] = NoTx /\ forwarder' = [forwarder EXCEPT ![f] = Head(FeedChan[f])]
        /\ f = "mempool" => txChan # <<>> /\ txChan' = Tail(txChan) /\ UNCHANGED blockTxChan
        /\ f = "block" => blockTxChan # <<>> /\ blockTxChan' = Tail(blockTxChan) /\ UNCHANGED txChan
        /\ UNCHANGED <<ctxDone, panicked, pending, subscriber, hashes, processor, chain, reorgs,
                       watch, heads, lastBlock, fresh, latest, headerChan, scans, merged,
                       pipelineVars, mainVars, put, sent>>
    BY DEF ForwardTakes, FeedChan, history
  <1>2. f \in {"mempool", "block"}
    BY DEF Feeds
  <1>3. /\ f = "mempool" => /\ Head(txChan) \in PendingTxs /\ txChan' \in Seq(PendingTxs)
                            /\ Len(txChan') <= MonitorBuffer
        /\ f = "block" => /\ Head(blockTxChan) \in Txs /\ blockTxChan' \in Seq(Txs)
                          /\ Len(blockTxChan') <= TxBuffer
    <2>1. ASSUME f = "mempool"
          PROVE  /\ Head(txChan) \in PendingTxs /\ txChan' \in Seq(PendingTxs)
                 /\ Len(txChan') = Len(txChan) - 1 /\ Len(txChan) \in Nat
      <3>1. txChan # <<>> /\ txChan' = Tail(txChan) /\ txChan \in Seq(PendingTxs)
        BY Zenon, <1>0, <1>1, <2>1
      <3> QED BY <3>1, TailOf
    <2>2. ASSUME f = "block"
          PROVE  /\ Head(blockTxChan) \in Txs /\ blockTxChan' \in Seq(Txs)
                 /\ Len(blockTxChan') = Len(blockTxChan) - 1 /\ Len(blockTxChan) \in Nat
      <3>1. blockTxChan # <<>> /\ blockTxChan' = Tail(blockTxChan) /\ blockTxChan \in Seq(Txs)
        BY Zenon, <1>0, <1>1, <2>2
      <3> QED BY <3>1, TailOf
    <2> QED BY <1>0, <2>1, <2>2
  <1>4. WatcherInd'
    <2>1. blockTxChan' \in Seq(Txs) /\ Len(blockTxChan') <= TxBuffer
      BY Zenon, <1>0, <1>1, <1>2, <1>3
    <2> QED BY <1>1, <2>1, WatcherFrame DEF NodeInd, WatcherInd, Watcher!TypeOK
  <1>5. PipelineInd'
    BY <1>1, PipelineFrame DEF NodeInd, PipelineInd, Pipeline!TypeOK, pipelineVars
  <1>6. Monitor!TypeOK'
    <2>1. txChan' \in Seq(PendingTxs) /\ Len(txChan') <= MonitorBuffer
      BY Zenon, <1>0, <1>1, <1>2, <1>3
    <2> QED BY Zenon, <1>1, <2>1 DEF NodeInd, OwnTypes, Monitor!TypeOK
  <1>7. Head(FeedChan[f]) \in Txs
    BY <1>2, <1>3, NodeAssumption DEF FeedChan
  <1>8. OwnTypes' /\ StageInv'
    <2>1. forwarder' \in [Feeds -> Txs \cup {NoTx}]
      BY <1>0, <1>1, <1>7
    <2> QED BY Zenon, <1>1, <1>6, <2>1 DEF NodeInd, OwnTypes, StageInv, mainVars, pipelineVars
  <1>9. BlockFeedArrives'
    <2>1. CASE f = "mempool"
      <3>1. forwarder'["block"] = forwarder["block"]
        BY <1>0, <1>1, <2>1 DEF Feeds
      <3> QED BY <1>1, <2>1, <3>1, FeedFrame DEF NodeInd
    <2>2. CASE f = "block"
      <3>1. Held("block") = <<>> /\ Held("block")' = <<Head(blockTxChan)>>
        BY <1>0, <1>1, <1>7, <2>2 DEF Held, FeedChan
      <3>2. sent["block"] \o <<Head(blockTxChan)>> \o Tail(blockTxChan)
              = sent["block"] \o <<>> \o blockTxChan
        <4>1. blockTxChan # <<>>
          BY Zenon, <1>1, <1>2, <2>2
        <4> QED BY Zenon, <1>0, <4>1, FeedTakes
      <3>3. sent["block"] \o Held("block") \o blockTxChan = put["block"]
        BY BlockFeed DEF NodeInd
      <3>4. (sent["block"] \o Held("block") \o blockTxChan = put["block"])'
        BY Zenon, <1>1, <2>2, <3>1, <3>2, <3>3
      <3> QED BY <3>4 DEF BlockFeedArrives, Arrives, FeedChan
    <2> QED BY <1>2, <2>1, <2>2
  <1> QED BY <1>4, <1>5, <1>8, <1>9 DEF NodeInd

LEMMA ForwardSendKeeps ==
    ASSUME NodeInd, NEW f \in Feeds, ForwardSends(f)
    PROVE  NodeInd'
  <1>0. /\ sent \in [Feeds -> Seq(Txs)] /\ merged \in Seq(Txs) /\ MergeBuffer \in Nat
        /\ forwarder \in [Feeds -> Txs \cup {NoTx}] /\ blockTxChan \in Seq(Txs)
        /\ sent["block"] \in Seq(Txs)
    BY NodeAssumption DEF NodeInd, OwnTypes, WatcherInd, Watcher!TypeOK, PipelineInd,
                          Pipeline!TypeOK, Feeds
  <1>1. /\ forwarder[f] # NoTx /\ Len(merged) < MergeBuffer
        /\ forwarder' = [forwarder EXCEPT ![f] = NoTx] /\ merged' = Append(merged, forwarder[f])
        /\ sent' = Logged(sent, f, merged, merged')
        /\ UNCHANGED <<put, ctxDone, panicked, monitorVars, watcherVars, pipelineVars, mainVars>>
    BY DEF ForwardSends
  <1>2. forwarder[f] \in Txs
    BY <1>0, <1>1
  <1>3. merged' \in Seq(Txs) /\ Len(merged') <= MergeBuffer
    BY Zenon, <1>0, <1>1, <1>2, RoomFor
  <1>4. /\ sent' \in [Feeds -> Seq(Txs)] /\ sent'[f] = Append(sent[f], forwarder[f])
        /\ \A g \in Feeds \ {f} : sent'[g] = sent[g]
    <2>1. sent' \in [Feeds -> Seq(Txs)] /\ \A g \in Feeds \ {f} : sent'[g] = sent[g]
      <3>1. Logged(sent, f, merged, merged') \in [Feeds -> Seq(Txs)]
        BY <1>0, <1>3, LoggedTypes, Zenon
      <3>2. \A g \in Feeds \ {f} : Logged(sent, f, merged, merged')[g] = sent[g]
        BY <1>0, LoggedOther
      <3> QED BY Zenon, <1>1, <3>1, <3>2
    <2>2. sent'[f] = Append(sent[f], forwarder[f])
      BY Zenon, <1>0, <1>1, <1>2, LoggedAppend
    <2> QED BY <2>1, <2>2
  <1>5. WatcherInd'
    BY <1>1, WatcherFrame DEF NodeInd, WatcherInd, Watcher!TypeOK, watcherVars
  <1>6. PipelineInd'
    BY <1>1, <1>3, PipelineFrame DEF NodeInd, PipelineInd, Pipeline!TypeOK, pipelineVars
  <1>7. Monitor!TypeOK'
    BY Zenon, <1>1 DEF NodeInd, OwnTypes, Monitor!TypeOK, monitorVars
  <1>8. OwnTypes' /\ StageInv'
    <2>1. forwarder' \in [Feeds -> Txs \cup {NoTx}]
      BY <1>0, <1>1
    <2> QED BY Zenon, <1>1, <1>4, <1>7, <2>1 DEF NodeInd, OwnTypes, StageInv, mainVars, pipelineVars
  <1>9. BlockFeedArrives'
    <2>1. CASE f = "mempool"
      <3>1. forwarder'["block"] = forwarder["block"] /\ sent'["block"] = sent["block"]
        BY <1>0, <1>1, <1>4, <2>1 DEF Feeds
      <3> QED BY <1>1, <2>1, <3>1, FeedFrame DEF NodeInd, watcherVars
    <2>2. CASE f = "block"
      <3>1. Held("block") = <<forwarder["block"]>> /\ Held("block")' = <<>>
        BY <1>0, <1>1, <2>2 DEF Held
      <3>2. Append(sent["block"], forwarder["block"]) \o <<>> \o blockTxChan
              = sent["block"] \o <<forwarder["block"]>> \o blockTxChan
        BY Zenon, <1>0, <1>2, <2>2, FeedSends
      <3>3. sent["block"] \o Held("block") \o blockTxChan = put["block"]
        BY BlockFeed DEF NodeInd
      <3>4. (sent["block"] \o Held("block") \o blockTxChan = put["block"])'
        BY Zenon, <1>1, <1>4, <2>2, <3>1, <3>2, <3>3 DEF watcherVars
      <3> QED BY <3>4 DEF BlockFeedArrives, Arrives, FeedChan
    <2> QED BY <2>1, <2>2 DEF Feeds
  <1> QED BY <1>5, <1>6, <1>8, <1>9 DEF NodeInd

(* The other steps: the consumer, the oracle and the loops.                *)
LEMMA OtherKeeps ==
    ASSUME NodeInd,
           ConsumerTakes \/ ConsumerDone \/ OracleReads \/ \E l \in loops : LoopStops(l)
    PROVE  NodeInd' /\ UNCHANGED <<processed, filtered, emitted>>
  <1>0. /\ headerChan \in Seq(Watcher!Headers) /\ Len(headerChan) <= HeaderBuffer
        /\ outputChan \in Seq(Txs) /\ Len(outputChan) <= OutputBuffer
        /\ HeaderBuffer \in Nat /\ OutputBuffer \in Nat
    BY NodeAssumption DEF NodeInd, WatcherInd, Watcher!TypeOK, PipelineInd, Pipeline!TypeOK
  <1>1. /\ headerChan' = headerChan \/ (headerChan # <<>> /\ headerChan' = Tail(headerChan))
        /\ outputChan' = outputChan \/ (outputChan # <<>> /\ outputChan' = Tail(outputChan))
        /\ consumer' \in {consumer, "select", "busy", "stopped"} /\ loops' \subseteq loops
        /\ UNCHANGED <<ctxDone, panicked, monitorVars, chain, reorgs, watch, heads, lastBlock, fresh,
                       latest, scans, blockTxChan, merged, outputClosed, worker, reporter,
                       processed, filtered, emitted, forwarder, stage, put, sent>>
    BY Zenon DEF ConsumerTakes, ConsumerDone, OracleReads, LoopStops, monitorVars, watcherVars,
                 pipelineVars, mainVars, history
  <1>2. headerChan' \in Seq(Watcher!Headers) /\ Len(headerChan') <= HeaderBuffer
    <2>1. ASSUME headerChan # <<>>
          PROVE  /\ Tail(headerChan) \in Seq(Watcher!Headers)
                 /\ Len(Tail(headerChan)) = Len(headerChan) - 1 /\ Len(headerChan) \in Nat
      BY <1>0, <2>1, TailOf
    <2>2. headerChan # <<>> => Len(Tail(headerChan)) <= HeaderBuffer
      BY <1>0, <2>1
    <2> QED BY Zenon, <1>0, <1>1, <2>1, <2>2
  <1>3. outputChan' \in Seq(Txs) /\ Len(outputChan') <= OutputBuffer
    <2>1. ASSUME outputChan # <<>>
          PROVE  /\ Tail(outputChan) \in Seq(Txs)
                 /\ Len(Tail(outputChan)) = Len(outputChan) - 1 /\ Len(outputChan) \in Nat
      BY <1>0, <2>1, TailOf
    <2>2. outputChan # <<>> => Len(Tail(outputChan)) <= OutputBuffer
      BY <1>0, <2>1
    <2> QED BY Zenon, <1>0, <1>1, <2>1, <2>2
  <1>4. WatcherInd'
    BY <1>1, <1>2, WatcherFrame DEF NodeInd, WatcherInd, Watcher!TypeOK
  <1>5. PipelineInd'
    BY <1>1, <1>3, PipelineFrame DEF NodeInd, PipelineInd, Pipeline!TypeOK
  <1>6. Monitor!TypeOK'
    BY Zenon, <1>1 DEF NodeInd, OwnTypes, Monitor!TypeOK, monitorVars
  <1>7. OwnTypes' /\ StageInv'
    <2>1. consumer' \in {"select", "busy", "stopped"} /\ loops' \subseteq {"oracle", "health"}
      BY Zenon, <1>1 DEF NodeInd, OwnTypes
    <2> QED BY Zenon, <1>1, <1>6, <2>1 DEF NodeInd, OwnTypes, StageInv
  <1>8. BlockFeedArrives'
    BY <1>1, FeedFrame DEF NodeInd
  <1> QED BY <1>1, <1>4, <1>5, <1>7, <1>8 DEF NodeInd

(* main: only Stop of the pipeline closes the output, when every worker    *)
(* has stopped.                                                            *)
LEMMA MainKeeps ==
    ASSUME NodeInd, Main
    PROVE  NodeInd' /\ UNCHANGED <<processed, filtered, emitted>>
  <1>1. UNCHANGED <<panicked, monitorVars, watcherVars, merged, outputChan, worker, reporter,
                    processed, filtered, emitted, forwarder, consumer, loops, put, sent>>
    BY Zenon DEF Main, Signal, StopPipeline, Pipeline!Close, StopNext, pipelineVars, history
  <1>2. /\ ctxDone' \in BOOLEAN /\ outputClosed' \in BOOLEAN
        /\ stage' \in {"stopPipeline", "stopMonitor", "stopOracle", "stopWatcher",
                       "stopRelayAndPool", "exited"}
        /\ StageInv'
        /\ outputClosed' => outputClosed \/ \A w \in Workers : worker[w].at = "stopped"
    <2>0. ctxDone \in BOOLEAN /\ outputClosed \in BOOLEAN /\ StageInv
      BY DEF NodeInd, PipelineInd, Pipeline!TypeOK
    <2>1. CASE Signal
      BY <2>0, <2>1 DEF Signal, StageInv, pipelineVars
    <2>2. CASE StopPipeline
      BY <2>0, <2>2 DEF StopPipeline, Pipeline!Close, StageInv
    <2>3. CASE StopNext
      BY <2>0, <2>3 DEF StopNext, StageInv, pipelineVars
    <2> QED BY <2>1, <2>2, <2>3 DEF Main
  <1>3. WatcherInd'
    BY <1>1, <1>2, WatcherFrame DEF NodeInd, WatcherInd, Watcher!TypeOK, watcherVars
  <1>4. PipelineInd'
    BY Zenon, <1>1, <1>2 DEF NodeInd, PipelineInd, Pipeline!TypeOK, Pipeline!NoSendOnClosed
  <1>5. Monitor!TypeOK'
    BY Zenon, <1>1, <1>2 DEF NodeInd, OwnTypes, Monitor!TypeOK, monitorVars
  <1>6. OwnTypes'
    BY Zenon, <1>1, <1>2, <1>5 DEF NodeInd, OwnTypes
  <1>7. BlockFeedArrives'
    BY <1>1, FeedFrame DEF NodeInd, watcherVars
  <1> QED BY <1>1, <1>2, <1>3, <1>4, <1>6, <1>7 DEF NodeInd

LEMMA StepKeeps ==
    ASSUME NodeInd, Next
    PROVE  NodeInd' /\ (PipelineStep \/ UNCHANGED <<worker, processed, filtered, emitted>>)
  <1>1. CASE MonitorStep
    BY <1>1, MonitorKeeps DEF MonitorStep, pipelineVars
  <1>2. CASE WatcherStep
    BY <1>2, WatcherKeeps DEF WatcherStep, pipelineVars
  <1>3. CASE PipelineStep
    BY <1>3, PipelineKeeps
  <1>4. ASSUME NEW f \in Feeds, ForwardTakes(f)
        PROVE  NodeInd' /\ UNCHANGED <<worker, processed, filtered, emitted>>
    BY <1>4, ForwardTakeKeeps, Zenon DEF ForwardTakes, pipelineVars
  <1>5. ASSUME NEW f \in Feeds, ForwardSends(f)
        PROVE  NodeInd' /\ UNCHANGED <<worker, processed, filtered, emitted>>
    BY <1>5, ForwardSendKeeps, Zenon DEF ForwardSends, pipelineVars
  <1>6. CASE ConsumerTakes \/ ConsumerDone \/ OracleReads \/ \E l \in loops : LoopStops(l)
    <2>1. UNCHANGED worker
      BY <1>6 DEF ConsumerTakes, ConsumerDone, OracleReads, LoopStops, pipelineVars
    <2> QED BY <1>6, <2>1, OtherKeeps
  <1>7. CASE Main
    <2>1. UNCHANGED worker
      BY <1>7 DEF Main, Signal, StopPipeline, Pipeline!Close, StopNext, pipelineVars
    <2> QED BY <1>7, <2>1, MainKeeps
  <1> QED BY <1>1, <1>2, <1>3, <1>4, <1>5, <1>6, <1>7 DEF Next

LEMMA StutterKeeps == NodeInd /\ UNCHANGED vars => NodeInd'
  <1> SUFFICES ASSUME NodeInd, UNCHANGED vars PROVE NodeInd'
    OBVIOUS
  <1>1. UNCHANGED <<ctxDone, panicked, pending, subscriber, hashes, txChan, processor,
                    chain, reorgs, watch, heads, lastBlock, fresh, latest, headerChan, scans,
                    blockTxChan, merged, outputChan, outputClosed, worker, reporter, processed,
                    filtered, emitted, forwarder, consumer, loops, stage, put, sent>>
    BY Zenon DEF vars, monitorVars, watcherVars, pipelineVars, mainVars, history
  <1>2. WatcherInd'
    BY <1>1, WatcherFrame DEF NodeInd, WatcherInd, Watcher!TypeOK
  <1>3. PipelineInd'
    BY <1>1, PipelineFrame DEF NodeInd, PipelineInd, Pipeline!TypeOK
  <1>4. Monitor!TypeOK'
    BY Zenon, <1>1 DEF NodeInd, OwnTypes, Monitor!TypeOK
  <1>5. OwnTypes' /\ StageInv'
    BY Zenon, <1>1, <1>4 DEF NodeInd, OwnTypes, StageInv
  <1>6. BlockFeedArrives'
    BY <1>1, FeedFrame DEF NodeInd
  <1> QED BY <1>2, <1>3, <1>5, <1>6 DEF NodeInd

LEMMA NodeSafe == Spec => []NodeInd
  <1>1. NodeInd /\ [Next]_vars => NodeInd'
    BY StepKeeps, StutterKeeps
  <1> QED BY NodeInit, <1>1, PTL DEF Spec

(* Whatever the transactions, the bounds of the channels and the number of *)
(* workers: while the parts of mev-node run together and are stopped one   *)
(* after another, the watcher's latest header is the tip once it has read  *)
(* all the heads of its subscription, main leaves Stop of the pipeline     *)
(* only when the output is closed, and what the scans put into the block   *)
(* feed passes mergeTxChans complete, in order and once.                   *)
THEOREM NodeInvariant == Spec => []NodeInv
  <1>1. NodeInd => NodeInv
    BY TipFollows DEF NodeInd, NodeInv, TypeOK, OwnTypes, WatcherInd, PipelineInd
  <1> QED BY NodeSafe, <1>1, PTL

(* After Stop of the pipeline has returned no worker counts or emits, for  *)
(* any number of workers, although both feeds may still be delivering.     *)
THEOREM QuietAfterStop == Spec => PipelineQuietAfterStop
  <1>1. NodeInd /\ [Next]_vars =>
            [stage \notin {"running", "stopPipeline"} =>
                UNCHANGED <<processed, filtered, emitted>>]_vars
    <2> SUFFICES ASSUME NodeInd, Next, stage \notin {"running", "stopPipeline"}
                 PROVE  UNCHANGED <<processed, filtered, emitted>>
      OBVIOUS
    <2>1. outputClosed
      BY DEF NodeInd, StageInv
    <2> QED BY <2>1, StepKeeps, PipelineKeeps
  <1> QED BY NodeSafe, <1>1, PTL DEF Spec, PipelineQuietAfterStop

(* A watcher that polls takes only headers newer than the one before, in   *)
(* the whole node and for any length of the chain.                         *)
THEOREM PollForward == Spec => Watcher!PollMovesForward
  <1>1. NodeInd /\ [Next]_vars =>
            [/\ Watcher!PollRemembers
             /\ watch = "polling" /\ watch' = "polling" /\ fresh /\ latest' # latest
                  => latest'.number > latest.number]_Watcher!vars
    <2> SUFFICES ASSUME NodeInd, [Next]_vars, watch = "polling", watch' = "polling", fresh,
                        latest' # latest
                 PROVE  latest'.number > latest.number
      BY DEF NodeInd, WatcherInd
    <2>1. Watcher!WatchStep
      <3>1. CASE WatcherStep
        <4>1. Watcher!ChainStep => UNCHANGED latest
          BY Zenon DEF Watcher!ChainStep, Watcher!ChainGrows, Watcher!ChainReorgs, Watcher!Deliver
        <4>2. ASSUME NEW i, Watcher!ScanStep(i) PROVE UNCHANGED latest
          BY Zenon, <4>2 DEF Watcher!ScanStep, Watcher!ScanAcquire, Watcher!ScanFetch,
                             Watcher!ScanPush
        <4> QED BY Zenon, <3>1, <4>1, <4>2 DEF WatcherStep
      <3>2. CASE ~WatcherStep
        <4>1. UNCHANGED latest
          BY Zenon, <3>2 DEF Next, MonitorStep, PipelineStep, ForwardTakes, ForwardSends,
                 ConsumerTakes, ConsumerDone, OracleReads, LoopStops, Main, Signal, StopPipeline,
                 StopNext, vars, watcherVars
        <4> QED BY <4>1
      <3> QED BY <3>1, <3>2
    <2>2. PICK n \in 1 .. Len(chain) : Watcher!Poll(n)
      BY <2>1 DEF Watcher!WatchStep, Watcher!Subscribe, Watcher!SubscriptionEnds,
                  Watcher!ReceiveHeader, Watcher!PollStep, Watcher!PollCancelled
    <2>3. latest'.number = n /\ n > lastBlock
      BY <2>2 DEF Watcher!Poll, Watcher!HandleHeader
    <2>4. latest.number = lastBlock
      BY DEF NodeInd, WatcherInd, Watcher!PollRemembers
    <2> QED BY <2>3, <2>4
  <1> QED BY NodeSafe, <1>1, PTL DEF Spec, Watcher!PollMovesForward

-----------------------------------------------------------------------------
(* The counters of the pipeline.                                           *)

INSTANCE FiniteSetTheorems

(* The pipeline counts its workers as FiniteSetTheorems does.              *)
LEMMA SameCardinality == \A S : Pipeline!Cardinality(S) = Cardinality(S)
  BY DEF Pipeline!Cardinality, Cardinality

(* A worker that moves leaves one set of workers and joins another.        *)
LEMMA WorkerSets ==
    ASSUME Pipeline!TypeOK, NEW w \in Workers, NEW label, NEW to, NEW tx,
           Pipeline!WorkerAt(w, to, tx)
    PROVE  /\ Cardinality(Pipeline!AtStage(label)) \in Nat
           /\ Cardinality(Pipeline!AtStage(label)') =
                Cardinality(Pipeline!AtStage(label)) + (IF to = label THEN 1 ELSE 0)
                                                     - (IF worker[w].at = label THEN 1 ELSE 0)
  <1> DEFINE A == Pipeline!AtStage(label)
             B == Pipeline!AtStage(label)'
  <1>1. IsFiniteSet(A) /\ Cardinality(A) \in Nat
    BY NodeAssumption, FS_Subset, FS_CardinalityType DEF Pipeline!AtStage
  <1>2. B = IF to = label THEN A \cup {w} ELSE A \ {w}
    BY DEF Pipeline!AtStage, Pipeline!TypeOK, Pipeline!WorkerAt
  <1>3. w \in A <=> worker[w].at = label
    BY DEF Pipeline!AtStage
  <1> HIDE DEF A, B
  <1>4. /\ Cardinality(A \cup {w}) = IF w \in A THEN Cardinality(A) ELSE Cardinality(A) + 1
        /\ Cardinality(A \ {w}) = IF w \in A THEN Cardinality(A) - 1 ELSE Cardinality(A)
    BY <1>1, FS_AddElement, FS_RemoveElement, Zenon
  <1>5. Cardinality(B) = Cardinality(A) + (IF to = label THEN 1 ELSE 0)
                                        - (IF worker[w].at = label THEN 1 ELSE 0)
    BY <1>1, <1>2, <1>3, <1>4
  <1> QED BY <1>1, <1>5 DEF A, B

(* Each step of a worker counts what it moves on to.                       *)
LEMMA WorkerAgrees ==
    ASSUME Pipeline!TypeOK, Pipeline!CountersAgree, NEW w \in Workers, Pipeline!WorkerStep(w)
    PROVE  Pipeline!CountersAgree'
  <1> DEFINE c == Cardinality(Pipeline!AtStage("count"))
             m == Cardinality(Pipeline!AtStage("emit"))
             d == Cardinality(Pipeline!AtStage("count")')
             n == Cardinality(Pipeline!AtStage("emit")')
  <1>1. /\ processed \in Nat /\ filtered \in Nat /\ emitted.sent \in Nat /\ emitted.dropped \in Nat
        /\ filtered = emitted.sent + emitted.dropped + m /\ filtered + c <= processed
    BY SameCardinality DEF Pipeline!TypeOK, Pipeline!CountersAgree
  <1>2. ASSUME NEW to, NEW tx, Pipeline!WorkerAt(w, to, tx)
        PROVE  /\ c \in Nat /\ m \in Nat
               /\ to # "count" /\ worker[w].at # "count" => d = c
               /\ to = "count" /\ worker[w].at # "count" => d = c + 1
               /\ to # "count" /\ worker[w].at = "count" => d = c - 1
               /\ to # "emit" /\ worker[w].at # "emit" => n = m
               /\ to = "emit" /\ worker[w].at # "emit" => n = m + 1
               /\ to # "emit" /\ worker[w].at = "emit" => n = m - 1
    <2>1. /\ c \in Nat
          /\ d = c + (IF to = "count" THEN 1 ELSE 0) - (IF worker[w].at = "count" THEN 1 ELSE 0)
      BY <1>2, WorkerSets, Zenon
    <2>2. /\ m \in Nat
          /\ n = m + (IF to = "emit" THEN 1 ELSE 0) - (IF worker[w].at = "emit" THEN 1 ELSE 0)
      BY <1>2, WorkerSets, Zenon
    <2> HIDE DEF c, m, d, n
    <2> QED BY <2>1, <2>2
  <1>3. (filtered' = emitted'.sent + emitted'.dropped + n /\ filtered' + d <= processed')
            => Pipeline!CountersAgree'
    BY SameCardinality DEF Pipeline!CountersAgree
  <1> HIDE DEF c, m, d, n
  <1>4. CASE Pipeline!WorkerTakes(w) \/ Pipeline!WorkerStops(w)
    <2>1. PICK tx : /\ Pipeline!WorkerAt(w, "classify", tx) \/ Pipeline!WorkerAt(w, "stopped", tx)
                    /\ worker[w].at = "select" /\ UNCHANGED <<processed, filtered, emitted>>
      BY <1>4 DEF Pipeline!WorkerTakes, Pipeline!WorkerStops
    <2>2. d = c /\ n = m
      BY <1>2, <2>1
    <2>3. filtered = emitted.sent + emitted.dropped + n /\ filtered + d <= processed
      BY <1>1, <2>2, Zenon
    <2> QED BY <1>3, <2>1, <2>3, Zenon
  <1>5. CASE Pipeline!Classify(w)
    <2>1. /\ Pipeline!WorkerAt(w, "count", worker[w].tx) \/ Pipeline!WorkerAt(w, "select", NoTx)
          /\ worker[w].at = "classify" /\ processed' = processed + 1
          /\ UNCHANGED <<filtered, emitted>>
      BY <1>5 DEF Pipeline!Classify, Pipeline!Idle
    <2>2. (d = c \/ d = c + 1) /\ n = m /\ c \in Nat
      <3>1. worker[w].at # "count" /\ worker[w].at # "emit"
        BY <2>1
      <3>2. CASE Pipeline!WorkerAt(w, "count", worker[w].tx)
        <4>1. "count" # "emit"
          OBVIOUS
        <4> QED BY <1>2, <3>1, <3>2, <4>1, Zenon
      <3>3. CASE Pipeline!WorkerAt(w, "select", NoTx)
        <4>1. "select" # "count" /\ "select" # "emit"
          OBVIOUS
        <4> QED BY <1>2, <3>1, <3>3, <4>1, Zenon
      <3> QED BY <2>1, <3>2, <3>3, Zenon
    <2>3. filtered = emitted.sent + emitted.dropped + n
      BY <1>1, <2>2, Zenon
    <2>4. filtered + d <= processed + 1
      BY <1>1, <2>2
    <2> QED BY <1>3, <2>1, <2>3, <2>4, Zenon
  <1>6. CASE Pipeline!Count(w)
    <2>1. /\ Pipeline!WorkerAt(w, "emit", worker[w].tx) /\ worker[w].at = "count"
          /\ filtered' = filtered + 1 /\ UNCHANGED <<processed, emitted>>
      BY <1>6 DEF Pipeline!Count
    <2>2. d = c - 1 /\ n = m + 1 /\ c \in Nat /\ m \in Nat
      BY <1>2, <2>1
    <2>3. filtered + 1 = emitted.sent + emitted.dropped + n
      BY <1>1, <2>2
    <2>4. filtered + 1 + d <= processed
      BY <1>1, <2>2
    <2> QED BY <1>3, <2>1, <2>3, <2>4, Zenon
  <1>7. CASE Pipeline!Emit(w)
    <2>1. /\ Pipeline!WorkerAt(w, "select", NoTx) /\ worker[w].at = "emit"
          /\ UNCHANGED <<processed, filtered>>
      BY <1>7 DEF Pipeline!Emit, Pipeline!Idle
    <2>2. d = c /\ n = m - 1 /\ c \in Nat /\ m \in Nat
      BY <1>2, <2>1
    <2>3. \/ emitted'.sent = emitted.sent + 1 /\ emitted'.dropped = emitted.dropped
          \/ emitted'.dropped = emitted.dropped + 1 /\ emitted'.sent = emitted.sent
      <3>1. emitted \in [sent : Nat, dropped : Nat]
        BY DEF Pipeline!TypeOK
      <3>2. \/ emitted' = [emitted EXCEPT !.sent = @ + 1]
            \/ emitted' = [emitted EXCEPT !.dropped = @ + 1]
        BY <1>7 DEF Pipeline!Emit
      <3> QED BY <3>1, <3>2
    <2>4. filtered' = emitted'.sent + emitted'.dropped + n
      <3>1. filtered = emitted'.sent + emitted'.dropped + n
        <4>1. ASSUME emitted'.sent = emitted.sent + 1, emitted'.dropped = emitted.dropped
              PROVE  filtered = emitted'.sent + emitted'.dropped + n
          BY <1>1, <2>2, <4>1
        <4>2. ASSUME emitted'.dropped = emitted.dropped + 1, emitted'.sent = emitted.sent
              PROVE  filtered = emitted'.sent + emitted'.dropped + n
          BY <1>1, <2>2, <4>2
        <4> QED BY Zenon, <2>3, <4>1, <4>2
      <3> QED BY Zenon, <2>1, <3>1
    <2>5. filtered' + d <= processed'
      BY <1>1, <2>1, <2>2
    <2> QED BY Zenon, <1>3, <2>4, <2>5
  <1> QED BY <1>4, <1>5, <1>6, <1>7 DEF Pipeline!WorkerStep

(* The pipeline inside the node, for any number of workers and both feeds: *)
(* no worker sends on the closed output, and at every moment the counters  *)
(* account for each transaction that was filtered as sent, dropped or      *)
(* about to be emitted.                                                    *)
THEOREM PipelineInvariant == Spec => []Pipeline!PipelineInv
  <1>1. Init => Pipeline!CountersAgree
    <2> SUFFICES ASSUME Init PROVE Pipeline!CountersAgree
      OBVIOUS
    <2>1. /\ processed = 0 /\ filtered = 0 /\ emitted.sent = 0 /\ emitted.dropped = 0
          /\ Pipeline!AtStage("emit") = {} /\ Pipeline!AtStage("count") = {}
      BY DEF Init, Pipeline!InitPipeline, Pipeline!AtStage
    <2>2. Cardinality({}) = 0
      BY FS_EmptySet
    <2>3. /\ Pipeline!Cardinality(Pipeline!AtStage("emit")) = 0
          /\ Pipeline!Cardinality(Pipeline!AtStage("count")) = 0
      BY <2>1, <2>2, SameCardinality
    <2> QED BY <2>1, <2>3 DEF Pipeline!CountersAgree
  <1>2. NodeInd /\ Pipeline!CountersAgree /\ [Next]_vars => Pipeline!CountersAgree'
    <2> SUFFICES ASSUME NodeInd, Pipeline!CountersAgree, [Next]_vars
                 PROVE  Pipeline!CountersAgree'
      OBVIOUS
    <2>1. ASSUME UNCHANGED <<worker, processed, filtered, emitted>>
          PROVE  Pipeline!CountersAgree'
      BY Zenon, <2>1 DEF Pipeline!CountersAgree, Pipeline!AtStage
    <2>2. CASE PipelineStep
      BY <2>1, <2>2, WorkerAgrees DEF PipelineStep, Pipeline!ReporterStops, NodeInd, PipelineInd
    <2>3. CASE UNCHANGED vars
      BY Zenon, <2>1, <2>3 DEF vars, pipelineVars
    <2> QED BY <2>1, <2>2, <2>3, StepKeeps
  <1>3. NodeInd /\ Pipeline!CountersAgree => Pipeline!PipelineInv
    BY DEF NodeInd, PipelineInd, Pipeline!PipelineInv
  <1> QED BY NodeSafe, <1>1, <1>2, <1>3, PTL DEF Spec
=============================================================================
