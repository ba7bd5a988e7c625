----------------------- MODULE ArbitrumLauncherProofs -----------------------
(***************************************************************************)
(* The invariant of the launcher, for any pools, tokens, amounts and       *)
(* histories of the chain: the cache holds readings of the chain and never *)
(* goes back to an older one, what the engine tries are cycles of two      *)
(* pools, and the counters of the summary agree.                           *)
(***************************************************************************)
EXTENDS ArbitrumLauncher, TLAPS

-----------------------------------------------------------------------------
(* The inductive invariant.                                                *)

(* What a future of refresh_all has read so far is not older than what the *)
(* cache holds, and a finished one may be stored.                          *)
ReadRight(a, r) ==
    /\ r.state = "liquidity" =>
          IsV3(a) /\ 1 <= r.liq /\ cache[a].liq <= r.liq /\ r.liq <= chain[a]
    /\ r.state = "done" =>
          /\ 1 <= r.liq /\ r.liq <= r.price /\ r.price <= chain[a]
          /\ cache[a].liq <= r.liq /\ cache[a].price <= r.price
          /\ ~IsV3(a) => r.liq = r.price
          /\ Acceptable(a, r)

Read == [liq : Nat, price : Nat]
Future == [state : {"start", "liquidity", "done", "failed"}, liq : Nat, price : Nat]

ScannerInd ==
    /\ scanner \in [pc : {"check", "refresh", "ended"}, reads : {scanner.reads}]
    /\ scanner.pc = "refresh" =>
          /\ Launched /\ scanner.reads \in [DOMAIN cache -> Future]
          /\ \A a \in DOMAIN cache : ReadRight(a, scanner.reads[a])

(* main discovers only pools of WETH and a token.                          *)
PairedWithWeth == \A a \in DOMAIN cache : \E k \in DOMAIN Tokens : Pairs(a, Weth, Tokens[k])

PoolsInd ==
    /\ chain \in [Addresses -> Nat] /\ \A a \in Addresses : chain[a] \in 1 .. Len(History[a])
    /\ DOMAIN cache \subseteq Addresses /\ cache \in [DOMAIN cache -> Read]
    /\ launched \in 0 .. Len(Tokens)
    /\ CacheFromChain /\ PairedWithWeth /\ ScannerInd

(* The counters, and the lookups still under way: each of them was counted *)
(* as a transaction and may still be counted as a swap.                    *)
FeedInd ==
    /\ monitor \in {"check", "stream", "ended"} /\ fetching \in Seq(Transaction)
    /\ world \in World
    /\ stats.txs \in Nat /\ stats.swaps \in Nat /\ stats.swaps + Len(fetching) <= stats.txs

Stats == [txs : {stats.txs}, swaps : {stats.swaps}, found : Nat, ok : Nat, sent : Nat,
          success : Nat, profit : {stats.profit}]

(* The triangular search is at a pair of tokens in order, and whatever is  *)
(* listed is a cycle of two pools.                                         *)
EngineShape(e) ==
    /\ e \in [pc : {"select", "first", "second", "triangle", "report", "try", "ended", "dead"},
              trigger : BOOLEAN, amount : 1 .. Len(Amounts), token : 1 .. Len(Tokens),
              other : 2 .. Len(Tokens), first : {e.first}, opps : Seq(Range(e.opps))]
    /\ \A o \in Range(e.opps) : Len(o.path) = 2
    /\ e.pc \in {"first", "second"} => e.other = 2
    /\ e.pc = "triangle" => e.token < e.other
    /\ e.pc = "try" => e.opps # <<>>

(* An opportunity being tried has been counted as found, not yet as tried. *)
EngineInd ==
    /\ EngineShape(engine)
    /\ engine.pc = "try" => stats.ok + stats.sent < stats.found

StatsInd ==
    /\ stats \in Stats /\ live \in BOOLEAN
    /\ stats.ok + stats.sent <= stats.found /\ stats.sent = stats.success
    /\ IF live THEN stats.ok = 0 ELSE stats.sent = 0

LauncherInd == running \in BOOLEAN /\ PoolsInd /\ FeedInd /\ EngineInd /\ StatsInd

-----------------------------------------------------------------------------
(* Sequences, typed by their own range.                                    *)

LEMMA OwnRange ==
    ASSUME NEW S, NEW s \in Seq(S)
    PROVE  /\ s \in Seq(Range(s)) /\ Range(s) \subseteq S
           /\ Len(s) \in Nat /\ DOMAIN s = 1 .. Len(s)
  <1>1. Len(s) \in Nat /\ DOMAIN s = 1 .. Len(s) /\ s = [i \in 1 .. Len(s) |-> s[i]]
    OBVIOUS
  <1>2. \A i \in 1 .. Len(s) : s[i] \in S
    OBVIOUS
  <1>3. Range(s) \subseteq S
    BY <1>1, <1>2, Zenon DEF Range
  <1>4. s \in [1 .. Len(s) -> Range(s)]
    BY <1>1, Zenon DEF Range
  <1> QED BY <1>1, <1>3, <1>4

LEMMA EmptyList == <<>> \in Seq({}) /\ Range(<<>>) = {} /\ Len(<<>>) = 0
  BY DEF Range

LEMMA SingletonList ==
    ASSUME NEW x
    PROVE  <<x>> \in Seq({x}) /\ Range(<<x>>) = {x} /\ Len(<<x>>) = 1
  BY DEF Range

LEMMA ConcatRange ==
    ASSUME NEW s, NEW t, s \in Seq(Range(s)), t \in Seq(Range(t))
    PROVE  /\ s \o t \in Seq(Range(s) \cup Range(t))
           /\ Range(s \o t) \subseteq Range(s) \cup Range(t)
  <1> DEFINE S == Range(s) \cup Range(t)
  <1> HIDE DEF S
  <1>1. s \in Seq(S) /\ t \in Seq(S)
    BY DEF S
  <1>2. s \o t \in Seq(S)
    BY <1>1
  <1> QED BY <1>2, OwnRange, Zenon DEF S

LEMMA TailRange ==
    ASSUME NEW s, s \in Seq(Range(s)), s # <<>>
    PROVE  Tail(s) \in Seq(Range(s)) /\ Range(Tail(s)) \subseteq Range(s)
  <1>1. Tail(s) \in Seq(Range(s))
    OBVIOUS
  <1> QED BY <1>1, OwnRange, Zenon

LEMMA AppendList ==
    ASSUME NEW S, NEW s \in Seq(S), NEW x \in S
    PROVE  Append(s, x) \in Seq(S) /\ Len(Append(s, x)) = Len(s) + 1
  OBVIOUS

LEMMA TailList ==
    ASSUME NEW S, NEW s \in Seq(S), s # <<>>
    PROVE  Head(s) \in S /\ Tail(s) \in Seq(S)
  OBVIOUS

LEMMA ConcatLists ==
    ASSUME NEW S, NEW s \in Seq(S), NEW t \in Seq(S)
    PROVE  s \o t \in Seq(S) /\ Len(s \o t) = Len(s) + Len(t)
  OBVIOUS

(* Without takes one element out.                                          *)
LEMMA WithoutList ==
    ASSUME NEW S, NEW s \in Seq(S), NEW k \in DOMAIN s
    PROVE  Without(s, k) \in Seq(S) /\ Len(Without(s, k)) = Len(s) - 1
  <1>1. Len(s) \in Nat /\ k \in 1 .. Len(s)
    OBVIOUS
  <1>2. SubSeq(s, 1, k - 1) \in Seq(S) /\ Len(SubSeq(s, 1, k - 1)) = k - 1
    BY <1>1
  <1>3. SubSeq(s, k + 1, Len(s)) \in Seq(S) /\ Len(SubSeq(s, k + 1, Len(s))) = Len(s) - k
    BY <1>1
  <1> DEFINE u == SubSeq(s, 1, k - 1)  v == SubSeq(s, k + 1, Len(s))
  <1> HIDE DEF u, v
  <1>4. u \in Seq(S) /\ v \in Seq(S) /\ Len(u) = k - 1 /\ Len(v) = Len(s) - k
    BY <1>2, <1>3, Zenon DEF u, v
  <1>5. u \o v \in Seq(S) /\ Len(u \o v) = Len(u) + Len(v)
    BY <1>4, ConcatLists, Zenon
  <1>6. Without(s, k) = u \o v
    BY Zenon DEF Without, u, v
  <1> DEFINE n == Len(s)  m == Len(u \o v)
  <1>7. n \in Nat /\ k \in Nat /\ m = (k - 1) + (n - k)
    BY <1>1, <1>4, <1>5
  <1> HIDE DEF n, m
  <1>8. m = n - 1
    BY <1>7
  <1> QED BY <1>5, <1>6, <1>8, Zenon DEF m, n

(* A sorted copy has no other elements.                                    *)
LEMMA BestFirstRange ==
    ASSUME NEW s, s \in Seq(Range(s)), NEW t \in BestFirst(s)
    PROVE  t \in Seq(Range(s)) /\ Range(t) \subseteq Range(s)
  <1>1. Len(s) \in Nat /\ DOMAIN s = 1 .. Len(s)
    BY OwnRange, Zenon
  <1>2. PICK p \in [DOMAIN s -> DOMAIN s] : t = [k \in DOMAIN s |-> s[p[k]]]
    BY Zenon DEF BestFirst
  <1>3. t \in [1 .. Len(s) -> Range(s)]
    BY <1>1, <1>2, Zenon DEF Range
  <1>4. t \in Seq(Range(s))
    BY <1>1, <1>3
  <1> QED BY <1>4, OwnRange, Zenon

-----------------------------------------------------------------------------
(* The pools: the chain, the cache and the scanner.                        *)

LEMMA InitPools == ASSUME Init PROVE PoolsInd
  <1>1. /\ chain = [a \in Addresses |-> 1] /\ cache = << >> /\ launched = 0
        /\ scanner = [pc |-> "check", reads |-> << >>]
    BY Zenon DEF Init
  <1>2. DOMAIN cache = {}
    BY <1>1
  <1>3. \A a \in Addresses : chain[a] = 1 /\ 1 \in 1 .. Len(History[a])
    BY <1>1, LauncherAssumption DEF Addresses, IsList
  <1>4. chain \in [Addresses -> Nat]
    BY <1>1
  <1>5. launched \in 0 .. Len(Tokens)
    BY <1>1, LauncherAssumption DEF IsList
  <1>6. ScannerInd
    BY <1>1 DEF ScannerInd
  <1>7. cache \in [DOMAIN cache -> Read]
    BY <1>1, <1>2
  <1> QED BY <1>2, <1>3, <1>4, <1>5, <1>6, <1>7 DEF PoolsInd, CacheFromChain, PairedWithWeth

LEMMA SamePools == ASSUME PoolsInd, UNCHANGED pools PROVE PoolsInd'
  <1>1. UNCHANGED <<chain, cache, launched, scanner>>
    BY Zenon DEF pools
  <1>2. ScannerInd'
    BY <1>1, Zenon DEF PoolsInd, ScannerInd, ReadRight, Launched
  <1>3. CacheFromChain' /\ PairedWithWeth'
    BY <1>1, Zenon DEF PoolsInd, CacheFromChain, PairedWithWeth
  <1> QED BY <1>1, <1>2, <1>3, Zenon DEF PoolsInd

(* A pool's state on chain, and the reading of it.                         *)
LEMMA NowOnChain ==
    ASSUME PoolsInd, NEW a \in Addresses
    PROVE  /\ chain[a] \in Nat /\ 1 <= chain[a] /\ chain[a] <= Len(History[a])
           /\ Now(a) \in Read /\ Now(a).liq = chain[a] /\ Now(a).price = chain[a]
  <1>1. chain[a] \in Nat /\ chain[a] \in 1 .. Len(History[a])
    BY DEF PoolsInd
  <1> QED BY <1>1, LauncherAssumption DEF Now, Read, IsList, Addresses

LEMMA DiscoverPools == ASSUME PoolsInd, FeedInd, discover_pools PROVE PoolsInd'
  <1>1. /\ ~Launched /\ launched' = launched + 1 /\ UNCHANGED <<chain, scanner>>
    BY Zenon DEF discover_pools
  <1> DEFINE t == Tokens[launched + 1]
  <1> HIDE DEF t
  <1>2. PICK found \in SUBSET {a \in Discoverable(t) : Acceptable(a, Now(a))} :
            cache' = [a \in DOMAIN cache \union found |-> IF a \in found THEN Now(a) ELSE cache[a]]
    BY Zenon DEF discover_pools, t
  <1>3. launched + 1 \in DOMAIN Tokens /\ launched' \in 0 .. Len(Tokens)
    BY <1>1, LauncherAssumption DEF PoolsInd, Launched, IsList
  <1>4. \A a \in found : a \in Addresses /\ Acceptable(a, Now(a)) /\ Pairs(a, Weth, t)
    <2>1. world.pools \subseteq Addresses
      BY DEF FeedInd, World, Addresses
    <2> QED BY <2>1, Zenon DEF Discoverable
  <1>5. DOMAIN cache' = DOMAIN cache \cup found
    BY <1>2, Zenon
  <1>6. \A a \in DOMAIN cache' : cache'[a] = IF a \in found THEN Now(a) ELSE cache[a]
    BY <1>2, Zenon
  <1>7. \A a \in DOMAIN cache : cache[a] \in Read
    BY Zenon DEF PoolsInd
  <1>8. \A a \in found : Now(a) \in Read
    BY <1>4, NowOnChain, Zenon
  <1>9. cache' \in [DOMAIN cache' -> Read]
    BY <1>2, <1>5, <1>7, <1>8, Zenon
  <1>10. DOMAIN cache' \subseteq Addresses
    BY <1>4, <1>5, Zenon DEF PoolsInd
  <1>11. CacheFromChain'
    <2> SUFFICES ASSUME NEW a \in DOMAIN cache'
                 PROVE  /\ 1 <= cache'[a].liq /\ cache'[a].liq <= cache'[a].price
                        /\ cache'[a].price <= chain[a]
                        /\ ~IsV3(a) => cache'[a].liq = cache'[a].price
                        /\ Acceptable(a, cache'[a])
      BY <1>1, Zenon DEF CacheFromChain, Acceptable, Reserves, IsV3
    <2>1. CASE a \in found
      <3>1. cache'[a] = Now(a) /\ a \in Addresses /\ Acceptable(a, Now(a))
        BY <1>4, <1>6, <2>1, Zenon
      <3> QED BY <3>1, NowOnChain
    <2>2. CASE a \notin found
      <3>1. cache'[a] = cache[a] /\ a \in DOMAIN cache
        BY <1>5, <1>6, <2>2, Zenon
      <3> QED BY <3>1, Zenon DEF PoolsInd, CacheFromChain
    <2> QED BY <2>1, <2>2, Zenon
  <1>12. PairedWithWeth'
    BY <1>3, <1>4, <1>5, Zenon DEF PoolsInd, PairedWithWeth, t, Pairs
  <1>13. ScannerInd'
    <2>1. scanner.pc # "refresh"
      BY <1>1, Zenon DEF PoolsInd, ScannerInd
    <2> QED BY <1>1, <2>1, Zenon DEF PoolsInd, ScannerInd
  <1> QED BY <1>1, <1>3, <1>9, <1>10, <1>11, <1>12, <1>13, Zenon DEF PoolsInd

LEMMA TradeStep == ASSUME PoolsInd, NEW b \in Addresses, Trade(b) PROVE PoolsInd'
  <1>1. /\ chain[b] < Len(History[b]) /\ chain' = [chain EXCEPT ![b] = @ + 1]
        /\ UNCHANGED <<cache, launched, scanner>>
    BY Zenon DEF Trade
  <1>2. /\ chain' \in [Addresses -> Nat]
        /\ \A a \in Addresses : /\ chain[a] \in Nat /\ chain'[a] \in Nat /\ chain[a] <= chain'[a]
                                /\ chain'[a] \in 1 .. Len(History[a])
    BY <1>1, LauncherAssumption DEF PoolsInd, IsList, Addresses
  <1>3. \A a \in DOMAIN cache : a \in Addresses /\ cache[a].price \in Nat
    BY DEF PoolsInd, Read
  <1>4. CacheFromChain'
    <2> SUFFICES ASSUME NEW a \in DOMAIN cache PROVE cache[a].price <= chain'[a]
      BY <1>1, Zenon DEF PoolsInd, CacheFromChain
    <2>1. cache[a].price <= chain[a]
      BY Zenon DEF PoolsInd, CacheFromChain
    <2> QED BY <1>2, <1>3, <2>1
  <1>5. ScannerInd'
    <2> SUFFICES ASSUME scanner.pc = "refresh", NEW a \in DOMAIN cache
                 PROVE  ReadRight(a, scanner.reads[a])'
      BY <1>1, Zenon DEF PoolsInd, ScannerInd, Launched
    <2> DEFINE r == scanner.reads[a]
    <2>1. r \in Future /\ ReadRight(a, r)
      BY Zenon DEF PoolsInd, ScannerInd
    <2>2. r.liq \in Nat /\ r.price \in Nat
      BY <2>1 DEF Future
    <2> HIDE DEF r
    <2>3. /\ r.liq <= chain[a] => r.liq <= chain'[a]
          /\ r.price <= chain[a] => r.price <= chain'[a]
      BY <1>2, <1>3, <2>2
    <2>4. ReadRight(a, r)'
      BY <1>1, <2>1, <2>3, Zenon DEF ReadRight, r
    <2> QED BY <2>4, Zenon DEF r
  <1>6. PairedWithWeth'
    BY <1>1, Zenon DEF PoolsInd, PairedWithWeth
  <1> QED BY <1>1, <1>2, <1>4, <1>5, <1>6, Zenon DEF PoolsInd

LEMMA RefreshStartStep == ASSUME PoolsInd, RefreshStart PROVE PoolsInd'
  <1>1. /\ Launched /\ UNCHANGED <<chain, cache, launched>>
        /\ scanner' = IF running
                      THEN [pc |-> "refresh", reads |-> [a \in DOMAIN cache |-> Unread]]
                      ELSE [scanner EXCEPT !.pc = "ended"]
    BY Zenon DEF RefreshStart
  <1>2. ScannerInd'
    <2>1. CASE running
      <3>1. scanner' = [pc |-> "refresh", reads |-> [a \in DOMAIN cache |-> Unread]]
        BY <1>1, <2>1, Zenon
      <3>2. scanner'.pc = "refresh" /\ scanner'.reads = [a \in DOMAIN cache |-> Unread]
        BY <3>1
      <3>3. Unread \in Future /\ Unread.state = "start"
        BY DEF Unread, Future
      <3>4. scanner'.reads \in [DOMAIN cache -> Future]
        BY <3>2, <3>3, Zenon
      <3>5. \A a \in DOMAIN cache : scanner'.reads[a].state = "start"
        BY <3>2, <3>3, Zenon
      <3>6. \A a \in DOMAIN cache : ReadRight(a, scanner.reads[a])'
        BY <3>5, <1>1 DEF ReadRight
      <3>7. scanner' \in [pc : {"check", "refresh", "ended"}, reads : {scanner'.reads}]
        BY <3>1
      <3> QED BY <1>1, <3>4, <3>6, <3>7, Zenon DEF ScannerInd, Launched
    <2>2. CASE ~running
      <3>1. scanner' = [scanner EXCEPT !.pc = "ended"]
        BY <1>1, <2>2, Zenon
      <3>2. /\ scanner' \in [pc : {"check", "refresh", "ended"}, reads : {scanner'.reads}]
            /\ scanner'.pc # "refresh"
        BY <3>1 DEF PoolsInd, ScannerInd
      <3> QED BY <3>2, Zenon DEF ScannerInd
    <2> QED BY <2>1, <2>2, Zenon
  <1>3. CacheFromChain' /\ PairedWithWeth'
    BY <1>1, Zenon DEF PoolsInd, CacheFromChain, PairedWithWeth
  <1> QED BY <1>1, <1>2, <1>3, Zenon DEF PoolsInd

(* What one call of one future leaves of it.                               *)
ReadOf(a, r) ==
    LET liq == [r EXCEPT !.liq = chain[a], !.price = chain[a]]
        done == IF IsV3(a) THEN PriceRead(r, a) ELSE liq
    IN {[r EXCEPT !.state = "failed"]}
       \cup {[liq EXCEPT !.state = st] : st \in IF IsV3(a) THEN {"failed", "liquidity"} ELSE {}}
       \cup {[done EXCEPT !.state = "failed"]}
       \cup {[done EXCEPT !.state = st] :
               st \in IF (IsV3(a) => r.state = "liquidity") /\ Acceptable(a, done)
                      THEN {"done"} ELSE {}}

LEMMA ReadOfRight ==
    ASSUME PoolsInd, NEW a \in DOMAIN cache, NEW r \in Future, ReadRight(a, r),
           NEW s \in ReadOf(a, r)
    PROVE  s \in Future /\ ReadRight(a, s)
  <1>1. /\ chain[a] \in Nat /\ 1 <= chain[a] /\ cache[a].liq \in Nat /\ cache[a].price \in Nat
        /\ cache[a].liq <= chain[a] /\ cache[a].price <= chain[a]
    <2>1. a \in Addresses /\ cache[a].liq \in Nat /\ cache[a].price \in Nat
      BY DEF PoolsInd, Read
    <2>2. chain[a] \in Nat /\ 1 <= chain[a]
      BY <2>1, NowOnChain, Zenon
    <2>3. cache[a].liq <= cache[a].price /\ cache[a].price <= chain[a]
      BY Zenon DEF PoolsInd, CacheFromChain
    <2> QED BY <2>1, <2>2, <2>3
  <1>2. CASE s = [r EXCEPT !.state = "failed"]
    <2>1. s \in Future /\ s.state = "failed"
      BY <1>2 DEF Future
    <2> QED BY <2>1 DEF ReadRight
  <1> DEFINE liq == [r EXCEPT !.liq = chain[a], !.price = chain[a]]
             done == IF IsV3(a) THEN PriceRead(r, a) ELSE liq
  <1>3. liq \in Future /\ liq.liq = chain[a] /\ liq.price = chain[a]
    BY <1>1 DEF Future
  <1>4. /\ done \in Future /\ done.price = chain[a]
        /\ done.liq = IF IsV3(a) THEN r.liq ELSE chain[a]
    BY <1>1, <1>3 DEF Future, PriceRead
  <1> HIDE DEF liq, done
  <1>5. CASE IsV3(a) /\ \E st \in {"failed", "liquidity"} : s = [liq EXCEPT !.state = st]
    <2>1. s \in Future /\ s.liq = chain[a] /\ s.state # "done"
      BY <1>3, <1>5 DEF Future
    <2> QED BY <1>1, <1>5, <2>1 DEF ReadRight
  <1>6. CASE s = [done EXCEPT !.state = "failed"]
    <2>1. s \in Future /\ s.state = "failed"
      BY <1>4, <1>6 DEF Future
    <2> QED BY <2>1 DEF ReadRight
  <1>7. CASE /\ IsV3(a) => r.state = "liquidity"
             /\ Acceptable(a, done) /\ s = [done EXCEPT !.state = "done"]
    <2>1. s \in Future /\ s.state = "done" /\ s.liq = done.liq /\ s.price = done.price
      BY <1>4, <1>7 DEF Future
    <2>2. Acceptable(a, s)
      BY <1>7, <2>1 DEF Acceptable, Reserves
    <2>3. CASE IsV3(a)
      <3>1. 1 <= r.liq /\ cache[a].liq <= r.liq /\ r.liq <= chain[a]
        BY <1>7, <2>3, Zenon DEF ReadRight
      <3> QED BY <1>1, <1>4, <2>1, <2>2, <2>3, <3>1 DEF ReadRight
    <2>4. CASE ~IsV3(a)
      BY <1>1, <1>4, <2>1, <2>2, <2>4 DEF ReadRight
    <2> QED BY <2>3, <2>4, Zenon
  <1> QED BY <1>2, <1>5, <1>6, <1>7 DEF ReadOf, liq, done

LEMMA ReadPoolStep == ASSUME PoolsInd, NEW b \in Addresses, ReadPool(b) PROVE PoolsInd'
  <1>1. /\ scanner.pc = "refresh" /\ b \in DOMAIN scanner.reads
        /\ UNCHANGED <<chain, cache, launched>>
    BY Zenon DEF ReadPool
  <1>2. /\ Launched /\ scanner.reads \in [DOMAIN cache -> Future]
        /\ \A a \in DOMAIN cache : ReadRight(a, scanner.reads[a])
        /\ scanner \in [pc : {"check", "refresh", "ended"}, reads : {scanner.reads}]
    BY <1>1, Zenon DEF PoolsInd, ScannerInd
  <1> DEFINE r == scanner.reads[b]
  <1>3. b \in DOMAIN cache /\ r \in Future /\ ReadRight(b, r)
    BY <1>1, <1>2, Zenon
  <1>4. PICK s \in ReadOf(b, r) : scanner' = [scanner EXCEPT !.reads[b] = s]
    <2>1. CASE scanner' = [scanner EXCEPT !.reads[b].state = "failed"]
      BY <1>2, <1>3, <2>1 DEF ReadOf
    <2> DEFINE liq == [r EXCEPT !.liq = chain[b], !.price = chain[b]]
               done == IF IsV3(b) THEN PriceRead(r, b) ELSE liq
    <2>2. CASE /\ IsV3(b)
               /\ scanner' = [scanner EXCEPT !.reads[b] =
                    [liq EXCEPT !.state = IF History[b][chain[b]].liq = 0 THEN "failed"
                                          ELSE "liquidity"]]
      BY <2>2, Zenon DEF ReadOf
    <2>3. CASE /\ IsV3(b) => r.state = "liquidity"
               /\ scanner' = [scanner EXCEPT !.reads[b] =
                    [done EXCEPT !.state = IF Acceptable(b, done) THEN "done" ELSE "failed"]]
      BY <2>3, Zenon DEF ReadOf
    <2> QED BY <2>1, <2>2, <2>3, Zenon DEF ReadPool
  <1> HIDE DEF r
  <1>5. s \in Future /\ ReadRight(b, s)
    BY <1>3, <1>4, ReadOfRight, Zenon
  <1>6. /\ scanner'.pc = scanner.pc /\ scanner'.reads = [scanner.reads EXCEPT ![b] = s]
        /\ scanner' \in [pc : {"check", "refresh", "ended"}, reads : {scanner'.reads}]
    BY <1>2, <1>4
  <1>7. scanner'.reads \in [DOMAIN cache -> Future]
    BY <1>2, <1>5, <1>6, Zenon
  <1>8. \A a \in DOMAIN cache : ReadRight(a, scanner'.reads[a])
    BY <1>2, <1>3, <1>5, <1>6, Zenon
  <1>9. \A a \in DOMAIN cache : ReadRight(a, scanner.reads[a])'
    BY <1>1, <1>8, Zenon DEF ReadRight
  <1>10. ScannerInd'
    BY <1>1, <1>2, <1>6, <1>7, <1>9, Zenon DEF ScannerInd, Launched
  <1>11. CacheFromChain' /\ PairedWithWeth'
    BY <1>1, Zenon DEF PoolsInd, CacheFromChain, PairedWithWeth
  <1> QED BY <1>1, <1>10, <1>11, Zenon DEF PoolsInd

(* What a refresh stores is a reading of the chain and not an older one.   *)
LEMMA RefreshWriteFacts ==
    ASSUME PoolsInd, RefreshWrite, NEW a \in DOMAIN cache
    PROVE  /\ cache'[a] \in Read /\ cache[a].liq <= cache'[a].liq
           /\ cache[a].price <= cache'[a].price
           /\ 1 <= cache'[a].liq /\ cache'[a].liq <= cache'[a].price
           /\ cache'[a].price <= chain[a]
           /\ ~IsV3(a) => cache'[a].liq = cache'[a].price
           /\ Acceptable(a, cache'[a])
  <1> DEFINE r == scanner.reads[a]
  <1>1. r \in Future /\ ReadRight(a, r)
    BY Zenon DEF RefreshWrite, PoolsInd, ScannerInd
  <1>2. cache'[a] = IF r.state = "done" THEN [liq |-> r.liq, price |-> r.price] ELSE cache[a]
    BY Zenon DEF RefreshWrite
  <1>3. cache[a] \in Read /\ cache[a].liq \in Nat /\ cache[a].price \in Nat
    BY DEF PoolsInd, Read
  <1> HIDE DEF r
  <1>4. CASE r.state = "done"
    <2>1. /\ cache'[a].liq = r.liq /\ cache'[a].price = r.price /\ cache'[a] \in Read
      BY <1>1, <1>2, <1>4 DEF Future, Read
    <2>2. Acceptable(a, cache'[a])
      BY <1>1, <1>4, <2>1 DEF ReadRight, Acceptable, Reserves
    <2> QED BY <1>1, <1>4, <2>1, <2>2, Zenon DEF ReadRight
  <1>5. CASE r.state # "done"
    <2>1. cache'[a] = cache[a]
      BY <1>2, <1>5, Zenon
    <2>2. cache[a].liq <= cache[a].liq /\ cache[a].price <= cache[a].price
      BY <1>3
    <2> QED BY <1>3, <2>1, <2>2, Zenon DEF PoolsInd, CacheFromChain
  <1> QED BY <1>4, <1>5, Zenon

LEMMA RefreshWriteStep == ASSUME PoolsInd, RefreshWrite PROVE PoolsInd'
  <1>1. /\ UNCHANGED <<chain, launched>> /\ scanner' = [pc |-> "check", reads |-> << >>]
        /\ DOMAIN cache' = DOMAIN cache
    BY Zenon DEF RefreshWrite
  <1>2. cache' \in [DOMAIN cache' -> Read]
    <2>1. \A a \in DOMAIN cache' : cache'[a] \in Read
      BY <1>1, RefreshWriteFacts, Zenon
    <2>2. cache' = [a \in DOMAIN cache' |-> cache'[a]]
      BY <1>1, Zenon DEF RefreshWrite
    <2> QED BY <2>1, <2>2, Zenon
  <1>3. CacheFromChain'
    <2> SUFFICES ASSUME NEW a \in DOMAIN cache
                 PROVE  /\ 1 <= cache'[a].liq /\ cache'[a].liq <= cache'[a].price
                        /\ cache'[a].price <= chain[a]
                        /\ ~IsV3(a) => cache'[a].liq = cache'[a].price
                        /\ Acceptable(a, cache'[a])
      BY <1>1, Zenon DEF CacheFromChain, Acceptable, Reserves, IsV3
    <2> QED BY RefreshWriteFacts, Zenon
  <1>4. PairedWithWeth'
    BY <1>1, Zenon DEF PoolsInd, PairedWithWeth
  <1>5. ScannerInd'
    BY <1>1 DEF ScannerInd
  <1> QED BY <1>1, <1>2, <1>3, <1>4, <1>5, Zenon DEF PoolsInd

-----------------------------------------------------------------------------
(* The counters of the feed.                                               *)

LEMMA InitFeed == ASSUME Init PROVE FeedInd
  <1>1. /\ monitor = "check" /\ fetching = <<>> /\ world \in Worlds
        /\ stats = [txs |-> 0, swaps |-> 0, found |-> 0, ok |-> 0, sent |-> 0, success |-> 0,
                    profit |-> 0]
    BY Zenon DEF Init
  <1>2. world \in World
    BY <1>1, LauncherAssumption, Zenon
  <1>3. fetching \in Seq(Transaction) /\ Len(fetching) = 0
    BY <1>1
  <1> QED BY <1>1, <1>2, <1>3 DEF FeedInd

LEMMA SameFeed ==
    ASSUME FeedInd, UNCHANGED fetching, monitor' \in {"check", "stream", "ended"},
           world' \in World, stats'.txs = stats.txs, stats'.swaps = stats.swaps
    PROVE  FeedInd'
  BY Zenon DEF FeedInd

LEMMA NextHashStep ==
    ASSUME FeedInd, StatsInd, NextHash
    PROVE  /\ FeedInd' /\ UNCHANGED <<live, engine>> /\ stats' \in Stats'
           /\ \A f \in {"found", "ok", "sent", "success", "profit"} : stats'[f] = stats[f]
  <1>0. UNCHANGED <<live, engine>> /\ monitor = "stream" /\ world.hashes # <<>>
    BY Zenon DEF NextHash
  <1>1. CASE running
    <2>1. /\ fetching' = Append(fetching, Head(world.hashes))
          /\ world' = [world EXCEPT !.hashes = Tail(@)]
          /\ stats' = [stats EXCEPT !.txs = @ + 1] /\ monitor' = monitor
      BY <1>1, Zenon DEF NextHash
    <2>2. world \in World /\ world.hashes \in Seq(Transaction)
      BY DEF FeedInd, World
    <2>3. Head(world.hashes) \in Transaction /\ Tail(world.hashes) \in Seq(Transaction)
      BY <1>0, <2>2, TailList, Zenon
    <2>4. world' \in World
      BY <2>1, <2>2, <2>3 DEF World
    <2>5. fetching' \in Seq(Transaction) /\ Len(fetching') = Len(fetching) + 1
      BY <2>1, <2>3, AppendList, Zenon DEF FeedInd
    <2>6. /\ stats'.txs = stats.txs + 1 /\ stats'.swaps = stats.swaps /\ stats' \in Stats'
          /\ \A f \in {"found", "ok", "sent", "success", "profit"} : stats'[f] = stats[f]
      BY <2>1 DEF StatsInd, Stats
    <2>7. stats.txs \in Nat /\ stats.swaps \in Nat /\ stats.swaps + Len(fetching) <= stats.txs
      BY Zenon DEF FeedInd
    <2>8. Len(fetching) \in Nat
      BY OwnRange, Zenon DEF FeedInd
    <2>9. stats'.txs \in Nat /\ stats'.swaps + Len(fetching') <= stats'.txs
      BY <2>5, <2>6, <2>7, <2>8
    <2> QED BY <1>0, <2>1, <2>4, <2>5, <2>6, <2>7, <2>9, Zenon DEF FeedInd
  <1>2. CASE ~running
    <2>1. monitor' = "check" /\ UNCHANGED <<fetching, stats, world>>
      BY <1>2, Zenon DEF NextHash
    <2>2. FeedInd'
      BY <2>1, SameFeed DEF FeedInd
    <2>3. stats' \in Stats'
      BY <2>1, Zenon DEF StatsInd, Stats
    <2> QED BY <1>0, <2>1, <2>2, <2>3, Zenon
  <1> QED BY <1>1, <1>2, Zenon

LEMMA FetchStep ==
    ASSUME FeedInd, StatsInd, Fetch
    PROVE  /\ FeedInd' /\ UNCHANGED <<live, engine>> /\ stats' \in Stats'
           /\ \A f \in {"found", "ok", "sent", "success", "profit"} : stats'[f] = stats[f]
  <1>1. PICK k \in DOMAIN fetching :
            /\ fetching' = Without(fetching, k)
            /\ stats' = stats \/ stats' = [stats EXCEPT !.swaps = @ + 1]
    BY Zenon DEF Fetch
  <1>2. UNCHANGED <<monitor, world, live, engine>>
    BY Zenon DEF Fetch
  <1>3. fetching \in Seq(Transaction) /\ Len(fetching) \in Nat
    BY OwnRange, Zenon DEF FeedInd
  <1>4. fetching' \in Seq(Transaction) /\ Len(fetching') = Len(fetching) - 1
    BY <1>1, <1>3, WithoutList, Zenon
  <1>5. /\ stats'.swaps = stats.swaps \/ stats'.swaps = stats.swaps + 1
        /\ stats'.txs = stats.txs /\ stats' \in Stats'
        /\ \A f \in {"found", "ok", "sent", "success", "profit"} : stats'[f] = stats[f]
    BY <1>1 DEF StatsInd, Stats
  <1>6. stats.txs \in Nat /\ stats.swaps \in Nat /\ stats.swaps + Len(fetching) <= stats.txs
    BY Zenon DEF FeedInd
  <1>7. stats'.swaps \in Nat /\ stats'.swaps + Len(fetching') <= stats'.txs
    BY <1>3, <1>4, <1>5, <1>6
  <1>8. FeedInd'
    BY <1>2, <1>4, <1>5, <1>6, <1>7, Zenon DEF FeedInd
  <1> QED BY <1>2, <1>5, <1>8, Zenon

-----------------------------------------------------------------------------
(* The engine.                                                             *)

LEMMA IdleShape == EngineShape(Idle) /\ Idle.pc = "select"
  <1>1. <<>> \in Seq(Range(<<>>)) /\ Range(<<>>) = {}
    BY EmptyList
  <1>2. 1 \in 1 .. Len(Amounts) /\ 1 \in 1 .. Len(Tokens) /\ 2 \in 2 .. Len(Tokens)
    BY LauncherAssumption DEF IsList
  <1> QED BY <1>1, <1>2 DEF EngineShape, Idle

LEMMA ScanningShape ==
    ASSUME NEW b \in BOOLEAN, NEW n \in 1 .. Len(Amounts)
    PROVE  EngineShape(Scanning(b, n)) /\ Scanning(b, n).pc = "first"
  <1>1. <<>> \in Seq(Range(<<>>)) /\ Range(<<>>) = {}
    BY EmptyList
  <1>2. 1 \in 1 .. Len(Tokens) /\ 2 \in 2 .. Len(Tokens)
    BY LauncherAssumption DEF IsList
  <1> QED BY <1>1, <1>2 DEF EngineShape, Scanning, Idle

LEMMA InitEngine == ASSUME Init PROVE EngineInd /\ StatsInd
  <1>1. /\ engine = Idle /\ live \in BOOLEAN
        /\ stats = [txs |-> 0, swaps |-> 0, found |-> 0, ok |-> 0, sent |-> 0, success |-> 0,
                    profit |-> 0]
    BY Zenon DEF Init
  <1>2. StatsInd
    BY <1>1 DEF StatsInd, Stats
  <1>3. EngineInd
    BY <1>1, IdleShape DEF EngineInd
  <1> QED BY <1>2, <1>3

(* A step that leaves the engine and its counters alone.                   *)
LEMMA SameEngine ==
    ASSUME EngineInd, StatsInd, UNCHANGED <<engine, live>>, stats' \in Stats',
           \A f \in {"found", "ok", "sent", "success"} : stats'[f] = stats[f]
    PROVE  EngineInd' /\ StatsInd'
  <1>1. /\ stats'.found = stats.found /\ stats'.ok = stats.ok /\ stats'.sent = stats.sent
        /\ stats'.success = stats.success
    BY Zenon
  <1>2. EngineInd'
    BY <1>1, Zenon DEF EngineInd
  <1>3. StatsInd'
    BY <1>1, Zenon DEF StatsInd
  <1> QED BY <1>2, <1>3

LEMMA SelectStep ==
    ASSUME EngineInd, StatsInd, FeedInd, EngineSelect
    PROVE  EngineInd' /\ StatsInd' /\ FeedInd'
  <1>1. UNCHANGED <<running, monitor, fetching, live, stats>>
    BY Zenon DEF EngineSelect, feed
  <1>2. EngineShape(engine') /\ engine'.pc # "try"
    <2>1. CASE engine' = [engine EXCEPT !.pc = "ended"]
      BY <2>1 DEF EngineInd, EngineShape
    <2>2. 1 \in 1 .. Len(Amounts)
      BY LauncherAssumption DEF IsList
    <2>3. CASE engine' = Scanning(TRUE, 1)
      BY <2>2, <2>3, ScanningShape
    <2>4. CASE engine' = Scanning(FALSE, 1)
      BY <2>2, <2>4, ScanningShape
    <2> QED BY <2>1, <2>3, <2>4, Zenon DEF EngineSelect
  <1>3. EngineInd'
    BY <1>2, Zenon DEF EngineInd
  <1>4. StatsInd'
    BY <1>1, Zenon DEF StatsInd, Stats
  <1>5. world' \in World
    <2>1. CASE world' = world
      BY <2>1, Zenon DEF FeedInd
    <2>2. CASE world.background > 0 /\ world' = [world EXCEPT !.background = @ - 1]
      <3> DEFINE n == world.background - 1
      <3>1. world \in World /\ n \in Nat
        BY <2>2 DEF FeedInd, World
      <3>2. world' = [world EXCEPT !.background = n]
        BY <2>2, Zenon
      <3> HIDE DEF n
      <3> QED BY <3>1, <3>2 DEF World
    <2> QED BY <2>1, <2>2, Zenon DEF EngineSelect
  <1>6. FeedInd'
    BY <1>1, <1>5, Zenon DEF FeedInd
  <1> QED BY <1>3, <1>4, <1>6

(* A step of a scan that leaves a list of two-pool cycles.                 *)
LEMMA ScanStep ==
    ASSUME EngineInd, StatsInd, UNCHANGED <<live, stats>>, EngineShape(engine'), engine'.pc # "try"
    PROVE  EngineInd' /\ StatsInd'
  <1>1. EngineInd'
    BY Zenon DEF EngineInd
  <1>2. StatsInd'
    BY Zenon DEF StatsInd, Stats
  <1> QED BY <1>1, <1>2

LEMMA FirstStep == ASSUME EngineInd, StatsInd, ScanFirst PROVE EngineInd' /\ StatsInd'
  <1>1. UNCHANGED <<live, stats>> /\ engine.pc = "first"
    BY Zenon DEF ScanFirst
  <1> DEFINE found == get_pools(Weth, Tokens[engine.token])
  <1>2. engine' = [engine EXCEPT !.pc = "second", !.first = found]
    BY Zenon DEF ScanFirst
  <1> HIDE DEF found
  <1>3. EngineShape(engine') /\ engine'.pc # "try"
    BY <1>1, <1>2 DEF EngineInd, EngineShape
  <1> QED BY <1>1, <1>3, ScanStep, Zenon

(* The result of a search is one of its candidates or nothing.             *)
LEMMA ResultsShape ==
    ASSUME NEW cands, NEW found \in Results(cands)
    PROVE  found \in Seq(Range(found)) /\ Range(found) \subseteq cands
  <1>1. CASE found = <<>>
    BY <1>1, EmptyList
  <1>2. CASE \E o \in cands : found = <<o>>
    <2>1. PICK o \in cands : found = <<o>>
      BY <1>2
    <2> QED BY <2>1, SingletonList
  <1> QED BY <1>1, <1>2, Zenon DEF Results, Best

LEMMA TwoHopsShape ==
    ASSUME NEW first, NEW second, NEW t, NEW x, NEW o \in TwoHops(first, second, t, x)
    PROVE  Len(o.path) = 2
  <1>1. PICK p, y, g : o = Opportunity(<<p[1].address, p[2].address>>, x, y, g)
    BY Zenon DEF TwoHops
  <1>2. o.path = <<p[1].address, p[2].address>>
    BY <1>1 DEF Opportunity
  <1> QED BY <1>2

(* What is added to the list of the engine keeps it one of two-pool        *)
(* cycles.                                                                 *)
LEMMA Listed ==
    ASSUME EngineInd, NEW found, found \in Seq(Range(found)),
           \A o \in Range(found) : Len(o.path) = 2
    PROVE  /\ engine.opps \o found \in Seq(Range(engine.opps \o found))
           /\ \A o \in Range(engine.opps \o found) : Len(o.path) = 2
  <1>1. engine.opps \in Seq(Range(engine.opps)) /\ \A o \in Range(engine.opps) : Len(o.path) = 2
    BY DEF EngineInd, EngineShape
  <1> DEFINE s == engine.opps \o found
  <1>2. s \in Seq(Range(engine.opps) \cup Range(found))
        /\ Range(s) \subseteq Range(engine.opps) \cup Range(found)
    BY <1>1, ConcatRange, Zenon
  <1> HIDE DEF s
  <1>3. s \in Seq(Range(s))
    BY <1>2, OwnRange, Zenon
  <1>4. \A o \in Range(s) : Len(o.path) = 2
    BY <1>1, <1>2, Zenon
  <1> QED BY <1>3, <1>4, Zenon DEF s

LEMMA SecondStep == ASSUME EngineInd, StatsInd, ScanSecond PROVE EngineInd' /\ StatsInd'
  <1>1. UNCHANGED <<live, stats>> /\ engine.pc = "second"
    BY Zenon DEF ScanSecond
  <1> DEFINE t == Tokens[engine.token]
             cands == TwoHops(engine.first, get_pools(t, Weth), t, Amounts[engine.amount])
  <1>2. PICK found \in Results(cands) :
            engine' = [engine EXCEPT
                        !.opps = @ \o found, !.first = {},
                        !.token = IF @ = Len(Tokens) THEN 1 ELSE @ + 1,
                        !.pc = IF engine.token = Len(Tokens) THEN "triangle" ELSE "first"]
    BY Zenon DEF ScanSecond
  <1>3. \A o \in cands : Len(o.path) = 2
    BY TwoHopsShape, Zenon
  <1> HIDE DEF t, cands
  <1>4. found \in Seq(Range(found)) /\ \A o \in Range(found) : Len(o.path) = 2
    BY <1>2, <1>3, ResultsShape, Zenon
  <1> DEFINE s == engine.opps \o found
  <1>5. s \in Seq(Range(s)) /\ \A o \in Range(s) : Len(o.path) = 2
    BY <1>4, Listed, Zenon
  <1>6. engine' = [engine EXCEPT
                        !.opps = s, !.first = {},
                        !.token = IF @ = Len(Tokens) THEN 1 ELSE @ + 1,
                        !.pc = IF engine.token = Len(Tokens) THEN "triangle" ELSE "first"]
    BY <1>2, Zenon
  <1> HIDE DEF s
  <1>7. Len(Tokens) \in Nat /\ Len(Tokens) >= 2
    BY LauncherAssumption DEF IsList
  <1>8. EngineShape(engine) /\ engine.other = 2 /\ engine.token \in 1 .. Len(Tokens)
    BY <1>1 DEF EngineInd, EngineShape
  <1>9. CASE engine.token = Len(Tokens)
    <2>1. engine' = [engine EXCEPT !.opps = s, !.first = {}, !.token = 1, !.pc = "triangle"]
      BY <1>6, <1>9, Zenon
    <2>2. 1 \in 1 .. Len(Tokens) /\ 1 < engine.other
      BY <1>7, <1>8
    <2>3. EngineShape(engine') /\ engine'.pc # "try"
      BY <1>5, <1>8, <2>1, <2>2 DEF EngineShape
    <2> QED BY <1>1, <2>3, ScanStep, Zenon
  <1>10. CASE engine.token # Len(Tokens)
    <2> DEFINE n == engine.token + 1
    <2>1. engine' = [engine EXCEPT !.opps = s, !.first = {}, !.token = n, !.pc = "first"]
      BY <1>6, <1>10, Zenon
    <2>2. n \in 1 .. Len(Tokens)
      BY <1>7, <1>8, <1>10
    <2> HIDE DEF n
    <2>3. EngineShape(engine') /\ engine'.pc # "try"
      BY <1>5, <1>7, <1>8, <2>1, <2>2 DEF EngineShape
    <2> QED BY <1>1, <2>3, ScanStep, Zenon
  <1> QED BY <1>9, <1>10, Zenon

(* No cached pool has two tokens other than WETH, so there is nothing to   *)
(* go through the middle of a triangle.                                    *)
LEMMA NoMiddlePools ==
    ASSUME PoolsInd, NEW i \in DOMAIN Tokens, NEW j \in DOMAIN Tokens
    PROVE  get_pools(Tokens[i], Tokens[j]) = {}
  <1>1. Tokens[i] # Weth /\ Tokens[j] # Weth
    BY LauncherAssumption, Zenon
  <1>2. ASSUME NEW a \in DOMAIN cache, Pairs(a, Tokens[i], Tokens[j]) PROVE FALSE
    <2>1. PICK k \in DOMAIN Tokens : Pairs(a, Weth, Tokens[k])
      BY Zenon DEF PoolsInd, PairedWithWeth
    <2>2. Weth \in {Tokens[i], Tokens[j]}
      BY <1>2, <2>1, Zenon DEF Pairs
    <2> QED BY <1>1, <2>2, Zenon
  <1> QED BY <1>2, Zenon DEF get_pools

LEMMA NoTriangles ==
    ASSUME NEW ab, NEW ca, NEW b, NEW c, NEW x
    PROVE  Triangles(ab, {}, ca, b, c, x) = {}
  <1>1. ab \X {} \X ca = {}
    OBVIOUS
  <1> QED BY <1>1, Zenon DEF Triangles

LEMMA TriangleStep ==
    ASSUME PoolsInd, EngineInd, StatsInd, ScanTriangle
    PROVE  EngineInd' /\ StatsInd'
  <1>1. UNCHANGED <<live, stats>> /\ engine.pc = "triangle"
    BY Zenon DEF ScanTriangle
  <1>2. Len(Tokens) \in Nat /\ Len(Tokens) >= 2 /\ DOMAIN Tokens = 1 .. Len(Tokens)
    BY LauncherAssumption DEF IsList
  <1>3. /\ EngineShape(engine) /\ engine.token \in 1 .. Len(Tokens)
        /\ engine.other \in 2 .. Len(Tokens) /\ engine.token < engine.other
    BY <1>1 DEF EngineInd, EngineShape
  <1>4. engine.token \in DOMAIN Tokens /\ engine.other \in DOMAIN Tokens
    BY <1>2, <1>3
  <1> DEFINE b == Tokens[engine.token]  c == Tokens[engine.other]
             cands == Triangles(get_pools(Weth, b), get_pools(b, c), get_pools(c, Weth), b, c,
                                Amounts[engine.amount])
  <1>5. PICK found \in Results(cands) :
            engine' \in IF engine.other < Len(Tokens)
                        THEN {[engine EXCEPT !.opps = @ \o found, !.other = @ + 1]}
                        ELSE IF engine.token + 1 < Len(Tokens)
                        THEN {[engine EXCEPT !.opps = @ \o found, !.token = @ + 1,
                                             !.other = engine.token + 2]}
                        ELSE {[engine EXCEPT !.opps = sorted, !.pc = "report"] :
                                 sorted \in BestFirst(engine.opps \o found)}
    BY Zenon DEF ScanTriangle
  <1>6. cands = {}
    BY <1>4, NoMiddlePools, NoTriangles, Zenon
  <1> HIDE DEF cands
  <1>7. found \in Seq(Range(found)) /\ \A o \in Range(found) : Len(o.path) = 2
    <2>1. found \in Seq(Range(found)) /\ Range(found) \subseteq cands
      BY <1>5, ResultsShape, Zenon
    <2> QED BY <1>6, <2>1
  <1> DEFINE s == engine.opps \o found
  <1>8. s \in Seq(Range(s)) /\ \A o \in Range(s) : Len(o.path) = 2
    BY <1>7, Listed, Zenon
  <1> SUFFICES EngineShape(engine') /\ engine'.pc # "try"
    BY <1>1, ScanStep, Zenon
  <1>9. CASE engine.other < Len(Tokens)
    <2> DEFINE n == engine.other + 1
    <2>1. engine' = [engine EXCEPT !.opps = s, !.other = n]
      BY <1>5, <1>9, Zenon
    <2>2. n \in 2 .. Len(Tokens) /\ engine.token < n
      BY <1>2, <1>3, <1>9
    <2> HIDE DEF s, n
    <2> QED BY <1>1, <1>3, <1>8, <2>1, <2>2 DEF EngineShape
  <1>10. CASE ~(engine.other < Len(Tokens)) /\ engine.token + 1 < Len(Tokens)
    <2> DEFINE m == engine.token + 1  n == engine.token + 2
    <2>1. engine' = [engine EXCEPT !.opps = s, !.token = m, !.other = n]
      BY <1>5, <1>10, Zenon
    <2>2. m \in 1 .. Len(Tokens) /\ n \in 2 .. Len(Tokens) /\ m < n
      BY <1>2, <1>3, <1>10
    <2> HIDE DEF s, m, n
    <2> QED BY <1>1, <1>3, <1>8, <2>1, <2>2 DEF EngineShape
  <1>11. CASE ~(engine.other < Len(Tokens)) /\ ~(engine.token + 1 < Len(Tokens))
    <2>1. PICK sorted \in BestFirst(s) : engine' = [engine EXCEPT !.opps = sorted, !.pc = "report"]
      BY <1>5, <1>11, Zenon
    <2> HIDE DEF s
    <2>2. sorted \in Seq(Range(s)) /\ Range(sorted) \subseteq Range(s)
      BY <1>8, <2>1, BestFirstRange, Zenon
    <2>3. sorted \in Seq(Range(sorted)) /\ \A o \in Range(sorted) : Len(o.path) = 2
      BY <1>8, <2>2, OwnRange, Zenon
    <2> QED BY <1>3, <2>1, <2>3 DEF EngineShape
  <1> QED BY <1>9, <1>10, <1>11, Zenon

(* The rest of the list once its head has been dealt with.                 *)
LEMMA TailShape ==
    ASSUME EngineShape(engine), engine.opps # <<>>
    PROVE  /\ EngineShape([engine EXCEPT !.pc = "report", !.opps = Tail(@)])
           /\ [engine EXCEPT !.pc = "report", !.opps = Tail(@)].pc = "report"
  <1> DEFINE s == Tail(engine.opps)
  <1>1. engine.opps \in Seq(Range(engine.opps)) /\ \A o \in Range(engine.opps) : Len(o.path) = 2
    BY DEF EngineShape
  <1>2. s \in Seq(Range(engine.opps)) /\ Range(s) \subseteq Range(engine.opps)
    BY <1>1, TailRange, Zenon
  <1>3. s \in Seq(Range(s)) /\ \A o \in Range(s) : Len(o.path) = 2
    BY <1>1, <1>2, OwnRange, Zenon
  <1> HIDE DEF s
  <1>4. /\ EngineShape([engine EXCEPT !.pc = "report", !.opps = s])
        /\ [engine EXCEPT !.pc = "report", !.opps = s].pc = "report"
    BY <1>3 DEF EngineShape
  <1> QED BY <1>4, Zenon DEF s

LEMMA ReportStep == ASSUME EngineInd, StatsInd, Report PROVE EngineInd' /\ StatsInd'
  <1>1. UNCHANGED live /\ engine.pc = "report" /\ EngineShape(engine)
    BY Zenon DEF Report, EngineInd
  <1>2. CASE engine.opps = <<>> /\ engine' = NextAmount /\ UNCHANGED stats
    <2>1. CASE engine.trigger /\ engine.amount < Len(Amounts)
      <3>1. engine.amount + 1 \in 1 .. Len(Amounts)
        BY <1>1, <2>1, LauncherAssumption DEF EngineShape, IsList
      <3>2. engine' = Scanning(TRUE, engine.amount + 1)
        BY <1>2, <2>1, Zenon DEF NextAmount
      <3>3. EngineShape(engine') /\ engine'.pc # "try"
        BY <3>1, <3>2, ScanningShape
      <3> QED BY <1>1, <1>2, <3>3, ScanStep, Zenon
    <2>2. CASE ~(engine.trigger /\ engine.amount < Len(Amounts))
      <3>1. engine' = Idle
        BY <1>2, <2>2, Zenon DEF NextAmount
      <3>2. EngineShape(engine') /\ engine'.pc # "try"
        BY <3>1, IdleShape
      <3> QED BY <1>1, <1>2, <3>2, ScanStep, Zenon
    <2> QED BY <2>1, <2>2, Zenon
  <1>3. CASE /\ engine.opps # <<>> /\ stats' = Found
             /\ engine' = IF engine.trigger /\ Head(engine.opps).net > MinReport
                          THEN [engine EXCEPT !.pc = "try"]
                          ELSE [engine EXCEPT !.opps = Tail(@)]
    <2>1. /\ stats.found \in Nat /\ stats.ok \in Nat /\ stats.sent \in Nat
          /\ stats.ok + stats.sent <= stats.found
      BY DEF StatsInd, Stats
    <2>2. /\ stats' \in Stats' /\ stats'.found = stats.found + 1
          /\ stats'.ok = stats.ok /\ stats'.sent = stats.sent /\ stats'.success = stats.success
      BY <1>3 DEF Found, StatsInd, Stats
    <2>3. /\ stats'.ok + stats'.sent < stats'.found /\ stats'.ok + stats'.sent <= stats'.found
      BY <2>1, <2>2
    <2>4. StatsInd'
      BY <1>1, <2>2, <2>3, Zenon DEF StatsInd
    <2>5. EngineShape(engine')
      <3>1. CASE engine' = [engine EXCEPT !.pc = "try"]
        BY <1>1, <1>3, <3>1 DEF EngineShape
      <3>2. CASE engine' = [engine EXCEPT !.opps = Tail(@)]
        <4>1. engine' = [engine EXCEPT !.pc = "report", !.opps = Tail(@)]
          BY <1>1, <3>2 DEF EngineShape
        <4> QED BY <1>1, <1>3, <4>1, TailShape, Zenon
      <3> QED BY <1>3, <3>1, <3>2, Zenon
    <2> QED BY <2>3, <2>4, <2>5, Zenon DEF EngineInd
  <1> QED BY <1>2, <1>3, Zenon DEF Report

LEMMA ExecuteStep == ASSUME EngineInd, StatsInd, Execute PROVE EngineInd' /\ StatsInd'
  <1>1. UNCHANGED live /\ engine.pc = "try" /\ live /\ EngineShape(engine) /\ engine.opps # <<>>
    BY Zenon DEF Execute, EngineInd, EngineShape
  <1>2. EngineShape(Tried) /\ Tried.pc = "report"
    BY <1>1, TailShape, Zenon DEF Tried
  <1>3. CASE engine' = Tried /\ UNCHANGED stats
    BY <1>1, <1>2, <1>3, ScanStep
  <1> DEFINE net == Head(engine.opps).net
  <1>4. CASE /\ stats' = [stats EXCEPT !.sent = @ + 1, !.success = @ + 1,
                              !.profit = IF net > MaxU64 THEN @ ELSE (@ + net) % (MaxU64 + 1)]
             /\ engine' = IF net > MaxU64 THEN [Idle EXCEPT !.pc = "dead"] ELSE Tried
    <2> HIDE DEF net
    <2>1. /\ stats.found \in Nat /\ stats.ok \in Nat /\ stats.sent \in Nat /\ stats.success \in Nat
          /\ stats.ok + stats.sent < stats.found /\ stats.sent = stats.success /\ stats.ok = 0
      BY <1>1 DEF StatsInd, Stats, EngineInd
    <2>2. /\ stats' \in Stats' /\ stats'.found = stats.found /\ stats'.ok = stats.ok
          /\ stats'.sent = stats.sent + 1 /\ stats'.success = stats.success + 1
      <3> DEFINE m == stats.sent + 1  n == stats.success + 1
                 x == IF net > MaxU64 THEN stats.profit
                      ELSE (stats.profit + net) % (MaxU64 + 1)
      <3>1. stats' = [stats EXCEPT !.sent = m, !.success = n, !.profit = x]
        BY <1>4, Zenon
      <3>2. m \in Nat /\ n \in Nat
        BY <2>1
      <3> HIDE DEF m, n, x
      <3>3. /\ stats' \in Stats' /\ stats'.found = stats.found /\ stats'.ok = stats.ok
            /\ stats'.sent = m /\ stats'.success = n
        BY <3>1, <3>2 DEF StatsInd, Stats
      <3> QED BY <3>3, Zenon DEF m, n
    <2>3. stats'.ok + stats'.sent <= stats'.found /\ stats'.sent = stats'.success /\ stats'.ok = 0
      BY <2>1, <2>2
    <2>4. StatsInd'
      BY <1>1, <2>2, <2>3, Zenon DEF StatsInd
    <2>5. EngineShape(engine') /\ engine'.pc # "try"
      <3>1. CASE engine' = Tried
        BY <1>2, <3>1
      <3>2. CASE engine' = [Idle EXCEPT !.pc = "dead"]
        BY <3>2, IdleShape DEF EngineShape
      <3> QED BY <1>4, <3>1, <3>2, Zenon
    <2> QED BY <2>4, <2>5, Zenon DEF EngineInd
  <1> QED BY <1>3, <1>4, Zenon DEF Execute

LEMMA SimulateStep == ASSUME EngineInd, StatsInd, Simulate PROVE EngineInd' /\ StatsInd'
  <1>1. UNCHANGED live /\ engine.pc = "try" /\ ~live /\ EngineShape(engine) /\ engine.opps # <<>>
    BY Zenon DEF Simulate, EngineInd, EngineShape
  <1>2. EngineShape(Tried) /\ Tried.pc = "report" /\ engine' = Tried
    BY <1>1, TailShape, Zenon DEF Tried, Simulate
  <1>3. CASE UNCHANGED stats
    BY <1>1, <1>2, <1>3, ScanStep
  <1>4. CASE stats' = [stats EXCEPT !.ok = @ + 1]
    <2>1. /\ stats.found \in Nat /\ stats.ok \in Nat /\ stats.sent \in Nat
          /\ stats.ok + stats.sent < stats.found /\ stats.sent = stats.success /\ stats.sent = 0
      BY <1>1 DEF StatsInd, Stats, EngineInd
    <2>2. /\ stats' \in Stats' /\ stats'.found = stats.found /\ stats'.ok = stats.ok + 1
          /\ stats'.sent = stats.sent /\ stats'.success = stats.success
      <3> DEFINE n == stats.ok + 1
      <3>1. stats' = [stats EXCEPT !.ok = n] /\ n \in Nat
        BY <1>4, <2>1
      <3> HIDE DEF n
      <3>2. /\ stats' \in Stats' /\ stats'.found = stats.found /\ stats'.ok = n
            /\ stats'.sent = stats.sent /\ stats'.success = stats.success
        BY <3>1 DEF StatsInd, Stats
      <3> QED BY <3>2, Zenon DEF n
    <2>3. stats'.ok + stats'.sent <= stats'.found /\ stats'.sent = stats'.success /\ stats'.sent = 0
      <3>1. stats'.ok + stats'.sent <= stats'.found
        BY <2>1, <2>2
      <3> QED BY <2>1, <2>2, <3>1, Zenon
    <2>4. StatsInd'
      BY <1>1, <2>2, <2>3, Zenon DEF StatsInd
    <2>5. EngineShape(engine') /\ engine'.pc # "try"
      BY <1>2
    <2> QED BY <2>4, <2>5, Zenon DEF EngineInd
  <1> QED BY <1>3, <1>4, Zenon DEF Simulate

-----------------------------------------------------------------------------
(* Every step.                                                             *)

LEMMA LauncherInit == ASSUME Init PROVE LauncherInd
  <1>1. running \in BOOLEAN
    BY DEF Init
  <1> QED BY <1>1, InitPools, InitFeed, InitEngine DEF LauncherInd

(* A step that leaves the engine, the mode and the counters alone.         *)
LEMMA SameStats ==
    ASSUME EngineInd, StatsInd, UNCHANGED <<engine, live, stats>>
    PROVE  EngineInd' /\ StatsInd'
  BY Zenon DEF EngineInd, StatsInd, Stats

LEMMA PoolActions ==
    ASSUME LauncherInd,
           \/ discover_pools \/ (\E a \in Addresses : Trade(a)) \/ RefreshStart
           \/ (\E a \in Addresses : ReadPool(a)) \/ RefreshWrite
    PROVE  LauncherInd'
  <1>1. PoolsInd /\ FeedInd /\ EngineInd /\ StatsInd /\ running \in BOOLEAN
    BY Zenon DEF LauncherInd
  <1>2. UNCHANGED <<running, monitor, fetching, engine, live, stats>>
    BY Zenon DEF discover_pools, Trade, RefreshStart, ReadPool, RefreshWrite, feed
  <1>3. PoolsInd'
    BY <1>1, DiscoverPools, TradeStep, RefreshStartStep, ReadPoolStep, RefreshWriteStep, Zenon
  <1>4. world' \in World
    <2>1. CASE UNCHANGED world
      BY <1>1, <2>1, Zenon DEF FeedInd
    <2>2. CASE \E a \in Addresses : Trade(a)
      <3> DEFINE n == world.trades - 1
      <3>1. world.trades > 0 /\ world' = [world EXCEPT !.trades = n]
        BY <2>2, Zenon DEF Trade
      <3>2. world \in World /\ n \in Nat
        BY <1>1, <3>1 DEF FeedInd, World
      <3> HIDE DEF n
      <3> QED BY <3>1, <3>2 DEF World
    <2> QED BY <2>1, <2>2, Zenon DEF discover_pools, RefreshStart, ReadPool, RefreshWrite
  <1>5. FeedInd'
    BY <1>1, <1>2, <1>4, Zenon DEF FeedInd
  <1>6. EngineInd' /\ StatsInd'
    BY <1>1, <1>2, SameStats, Zenon
  <1> QED BY <1>1, <1>2, <1>3, <1>5, <1>6, Zenon DEF LauncherInd

LEMMA EngineActions ==
    ASSUME LauncherInd,
           \/ EngineSelect \/ ScanFirst \/ ScanSecond \/ ScanTriangle \/ Report
           \/ Execute \/ Simulate
    PROVE  LauncherInd'
  <1>1. PoolsInd /\ FeedInd /\ EngineInd /\ StatsInd /\ running \in BOOLEAN
    BY Zenon DEF LauncherInd
  <1>2. UNCHANGED running /\ UNCHANGED pools
    BY Zenon DEF EngineSelect, ScanFirst, ScanSecond, ScanTriangle, Report, Execute, Simulate
  <1>3. PoolsInd'
    BY <1>1, <1>2, SamePools, Zenon
  <1>4. CASE EngineSelect
    BY <1>1, <1>2, <1>3, <1>4, SelectStep, Zenon DEF LauncherInd
  <1>5. CASE ScanFirst \/ ScanSecond \/ ScanTriangle \/ Report \/ Execute \/ Simulate
    <2>1. EngineInd' /\ StatsInd'
      BY <1>1, <1>5, FirstStep, SecondStep, TriangleStep, ReportStep, ExecuteStep, SimulateStep,
         Zenon
    <2>2. UNCHANGED <<monitor, fetching, world>>
      BY <1>5, Zenon DEF ScanFirst, ScanSecond, ScanTriangle, Report, Execute, Simulate, feed
    <2>3. stats'.txs = stats.txs /\ stats'.swaps = stats.swaps
      <3>1. CASE UNCHANGED stats
        BY <3>1
      <3>2. CASE Report \/ Execute \/ Simulate
        BY <1>1, <3>2 DEF Report, Execute, Simulate, Found, StatsInd, Stats
      <3> QED BY <1>5, <3>1, <3>2, Zenon DEF ScanFirst, ScanSecond, ScanTriangle
    <2>4. FeedInd'
      BY <1>1, <2>2, <2>3, Zenon DEF FeedInd
    <2> QED BY <1>1, <1>2, <1>3, <2>1, <2>4, Zenon DEF LauncherInd
  <1> QED BY <1>4, <1>5, Zenon

LEMMA FeedActions ==
    ASSUME LauncherInd, MonitorCheck \/ NextHash \/ StreamEnds \/ Fetch \/ CtrlC
    PROVE  LauncherInd'
  <1>1. PoolsInd /\ FeedInd /\ EngineInd /\ StatsInd /\ running \in BOOLEAN
    BY Zenon DEF LauncherInd
  <1>2. UNCHANGED pools
    BY Zenon DEF MonitorCheck, NextHash, StreamEnds, Fetch, CtrlC
  <1>3. running' \in BOOLEAN
    BY <1>1, Zenon DEF MonitorCheck, NextHash, StreamEnds, Fetch, CtrlC
  <1>4. PoolsInd'
    BY <1>1, <1>2, SamePools, Zenon
  <1>5. CASE NextHash \/ Fetch
    <2>1. /\ FeedInd' /\ UNCHANGED <<live, engine>> /\ stats' \in Stats'
          /\ \A f \in {"found", "ok", "sent", "success", "profit"} : stats'[f] = stats[f]
      BY <1>1, <1>5, NextHashStep, FetchStep, Zenon
    <2>2. EngineInd' /\ StatsInd'
      BY <1>1, <2>1, SameEngine, Zenon
    <2> QED BY <1>3, <1>4, <2>1, <2>2, Zenon DEF LauncherInd
  <1>6. CASE MonitorCheck \/ StreamEnds \/ CtrlC
    <2>1. UNCHANGED <<fetching, world, engine, live, stats>>
      BY <1>6, Zenon DEF MonitorCheck, StreamEnds, CtrlC, feed
    <2>2. monitor' \in {"check", "stream", "ended"}
      BY <1>1, <1>6, Zenon DEF MonitorCheck, StreamEnds, CtrlC, feed, FeedInd
    <2>3. FeedInd'
      BY <1>1, <2>1, <2>2, Zenon DEF FeedInd
    <2>4. EngineInd' /\ StatsInd'
      BY <1>1, <2>1, SameStats, Zenon
    <2> QED BY <1>3, <1>4, <2>3, <2>4, Zenon DEF LauncherInd
  <1> QED BY <1>5, <1>6, Zenon

LEMMA LauncherStep == ASSUME LauncherInd, [Next]_vars PROVE LauncherInd'
  <1>1. CASE Next
    BY <1>1, PoolActions, EngineActions, FeedActions, Zenon DEF Next
  <1>2. CASE UNCHANGED vars
    <2>1. UNCHANGED <<running, pools, monitor, fetching, engine, world, live, stats>>
      BY <1>2, Zenon DEF vars, feed
    <2>2. EngineInd' /\ StatsInd'
      BY <2>1, SameStats, Zenon DEF LauncherInd
    <2>3. PoolsInd' /\ FeedInd' /\ running' \in BOOLEAN
      BY <2>1, SamePools, Zenon DEF LauncherInd, FeedInd
    <2> QED BY <2>2, <2>3, Zenon DEF LauncherInd
  <1> QED BY <1>1, <1>2, Zenon

LEMMA LauncherIndImplies == ASSUME LauncherInd PROVE LauncherInv
  <1>1. PoolsInd /\ FeedInd /\ EngineInd /\ StatsInd /\ running \in BOOLEAN
    BY Zenon DEF LauncherInd
  <1>2. TypeOK
    <2>1. \A a \in Addresses : chain[a] \in DOMAIN History[a]
      BY <1>1, LauncherAssumption, Zenon DEF PoolsInd, IsList, Addresses
    <2>2. Len(fetching) <= stats.txs
      <3>1. Len(fetching) \in Nat
        BY <1>1, OwnRange, Zenon DEF FeedInd
      <3> QED BY <1>1, <3>1 DEF FeedInd
    <2>3. engine.amount \in DOMAIN Amounts /\ engine.token \in DOMAIN Tokens
      BY <1>1, LauncherAssumption DEF EngineInd, EngineShape, IsList
    <2>4. scanner.pc \in {"check", "refresh", "ended"}
      BY <1>1 DEF PoolsInd, ScannerInd
    <2> QED BY <1>1, <2>1, <2>2, <2>3, <2>4, Zenon DEF TypeOK, PoolsInd, FeedInd
  <1>3. OnlyTwoHops
    BY <1>1, Zenon DEF OnlyTwoHops, EngineInd, EngineShape, Range
  <1>4. stats.swaps <= stats.txs
    <2>1. Len(fetching) \in Nat
      BY <1>1, OwnRange, Zenon DEF FeedInd
    <2> QED BY <1>1, <2>1 DEF FeedInd
  <1>5. StatsAgree
    BY <1>1, <1>4, Zenon DEF StatsAgree, StatsInd
  <1> QED BY <1>1, <1>2, <1>3, <1>5, Zenon DEF LauncherInv, PoolsInd

(* For any pools and any behaviour of the chain, the endpoint and the      *)
(* scheduler: the cache of mev_launcher holds acceptable readings of the   *)
(* chain whose liquidity is never newer than their price, every            *)
(* opportunity reported is a cycle of two pools, and the counters of       *)
(* MevStats agree: no more swaps than transactions, no more tries than     *)
(* opportunities, every send a success and none in simulation mode.        *)
THEOREM LauncherInvariant == Spec => []LauncherInv
  <1>1. Init => LauncherInd
    BY LauncherInit
  <1>2. LauncherInd /\ [Next]_vars => LauncherInd'
    BY LauncherStep
  <1>3. LauncherInd => LauncherInv
    BY LauncherIndImplies
  <1> QED BY <1>1, <1>2, <1>3, PTL DEF Spec

(* refresh_all and discover_pools never put an older reading over a newer  *)
(* one, although the reads of a refresh and the trades on chain            *)
(* interleave, and no pool leaves the cache.                               *)
THEOREM CacheForward == Spec => CacheNeverGoesBack
  <1> DEFINE Forward == \A a \in DOMAIN cache : /\ a \in DOMAIN cache'
                                                /\ cache'[a].liq >= cache[a].liq
                                                /\ cache'[a].price >= cache[a].price
  <1>1. ASSUME LauncherInd, [Next]_vars, cache' # cache PROVE Forward
    <2>1. PoolsInd /\ FeedInd /\ PoolsInd'
      <3>1. LauncherInd'
        BY <1>1, LauncherStep, Zenon
      <3> QED BY <1>1, <3>1, Zenon DEF LauncherInd
    <2>2. discover_pools \/ RefreshWrite
      BY <1>1, Zenon DEF Next, vars, pools, feed, Trade, RefreshStart, ReadPool, EngineSelect,
         ScanFirst, ScanSecond, ScanTriangle, Report, Execute, Simulate, MonitorCheck, NextHash,
         StreamEnds, Fetch, CtrlC
    <2>3. \A a \in DOMAIN cache : a \in DOMAIN cache'
      BY <2>2, Zenon DEF discover_pools, RefreshWrite
    <2> SUFFICES ASSUME NEW a \in DOMAIN cache
                 PROVE  cache'[a].liq >= cache[a].liq /\ cache'[a].price >= cache[a].price
      BY <2>3, Zenon
    <2>4. cache[a] \in Read /\ cache'[a] \in Read /\ a \in Addresses
      BY <2>1, <2>3, Zenon DEF PoolsInd
    <2>5. /\ cache[a].liq \in Nat /\ cache[a].price \in Nat
          /\ cache'[a].liq \in Nat /\ cache'[a].price \in Nat
      BY <2>4 DEF Read
    <2>6. CASE RefreshWrite
      <3>1. cache[a].liq <= cache'[a].liq /\ cache[a].price <= cache'[a].price
        BY <2>1, <2>6, RefreshWriteFacts, Zenon
      <3> QED BY <2>5, <3>1
    <2>7. CASE discover_pools
      <3>1. cache'[a] = Now(a) \/ cache'[a] = cache[a]
        BY <2>7, Zenon DEF discover_pools
      <3>2. Now(a).liq = chain[a] /\ Now(a).price = chain[a] /\ chain[a] \in Nat
        BY <2>1, <2>4, NowOnChain, Zenon
      <3>3. cache[a].liq <= cache[a].price /\ cache[a].price <= chain[a]
        BY <2>1, Zenon DEF PoolsInd, CacheFromChain
      <3> QED BY <2>5, <3>1, <3>2, <3>3
    <2> QED BY <2>2, <2>6, <2>7, Zenon
  <1>2. LauncherInd /\ [Next]_vars => [Forward]_cache
    BY <1>1
  <1>3. Init => LauncherInd
    BY LauncherInit
  <1>4. LauncherInd /\ [Next]_vars => LauncherInd'
    BY LauncherStep
  <1> QED BY <1>2, <1>3, <1>4, PTL DEF Spec, CacheNeverGoesBack
=============================================================================
