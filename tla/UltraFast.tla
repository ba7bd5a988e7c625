----------------------------- MODULE UltraFast -----------------------------
(***************************************************************************)
(* The ultrafast binary, core/src/bin/ultrafast.rs: it discovers pools and *)
(* reads all of them with one multicall, at first by racing the HTTP       *)
(* endpoints, then over a WebSocket for every new block, and reports the   *)
(* two-pool cycles through WETH that would gain.                           *)
(*                                                                         *)
(* A multicall answers for one block, the one its endpoint is at, with a   *)
(* result or nothing for each call, in the order of the calls.  Chain      *)
(* gives what a pool's calls return at each block.  Where the code panics, *)
(* or main returns an error, the program has ended.                        *)
(***************************************************************************)
EXTENDS Words, SequencesExt

CONSTANTS
    Weth, Zero,     \* two addresses
    Tokens,         \* get_tokens, WETH included
    Candidates,     \* what discovery asks for, in order: [address, token0, token1,
                    \* is_v3, fee], the address Zero where the factory has no pool
    Chain,          \* [address -> sequence, one element per block]: a pair's
                    \* <<reserve0, reserve1>>, a V3 pool's <<sqrt price, liquidity>>
    Providers,      \* the HTTP endpoints
    Q96,            \* fixed point of a V3 price
    MinReserve,     \* a smaller pool is left out (1000)
    Amounts,        \* test_amounts
    MinProfitBps,
    MaxFailed       \* bound: calls of one multicall that fail

VARIABLES
    pc,             \* "discover", "race", "connect", "test", "subscribe", "select",
                    \* "refresh", "ended"
    head,           \* the chain's latest block
    wsBlock,        \* the block the WebSocket endpoint is at
    remaining,      \* the endpoints still racing
    v2_pools, v3_pools,
    pools,          \* [address -> PoolData]
    stream,         \* [open, blocks]: the subscription and what it has yet to yield
    opps,           \* what find_opportunities last returned
    snapshot        \* history: the block and the pools of the last refresh

found == <<v2_pools, v3_pools>>
vars == <<pc, head, wsBlock, remaining, found, pools, stream, opps, snapshot>>

Bps == 10000
Blocks == 1 .. Len(Chain[CHOOSE a \in DOMAIN Chain : TRUE])
Empty == [a \in {} |-> None]
NoSnapshot == [block |-> 0, pools |-> {}]

Init ==
    /\ pc = "discover" /\ head = 1 /\ wsBlock = 1 /\ remaining = {}
    /\ v2_pools = <<>> /\ v3_pools = <<>> /\ pools = Empty
    /\ stream = [open |-> FALSE, blocks |-> <<>>]
    /\ opps = {} /\ snapshot = NoSnapshot

-----------------------------------------------------------------------------
(* The chain and the WebSocket endpoint go on; a subscription is told of   *)
(* blocks, may miss one, and may be closed at any time.                    *)
NewBlock ==
    /\ head + 1 \in Blocks /\ head' = head + 1
    /\ UNCHANGED <<pc, wsBlock, remaining, found, pools, stream, opps, snapshot>>

WsSees ==
    /\ wsBlock < head /\ wsBlock' = wsBlock + 1
    /\ \/ stream.open /\ stream' = [stream EXCEPT !.blocks = Append(@, wsBlock')]
       \/ UNCHANGED stream
    /\ UNCHANGED <<pc, head, remaining, found, pools, opps, snapshot>>

StreamCloses ==
    /\ stream.open /\ stream' = [stream EXCEPT !.open = FALSE]
    /\ UNCHANGED <<pc, head, wsBlock, remaining, found, pools, opps, snapshot>>

-----------------------------------------------------------------------------
(* A call returns words, in data; one that fails may say why.              *)
(* Mutant: the results of calls that failed are left out.                  *)
parse_multicall_responseCompacts(results) ==
    LET held == SelectSeq(results, LAMBDA r : r.success /\ r.data # <<>>)
    IN  [i \in DOMAIN held |-> held[i].data]

(* A failed call keeps its place, with nothing in it.                      *)
parse_multicall_response(results) ==
    [i \in DOMAIN results |-> IF results[i].success THEN results[i].data ELSE <<>>]

(* What calls may give that return the data given when they succeed; or an *)
(* answer that does not decode, of which nothing is left.                  *)
Answers(returns) ==
    {parse_multicall_response([i \in DOMAIN returns |-> [success |-> i \notin failed, data |-> returns[i]]]) :
         failed \in {F \in SUBSET DOMAIN returns : Cardinality(F) <= MaxFailed}} \cup {<<>>}

Get(parsed, i) == IF i \in DOMAIN parsed THEN parsed[i] ELSE <<>>

(* Each address found goes, with what was asked for, to one of two lists;  *)
(* a V3 fee is in hundredths of a basis point.                             *)
Discovered(parsed, is_v3) ==
    LET hits == SelectSeq([i \in DOMAIN parsed |-> i],
                          LAMBDA i : parsed[i] \notin {<<>>, <<Zero>>} /\ Candidates[i].is_v3 = is_v3)
        of(i) == Candidates[i]
    IN  [k \in DOMAIN hits |->
            [address |-> parsed[hits[k]][1], token0 |-> of(hits[k]).token0, token1 |-> of(hits[k]).token1,
             fee |-> IF is_v3 THEN of(hits[k]).fee \div 100 ELSE of(hits[k]).fee]]

discover_pools ==
    /\ pc = "discover" /\ pc' = "race" /\ remaining' = Providers
    /\ \E parsed \in Answers([i \in DOMAIN Candidates |-> <<Candidates[i].address>>]) :
         \* <<>> also when the call fails
         v2_pools' = Discovered(parsed, FALSE) /\ v3_pools' = Discovered(parsed, TRUE)
    /\ UNCHANGED <<head, wsBlock, pools, stream, opps, snapshot>>

-----------------------------------------------------------------------------
(* refresh_all asks each pair for its reserves, then each V3 pool for its  *)
(* price and its liquidity.                                                *)
RefreshCalls ==
    [i \in DOMAIN v2_pools |-> [address |-> v2_pools[i].address, part |-> "reserves"]]
    \o [i \in 1 .. 2 * Len(v3_pools) |->
            [address |-> v3_pools[(i + 1) \div 2].address,
             part |-> IF i % 2 = 1 THEN "slot0" ELSE "liquidity"]]

Returned(call, block) ==
    LET state == Chain[call.address][block]
    IN  CASE call.part = "reserves"  -> state
          [] call.part = "slot0"     -> <<state[1]>>
          [] call.part = "liquidity" -> <<state[2]>>

Data(r) ==
    [token0 |-> r.pool.token0, token1 |-> r.pool.token1, is_v3 |-> r.is_v3, fee_bps |-> r.pool.fee,
     reserve0 |-> r.read[1], reserve1 |-> r.read[2]]

(* The virtual reserves of a V3 pool.                                      *)
Virtual(sqrt, liq) == <<(liq * Q96) \div sqrt, (liq * sqrt) \div Q96>>

(* The two reserves read for pool i of a list, or <<>> where something is  *)
(* missing.                                                                *)
ReadPair(parsed, i) == IF Len(Get(parsed, i)) >= 2 THEN Get(parsed, i) ELSE <<>>

ReadV3(parsed, i) ==
    LET s0  == Get(parsed, Len(v2_pools) + 2 * i - 1)
        liq == Get(parsed, Len(v2_pools) + 2 * i)
    IN  IF <<>> \in {s0, liq} \/ 0 \in {s0[1], liq[1]} THEN <<>> ELSE Virtual(s0[1], liq[1])

Readings(parsed) ==
    [i \in DOMAIN v2_pools |-> [pool |-> v2_pools[i], is_v3 |-> FALSE, read |-> ReadPair(parsed, i)]]
    \o [i \in DOMAIN v3_pools |-> [pool |-> v3_pools[i], is_v3 |-> TRUE, read |-> ReadV3(parsed, i)]]

Large(r) == r.read # <<>> /\ r.read[1] > MinReserve /\ r.read[2] > MinReserve

(* as_u128 of a virtual reserve beyond a word panics.                      *)
Panics(readings) ==
    \E r \in Range(readings) : r.is_v3 /\ r.read # <<>> /\ (r.read[1] > MaxWord \/ r.read[2] > MaxWord)

(* A pool that could not be read, or has become small, keeps what it had.  *)
Insert(readings) ==
    LET new == {r \in Range(readings) : Large(r)}
        of(a) == CHOOSE r \in new : r.pool.address = a
    IN  [a \in {r.pool.address : r \in new} |-> Data(of(a))] @@ pools

-----------------------------------------------------------------------------
(* Plain u128 arithmetic wraps; a denominator of zero panics (None).       *)
Quotient(n, d) == IF d = 0 THEN None ELSE n \div d

get_amount_out(pool, amount_in, zero_for_one) ==
    LET r_in  == IF zero_for_one THEN pool.reserve0 ELSE pool.reserve1
        r_out == IF zero_for_one THEN pool.reserve1 ELSE pool.reserve0
    IN  IF r_in = 0 \/ r_out = 0 THEN 0
        ELSE CHOOSE out \in {Quotient(WrapMul(withFee, r_out), WrapAdd(WrapMul(r_in, Bps), withFee)) :
                             withFee \in {WrapMul(amount_in, Bps - pool.fee_bps)}} : TRUE

WethPools(cache, token) ==
    {a \in DOMAIN cache : {cache[a].token0, cache[a].token1} = {Weth, token}}

(* Every trade tried: WETH into one pool of a token, what it gives into    *)
(* another; nothing is sold where nothing is bought.                       *)
Routes(cache) ==
    {r \in (Tokens \ {Weth}) \X (DOMAIN cache) \X (DOMAIN cache) :
         r[2] # r[3] /\ {r[2], r[3]} \subseteq WethPools(cache, r[1])}

Sale(cache, route, amount, bought) ==
    [buy |-> route[2], sell |-> route[3], amount |-> amount,
     out |-> IF bought \in {0, None} THEN bought
             ELSE get_amount_out(cache[route[3]], bought, cache[route[3]].token0 # Weth)]

Bought(cache, route, amount) ==
    get_amount_out(cache[route[2]], amount, cache[route[2]].token0 = Weth)

Trades(cache) ==
    UNION {{Sale(cache, ra[1], ra[2], n) : n \in {Bought(cache, ra[1], ra[2])}} :
           ra \in Routes(cache) \X Amounts}

(* The trades reported, in the order of their profit, are those that gain  *)
(* more than MinProfitBps: in floating point the exact bound falls short.  *)
find_opportunities(trades) ==
    {t \in trades : t.out - t.amount > (MinProfitBps * t.amount) \div Bps}

-----------------------------------------------------------------------------
Goto(label) == pc' = label /\ UNCHANGED opps

(* What the calls of refresh_all give at block b.                          *)
RefreshAnswers(b) == Answers([i \in DOMAIN RefreshCalls |-> Returned(RefreshCalls[i], b)])

(* refresh_all has an answer from an endpoint at block b, or an error (0), *)
(* after which nothing has changed.                                        *)
Refreshed(b) ==
    \/ b = 0 /\ UNCHANGED <<pools, snapshot>>
    \/ b > 0 /\ \E parsed \in RefreshAnswers(b) :
          LET readings == Readings(parsed)
          IN  /\ ~Panics(readings)
              /\ snapshot' = [block |-> b,
                              pools |-> {r.pool.address : r \in {x \in Range(readings) : Large(x)}}]
              /\ pools' = Insert(readings)

(* A virtual reserve beyond a word ends the program in refresh_all.        *)
RefreshPanics(b) ==
    /\ b > 0 /\ \E parsed \in RefreshAnswers(b) : Panics(Readings(parsed))
    /\ Goto("ended") /\ UNCHANGED <<pools, snapshot>>

(* The HTTP endpoints race: the first success wins, at whatever block that *)
(* endpoint is; errors and timeouts leave the others racing.               *)
RaceWon ==
    /\ pc = "race" /\ remaining # {} /\ remaining' = {}
    /\ \E b \in 1 .. head : (Refreshed(b) /\ Goto("connect")) \/ RefreshPanics(b)
    /\ UNCHANGED <<head, wsBlock, found, stream>>

RaceFails ==
    /\ pc = "race"
    /\ \E p \in remaining : remaining' = remaining \ {p}
    /\ Goto(IF remaining' = {} THEN "connect" ELSE "race")
    /\ UNCHANGED <<head, wsBlock, found, pools, stream, snapshot>>

(* Connecting and subscribing either work or end main.                     *)
Connect ==
    /\ pc = "connect" /\ pc' \in {"test", "ended"}
    /\ UNCHANGED <<head, wsBlock, remaining, found, pools, stream, opps, snapshot>>

WsTest ==
    /\ pc = "test"
    /\ \E b \in {0, wsBlock} : (Refreshed(b) /\ Goto("subscribe")) \/ RefreshPanics(b)
    /\ UNCHANGED <<head, wsBlock, remaining, found, stream>>

Subscribe ==
    /\ pc = "subscribe"
    /\ \/ pc' = "select" /\ stream' = [open |-> TRUE, blocks |-> <<>>]
       \/ pc' = "ended" /\ UNCHANGED stream
    /\ UNCHANGED <<head, wsBlock, remaining, found, pools, opps, snapshot>>

(* select! has one branch: the end of the stream disables it, and with no  *)
(* branch left it panics.                                                  *)
Select ==
    /\ pc = "select"
    /\ \/ stream.blocks # <<>> /\ pc' = "refresh"
          /\ stream' = [stream EXCEPT !.blocks = Tail(@)]
       \/ stream.blocks = <<>> /\ ~stream.open /\ pc' = "ended" /\ UNCHANGED stream
    /\ UNCHANGED <<head, wsBlock, remaining, found, pools, opps, snapshot>>

(* After every refresh, a failed one too, the cache is searched; a zero    *)
(* denominator ends the program.                                           *)
Search(cache) ==
    \E trades \in {Trades(cache)} :
        IF \E t \in trades : t.out = None THEN Goto("ended")
        ELSE pc' = "select" /\ opps' = find_opportunities(trades)

WsRefresh ==
    /\ pc = "refresh"
    /\ \E b \in {0, wsBlock} : (Refreshed(b) /\ Search(pools')) \/ RefreshPanics(b)
    /\ UNCHANGED <<head, wsBlock, remaining, found, stream>>

Main == discover_pools \/ RaceWon \/ RaceFails \/ Connect \/ WsTest \/ Subscribe \/ Select \/ WsRefresh

Next == NewBlock \/ WsSees \/ StreamCloses \/ Main

Spec == Init /\ [][Next]_vars

-----------------------------------------------------------------------------
TypeOK ==
    /\ pc \in {"discover", "race", "connect", "test", "subscribe", "select", "refresh", "ended"}
    /\ {head, wsBlock} \subseteq Blocks /\ wsBlock <= head
    /\ remaining \subseteq Providers
    /\ DOMAIN pools \subseteq DOMAIN Chain
    /\ \A a \in DOMAIN pools : {pools[a].reserve0, pools[a].reserve1} \subseteq MinReserve + 1 .. MaxWord

Asked(a) == CHOOSE c \in Range(Candidates) : c.address = a
ReservesAt(a, b) == IF Asked(a).is_v3 THEN Virtual(Chain[a][b][1], Chain[a][b][2]) ELSE Chain[a][b]

(* The cache holds, under each address, that pool's own tokens, fee and    *)
(* reserves as they were together in some block, and everything the last   *)
(* refresh wrote is of one block, whichever calls of a multicall failed:   *)
(* results keep the places of their calls (parse_multicall_response and    *)
(* the indices of discover_pools and refresh_all).                         *)
ReadingsAreOwn ==
    \A a \in DOMAIN pools :
        /\ pools[a].token0 = Asked(a).token0 /\ pools[a].token1 = Asked(a).token1
        /\ pools[a].fee_bps = IF Asked(a).is_v3 THEN Asked(a).fee \div 100 ELSE Asked(a).fee
        /\ \E b \in 1 .. head : /\ <<pools[a].reserve0, pools[a].reserve1>> = ReservesAt(a, b)
                                /\ a \in snapshot.pools => b = snapshot.block

WethSide(a)  == IF pools[a].token0 = Weth THEN pools[a].reserve0 ELSE pools[a].reserve1
TokenSide(a) == IF pools[a].token0 = Weth THEN pools[a].reserve1 ELSE pools[a].reserve0
Fits(amount, r_in, r_out) ==
    /\ CheckedMul(amount, Bps) # None /\ CheckedMul(amount * Bps, r_out) # None
    /\ CheckedMul(r_in, Bps) # None /\ CheckedAdd(r_in * Bps, amount * Bps) # None

(* What is reported while no product wraps is a real spread: the token is  *)
(* worth more WETH in the pool it is sold to than in the one it is bought  *)
(* from, in the cached reserves (find_opportunities, get_amount_out).      *)
OpportunityNeedsSpread ==
    pc = "select" => \A o \in opps :
        /\ Fits(o.amount, WethSide(o.buy), TokenSide(o.buy))
        /\ Fits(TokenSide(o.buy), TokenSide(o.sell), WethSide(o.sell))
        => TokenSide(o.buy) * WethSide(o.sell) > WethSide(o.buy) * TokenSide(o.sell)

(* The invariant of the program: the cache is made of readings of the      *)
(* chain, and reports follow from it.                                      *)
UltraInv == TypeOK /\ ReadingsAreOwn /\ OpportunityNeedsSpread

(* Every block the subscription yields is refreshed for and searched: the  *)
(* loop catches up unless the program ends.                                *)
Handled == pc = "ended" \/ (pc = "select" /\ stream.blocks = <<>>)
=============================================================================
