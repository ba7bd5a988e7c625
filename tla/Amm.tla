-------------------------------- MODULE Amm --------------------------------
(***************************************************************************)
(* The AMM arithmetic of the simulator (core/src/simulator/mod.rs) and of  *)
(* the pure-Rust side of ffi/simulator.rs, on words of 2 * HalfBits bits.  *)
(* A pool is a record with the fields of types::PoolState that the         *)
(* arithmetic reads; a tick is a record [tick, sqrt, net].                 *)
(***************************************************************************)
EXTENDS Words

CONSTANT MaxTickCrossings   \* MAX_TICK_CROSSINGS

Bps == 10000
Q96 == 2 ^ (HalfBits + HalfBits \div 2)   \* three quarters of a word

(* Mutant: the fee is forgotten.                                           *)
constant_product_swapNoFee(amount_in, reserve_in, reserve_out, fee_bps) ==
    IF reserve_in = 0 \/ CheckedMul(amount_in * Bps, reserve_out) = None THEN 0
    ELSE (amount_in * reserve_out) \div (reserve_in + amount_in)
constant_product_swap(amount_in, reserve_in, reserve_out, fee_bps) ==
    LET Divide(num, den) == IF num = None \/ den = None THEN 0 ELSE num \div den
        Trade(withFee, scaled) ==
            IF withFee = None \/ scaled = None THEN 0
            ELSE Divide(CheckedMul(withFee, reserve_out), CheckedAdd(scaled, withFee))
    IN  IF reserve_in = 0 \/ reserve_out = 0 \/ amount_in = 0 \/ fee_bps >= Bps THEN 0
        ELSE Trade(CheckedMul(amount_in, Bps - fee_bps), CheckedMul(reserve_in, Bps))

constant_product_swap_no_fee(amount_in, reserve_in, reserve_out) ==
    LET num == CheckedMul(amount_in, reserve_out)
        den == CheckedAdd(reserve_in, amount_in)
    IN  IF reserve_in = 0 \/ reserve_out = 0 \/ amount_in = 0 THEN 0
        ELSE IF num = None \/ den = None THEN 0
        ELSE num \div den

(* <<virtual_x, virtual_y>>; mul_div_u128 is None only for a zero divisor. *)
v3_virtual_reserves(liquidity, sqrtP) ==
    LET OrZero(v) == IF v = None THEN 0 ELSE v
    IN  <<OrZero(mul_div_u128(liquidity, Q96, sqrtP)),
          OrZero(mul_div_u128(liquidity, sqrtP, Q96))>>

(* Mutant: both directions take the reserves in the same order.            *)
SidesSame(pair, zero_for_one) == pair
(* The pair as <<reserve_in, reserve_out>> of a swap in the direction.     *)
Sides(pair, zero_for_one) == IF zero_for_one THEN pair ELSE <<pair[2], pair[1]>>

AfterFee(amount_in, fee_bps) ==
    LET v == CheckedMul(amount_in, Bps - fee_bps)
    IN  IF v = None THEN 0 ELSE v \div Bps

concentrated_liquidity_swap(amount_in, sqrtP, liquidity, reserves, fee_bps, zero_for_one) ==
    LET Real(r) == constant_product_swap(amount_in, r[1], r[2], fee_bps)
        InRange(r) ==
            IF r[1] = 0 \/ r[2] = 0 THEN Real(Sides(reserves, zero_for_one))
            ELSE constant_product_swap_no_fee(AfterFee(amount_in, fee_bps), r[1], r[2])
    IN  IF amount_in = 0 \/ fee_bps >= Bps THEN 0
        ELSE IF sqrtP = 0 \/ liquidity = 0 THEN Real(Sides(reserves, zero_for_one))
        ELSE IF CheckedMul(amount_in, Bps - fee_bps) = None THEN 0
        ELSE InRange(Sides(v3_virtual_reserves(liquidity, sqrtP), zero_for_one))

(* The next initialised tick in the direction of the swap.                 *)
NextTicks(ticks, tick, zero_for_one) ==
    LET cand == IF zero_for_one THEN {t \in ticks : t.tick <= tick}
                                ELSE {t \in ticks : t.tick > tick}
    IN  {t \in cand : \A u \in cand : IF zero_for_one THEN u.tick <= t.tick ELSE u.tick >= t.tick}

AtLeastOne(n) == IF n < 1 THEN 1 ELSE n

(* What fills the range between the price and the boundary.                *)
RangeInput(r, sqrtP, boundary, zero_for_one) ==
    IF zero_for_one THEN mul_div_u128(r[1], sqrtP - boundary, boundary)
                    ELSE mul_div_u128(r[1], boundary - sqrtP, AtLeastOne(sqrtP))

CrossLiquidity(liquidity, net, zero_for_one) ==
    LET change == IF zero_for_one THEN -net ELSE net
    IN  IF change >= 0 THEN SatAdd(liquidity, change) ELSE SatSub(liquidity, -change)

(* One iteration of the loop over the state s = [rem, out, sqrt, liq,      *)
(* tick, crossings, done], where r is the virtual <<in, out>> of its range.*)
Fill(s, amount, r) == s.out + constant_product_swap_no_fee(amount, r[1], r[2])

Cross(s, t, r, full, liq, zero_for_one) ==
    IF s.rem <= full THEN [s EXCEPT !.out = Fill(s, s.rem, r), !.rem = 0]
    ELSE [rem |-> s.rem - full, out |-> Fill(s, full, r), sqrt |-> AtLeastOne(t.sqrt), liq |-> liq,
          tick |-> IF zero_for_one THEN t.tick - 1 ELSE t.tick,
          crossings |-> s.crossings + 1, done |-> liq = 0]

Toward(s, t, r, zero_for_one) ==
    IF r[1] = 0 \/ r[2] = 0
       \/ (IF zero_for_one THEN s.sqrt <= AtLeastOne(t.sqrt) ELSE AtLeastOne(t.sqrt) <= s.sqrt)
    THEN [s EXCEPT !.done = TRUE]
    ELSE Cross(s, t, r, RangeInput(r, s.sqrt, AtLeastOne(t.sqrt), zero_for_one),
               CrossLiquidity(s.liq, t.net, zero_for_one), zero_for_one)

TickStep(s, next, r, zero_for_one) ==
    IF next = {} THEN [s EXCEPT !.out = Fill(s, s.rem, r), !.done = TRUE]
    ELSE Toward(s, CHOOSE t \in next : TRUE, r, zero_for_one)

multi_tick_swap(amount_in, sqrtP, liquidity, current_tick, ticks, fee_bps, zero_for_one) ==
    LET start == [rem |-> AfterFee(amount_in, fee_bps), out |-> 0, sqrt |-> sqrtP, liq |-> liquidity,
                  tick |-> current_tick, crossings |-> 0, done |-> FALSE]
        after[n \in 0 .. MaxTickCrossings + 1] ==
            IF n = 0 THEN start
            ELSE LET s == after[n - 1]
                 IN  IF s.done \/ s.rem = 0 \/ s.crossings >= MaxTickCrossings THEN s
                     ELSE TickStep(s, NextTicks(ticks, s.tick, zero_for_one),
                                   Sides(v3_virtual_reserves(s.liq, s.sqrt), zero_for_one), zero_for_one)
    IN  IF amount_in = 0 \/ fee_bps >= Bps \/ liquidity = 0 \/ sqrtP = 0 THEN 0
        ELSE after[MaxTickCrossings + 1].out

(* swap_through_pool on a cached pool; fee is the override or pool.fee.    *)
SwapPool(amount_in, pool, fee, zero_for_one) ==
    LET reserves   == <<pool.reserve0, pool.reserve1>>
        Product(r) == constant_product_swap(amount_in, r[1], r[2], fee)
    IN  IF pool.is_v3 /\ pool.sqrt > 0 /\ pool.liquidity > 0
        THEN IF pool.ticks # {}
             THEN multi_tick_swap(amount_in, pool.sqrt, pool.liquidity, pool.tick, pool.ticks, fee, zero_for_one)
             ELSE concentrated_liquidity_swap(amount_in, pool.sqrt, pool.liquidity, reserves, fee, zero_for_one)
        ELSE Product(Sides(reserves, zero_for_one))

(* ffi/simulator.rs: getAmountOut and getAmountIn on 64-bit amounts; the   *)
(* products of three factors wrap, and a result beyond a u64 is None.      *)
FeeFactor(fee) == Bps - fee \div 100

v2_amount_out_rust(reserve_in, reserve_out, fee, amount_in) ==
    LET ain == amount_in * FeeFactor(fee)
        out == WrapMul(ain, reserve_out) \div (reserve_in * Bps + ain)
    IN  IF reserve_in = 0 \/ reserve_out = 0 \/ amount_in = 0 \/ out >= Half THEN None ELSE out

v2_amount_in_rust(reserve_in, reserve_out, fee, amount_out) ==
    LET den == (reserve_out - amount_out) * FeeFactor(fee)
        ain == WrapMul(reserve_in * amount_out, Bps) \div den + 1
    IN  IF reserve_in = 0 \/ reserve_out = 0 \/ amount_out >= reserve_out \/ den = 0 \/ ain >= Half
        THEN None ELSE ain
=============================================================================
