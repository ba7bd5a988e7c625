------------------------------- MODULE Words -------------------------------
(***************************************************************************)
(* The unsigned words of the Rust core.  A u128 is two halves of HalfBits  *)
(* bits (64 in the code); TLC checks smaller words.  Checked operations    *)
(* return None, plain ones wrap, as in a release build (core/Cargo.toml    *)
(* does not turn overflow-checks on).  Every product is computed from the  *)
(* halves, so that no intermediate value is wider than a word.             *)
(***************************************************************************)
EXTENDS Integers

CONSTANT HalfBits   \* 64 in the code

(* The prover knows nothing of exponentiation: the range of 2^HalfBits is  *)
(* stated.                                                                 *)
ASSUME HalfBitsAssumption ==
    /\ HalfBits \in Nat \ {0}
    /\ 2 ^ HalfBits \in Nat /\ 2 ^ HalfBits >= 2

None == -1          \* of an optional word
Half == 2 ^ HalfBits
Word == Half * Half
MaxWord == (Half - 1) * Half + (Half - 1)

Lo(a) == a % Half
Hi(a) == a \div Half

(* `a << HalfBits': the upper half is lost.                                *)
ShlHalf(a) == Lo(a) * Half

CheckedMul(a, b) == IF a # 0 /\ b > MaxWord \div a THEN None ELSE a * b
CheckedAdd(a, b) == IF b > MaxWord - a THEN None ELSE a + b
CheckedSub(a, b) == IF b > a THEN None ELSE a - b
SatSub(a, b)     == IF b > a THEN 0 ELSE a - b
SatAdd(a, b)     == IF b > MaxWord - a THEN MaxWord ELSE a + b
WrapAdd(a, b)    == IF b > MaxWord - a THEN a - (MaxWord - b) - 1 ELSE a + b
WrapSub(a, b)    == IF b > a THEN MaxWord - (b - a) + 1 ELSE a - b

(* wide_mul_u128: the product of two words as <<lo, hi>>, by the           *)
(* schoolbook method with both carries.                                    *)
AddPartials(p00, p01, p10, p11) ==
    LET mid      == WrapAdd(p01, p10)
        midCarry == IF p10 > MaxWord - p01 THEN Half ELSE 0
        loCarry  == IF ShlHalf(mid) > MaxWord - p00 THEN 1 ELSE 0
    IN  <<WrapAdd(p00, ShlHalf(mid)), p11 + Hi(mid) + midCarry + loCarry>>

wide_mul_u128(a, b) ==
    AddPartials(Lo(a) * Lo(b), Lo(a) * Hi(b), Hi(a) * Lo(b), Hi(a) * Hi(b))

WrapMul(a, b) == wide_mul_u128(a, b)[1]

(* div_u256_by_u128 as the code has it: the quotient of hi is dropped, and *)
(* the two halves of lo are brought down one after the other.  The shift   *)
(* of the remainder loses its upper half.                                  *)
BringDownLow(dividend1, lo, d) ==
    ShlHalf(dividend1 \div d) + (ShlHalf(dividend1 % d) + Lo(lo)) \div d

div_u256_by_u128(p, d) ==
    IF p[2] = 0 THEN p[1] \div d ELSE BringDownLow(ShlHalf(p[2] % d) + Hi(p[1]), p[1], d)

mul_div_u128(a, b, c) ==
    IF c = 0 THEN None
    ELSE IF CheckedMul(a, b) # None THEN (a * b) \div c
    ELSE div_u256_by_u128(wide_mul_u128(a, b), c)
=============================================================================
