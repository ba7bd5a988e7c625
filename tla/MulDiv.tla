------------------------------- MODULE MulDiv -------------------------------
(***************************************************************************)
(* The two wide divisions of the core, digit by digit: both compute        *)
(* a * b / c from the double word a * b, most significant digit first.     *)
(*   "liquidation"  mul_div_u128 of detector/liquidation.rs: one bit at a  *)
(*                  time from the top of the double word;                  *)
(*   "simulator"    div_u256_by_u128 of simulator/mod.rs: starts from      *)
(*                  hi % d and brings down the two halves of lo.           *)
(* The digits are chosen as they are brought down, so that a behaviour     *)
(* stands for every product that begins with them; `prefix' is the value   *)
(* of the digits brought down so far, the number the division is of.       *)
(***************************************************************************)
EXTENDS Words

VARIABLES
    alg,     \* the caller's function
    c,       \* the divisor, not zero: both functions return None for zero first
    left,    \* digits still to bring down
    prefix,  \* history: the digits brought down so far
    rem,     \* the running remainder
    quot,    \* the quotient digits so far: quot_hi and quot_lo, or q_1 and q_2
    result   \* Pending, None or the value returned

vars == <<alg, c, left, prefix, rem, quot, result>>

Pending == -2
Base(x) == IF x = "liquidation" THEN 2 ELSE Half

(* The remainder shifted by a digit: what does not fit the word is lost.   *)
Shl(r, b) == (r % (Word \div b)) * b

(* The liquidation detector divides a double word of 4 * HalfBits bits     *)
(* from an empty remainder.                                                *)
LiquidationStart ==
    /\ alg = "liquidation"
    /\ c \in 1 .. MaxWord
    /\ left = 4 * HalfBits
    /\ prefix = 0 /\ rem = 0 /\ quot = 0
    /\ result = Pending

(* The simulator has hi # 0 (a product that fits is divided directly) and  *)
(* keeps hi % d; that the quotient of hi is zero is the caller's contract. *)
SimulatorStart ==
    /\ alg = "simulator"
    /\ c \in 1 .. MaxWord
    /\ left = 2
    /\ prefix \in 1 .. MaxWord
    /\ prefix < c
    /\ rem = prefix % c
    /\ quot = 0
    /\ result = Pending

Init == LiquidationStart \/ SimulatorStart

BringDown(digit) ==
    LET b == Base(alg)
        r == Shl(rem, b) + digit
    IN  /\ left > 0
        /\ left' = left - 1
        /\ prefix' = prefix * b + digit
        /\ rem' = r % c
        /\ quot' = quot * b + r \div c
        /\ UNCHANGED <<alg, c, result>>

(* quot_hi # 0 makes the liquidation's function return None.               *)
Return ==
    /\ left = 0 /\ result = Pending
    /\ result' = IF quot > MaxWord THEN None ELSE quot
    /\ UNCHANGED <<alg, c, left, prefix, rem, quot>>

Next == (\E digit \in 0 .. Half - 1 : digit < Base(alg) /\ BringDown(digit)) \/ Return

Spec == Init /\ [][Next]_vars

TypeOK ==
    /\ alg \in {"liquidation", "simulator"}
    /\ c \in 1 .. MaxWord
    /\ left \in Nat /\ prefix \in Nat /\ quot \in Nat
    /\ rem \in 0 .. MaxWord
    /\ result \in (0 .. MaxWord) \cup {None, Pending}

(* What the shift keeps: with a divisor up to Word / Base no digit of the  *)
(* remainder is ever shifted out.                                          *)
DivisorFits == c <= Word \div Base(alg)

(* Both functions are exact, and None exactly when the quotient does not   *)
(* fit a word, as long as the divisor is at most 2^127 (the bitwise loop   *)
(* of the liquidation detector) or 2^64 (the two halves of the simulator): *)
(* then `rem << n' never loses a bit.                                      *)
ExactWhenDivisorFits ==
    (DivisorFits /\ result # Pending) =>
        result = IF prefix \div c > MaxWord THEN None ELSE prefix \div c

(* The strengthening: the long-division invariant.                         *)
LongDivision ==
    DivisorFits => prefix = quot * c + rem /\ rem < c
Inv ==
    /\ TypeOK
    /\ LongDivision
    /\ result # Pending => left = 0 /\ result = IF quot > MaxWord THEN None ELSE quot

(* simulator/mod.rs:566 says of mul_div_u128: "Computes `floor(a * b / c)` *)
(* without intermediate overflow.", for every divisor.                     *)
MulDivExact == (alg = "simulator" /\ result # Pending) => result = prefix \div c
=============================================================================
