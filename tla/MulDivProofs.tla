---------------------------- MODULE MulDivProofs ----------------------------
(***************************************************************************)
(* Exactness of the wide divisions for every word size: ExactWhenDivisor-  *)
(* Fits of MulDiv holds of every behaviour.  The argument is the long-     *)
(* division invariant  prefix = quot * c + rem /\ rem < c.                 *)
(***************************************************************************)
EXTENDS MulDiv, TLAPS

(* Half and Word, as far as the proofs need them.                          *)
LEMMA WordFacts ==
    /\ Half \in Nat /\ Half >= 2
    /\ Word \in Nat /\ MaxWord \in Nat /\ MaxWord = Word - 1 /\ Word >= 4
<1>1. Half \in Nat /\ Half >= 2
  BY HalfBitsAssumption DEF Half
<1>2. \A h \in Nat : h >= 2 => h * h \in Nat /\ h * h >= 4 /\ (h - 1) * h + (h - 1) = h * h - 1
  BY Z3
<1> QED
  BY <1>1, <1>2 DEF Word, MaxWord

(* The division with remainder that `/' and `%' of the code compute.       *)
LEMMA DivMod ==
    ASSUME NEW n \in Nat, NEW d \in Nat, d > 0
    PROVE  /\ n \div d \in Nat /\ n % d \in Nat
           /\ n % d < d
           /\ n = (n \div d) * d + (n % d)
  BY Z3

(* A value below the modulus is its own remainder.                         *)
LEMMA ModSmall ==
    ASSUME NEW n \in Nat, NEW d \in Nat, n < d
    PROVE  n % d = n
  BY Z3

(* With a remainder below a divisor that fits, the shift keeps every bit.  *)
LEMMA ShlExact ==
    ASSUME NEW b \in Nat, b >= 2, b <= Half, NEW r \in Nat, r < Word \div b
    PROVE  Shl(r, b) = r * b
<1>1. Word \div b \in Nat
  BY WordFacts, DivMod
<1>2. r % (Word \div b) = r
  BY <1>1, ModSmall
<1> QED
  BY <1>2 DEF Shl

(* One digit of a long division.                                           *)
LEMMA Digit ==
    ASSUME NEW p \in Nat, NEW q \in Nat, NEW r \in Nat, NEW d \in Nat, d > 0,
           NEW b \in Nat, NEW x \in Nat, p = q * d + r
    PROVE  p * b + x = (q * b + ((r * b + x) \div d)) * d + ((r * b + x) % d)
<1> DEFINE n == r * b + x
<1>1. n \in Nat
  BY Z3
<1>2. n \div d \in Nat /\ n % d \in Nat /\ n = (n \div d) * d + (n % d)
  <2> HIDE DEF n
  <2> QED BY <1>1, DivMod
<1>3. p * b + x = q * d * b + n
  BY Z3
<1>4. \A m, k \in Nat : n = m * d + k => q * d * b + n = (q * b + m) * d + k
  <2> HIDE DEF n
  <2> QED BY <1>1, Z3
<1> QED
  BY <1>2, <1>3, <1>4

(* The quotient of a number in long-division form.                         *)
LEMMA QuotientUnique ==
    ASSUME NEW q \in Nat, NEW r \in Nat, NEW d \in Nat, r < d
    PROVE  (q * d + r) \div d = q
<1> DEFINE n == q * d + r
           m == n \div d
           k == n % d
<1>1. n \in Nat
  BY Z3
<1>2. m \in Nat /\ k \in Nat /\ k < d /\ n = m * d + k
  <2> HIDE DEF n
  <2> QED BY <1>1, DivMod
<1>3. \A u, v, w, e \in Nat : u > v /\ w < d /\ e < d => u * d + w > v * d + e
  <2> SUFFICES ASSUME NEW u \in Nat, NEW v \in Nat, NEW w \in Nat, NEW e \in Nat, u > v, w < d, e < d
               PROVE  u * d + w > v * d + e
    OBVIOUS
  <2>1. (u - v) * d >= d
    BY Z3
  <2>2. u * d = v * d + (u - v) * d
    BY Z3
  <2> QED BY <2>1, <2>2, Z3
<1>4. ~(m > q) /\ ~(q > m)
  <2> HIDE DEF m, k
  <2> QED BY <1>2, <1>3
<1> QED
  BY <1>2, <1>4

LEMMA BaseFacts ==
    ASSUME NEW a \in {"liquidation", "simulator"}
    PROVE  Base(a) \in Nat /\ Base(a) >= 2 /\ Base(a) <= Half /\ Word \div Base(a) >= 1
           /\ Word \div Base(a) \in Nat
<1>1. Base(a) \in Nat /\ Base(a) >= 2 /\ Base(a) <= Half
  BY WordFacts DEF Base
<1>2. \A h, b \in Nat : b >= 2 /\ b <= h /\ h >= 2 => h * h >= b
  BY Z3
<1>3. Word >= Base(a)
  BY <1>1, <1>2, WordFacts DEF Word
<1>4. \A w, b \in Nat : b >= 1 /\ w >= b => w \div b >= 1 /\ w \div b \in Nat
  BY Z3
<1> QED
  BY <1>1, <1>3, <1>4, WordFacts

LEMMA InitInv == Init => Inv
<1> SUFFICES ASSUME Init PROVE Inv
  OBVIOUS
<1>1. CASE LiquidationStart
  BY <1>1, WordFacts, HalfBitsAssumption DEF LiquidationStart, Inv, TypeOK, LongDivision, Pending, None
<1>2. CASE SimulatorStart
  <2>1. rem = prefix
    BY <1>2, WordFacts, ModSmall DEF SimulatorStart
  <2> QED
    BY <1>2, <2>1, WordFacts DEF SimulatorStart, Inv, TypeOK, LongDivision, Pending, None
<1> QED
  BY <1>1, <1>2 DEF Init

LEMMA BringDownInv ==
    ASSUME Inv, NEW digit \in 0 .. Half - 1, digit < Base(alg), BringDown(digit)
    PROVE  Inv'
<1> DEFINE b == Base(alg)
           r == Shl(rem, b) + digit
<1> USE DEF Inv, TypeOK
<1>1. b \in Nat /\ b >= 2 /\ b <= Half /\ Word \div b >= 1 /\ Word \div b \in Nat
  BY BaseFacts
<1>2. digit \in Nat /\ rem \in Nat /\ c \in Nat /\ c > 0 /\ c <= MaxWord /\ MaxWord \in Nat
  BY WordFacts
<1>3. r \in Nat
  <2>1. rem % (Word \div b) \in Nat
    <3> HIDE DEF b
    <3> QED BY <1>1, <1>2, DivMod
  <2> HIDE DEF b
  <2> QED BY <1>1, <1>2, <2>1 DEF Shl
<1>4. r \div c \in Nat /\ r % c \in Nat /\ r % c < c
  <2> HIDE DEF r
  <2> QED BY <1>2, <1>3, DivMod
<1>5. /\ alg' = alg /\ c' = c /\ result' = result /\ left > 0 /\ left' = left - 1
      /\ prefix' = prefix * b + digit /\ rem' = r % c /\ quot' = quot * b + r \div c
  BY DEF BringDown
<1>6. result = Pending
  BY <1>5
<1>7. TypeOK'
  <2>1. prefix' \in Nat /\ quot' \in Nat
    <3> HIDE DEF r, b
    <3> QED BY <1>1, <1>2, <1>4, <1>5
  <2>2. rem' \in 0 .. MaxWord
    <3> HIDE DEF r, b
    <3> QED BY <1>2, <1>4, <1>5
  <2> HIDE DEF r, b
  <2> QED BY <1>5, <2>1, <2>2
<1>8. LongDivision'
  <2> SUFFICES ASSUME DivisorFits PROVE prefix' = quot' * c + rem' /\ rem' < c
    BY <1>5 DEF LongDivision, DivisorFits
  <2>1. prefix = quot * c + rem /\ rem < c
    BY DEF LongDivision
  <2>2. rem < Word \div b
    BY <2>1, <1>1, <1>2 DEF DivisorFits
  <2>3. r = rem * b + digit
    <3> HIDE DEF b
    <3> QED BY <1>1, <1>2, <2>2, ShlExact
  <2>4. prefix * b + digit = (quot * b + ((rem * b + digit) \div c)) * c + ((rem * b + digit) % c)
    <3> HIDE DEF b
    <3> QED BY <1>1, <1>2, <2>1, Digit
  <2> HIDE DEF r, b
  <2> QED BY <2>3, <2>4, <1>4, <1>5
<1> QED
  BY <1>5, <1>6, <1>7, <1>8

LEMMA ReturnInv == Inv /\ Return => Inv'
<1> SUFFICES ASSUME Inv, Return PROVE Inv'
  OBVIOUS
<1> USE DEF Inv, Return
<1>1. result' \in (0 .. MaxWord) \cup {None, Pending}
  BY WordFacts DEF TypeOK
<1> QED
  BY <1>1, WordFacts DEF TypeOK, LongDivision, DivisorFits

(* The long-division invariant holds of both functions, whatever the word. *)
THEOREM MulDivInvariant == Spec => []Inv
<1>1. Inv /\ [Next]_vars => Inv'
  <2> SUFFICES ASSUME Inv, [Next]_vars PROVE Inv'
    OBVIOUS
  <2>1. ASSUME NEW digit \in 0 .. Half - 1, digit < Base(alg), BringDown(digit) PROVE Inv'
    BY <2>1, BringDownInv
  <2>2. CASE Return
    BY <2>2, ReturnInv
  <2>3. CASE UNCHANGED vars
    BY <2>3 DEF vars, Inv, TypeOK, LongDivision, DivisorFits
  <2> QED
    BY <2>1, <2>2, <2>3 DEF Next
<1> QED
  BY InitInv, <1>1, PTL DEF Spec

(* For every width of the word, mul_div_u128 of the liquidation detector   *)
(* returns floor(a * b / c), or None when that does not fit, for divisors  *)
(* up to half the range of the word; the simulator's for divisors up to    *)
(* half the width.                                                         *)
THEOREM DivisionsExact == Spec => []ExactWhenDivisorFits
<1>1. Inv => ExactWhenDivisorFits
  <2> SUFFICES ASSUME Inv, DivisorFits, result # Pending
               PROVE  result = IF prefix \div c > MaxWord THEN None ELSE prefix \div c
    BY DEF ExactWhenDivisorFits
  <2>1. prefix = quot * c + rem /\ rem < c /\ quot \in Nat /\ c \in Nat /\ rem \in Nat
    BY WordFacts DEF Inv, LongDivision, TypeOK
  <2>2. prefix \div c = quot
    BY <2>1, QuotientUnique
  <2> QED
    BY <2>2 DEF Inv
<1> QED
  BY MulDivInvariant, <1>1, PTL
=============================================================================
