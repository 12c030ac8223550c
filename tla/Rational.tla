------------------------------- MODULE Rational -------------------------------
(***************************************************************************)
(* The exact rationals of src/src/rational.c: a numerator and a            *)
(* denominator of 64 bits, products and sums formed in 128 bits, reduced   *)
(* by Euclid's algorithm and brought back to 64 bits or refused.           *)
(*                                                                         *)
(* A behaviour is one call.  The width is a parameter: MaxNum stands for   *)
(* INT64_MAX, and a 128-bit integer reaches as far from zero as twice the  *)
(* square of MaxNum + 1.  Below the model it is proved for every width     *)
(* that a result is exact and that a refused one could not be held.        *)
(***************************************************************************)
EXTENDS DataProofs

CONSTANT
    MaxNum              \* INT64_MAX

ASSUME WidthAssumption == MaxNum \in Nat \ {0}

VARIABLES
    pc,                 \* "called", "reducing", "returned" or "refused"
    op,                 \* the operation
    a, b,               \* its operands
    num, den,           \* the 128-bit fraction
    u, v,               \* the two numbers of gcd_u128
    out                 \* the result

vars == << pc, op, a, b, num, den, u, v, out >>

-----------------------------------------------------------------------------
MinNum == -(MaxNum + 1)

Int64 == MinNum .. MaxNum

Int128 == -(2 * MinNum * MinNum) .. (2 * MinNum * MinNum - 1)

CommonDivisor(d, m, n) == d > 0 /\ Divides(d, m) /\ Divides(d, n)

(* rat_is_canonical: what the parser requires of an input. *)
Canonical(r) ==
    /\ r.den > 0
    /\ r.num = 0 => r.den = 1
    /\ \A d \in 2 .. r.den : ~CommonDivisor(d, Magnitude(r.num), r.den)

Fractions == [num : Int64, den : 1 .. MaxNum]

Rats == {r \in Fractions : Canonical(r)}

Zero == [num |-> 0, den |-> 1]

(* rat_mul_int is "mul" by a fraction whose denominator is one;            *)
(* rat_exact_mul_int and rat_exact_div only test the result's denominator. *)
Operations == {"mul", "div", "add", "round"}

(* The second operand: rounding has none. *)
Operand(o) == IF o = "round" THEN {Zero} ELSE Rats

-----------------------------------------------------------------------------
(* The 128-bit fraction an operation forms before it is reduced. *)
Numerator ==
    CASE op = "add" -> a.num * b.den + b.num * a.den
      [] op = "div" -> a.num * b.den
      [] OTHER      -> a.num * b.num

Denominator == IF op = "div" THEN a.den * b.num ELSE a.den * b.den

-----------------------------------------------------------------------------
Init ==
    /\ pc = "called"
    /\ op \in Operations
    /\ a \in Rats
    /\ b \in Operand(op)
    /\ num = 0 /\ den = 1
    /\ u = 0 /\ v = 0
    /\ out = Zero

(* rat_div refuses a zero divisor. *)
DivideByZero ==
    /\ pc = "called"
    /\ op = "div" /\ b.num = 0
    /\ pc' = "refused"
    /\ UNCHANGED << op, a, b, num, den, u, v, out >>

(* reduce: a zero needs no gcd. *)
Form ==
    /\ pc = "called"
    /\ op # "round"
    /\ op = "div" => b.num # 0
    /\ num' = Numerator
    /\ den' = Denominator
    /\ IF num' = 0
       THEN /\ pc' = "returned"
            /\ out' = Zero
            /\ UNCHANGED << u, v >>
       ELSE /\ pc' = "reducing"
            /\ u' = Magnitude(num')
            /\ v' = Magnitude(den')
            /\ UNCHANGED out
    /\ UNCHANGED << op, a, b >>

(* gcd_u128, one turn of the loop. *)
\* Fault: the numbers are swapped and never reduced.
RemainderNone(m, n) == m

Remainder(m, n) == m % n

Euclid ==
    /\ pc = "reducing"
    /\ v # 0
    /\ u' = v
    /\ v' = Remainder(u, v)
    /\ UNCHANGED << pc, op, a, b, num, den, out >>

\* Fault: the fraction is tested before the gcd is divided out.
FitsUnreduced(n) == n * u <= MaxNum

Fits(n) == n <= MaxNum

(* The rest of reduce: divide by the gcd, refuse what does not fit and put *)
(* the sign on the numerator.                                              *)
\* Fault: the sign of the denominator is forgotten.
SignedByNumerator(n) == IF num < 0 THEN -n ELSE n

Signed(n) == IF (num < 0) # (den < 0) THEN -n ELSE n

Reduce ==
    /\ pc = "reducing"
    /\ v = 0
    /\ LET rn == Magnitude(num) \div u
           rd == Magnitude(den) \div u
       IN  IF Fits(rn) /\ Fits(rd)
           THEN /\ pc' = "returned"
                /\ out' = [num |-> Signed(rn), den |-> rd]
           ELSE /\ pc' = "refused"
                /\ UNCHANGED out
    /\ UNCHANGED << op, a, b, num, den, u, v >>

(* rat_round_nearest_even *)
Rounded(r) == RoundNearestEven(r.num, r.den)

Round ==
    /\ pc = "called"
    /\ op = "round"
    /\ pc' = "returned"
    /\ out' = [num |-> Rounded(a), den |-> 1]
    /\ UNCHANGED << op, a, b, num, den, u, v >>

Next == DivideByZero \/ Form \/ Euclid \/ Reduce \/ Round

(* A call runs to its end. *)
Spec == Init /\ [][Next]_vars /\ WF_vars(Next)

-----------------------------------------------------------------------------
(* No integer leaves its type: the 64-bit parts of the result, the 128-bit *)
(* fraction, and its magnitude, which is one more than a signed 128-bit    *)
(* integer can hold and is kept unsigned.                                  *)
TypeOK ==
    /\ pc \in {"called", "reducing", "returned", "refused"}
    /\ op \in Operations
    /\ a \in Rats /\ b \in Rats
    /\ num \in Int128 /\ den \in Int128
    /\ u \in 0 .. 2 * MinNum * MinNum /\ v \in 0 .. 2 * MinNum * MinNum
    /\ out.num \in Int64 /\ out.den \in 1 .. MaxNum

(* r is the mathematical result of the call; rounding picks the nearest    *)
(* integer, the even one of two, for negative values too.                  *)
IsResult(r) ==
    CASE op = "mul" -> r.num * (a.den * b.den) = (a.num * b.num) * r.den
      [] op = "add" -> r.num * (a.den * b.den) = (a.num * b.den + b.num * a.den) * r.den
      [] op = "div" -> b.num # 0 /\ (r.num * b.num) * a.den = a.num * (r.den * b.den)
      [] op = "round" ->
            LET off == Magnitude(r.num * a.den - a.num)
            IN  r.den = 1 /\ (2 * off < a.den \/ (2 * off = a.den /\ r.num % 2 = 0))

(* What is returned is exact and canonical, which rat_eq and the "den is   *)
(* one" tests of the exact operations rely on: a whole quotient is always  *)
(* seen to be whole.  No intermediate leaves its width on the way.         *)
ResultExact ==
    /\ TypeOK
    /\ pc = "returned" => Canonical(out) /\ IsResult(out)

(* No fraction that could be returned is the result of the call.           *)
NothingFits == \A r \in Rats : r.num # MinNum => ~IsResult(r)

(* Nothing is refused that could be represented: only a division by zero   *)
(* and a result that no fraction with a numerator of at most MaxNum in     *)
(* magnitude equals.  Operands that are the smallest integer are left out: *)
(* src/tests/unit/test_rational.c:143-150 says that every operation        *)
(* refuses them, whatever the result would have been.                      *)
RefusedOnlyIfNeeded ==
    (pc = "refused" /\ a.num # MinNum /\ b.num # MinNum) => NothingFits

(* Every call answers: the loop of gcd_u128 ends. *)
Terminates == <>(pc \in {"returned", "refused"})

-----------------------------------------------------------------------------
(* The largest magnitude of 128 bits, from the largest of 64.              *)
Narrow == MaxNum + 1

Wide == 2 * (Narrow * Narrow)

(* How far the integers of each width reach.                               *)
LEMMA Widths ==
    /\ Narrow \in Nat /\ Narrow >= 2 /\ Wide \in Nat /\ Wide >= 8
    /\ 2 * MinNum * MinNum = Wide
    /\ \A k \in Int : k \in Int64 <=> -Narrow <= k /\ k <= MaxNum
    /\ \A k \in Int : Magnitude(k) < Wide => k \in Int128
    /\ \A k \in Int128 : k \in Int
<1>1. MaxNum \in Nat /\ MaxNum >= 1
  BY WidthAssumption
<1>2. Narrow \in Nat /\ Narrow >= 2
  BY <1>1 DEF Narrow
<1>3. Narrow * Narrow \in Nat /\ Narrow * Narrow >= 4
  <2>1. 2 * 2 <= Narrow * Narrow
    BY <1>2, ProductMonotone
  <2> QED BY <1>2, <2>1
<1>4. Wide \in Nat /\ Wide >= 8
  BY <1>3 DEF Wide
<1>5. 2 * MinNum * MinNum = Wide
  <2>1. MinNum = -Narrow
    BY DEF MinNum, Narrow
  <2>2. \A k \in Nat : 2 * (-k) * (-k) = 2 * (k * k)
    OBVIOUS
  <2> QED BY <1>2, <2>1, <2>2 DEF Wide
<1>6. Int128 = -Wide .. Wide - 1
  <2>1. Int128 = -(2 * MinNum * MinNum) .. (2 * MinNum * MinNum - 1)
    BY DEF Int128
  <2> QED BY <1>5, <2>1
<1>7. \A k \in Int : Magnitude(k) < Wide => k \in Int128
  BY <1>4, <1>6 DEF Magnitude
<1>8. \A k \in Int : k \in Int64 <=> -Narrow <= k /\ k <= MaxNum
  BY <1>1 DEF Int64, MinNum, Narrow
<1> QED BY <1>2, <1>4, <1>5, <1>6, <1>7, <1>8

(* The parts of a fraction of 64 bits.                                     *)
LEMMA RatTypes ==
    ASSUME NEW r \in Rats
    PROVE  /\ r.num \in Int /\ Magnitude(r.num) \in Nat /\ Magnitude(r.num) <= Narrow
           /\ r.den \in Nat \ {0} /\ r.den <= MaxNum /\ Magnitude(r.den) = r.den
           /\ r.num # MinNum => Magnitude(r.num) <= MaxNum
<1>1. r.num \in Int64 /\ r.den \in 1 .. MaxNum
  BY DEF Rats, Fractions
<1>2. MaxNum \in Nat
  BY WidthAssumption
<1> QED BY <1>1, <1>2 DEF Int64, MinNum, Narrow, Magnitude

(* Zero is a fraction.                                                     *)
LEMMA ZeroRat == Zero \in Rats
  BY WidthAssumption DEF Zero, Rats, Fractions, Canonical, Int64, MinNum

(* What an operation forms fits 128 bits, and its denominator is not zero. *)
LEMMA Formed ==
    ASSUME a \in Rats, b \in Rats, op \in Operations \ {"round"}, op = "div" => b.num # 0
    PROVE  /\ Numerator \in Int /\ Denominator \in Int \ {0}
           /\ Magnitude(Numerator) < Wide /\ Magnitude(Denominator) < Wide
<1>1. /\ a.num \in Int /\ Magnitude(a.num) \in Nat /\ Magnitude(a.num) <= Narrow
      /\ b.num \in Int /\ Magnitude(b.num) \in Nat /\ Magnitude(b.num) <= Narrow
      /\ a.den \in Nat \ {0} /\ Magnitude(a.den) = a.den /\ a.den <= MaxNum
      /\ b.den \in Nat \ {0} /\ Magnitude(b.den) = b.den /\ b.den <= MaxNum
  BY RatTypes
<1>2. /\ Narrow \in Nat /\ MaxNum \in Nat /\ MaxNum <= Narrow /\ Narrow >= 2
      /\ Narrow * Narrow \in Nat /\ Narrow * Narrow < Wide
      /\ Narrow * MaxNum \in Nat /\ 2 * (Narrow * MaxNum) < Wide
  <2>1. MaxNum \in Nat /\ Narrow = MaxNum + 1 /\ Narrow \in Nat /\ Narrow >= 2
    BY WidthAssumption, Widths DEF Narrow
  <2>2. Narrow * Narrow = Narrow * MaxNum + Narrow /\ Narrow * MaxNum \in Nat
    BY <2>1
  <2> QED BY <2>1, <2>2 DEF Wide
<1>3. ASSUME NEW x \in Int, NEW y \in Int, Magnitude(x) <= Narrow, Magnitude(y) <= Narrow
      PROVE  x * y \in Int /\ Magnitude(x * y) < Wide
  <2>1. Magnitude(x) \in Nat /\ Magnitude(y) \in Nat
    BY MagnitudeOf
  <2>2. Magnitude(x) * Magnitude(y) <= Narrow * Narrow /\ Magnitude(x) * Magnitude(y) \in Nat
    BY <1>2, <1>3, <2>1, ProductMonotone
  <2>3. x * y \in Int /\ Magnitude(x * y) = Magnitude(x) * Magnitude(y)
    BY ProductMagnitude
  <2>4. Wide \in Nat
    BY Widths
  <2> QED BY <1>2, <2>2, <2>3, <2>4
<1>4. ASSUME NEW x \in Int, NEW y \in Nat \ {0}, Magnitude(x) <= Narrow, y <= MaxNum
      PROVE  x * y \in Int /\ Magnitude(x * y) <= Narrow * MaxNum
  <2>1. Magnitude(x) \in Nat /\ Magnitude(y) = y
    BY MagnitudeOf DEF Magnitude
  <2>2. Magnitude(x) * y <= Narrow * MaxNum
    BY <1>2, <1>4, <2>1, ProductMonotone
  <2>3. x * y \in Int /\ Magnitude(x * y) = Magnitude(x) * Magnitude(y)
    BY ProductMagnitude
  <2> QED BY <2>1, <2>2, <2>3
<1>5. ASSUME NEW x \in Int, NEW y \in Int, x # 0, y # 0 PROVE x * y # 0
  <2>1. Magnitude(x) \in Nat \ {0} /\ Magnitude(y) \in Nat \ {0}
    BY <1>5, MagnitudeOf
  <2>2. 1 * 1 <= Magnitude(x) * Magnitude(y)
    BY <2>1, ProductMonotone
  <2>3. Magnitude(x * y) = Magnitude(x) * Magnitude(y)
    BY ProductMagnitude
  <2>4. Magnitude(0) = 0
    BY DEF Magnitude
  <2> QED BY <2>2, <2>3, <2>4
<1>6. Numerator \in Int /\ Magnitude(Numerator) < Wide
  <2>1. CASE op = "add"
    <3> DEFINE x == a.num * b.den
               y == b.num * a.den
    <3>1. x \in Int /\ y \in Int /\ Magnitude(x) <= Narrow * MaxNum /\ Magnitude(y) <= Narrow * MaxNum
      BY <1>1, <1>4
    <3>2. Numerator = x + y
      BY <2>1 DEF Numerator
    <3> HIDE DEF x, y
    <3>3. x + y \in Int /\ Magnitude(x + y) <= Magnitude(x) + Magnitude(y)
      BY <3>1 DEF Magnitude
    <3>4. Magnitude(x) \in Nat /\ Magnitude(y) \in Nat /\ Magnitude(x + y) \in Nat /\ Wide \in Nat
      BY <3>1, <3>3, MagnitudeOf, Widths
    <3> QED BY <1>2, <3>1, <3>2, <3>3, <3>4
  <2>2. CASE op = "div"
    <3>1. Numerator = a.num * b.den
      BY <2>2 DEF Numerator
    <3>2. Magnitude(b.den) <= Narrow
      BY <1>1, <1>2
    <3> QED BY <1>1, <1>3, <3>1, <3>2
  <2>3. CASE op \notin {"add", "div"}
    <3>1. Numerator = a.num * b.num
      BY <2>3 DEF Numerator
    <3> QED BY <1>1, <1>3, <3>1
  <2> QED BY <2>1, <2>2, <2>3
<1>7. Denominator \in Int \ {0} /\ Magnitude(Denominator) < Wide
  <2>1. Magnitude(a.den) <= Narrow /\ Magnitude(b.den) <= Narrow
    BY <1>1, <1>2
  <2>2. CASE op = "div"
    <3>1. Denominator = a.den * b.num
      BY <2>2 DEF Denominator
    <3> QED BY <1>1, <1>3, <1>5, <2>1, <2>2, <3>1
  <2>3. CASE op # "div"
    <3>1. Denominator = a.den * b.den
      BY <2>3 DEF Denominator
    <3> QED BY <1>1, <1>3, <1>5, <2>1, <3>1
  <2> QED BY <2>2, <2>3
<1> QED BY <1>6, <1>7

(* A result is a fraction equal to the one that was formed.                *)
LEMMA ResultIsEqual ==
    ASSUME a \in Rats, b \in Rats, op \in Operations \ {"round"}, op = "div" => b.num # 0,
           NEW r, r.num \in Int, r.den \in Int
    PROVE  IsResult(r) <=> r.num * Denominator = Numerator * r.den
<1>1. a.num \in Int /\ b.num \in Int /\ a.den \in Int /\ b.den \in Int
  BY RatTypes
<1>2. CASE op = "mul"
  BY <1>1, <1>2 DEF IsResult, Numerator, Denominator
<1>3. CASE op = "add"
  BY <1>1, <1>3 DEF IsResult, Numerator, Denominator
<1>4. CASE op = "div"
  <2>1. (r.num * b.num) * a.den = r.num * (a.den * b.num)
    BY <1>1
  <2>2. a.num * (r.den * b.den) = (a.num * b.den) * r.den
    BY <1>1
  <2> QED BY <1>4, <2>1, <2>2 DEF IsResult, Numerator, Denominator
<1> QED BY <1>2, <1>3, <1>4 DEF Operations

(* Rounding stays between the bounds of its numerator.                     *)
LEMMA RoundedNarrow ==
    ASSUME NEW n \in Int64, NEW d \in Nat \ {0}
    PROVE  RoundNearestEven(n, d) \in Int64
<1> DEFINE c == RoundNearestEven(n, d)
<1>1. /\ MaxNum \in Nat /\ Narrow = MaxNum + 1
      /\ n \in Int /\ -Narrow <= n /\ n <= MaxNum
  BY WidthAssumption DEF Narrow, Int64, MinNum
<1>2. c \in Int /\ 2 * Magnitude(c * d - n) <= d
  BY <1>1, RoundWithinHalf
<1> HIDE DEF c
<1>3. c * d \in Int /\ -d <= 2 * (c * d - n) /\ 2 * (c * d - n) <= d
  BY <1>1, <1>2 DEF Magnitude
<1>4. ASSUME c > MaxNum PROVE FALSE
  <2>1. (c - Narrow) * d >= 0 /\ (c - Narrow) * d = c * d - Narrow * d
    BY <1>1, <1>2, <1>4
  <2>2. MaxNum * (d - 1) >= 0 /\ MaxNum * (d - 1) = MaxNum * d - MaxNum
    BY <1>1
  <2>3. Narrow * d = MaxNum * d + d /\ MaxNum * d \in Int
    BY <1>1
  <2> QED BY <1>1, <1>2, <1>3, <2>1, <2>2, <2>3
<1>5. ASSUME c < -Narrow PROVE FALSE
  <2>1. (-Narrow - 1 - c) * d >= 0
    BY <1>1, <1>2, <1>5
  <2>2. (-Narrow - 1 - c) * d = -(Narrow * d) - d - c * d
    BY <1>1, <1>2
  <2>3. Narrow * (d - 1) >= 0 /\ Narrow * (d - 1) = Narrow * d - Narrow /\ Narrow * d \in Int
    BY <1>1
  <2> QED BY <1>1, <1>2, <1>3, <2>1, <2>2, <2>3
<1>6. c \in Int64
  BY <1>1, <1>2, <1>4, <1>5 DEF Int64, MinNum, Narrow
<1> QED BY <1>6 DEF c

(* While the fraction is reduced: it is the one the operation formed, and  *)
(* u and v are Euclid's numbers of its magnitudes.                         *)
Reducing ==
    pc = "reducing" =>
        /\ op # "round"
        /\ op = "div" => b.num # 0
        /\ num = Numerator /\ den = Denominator
        /\ num # 0 /\ den # 0
        /\ u # 0
        /\ Euclidean(Magnitude(num), Magnitude(den), u, v)

(* What has been returned is exact and in lowest terms.                    *)
Returned == pc = "returned" => Canonical(out) /\ IsResult(out)

(* What has been refused could not be held, the smallest integer as an     *)
(* operand included.                                                       *)
Refused == pc = "refused" => NothingFits

(* The inductive invariant.  It says of Euclid's numbers that they combine *)
(* the two they were started on: a common divisor alone would not do, as   *)
(* what is left of the fraction when it is divided by one may still have a *)
(* divisor in common.                                                      *)
RInv == TypeOK /\ Reducing /\ Returned /\ Refused

(* It holds of a call that begins, and of every step: one lemma each.      *)
LEMMA RatInit == Init => RInv
<1> SUFFICES ASSUME Init PROVE RInv
  OBVIOUS
<1>1. MaxNum \in Nat \ {0} /\ Wide \in Nat /\ Wide >= 8 /\ 2 * MinNum * MinNum = Wide
  BY WidthAssumption, Widths
<1>2. b \in Rats
  BY ZeroRat DEF Init, Operand
<1>3. \A k \in {0, 1} : k \in Int128 /\ k \in Int64
  BY <1>1, Widths DEF Magnitude, Int64, MinNum
<1>4. TypeOK
  BY <1>1, <1>2, <1>3 DEF Init, TypeOK, Zero
<1> QED BY <1>4 DEF Init, RInv, Reducing, Returned, Refused

(* The types, with the bound of 128 bits given its name.                   *)
LEMMA RatBounds ==
    ASSUME TypeOK
    PROVE  /\ num \in Int /\ den \in Int /\ u \in Nat /\ v \in Nat
           /\ u <= Wide /\ v <= Wide /\ Wide \in Nat
<1>1. 2 * MinNum * MinNum = Wide /\ Wide \in Nat
  BY Widths
<1>2. num \in Int128 /\ den \in Int128 /\ u \in 0 .. Wide /\ v \in 0 .. Wide
  BY <1>1 DEF TypeOK
<1> QED BY <1>1, <1>2, Widths

(* Where nothing is returned or refused, and the operands stay. *)
LEMMA StillRefused ==
    ASSUME Refused, UNCHANGED << op, a, b >>, pc' = "refused" => pc = "refused"
    PROVE  Refused'
  BY DEF Refused, NothingFits, IsResult

(* reduce begins: zero is its own result, all else goes to Euclid.         *)
LEMMA FormStep == ASSUME RInv, Form PROVE RInv'
<1>1. /\ pc = "called" /\ op # "round"
      /\ op = "div" => b.num # 0
      /\ num' = Numerator /\ den' = Denominator
      /\ UNCHANGED << op, a, b >>
      /\ a \in Rats /\ b \in Rats /\ op \in Operations \ {"round"}
  BY DEF Form, RInv, TypeOK
<1>2. /\ Numerator \in Int /\ Denominator \in Int \ {0}
      /\ Magnitude(Numerator) < Wide /\ Magnitude(Denominator) < Wide
  BY <1>1, Formed
<1>3. num' \in Int128 /\ den' \in Int128
  BY <1>1, <1>2, Widths
<1>4. Numerator' = Numerator /\ Denominator' = Denominator
  BY <1>1 DEF Numerator, Denominator
<1>5. CASE num' = 0
  <2>1. pc' = "returned" /\ out' = Zero /\ UNCHANGED << u, v >>
    BY <1>5 DEF Form
  <2>2. TypeOK'
    <3>1. out'.num \in Int64 /\ out'.den \in 1 .. MaxNum
      BY <2>1, ZeroRat DEF Rats, Fractions
    <3>2. u' \in 0 .. 2 * MinNum * MinNum /\ v' \in 0 .. 2 * MinNum * MinNum
      BY <2>1 DEF RInv, TypeOK
    <3> QED BY <1>1, <1>3, <2>1, <3>1, <3>2 DEF TypeOK
  <2>3. IsResult(Zero)
    <3>1. Zero.num = 0 /\ Zero.den = 1
      BY DEF Zero
    <3>2. 0 * Denominator = 0 * 1
      BY <1>2
    <3>3. Zero.num * Denominator = Numerator * Zero.den
      BY <1>1, <1>5, <3>1, <3>2
    <3>4. Zero.num \in Int /\ Zero.den \in Int
      BY <3>1
    <3> QED BY <1>1, <3>3, <3>4, ResultIsEqual
  <2>4. Canonical(Zero)
    BY ZeroRat DEF Rats
  <2>5. Canonical(out)' /\ IsResult(out)'
    BY <1>1, <2>1, <2>3, <2>4 DEF Canonical, IsResult
  <2> QED
    BY <2>1, <2>2, <2>5 DEF RInv, Reducing, Returned, Refused
<1>6. CASE num' # 0
  <2>1. pc' = "reducing" /\ u' = Magnitude(num') /\ v' = Magnitude(den') /\ UNCHANGED out
    BY <1>6 DEF Form
  <2>2. u' \in Nat \ {0} /\ v' \in Nat /\ u' < Wide /\ v' < Wide
    BY <1>1, <1>2, <1>6, <2>1, MagnitudeOf
  <2>3. TypeOK'
    <3>1. u' \in 0 .. 2 * MinNum * MinNum /\ v' \in 0 .. 2 * MinNum * MinNum
      BY <2>2, Widths
    <3> QED BY <1>1, <1>3, <2>1, <3>1 DEF RInv, TypeOK
  <2>4. Euclidean(Magnitude(num'), Magnitude(den'), u', v')
    BY <2>1, <2>2, EuclidStarts
  <2>5. Reducing'
    <3>1. num' = Numerator' /\ den' = Denominator'
      BY <1>1, <1>4
    <3>2. op' # "round" /\ (op' = "div" => b'.num # 0)
      BY <1>1
    <3>3. num' # 0 /\ den' # 0 /\ u' # 0
      BY <1>1, <1>2, <1>6, <2>2
    <3> QED BY <2>4, <3>1, <3>2, <3>3, Zenon DEF Reducing
  <2> QED BY <2>1, <2>3, <2>5 DEF RInv, Returned, Refused
<1> QED BY <1>5, <1>6

(* A turn of gcd_u128.                                                     *)
LEMMA EuclidStep == ASSUME RInv, Euclid PROVE RInv'
<1>1. /\ pc = "reducing" /\ v # 0 /\ u' = v /\ v' = u % v
      /\ UNCHANGED << pc, op, a, b, num, den, out >>
  BY DEF Euclid, Remainder
<1>2. /\ num \in Int /\ den \in Int /\ u \in Nat /\ v \in Nat /\ u <= Wide /\ v <= Wide
      /\ Wide \in Nat
  BY RatBounds DEF RInv
<1>3. u' \in Nat \ {0} /\ v' \in Nat /\ u' <= Wide /\ v' <= Wide
  <2>1. u % v \in Int /\ 0 <= u % v /\ u % v < v
    BY <1>1, <1>2, Quotient
  <2> QED BY <1>1, <1>2, <2>1
<1>4. TypeOK'
  <2>1. u' \in 0 .. 2 * MinNum * MinNum /\ v' \in 0 .. 2 * MinNum * MinNum
    BY <1>2, <1>3, Widths
  <2> QED BY <1>1, <2>1 DEF RInv, TypeOK
<1>5. Euclidean(Magnitude(num), Magnitude(den), v, u % v)
  <2>1. Magnitude(num) \in Int /\ Magnitude(den) \in Int
    BY <1>2, MagnitudeOf
  <2>2. Euclidean(Magnitude(num), Magnitude(den), u, v)
    BY <1>1 DEF RInv, Reducing
  <2> QED BY <1>1, <1>2, <2>1, <2>2, EuclidTurns
<1>6. Numerator' = Numerator /\ Denominator' = Denominator
  BY <1>1 DEF Numerator, Denominator
<1>7. Reducing'
  BY <1>1, <1>3, <1>5, <1>6 DEF RInv, Reducing
<1>8. Refused'
  BY <1>1, StillRefused DEF RInv
<1> QED BY <1>1, <1>4, <1>7, <1>8 DEF RInv, Returned

(* What the fraction is in lowest terms, while v is 0.                     *)
Lowered(rn, rd) ==
    /\ rn \in Nat \ {0} /\ rd \in Nat \ {0}
    /\ Magnitude(num) = rn * u /\ Magnitude(den) = rd * u
    /\ Combines(1, rn, rd)

(* The loop of gcd_u128 ends at the greatest common divisor.               *)
LEMMA ReduceLowers ==
    ASSUME RInv, pc = "reducing", v = 0
    PROVE  /\ u \in Nat \ {0}
           /\ Lowered(Magnitude(num) \div u, Magnitude(den) \div u)
<1>1. /\ num \in Int /\ den \in Int /\ u \in Nat \ {0} /\ num # 0 /\ den # 0
      /\ Euclidean(Magnitude(num), Magnitude(den), u, 0)
  <2>1. num \in Int /\ den \in Int /\ u \in Nat
    BY RatBounds DEF RInv
  <2> QED BY <2>1 DEF RInv, Reducing
<1> DEFINE m == Magnitude(num)
           n == Magnitude(den)
<1>2. m \in Nat \ {0} /\ n \in Nat \ {0}
  BY <1>1, MagnitudeOf
<1>3. Euclidean(m, n, u, 0)
  BY <1>1
<1> HIDE DEF m, n
<1>4. LowestBy(u, m, n)
  BY <1>1, <1>2, <1>3, EuclidEnds
<1> DEFINE rm == m \div u
           rn == n \div u
<1>5. /\ rm \in Nat /\ rn \in Nat \ {0}
      /\ m = rm * u /\ n = rn * u
      /\ Combines(1, rm, rn)
  BY <1>4, Reduced
<1> HIDE DEF rm, rn
<1>6. rm # 0
  BY <1>1, <1>2, <1>5
<1>7. Lowered(rm, rn)
  BY <1>5, <1>6 DEF Lowered, m, n
<1> QED BY <1>1, <1>7 DEF rm, rn, m, n

(* Lowest terms with a positive denominator are canonical.                 *)
LEMMA LowestCanonical ==
    ASSUME NEW r, NEW m \in Nat \ {0}, NEW n \in Nat \ {0}, Combines(1, m, n),
           r.num \in Int, Magnitude(r.num) = m, r.den = n
    PROVE  Canonical(r)
<1>1. r.num # 0
  BY DEF Magnitude
<1>2. ASSUME NEW d \in 2 .. n, CommonDivisor(d, m, n) PROVE FALSE
  <2>1. d \in Nat \ {0} /\ Into(d, m) /\ Into(d, n)
    BY <1>2, DividesInto DEF CommonDivisor
  <2>2. d = 1
    BY <2>1, NothingCommon
  <2> QED BY <2>2
<1> QED BY <1>1, <1>2 DEF Canonical

(* The sign of the fraction is the sign of the numerator.                  *)
LEMMA SignKept ==
    ASSUME NEW rn \in Nat, NEW rd \in Nat, u \in Nat, num \in Int, den \in Int,
           num # 0, den # 0, Magnitude(num) = rn * u, Magnitude(den) = rd * u
    PROVE  /\ Signed(rn) \in Int /\ Magnitude(Signed(rn)) = rn
           /\ Signed(rn) \in {rn, -rn}
           /\ Signed(rn) * den = num * rd
<1>1. Signed(rn) \in {rn, -rn} /\ Signed(rn) \in Int
  BY DEF Signed
<1>2. Magnitude(Signed(rn)) = rn
  BY <1>1 DEF Magnitude
<1> DEFINE m == rn * u
           n == rd * u
<1>3. m \in Nat /\ n \in Nat
  OBVIOUS
<1>4. rn * n = m * rd
  <2>1. rn * (rd * u) = (rn * u) * rd
    OBVIOUS
  <2> QED BY <2>1
<1>5. num = (IF num < 0 THEN -m ELSE m) /\ den = (IF den < 0 THEN -n ELSE n)
  BY DEF Magnitude
<1> HIDE DEF m, n
<1>6. /\ (-rn) * n = -(rn * n) /\ rn * (-n) = -(rn * n) /\ (-rn) * (-n) = rn * n
      /\ (-m) * rd = -(m * rd)
  BY <1>3
<1>7. Signed(rn) * den = num * rd
  <2>1. CASE num < 0 /\ den < 0
    BY <1>3, <1>4, <1>5, <1>6, <2>1 DEF Signed
  <2>2. CASE num < 0 /\ ~(den < 0)
    BY <1>3, <1>4, <1>5, <1>6, <2>2 DEF Signed
  <2>3. CASE ~(num < 0) /\ den < 0
    BY <1>3, <1>4, <1>5, <1>6, <2>3 DEF Signed
  <2>4. CASE ~(num < 0) /\ ~(den < 0)
    BY <1>3, <1>4, <1>5, <1>6, <2>4 DEF Signed
  <2> QED BY <2>1, <2>2, <2>3, <2>4
<1> QED BY <1>1, <1>2, <1>7

(* A fraction of 64 bits that is equal to the one that was formed has room *)
(* for its lowest terms.                                                   *)
LEMMA EqualHasRoom ==
    ASSUME NEW r \in Rats, r.num # MinNum, NEW rn \in Nat, NEW rd \in Nat,
           Lowered(rn, rd), u \in Nat \ {0}, num \in Int, den \in Int,
           r.num * den = num * r.den
    PROVE  rn <= MaxNum /\ rd <= MaxNum
<1>1. /\ r.num \in Int /\ Magnitude(r.num) \in Nat /\ Magnitude(r.num) <= MaxNum
      /\ r.den \in Nat \ {0} /\ r.den <= MaxNum /\ Magnitude(r.den) = r.den
  BY RatTypes
<1> DEFINE s == Magnitude(r.num)
           t == r.den
<1>2. s * (rd * u) = (rn * u) * t
  <2>1. Magnitude(r.num * den) = s * Magnitude(den)
    BY <1>1, ProductMagnitude
  <2>2. Magnitude(num * r.den) = Magnitude(num) * t
    <3>1. r.den \in Int /\ Magnitude(r.den) = t
      BY <1>1
    <3>2. Magnitude(num * r.den) = Magnitude(num) * Magnitude(r.den)
      BY <3>1, ProductMagnitude
    <3> QED BY <3>1, <3>2
  <2> QED BY <2>1, <2>2 DEF Lowered
<1>3. s \in Nat /\ t \in Nat \ {0}
  BY <1>1
<1> HIDE DEF s, t
<1>4. s * rd = rn * t
  <2> DEFINE x == s * rd
             y == rn * t
  <2>1. s * (rd * u) = x * u /\ (rn * u) * t = y * u
    BY <1>3
  <2>2. x \in Nat /\ y \in Nat
    BY <1>3
  <2> HIDE DEF x, y
  <2>3. x * u = y * u
    BY <1>2, <2>1
  <2>4. (x - y) * u = x * u - y * u
    BY <2>2
  <2>5. x = y
    <3>1. ASSUME NEW z \in Int, z >= 1 PROVE z * u >= 1
      <4>1. z * u >= u
        BY <3>1
      <4> QED BY <4>1
    <3>2. (x - y) * u = 0 /\ (y - x) * u = 0
      BY <2>2, <2>3
    <3>3. x - y < 1 /\ y - x < 1
      BY <2>2, <3>1, <3>2
    <3> QED BY <2>2, <3>3
  <2> QED BY <2>5 DEF x, y
<1>5. rn <= s /\ rd <= t
  BY <1>3, <1>4, LowestIsLeast DEF Lowered
<1>6. s <= MaxNum /\ t <= MaxNum
  BY <1>1 DEF s, t
<1>7. MaxNum \in Nat
  BY WidthAssumption
<1> QED BY <1>3, <1>5, <1>6, <1>7

(* The end of reduce, where a result is returned or refused.               *)
LEMMA ReduceStep == ASSUME RInv, Reduce PROVE RInv'
<1> DEFINE rn == Magnitude(num) \div u
           rd == Magnitude(den) \div u
<1>1. /\ pc = "reducing" /\ v = 0
      /\ UNCHANGED << op, a, b, num, den, u, v >>
      /\ a \in Rats /\ b \in Rats /\ op \in Operations \ {"round"}
      /\ op = "div" => b.num # 0
      /\ num = Numerator /\ den = Denominator
      /\ num # 0 /\ den # 0
  BY DEF Reduce, RInv, TypeOK, Reducing
<1>2. num \in Int /\ den \in Int
  BY RatBounds DEF RInv
<1>3. u \in Nat \ {0} /\ Lowered(rn, rd)
  BY <1>1, ReduceLowers
<1>4. MaxNum \in Nat
  BY WidthAssumption
<1>5. CASE Fits(rn) /\ Fits(rd)
  <2> DEFINE r == [num |-> Signed(rn), den |-> rd]
  <2>1. pc' = "returned" /\ out' = r
    BY <1>5 DEF Reduce
  <2>2. rn \in Nat \ {0} /\ rd \in Nat \ {0} /\ rn <= MaxNum /\ rd <= MaxNum
    BY <1>3, <1>5 DEF Fits, Lowered
  <2>3. r.num = Signed(rn) /\ r.den = rd
    OBVIOUS
  <2> HIDE DEF rn, rd, r
  <2>4. /\ r.num \in Int /\ Magnitude(r.num) = rn /\ r.num \in {rn, -rn}
        /\ r.num * den = num * rd
    BY <1>1, <1>2, <1>3, <2>2, <2>3, SignKept DEF Lowered
  <2>5. r.num \in Int64 /\ r.den \in 1 .. MaxNum
    BY <1>4, <2>2, <2>3, <2>4 DEF Int64, MinNum
  <2>6. TypeOK'
    BY <1>1, <2>1, <2>5 DEF RInv, TypeOK
  <2>7. Canonical(r)
    BY <1>3, <2>2, <2>3, <2>4, LowestCanonical DEF Lowered
  <2>8. IsResult(r)
    <3>1. r.den \in Int
      BY <2>2, <2>3
    <3>2. r.num * Denominator = Numerator * r.den
      BY <1>1, <2>3, <2>4
    <3> QED BY <1>1, <2>4, <3>1, <3>2, ResultIsEqual
  <2>9. Canonical(out)' /\ IsResult(out)'
    BY <1>1, <2>1, <2>7, <2>8 DEF Canonical, IsResult
  <2> QED
    BY <2>1, <2>6, <2>9 DEF RInv, Reducing, Returned, Refused
<1>6. CASE ~(Fits(rn) /\ Fits(rd))
  <2>1. pc' = "refused" /\ UNCHANGED out
    BY <1>6 DEF Reduce
  <2>2. TypeOK'
    BY <1>1, <2>1 DEF RInv, TypeOK
  <2>3. ASSUME NEW r \in Rats, r.num # MinNum, IsResult(r) PROVE FALSE
    <3>1. r.num \in Int /\ r.den \in Int
      BY RatTypes
    <3>2. r.num * den = num * r.den
      BY <1>1, <2>3, <3>1, ResultIsEqual
    <3>3. rn \in Nat /\ rd \in Nat
      BY <1>3 DEF Lowered
    <3> HIDE DEF rn, rd
    <3>4. rn <= MaxNum /\ rd <= MaxNum
      BY <1>2, <1>3, <2>3, <3>2, <3>3, EqualHasRoom
    <3> QED BY <1>6, <3>4 DEF Fits
  <2>4. \A r \in Rats : IsResult(r)' <=> IsResult(r)
    BY <1>1 DEF IsResult
  <2>5. Refused'
    BY <2>3, <2>4 DEF Refused, NothingFits
  <2> QED BY <2>1, <2>2, <2>5 DEF RInv, Reducing, Returned
<1> QED BY <1>5, <1>6

(* Nothing is the result of a division by zero.                            *)
LEMMA DivideByZeroStep == ASSUME RInv, DivideByZero PROVE RInv'
<1>1. /\ op = "div" /\ b.num = 0 /\ pc' = "refused"
      /\ UNCHANGED << op, a, b, num, den, u, v, out >>
  BY DEF DivideByZero
<1>2. TypeOK'
  BY <1>1 DEF RInv, TypeOK
<1>3. \A r \in Rats : ~IsResult(r)'
  BY <1>1 DEF IsResult
<1>4. Refused'
  BY <1>3 DEF Refused, NothingFits
<1> QED BY <1>1, <1>2, <1>4 DEF RInv, Reducing, Returned

(* rat_round_nearest_even cannot leave 64 bits.                            *)
LEMMA RoundStep == ASSUME RInv, Round PROVE RInv'
<1> DEFINE c == Rounded(a)
<1>1. /\ op = "round" /\ pc' = "returned" /\ out' = [num |-> c, den |-> 1]
      /\ UNCHANGED << op, a, b, num, den, u, v >>
      /\ a \in Rats
  BY DEF Round, RInv, TypeOK
<1>2. a.num \in Int64 /\ a.num \in Int /\ a.den \in Nat \ {0}
  BY <1>1, RatTypes DEF Rats, Fractions
<1>3. c \in Int64 /\ c \in Int
  BY <1>2, RoundedNarrow, RoundWithinHalf DEF Rounded
<1>4. 2 * Magnitude(c * a.den - a.num) <= a.den
  BY <1>2, RoundWithinHalf DEF Rounded
<1>5. 2 * Magnitude(c * a.den - a.num) = a.den => c % 2 = 0
  BY <1>2, RoundTieEven DEF Rounded
<1>6. Magnitude(c * a.den - a.num) \in Nat
  BY <1>2, <1>3, MagnitudeOf
<1> HIDE DEF c
<1>7. out'.num = c /\ out'.den = 1
  BY <1>1
<1>8. TypeOK'
  BY <1>1, <1>3, <1>7, WidthAssumption DEF RInv, TypeOK
<1>9. Canonical(out)'
  BY <1>7 DEF Canonical
<1>10. IsResult(out)'
  <2> DEFINE off == Magnitude(c * a.den - a.num)
  <2>1. 2 * off < a.den \/ (2 * off = a.den /\ c % 2 = 0)
    BY <1>2, <1>4, <1>5, <1>6
  <2> QED BY <1>1, <1>7, <2>1 DEF IsResult, Magnitude
<1> QED BY <1>1, <1>8, <1>9, <1>10 DEF RInv, Reducing, Returned, Refused

(* Every step keeps the invariant.                                         *)
LEMMA RatStep == ASSUME RInv, [Next]_vars PROVE RInv'
<1>1. CASE UNCHANGED vars
  <2>1. UNCHANGED << pc, op, a, b, num, den, u, v, out >>
    BY <1>1 DEF vars
  <2>2. TypeOK'
    BY <2>1 DEF RInv, TypeOK
  <2>3. Reducing'
    BY <2>1 DEF RInv, Reducing, Numerator, Denominator
  <2>4. Returned'
    BY <2>1 DEF RInv, Returned, Canonical, IsResult
  <2>5. Refused'
    BY <2>1, StillRefused DEF RInv
  <2> QED BY <2>2, <2>3, <2>4, <2>5 DEF RInv
<1> QED
  BY <1>1, DivideByZeroStep, FormStep, EuclidStep, ReduceStep, RoundStep DEF Next

(* Whatever rat_mul, rat_div, rat_add and rat_round_nearest_even return is *)
(* the exact result, in the one form rat_eq compares, and no intermediate  *)
(* of reduce overflows, at every width of the integers.                    *)
THEOREM ResultExactTheorem == Spec => []ResultExact
<1>1. RInv => ResultExact
  BY DEF RInv, Returned, ResultExact
<1> QED BY <1>1, RatInit, RatStep, PTL DEF Spec

(* Of operands other than the smallest integer, a division by zero and     *)
(* what does not fit are all that is refused: no fraction is the result,   *)
(* except one whose numerator is MinNum, which reduce does not return.     *)
THEOREM RefusedTheorem == Spec => []RefusedOnlyIfNeeded
<1>1. RInv => RefusedOnlyIfNeeded
  BY DEF RInv, Refused, RefusedOnlyIfNeeded
<1> QED BY <1>1, RatInit, RatStep, PTL DEF Spec
=============================================================================
