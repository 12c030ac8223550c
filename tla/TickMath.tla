------------------------------ MODULE TickMath ------------------------------
(***************************************************************************)
(* The integer arithmetic of the checker (src/src/intmath.h and the        *)
(* rounding of src/src/rational.c) on whole ticks.                         *)
(*                                                                         *)
(* The program counts time in exact rationals.  The models count it in     *)
(* ticks, a common divisor of every unit of the program and the device, so *)
(* a channel unit is a positive number of ticks and a quotient of two      *)
(* times is a pair numerator/denominator of integers.  \div and % of TLA+  *)
(* round toward minus infinity, as floor_div and floor_mod do.             *)
(***************************************************************************)
EXTENDS Integers

(* rat_exact_div: n/d is a whole number. *)
Divides(d, n) == n % d = 0

(* rat_round_nearest_even of the quotient n/d, d > 0. *)
RoundNearestEven(n, d) ==
    LET q   == n \div d
        rem == n % d
    IN  CASE 2 * rem < d -> q
          [] 2 * rem > d -> q + 1
          [] OTHER       -> IF q % 2 = 0 THEN q ELSE q + 1

Later(s, t) == IF t > s THEN t ELSE s

Magnitude(n) == IF n < 0 THEN -n ELSE n
=============================================================================
