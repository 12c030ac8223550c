------------------------------ MODULE DataProofs ------------------------------
(***************************************************************************)
(* Lemmas about the data of the models: what rounding a time to whole      *)
(* units of a channel does to it, what Euclid's algorithm finds of two     *)
(* numbers, and what joining the parts of a report or of a list of         *)
(* findings leaves of them: which members, how many of each, and in what   *)
(* order.                                                                  *)
(***************************************************************************)
EXTENDS TickMath, SequencesExt, SequenceTheorems, FiniteSetTheorems, FunctionTheorems,
        WellFoundedInduction, TLAPS

(* Multiplying by a unit keeps the order. *)
LEMMA UnitsMonotone ==
    ASSUME NEW a \in Int, NEW b \in Int, NEW u \in Nat \ {0}, a <= b
    PROVE  a * u <= b * u
  OBVIOUS

(* One unit more is a whole unit later. *)
LEMMA UnitsStrict ==
    ASSUME NEW a \in Int, NEW b \in Int, NEW u \in Nat \ {0}, a < b
    PROVE  a * u + u <= b * u
<1>1. a + 1 <= b
  OBVIOUS
<1>2. (a + 1) * u <= b * u
  BY <1>1, UnitsMonotone
<1> QED
  BY <1>2

(* A count of units that is within half a unit of a time is not below any  *)
(* count whose time has been reached.                                      *)
LEMMA NearestNotBefore ==
    ASSUME NEW c \in Int, NEW n \in Int, NEW u \in Nat \ {0}, NEW t \in Int,
           c * u <= t, 2 * Magnitude(n * u - t) <= u
    PROVE  c <= n
<1> SUFFICES ASSUME n < c PROVE FALSE
  OBVIOUS
<1>1. n * u + u <= c * u
  BY UnitsStrict
<1>2. n * u \in Int /\ c * u \in Int
  OBVIOUS
<1> QED
  BY <1>1, <1>2 DEF Magnitude

-----------------------------------------------------------------------------
(* The quotient and the remainder by a unit. *)
LEMMA Quotient ==
    ASSUME NEW n \in Int, NEW d \in Nat \ {0}
    PROVE  /\ n \div d \in Int /\ n % d \in Int
           /\ n = (n \div d) * d + (n % d)
           /\ 0 <= n % d /\ n % d < d
  OBVIOUS

(* What divides leaves no remainder. *)
LEMMA ExactQuotient ==
    ASSUME NEW n \in Int, NEW d \in Nat \ {0}, Divides(d, n)
    PROVE  n \div d \in Int /\ (n \div d) * d = n
  BY Quotient DEF Divides

(* rat_round_nearest_even moves a time by at most half a unit. *)
LEMMA RoundWithinHalf ==
    ASSUME NEW n \in Int, NEW d \in Nat \ {0}
    PROVE  /\ RoundNearestEven(n, d) \in Int
           /\ 2 * Magnitude(RoundNearestEven(n, d) * d - n) <= d
<1> DEFINE q == n \div d
           r == n % d
<1>1. q \in Int /\ r \in Int /\ n = q * d + r /\ 0 <= r /\ r < d
  BY Quotient
<1>2. /\ 2 * r < d => RoundNearestEven(n, d) = q
      /\ 2 * r > d => RoundNearestEven(n, d) = q + 1
      /\ 2 * r = d => RoundNearestEven(n, d) \in {q, q + 1}
  <2>1. CASE 2 * r < d
    BY <1>1, <2>1 DEF RoundNearestEven
  <2>2. CASE 2 * r > d
    BY <1>1, <2>2 DEF RoundNearestEven
  <2>3. CASE 2 * r = d
    BY <1>1, <2>3 DEF RoundNearestEven
  <2> QED BY <1>1, <2>1, <2>2, <2>3
<1> HIDE DEF q, r
<1>3. CASE RoundNearestEven(n, d) = q
  <2>1. RoundNearestEven(n, d) * d - n = -r
    BY <1>1, <1>3
  <2> QED BY <2>1, <1>1, <1>2, <1>3 DEF Magnitude
<1>4. CASE RoundNearestEven(n, d) = q + 1
  <2>1. (q + 1) * d = q * d + d
    BY <1>1
  <2>2. RoundNearestEven(n, d) * d - n = d - r
    BY <2>1, <1>1, <1>4
  <2> QED BY <2>2, <1>1, <1>2, <1>4 DEF Magnitude
<1> QED BY <1>1, <1>2, <1>3, <1>4

(* Of two integers that are equally near, the even one.                    *)
LEMMA RoundTieEven ==
    ASSUME NEW n \in Int, NEW d \in Nat \ {0},
           2 * Magnitude(RoundNearestEven(n, d) * d - n) = d
    PROVE  RoundNearestEven(n, d) % 2 = 0
<1> DEFINE q == n \div d
           r == n % d
           c == RoundNearestEven(n, d)
<1>1. q \in Int /\ r \in Int /\ n = q * d + r /\ 0 <= r /\ r < d
  BY Quotient
<1>2. /\ 2 * r < d => c = q
      /\ 2 * r > d => c = q + 1
      /\ 2 * r = d => c = IF q % 2 = 0 THEN q ELSE q + 1
  <2>1. ASSUME 2 * r < d PROVE c = q
    BY <1>1, <2>1 DEF RoundNearestEven
  <2>2. ASSUME 2 * r > d PROVE c = q + 1
    BY <1>1, <2>2 DEF RoundNearestEven
  <2>3. ASSUME 2 * r = d, q % 2 = 0 PROVE c = q
    BY <1>1, <2>3 DEF RoundNearestEven
  <2>4. ASSUME 2 * r = d, q % 2 # 0 PROVE c = q + 1
    BY <1>1, <2>4 DEF RoundNearestEven
  <2> HIDE DEF q, r, c
  <2> QED BY <2>1, <2>2, <2>3, <2>4
<1> HIDE DEF q, r, c
<1>3. q * d - n = -r /\ (q + 1) * d - n = d - r
  <2>1. q * d \in Int /\ (q + 1) * d = q * d + d
    BY <1>1
  <2> QED BY <1>1, <2>1
<1>4. 2 * Magnitude(c * d - n) = d
  BY DEF c
<1>5. 2 * r = d
  <2>1. CASE 2 * r < d
    <3>1. Magnitude(c * d - n) = r
      BY <1>1, <1>2, <1>3, <2>1 DEF Magnitude
    <3> QED BY <1>1, <1>4, <2>1, <3>1
  <2>2. CASE 2 * r > d
    <3>1. Magnitude(c * d - n) = d - r
      BY <1>1, <1>2, <1>3, <2>2 DEF Magnitude
    <3> QED BY <1>1, <1>4, <2>2, <3>1
  <2> QED BY <1>1, <2>1, <2>2
<1>6. c % 2 = 0
  <2>1. q % 2 # 0 => (q + 1) % 2 = 0
    BY <1>1
  <2> QED BY <1>2, <1>5, <2>1
<1> QED BY <1>6 DEF c

(* A time that is not negative rounds to a count that is not negative. *)
LEMMA RoundNatural ==
    ASSUME NEW n \in Nat, NEW d \in Nat \ {0}
    PROVE  RoundNearestEven(n, d) \in Nat
<1> DEFINE c == RoundNearestEven(n, d)
<1>1. c \in Int /\ 2 * Magnitude(c * d - n) <= d
  BY RoundWithinHalf
<1>2. ASSUME c < 0 PROVE FALSE
  <2> HIDE DEF c
  <2>1. \E m \in Nat : c = -1 - m
    BY <1>1, <1>2
  <2>2. c * d \in Int /\ c * d <= -d
    BY <1>1, <2>1
  <2> QED BY <1>1, <2>2 DEF Magnitude
<1> QED BY <1>1, <1>2

-----------------------------------------------------------------------------
(* Whole numbers: their products, what goes into them, and what Euclid's  *)
(* algorithm finds of two of them.                                         *)

(* Products, sign by sign. *)
LEMMA ProductMonotone ==
    ASSUME NEW x \in Nat, NEW y \in Nat, NEW s \in Nat, NEW t \in Nat, x <= s, y <= t
    PROVE  x * y \in Nat /\ s * t \in Nat /\ x * y <= s * t
<1>1. x * y <= s * y
  OBVIOUS
<1>2. s * y <= s * t
  OBVIOUS
<1>3. x * y \in Int /\ s * y \in Int /\ s * t \in Int /\ x * y >= 0
  OBVIOUS
<1> QED BY <1>1, <1>2, <1>3

(* A number is its magnitude, or its opposite.                             *)
LEMMA MagnitudeOf ==
    ASSUME NEW x \in Int
    PROVE  /\ Magnitude(x) \in Nat
           /\ x = Magnitude(x) \/ x = -Magnitude(x)
           /\ Magnitude(x) = 0 <=> x = 0
  BY DEF Magnitude

(* The magnitude of a product.                                             *)
LEMMA ProductMagnitude ==
    ASSUME NEW x \in Int, NEW y \in Int
    PROVE  x * y \in Int /\ Magnitude(x * y) = Magnitude(x) * Magnitude(y)
<1>1. ASSUME NEW m \in Nat, NEW n \in Nat
      PROVE  /\ m * n \in Nat /\ (-m) * n = -(m * n) /\ m * (-n) = -(m * n) /\ (-m) * (-n) = m * n
  OBVIOUS
<1>2. \A k \in Nat : Magnitude(k) = k /\ Magnitude(-k) = k
  BY DEF Magnitude
<1>3. PICK m \in Nat : m = Magnitude(x) /\ (x = m \/ x = -m)
  BY MagnitudeOf
<1>4. PICK n \in Nat : n = Magnitude(y) /\ (y = n \/ y = -n)
  BY MagnitudeOf
<1>5. x * y \in {m * n, -(m * n)}
  <2>1. CASE x = m /\ y = n
    BY <1>1, <2>1
  <2>2. CASE x = m /\ y = -n
    BY <1>1, <2>2
  <2>3. CASE x = -m /\ y = n
    BY <1>1, <2>3
  <2>4. CASE x = -m /\ y = -n
    BY <1>1, <2>4
  <2> QED BY <1>3, <1>4, <2>1, <2>2, <2>3, <2>4
<1> QED BY <1>1, <1>2, <1>3, <1>4, <1>5

(* d goes into n a whole number of times. *)
Into(d, n) == \E k \in Int : n = k * d

(* That is what Divides says.                                              *)
LEMMA DividesInto ==
    ASSUME NEW d \in Nat \ {0}, NEW n \in Int
    PROVE  Divides(d, n) <=> Into(d, n)
<1>1. ASSUME Divides(d, n) PROVE Into(d, n)
  BY <1>1, ExactQuotient DEF Into
<1>2. ASSUME Into(d, n) PROVE Divides(d, n)
  <2>1. PICK k \in Int : n = k * d
    BY <1>2 DEF Into
  <2> DEFINE q == n \div d
             r == n % d
  <2>2. q \in Int /\ r \in Int /\ n = q * d + r /\ 0 <= r /\ r < d
    BY Quotient
  <2> HIDE DEF q, r
  <2>3. (k - q) * d = r
    <3>1. (k - q) * d = k * d - q * d
      BY <2>2
    <3> QED BY <2>1, <2>2, <3>1
  <2>4. k - q = 0
    <3>1. ASSUME k - q >= 1 PROVE FALSE
      <4>1. (k - q) * d >= 1 * d
        BY <2>2, <3>1
      <4> QED BY <2>2, <2>3, <4>1
    <3>2. ASSUME k - q <= -1 PROVE FALSE
      <4>1. (k - q) * d <= (-1) * d
        BY <2>2, <3>2
      <4> QED BY <2>2, <2>3, <4>1
    <3> QED BY <2>2, <3>1, <3>2
  <2>5. r = 0
    BY <2>2, <2>3, <2>4
  <2> QED BY <2>5 DEF r, Divides
<1> QED BY <1>1, <1>2

(* What goes into two numbers goes into what they add up to. *)
LEMMA IntoSum ==
    ASSUME NEW d \in Int, NEW m \in Int, NEW n \in Int, NEW q \in Int, Into(d, m), Into(d, n)
    PROVE  Into(d, m + q * n)
<1>1. PICK j \in Int : m = j * d
  BY DEF Into
<1>2. PICK k \in Int : n = k * d
  BY DEF Into
<1>3. m + q * n = (j + q * k) * d
  <2>1. q * (k * d) = (q * k) * d /\ q * k \in Int
    OBVIOUS
  <2>2. \A z \in Int : (j + z) * d = j * d + z * d
    OBVIOUS
  <2> QED BY <1>1, <1>2, <2>1, <2>2
<1>4. j + q * k \in Int
  OBVIOUS
<1> QED BY <1>3, <1>4 DEF Into

(* A combination of m and n. *)
Combines(k, m, n) == \E x, y \in Int : k = x * m + y * n

(* A multiple of one combination less than another is one too.             *)
LEMMA CombinesLess ==
    ASSUME NEW m \in Int, NEW n \in Int, NEW j \in Int, NEW k \in Int, NEW q \in Int,
           Combines(j, m, n), Combines(k, m, n)
    PROVE  Combines(j - q * k, m, n)
<1>1. PICK x, y \in Int : j = x * m + y * n
  BY DEF Combines
<1>2. PICK s, t \in Int : k = s * m + t * n
  BY DEF Combines
<1> DEFINE z == q * s
           w == q * t
<1>3. z \in Int /\ w \in Int
  OBVIOUS
<1>4. q * k = z * m + w * n
  <2>1. q * (s * m + t * n) = q * (s * m) + q * (t * n)
    OBVIOUS
  <2>2. q * (s * m) = (q * s) * m /\ q * (t * n) = (q * t) * n
    OBVIOUS
  <2> QED BY <1>2, <2>1, <2>2
<1> HIDE DEF z, w
<1>5. (x - z) * m = x * m - z * m /\ (y - w) * n = y * n - w * n
  BY <1>3
<1>6. j - q * k = (x - z) * m + (y - w) * n
  <2>1. x * m \in Int /\ y * n \in Int /\ z * m \in Int /\ w * n \in Int
    BY <1>3
  <2> QED BY <1>1, <1>4, <1>5, <2>1
<1>7. x - z \in Int /\ y - w \in Int
  BY <1>3
<1> QED BY <1>6, <1>7 DEF Combines

(* A fraction m/n in lowest terms over the divisor g: g goes into both,    *)
(* and is a combination of them.                                           *)
LowestBy(g, m, n) ==
    /\ g \in Nat \ {0} /\ m \in Nat /\ n \in Nat \ {0}
    /\ Into(g, m) /\ Into(g, n) /\ Combines(g, m, n)

(* Divided by it, their combination is one.                                *)
LEMMA Reduced ==
    ASSUME NEW g, NEW m, NEW n, LowestBy(g, m, n)
    PROVE  LET rm == m \div g
               rn == n \div g
           IN  /\ rm \in Nat /\ rn \in Nat \ {0}
               /\ m = rm * g /\ n = rn * g
               /\ Combines(1, rm, rn)
<1> USE DEF LowestBy
<1> DEFINE rm == m \div g
           rn == n \div g
<1>1. rm \in Int /\ rn \in Int /\ rm * g = m /\ rn * g = n
  BY DividesInto, ExactQuotient
<1> HIDE DEF rm, rn
<1>2. \A k \in Int : k < 0 => k * g < 0
  OBVIOUS
<1>3. rm \in Nat /\ rn \in Nat \ {0}
  <2>1. 0 * g = 0
    OBVIOUS
  <2> QED BY <1>1, <1>2, <2>1
<1>4. PICK x, y \in Int : g = x * m + y * n
  BY DEF Combines
<1>5. g = (x * rm + y * rn) * g
  <2>1. x * (rm * g) = (x * rm) * g /\ y * (rn * g) = (y * rn) * g
    BY <1>1
  <2>2. (x * rm) * g + (y * rn) * g = (x * rm + y * rn) * g
    <3>1. \A s, t \in Int : s * g + t * g = (s + t) * g
      OBVIOUS
    <3>2. x * rm \in Int /\ y * rn \in Int
      BY <1>1
    <3> QED BY <3>1, <3>2
  <2> QED BY <1>1, <1>4, <2>1, <2>2
<1>6. x * rm + y * rn = 1
  <2> DEFINE z == x * rm + y * rn
  <2>1. z \in Int
    BY <1>1
  <2> HIDE DEF z
  <2>2. z >= 2 => z * g >= 2 * g
    BY <2>1
  <2>3. z <= 0 => z * g <= 0
    BY <2>1
  <2>4. g = z * g
    BY <1>5 DEF z
  <2>5. z = 1
    BY <2>1, <2>2, <2>3, <2>4
  <2> QED BY <2>5 DEF z
<1>7. Combines(1, rm, rn)
  BY <1>6 DEF Combines
<1> QED BY <1>1, <1>3, <1>7 DEF rm, rn

(* Nothing else goes into both.                                            *)
LEMMA NothingCommon ==
    ASSUME NEW m \in Nat, NEW n \in Nat, Combines(1, m, n), NEW d \in Nat \ {0},
           Into(d, m), Into(d, n)
    PROVE  d = 1
<1>1. PICK x, y \in Int : 1 = x * m + y * n
  BY DEF Combines
<1>2. PICK j \in Int : m = j * d
  BY DEF Into
<1>3. PICK k \in Int : n = k * d
  BY DEF Into
<1>4. 1 = (x * j + y * k) * d
  <2>1. x * (j * d) = (x * j) * d /\ y * (k * d) = (y * k) * d
    OBVIOUS
  <2>2. \A s, t \in Int : s * d + t * d = (s + t) * d
    OBVIOUS
  <2>3. x * j \in Int /\ y * k \in Int
    OBVIOUS
  <2> QED BY <1>1, <1>2, <1>3, <2>1, <2>2, <2>3
<1> DEFINE z == x * j + y * k
<1>5. z \in Int
  OBVIOUS
<1> HIDE DEF z
<1>6. ASSUME d >= 2 PROVE FALSE
  <2>1. z >= 1 => z * d >= d
    BY <1>5
  <2>2. z <= 0 => z * d <= 0
    BY <1>5
  <2>3. 1 = z * d
    BY <1>4 DEF z
  <2> QED BY <1>5, <1>6, <2>1, <2>2, <2>3
<1> QED BY <1>6

(* A fraction s/t that is equal to it is not smaller in either part.       *)
LEMMA LowestIsLeast ==
    ASSUME NEW m \in Nat, NEW n \in Nat \ {0}, Combines(1, m, n),
           NEW s \in Nat, NEW t \in Nat \ {0}, s * n = m * t
    PROVE  m <= s /\ n <= t
<1>1. PICK x, y \in Int : 1 = x * m + y * n
  BY DEF Combines
<1> DEFINE z == x * s + y * t
<1>2. z \in Int
  OBVIOUS
<1>3. s = z * m
  <2>1. s = s * (x * m + y * n)
    BY <1>1
  <2>2. s * (x * m + y * n) = s * (x * m) + s * (y * n)
    OBVIOUS
  <2>3. s * (x * m) = (x * s) * m
    OBVIOUS
  <2>4. s * (y * n) = y * (s * n) /\ y * (m * t) = (y * t) * m
    OBVIOUS
  <2>5. (x * s) * m + (y * t) * m = z * m
    <3>1. \A j, k \in Int : j * m + k * m = (j + k) * m
      OBVIOUS
    <3>2. x * s \in Int /\ y * t \in Int
      OBVIOUS
    <3> QED BY <3>1, <3>2
  <2> HIDE DEF z
  <2> QED BY <2>1, <2>2, <2>3, <2>4, <2>5
<1>4. t = z * n
  <2>1. t = t * (x * m + y * n)
    BY <1>1
  <2>2. t * (x * m + y * n) = t * (x * m) + t * (y * n)
    OBVIOUS
  <2>3. t * (x * m) = x * (m * t) /\ x * (s * n) = (x * s) * n
    OBVIOUS
  <2>4. t * (y * n) = (y * t) * n
    OBVIOUS
  <2>5. (x * s) * n + (y * t) * n = z * n
    <3>1. \A j, k \in Int : j * n + k * n = (j + k) * n
      OBVIOUS
    <3>2. x * s \in Int /\ y * t \in Int
      OBVIOUS
    <3> QED BY <3>1, <3>2
  <2> HIDE DEF z
  <2> QED BY <2>1, <2>2, <2>3, <2>4, <2>5
<1> HIDE DEF z
<1>5. z >= 1
  <2>1. z <= 0 => z * n <= 0
    BY <1>2
  <2> QED BY <1>2, <1>4, <2>1
<1>6. z * m >= m /\ z * n >= n
  <2>1. \A k \in Nat : z * k >= 1 * k
    BY <1>2, <1>5
  <2> QED BY <2>1
<1> QED BY <1>3, <1>4, <1>6

(* Where Euclid's algorithm stands on m and n: both numbers combine m and  *)
(* n, and whatever goes into both goes into m and n.                       *)
Euclidean(m, n, s, t) ==
    /\ Combines(s, m, n) /\ Combines(t, m, n)
    /\ \A d \in Nat \ {0} : Into(d, s) /\ Into(d, t) => Into(d, m) /\ Into(d, n)

(* It starts with m and n themselves.                                      *)
LEMMA EuclidStarts ==
    ASSUME NEW m \in Int, NEW n \in Int
    PROVE  Euclidean(m, n, m, n)
<1>1. m = 1 * m + 0 * n /\ n = 0 * m + 1 * n
  OBVIOUS
<1>2. Combines(m, m, n) /\ Combines(n, m, n)
  BY <1>1 DEF Combines
<1> QED BY <1>2 DEF Euclidean

(* A turn puts the remainder in the place of the larger.                   *)
LEMMA EuclidTurns ==
    ASSUME NEW m \in Int, NEW n \in Int, NEW s \in Nat, NEW t \in Nat \ {0},
           Euclidean(m, n, s, t)
    PROVE  Euclidean(m, n, t, s % t)
<1> DEFINE q == s \div t
           r == s % t
<1>1. q \in Int /\ r \in Int /\ s = q * t + r
  BY Quotient
<1> HIDE DEF q, r
<1>2. Combines(s, m, n) /\ Combines(t, m, n)
  BY DEF Euclidean
<1>3. Combines(s - q * t, m, n)
  <2>1. s \in Int /\ t \in Int
    OBVIOUS
  <2> QED BY <1>1, <1>2, <2>1, CombinesLess, Zenon
<1>4. s - q * t = r /\ r + q * t = s
  <2>1. q * t \in Int
    BY <1>1
  <2> QED BY <1>1, <2>1
<1>5. ASSUME NEW d \in Nat \ {0}, Into(d, t), Into(d, r)
      PROVE  Into(d, m) /\ Into(d, n)
  <2>1. Into(d, r + q * t)
    <3>1. d \in Int /\ t \in Int
      BY <1>5
    <3> QED BY <1>1, <1>5, <3>1, IntoSum, Zenon
  <2> QED BY <1>4, <1>5, <2>1 DEF Euclidean
<1>6. Euclidean(m, n, t, r)
  BY <1>2, <1>3, <1>4, <1>5 DEF Euclidean
<1> QED BY <1>6 DEF r

(* What is left when one is 0 is a divisor that the two combine.           *)
LEMMA EuclidEnds ==
    ASSUME NEW m \in Nat, NEW n \in Nat \ {0}, NEW g \in Nat \ {0}, Euclidean(m, n, g, 0)
    PROVE  LowestBy(g, m, n)
<1>1. g = 1 * g /\ 0 = 0 * g
  OBVIOUS
<1>2. Into(g, g) /\ Into(g, 0)
  BY <1>1 DEF Into
<1> QED BY <1>2 DEF Euclidean, LowestBy

-----------------------------------------------------------------------------
(* Induction over data.  The theorems of NaturalsInduction take an         *)
(* operator; the same is said here of sets of numbers.                     *)

(* A set of numbers that is not empty has a least one. *)
LEMMA LeastElement ==
    ASSUME NEW T \in SUBSET Nat, T # {}
    PROVE  \E x \in T : \A y \in T : x <= y
<1>1. PICK x \in T : \A y \in T : ~(<< y, x >> \in OpToRel(<, Nat))
  BY NatLessThanWellFounded, WFMin
<1>2. OpToRel(<, Nat) = {ss \in Nat \X Nat : ss[1] < ss[2]}
  BY DEF OpToRel
<1>3. ASSUME NEW y \in T PROVE x <= y
  <2>1. x \in Nat /\ y \in Nat
    BY <1>1
  <2>2. ~(<< y, x >> \in Nat \X Nat /\ << y, x >>[1] < << y, x >>[2])
    BY <1>1, <1>2
  <2> QED BY <2>1, <2>2
<1> QED BY <1>3

(* The function FlattenSeq is defined by: the first n sequences, joined. *)
Joins(g, ss, n) ==
    g = [i \in 1 .. n |-> IF i = 1 THEN ss[i] ELSE g[i - 1] \o ss[i]]

(* There is one, of every length: a shortest that is missing extends the   *)
(* one before it.                                                          *)
LEMMA JoinExists ==
    ASSUME NEW ss, NEW n \in Nat
    PROVE  \E g : Joins(g, ss, n)
<1> DEFINE T == {m \in Nat : ~\E g : Joins(g, ss, m)}
<1> SUFFICES ASSUME T # {} PROVE FALSE
  OBVIOUS
<1>1. PICK m \in T : \A y \in T : m <= y
  <2> HIDE DEF T
  <2>1. T \in SUBSET Nat
    BY DEF T
  <2> QED BY <2>1, LeastElement
<1>2. CASE m = 0
  <2>1. Joins([i \in {} |-> 0], ss, 0)
    BY DEF Joins
  <2> QED BY <1>1, <1>2, <2>1
<1>3. CASE m # 0
  <2>1. m - 1 \in Nat /\ m - 1 \notin T
    BY <1>1, <1>3
  <2>2. PICK g : Joins(g, ss, m - 1)
    BY <2>1
  <2> DEFINE h == [i \in 1 .. m |-> IF i \in 1 .. m - 1 THEN g[i]
                                  ELSE IF i = 1 THEN ss[i] ELSE g[i - 1] \o ss[i]]
  <2>3. ASSUME NEW i \in 1 .. m
        PROVE h[i] = IF i = 1 THEN ss[i] ELSE h[i - 1] \o ss[i]
    <3>1. CASE i = 1
      BY <2>2, <2>3, <3>1 DEF Joins
    <3>2. CASE i # 1
      <4>1. i - 1 \in 1 .. m - 1 /\ h[i - 1] = g[i - 1]
        BY <2>3, <3>2
      <4>2. CASE i \in 1 .. m - 1
        <5>1. g[i] = g[i - 1] \o ss[i]
          BY <2>2, <3>2, <4>2 DEF Joins
        <5> QED BY <4>1, <4>2, <5>1, <3>2
      <4>3. CASE i \notin 1 .. m - 1
        BY <4>1, <4>3, <3>2
      <4> QED BY <4>2, <4>3
    <3> QED BY <3>1, <3>2
  <2>4. Joins(h, ss, m)
    <3>1. h = [i \in 1 .. m |-> h[i]]
      OBVIOUS
    <3> HIDE DEF h
    <3> QED BY <2>3, <3>1 DEF Joins
  <2> QED BY <1>1, <2>4
<1> QED BY <1>2, <1>3

(* It depends only on the sequences it joins. *)
LEMMA JoinUnique ==
    ASSUME NEW ss, NEW tt, NEW n \in Nat, NEW m \in Nat, NEW g, NEW h,
           Joins(g, ss, n), Joins(h, tt, m), n <= m,
           \A i \in 1 .. n : ss[i] = tt[i]
    PROVE  \A i \in 1 .. n : g[i] = h[i]
<1> DEFINE T == {i \in 1 .. n : g[i] # h[i]}
<1> SUFFICES ASSUME T # {} PROVE FALSE
  OBVIOUS
<1>1. PICK k \in T : \A y \in T : k <= y
  <2> HIDE DEF T
  <2>1. T \in SUBSET Nat
    BY DEF T
  <2> QED BY <2>1, LeastElement
<1>2. k \in 1 .. n /\ k \in 1 .. m /\ g[k] # h[k]
  BY <1>1
<1>3. k # 1
  BY <1>2 DEF Joins
<1>4. k - 1 \in 1 .. n /\ g[k - 1] = h[k - 1]
  BY <1>1, <1>2, <1>3
<1>5. g[k] = g[k - 1] \o ss[k] /\ h[k] = h[k - 1] \o tt[k]
  BY <1>2, <1>3 DEF Joins
<1> QED BY <1>2, <1>4, <1>5

(* FlattenSeq is its last value. *)
LEMMA FlattenJoins ==
    ASSUME NEW ss, Len(ss) \in Nat \ {0}
    PROVE  \E g : Joins(g, ss, Len(ss)) /\ FlattenSeq(ss) = g[Len(ss)]
<1> DEFINE flatten[i \in 1 .. Len(ss)] == IF i = 1 THEN ss[i] ELSE flatten[i - 1] \o ss[i]
<1>1. Joins(flatten, ss, Len(ss))
  BY JoinExists DEF Joins
<1>2. FlattenSeq(ss) = flatten[Len(ss)]
  BY DEF FlattenSeq
<1> QED BY <1>1, <1>2

(* Each value is the one before it and the next sequence. *)
LEMMA JoinStep ==
    ASSUME NEW g, NEW ss, NEW m \in Nat, Joins(g, ss, m), NEW n \in Nat \ {0}, n + 1 \in 1 .. m
    PROVE  g[n + 1] = g[n] \o ss[n + 1]
<1>1. n + 1 # 1 /\ (n + 1) - 1 = n
  OBVIOUS
<1>2. g[n + 1] = IF n + 1 = 1 THEN ss[n + 1] ELSE g[(n + 1) - 1] \o ss[n + 1]
  BY DEF Joins
<1> QED BY <1>1, <1>2

(* Nothing joins to nothing. *)
LEMMA FlattenEmpty == FlattenSeq(<< >>) = << >>
  BY DEF FlattenSeq

(* One sequence joins to itself.                                           *)
LEMMA FlattenOne ==
    ASSUME NEW ss, Len(ss) = 1
    PROVE  FlattenSeq(ss) = ss[1]
<1>1. Len(ss) \in Nat \ {0}
  OBVIOUS
<1>2. PICK g : Joins(g, ss, Len(ss)) /\ FlattenSeq(ss) = g[Len(ss)]
  BY <1>1, FlattenJoins
<1> QED BY <1>2 DEF Joins

(* One sequence more is joined at the end. *)
LEMMA FlattenMore ==
    ASSUME NEW S, NEW ss \in Seq(S), Len(ss) > 0, NEW s \in S
    PROVE  FlattenSeq(Append(ss, s)) = FlattenSeq(ss) \o s
<1> DEFINE n == Len(ss)
           tt == Append(ss, s)
<1>1. n \in Nat \ {0} /\ Len(tt) = n + 1 /\ tt[n + 1] = s /\ \A i \in 1 .. n : tt[i] = ss[i]
  BY AppendProperties, LenProperties
<1> HIDE DEF n, tt
<1>2. PICK g : Joins(g, ss, n) /\ FlattenSeq(ss) = g[n]
  BY <1>1, FlattenJoins DEF n
<1>3. PICK h : Joins(h, tt, n + 1) /\ FlattenSeq(tt) = h[n + 1]
  <2>1. Len(tt) \in Nat \ {0}
    BY <1>1
  <2> QED BY <2>1, <1>1, FlattenJoins
<1>4. g[n] = h[n]
  <2>1. n \in Nat /\ n + 1 \in Nat /\ n <= n + 1 /\ n \in 1 .. n
    BY <1>1
  <2> QED BY <2>1, <1>1, <1>2, <1>3, JoinUnique
<1>5. h[n + 1] = h[n] \o tt[n + 1]
  <2>1. n + 1 \in Nat /\ n + 1 \in 1 .. n + 1
    BY <1>1
  <2> QED BY <2>1, <1>1, <1>3, JoinStep
<1> QED BY <1>1, <1>2, <1>3, <1>4, <1>5 DEF tt

(* Induction, on a set of numbers. *)
LEMMA SetInduction ==
    ASSUME NEW P \in SUBSET Nat, 0 \in P, \A n \in P : n + 1 \in P
    PROVE  P = Nat
<1> SUFFICES ASSUME Nat \ P # {} PROVE FALSE
  OBVIOUS
<1>1. PICK m \in Nat \ P : \A y \in Nat \ P : m <= y
  BY LeastElement
<1>2. m - 1 \in P
  BY <1>1
<1> QED BY <1>1, <1>2

(* Sequences of members of S join to one. *)
LEMMA FlattenType ==
    ASSUME NEW S, NEW ss \in Seq(Seq(S))
    PROVE  FlattenSeq(ss) \in Seq(S)
<1>1. CASE Len(ss) = 0
  <2>1. ss = << >>
    BY <1>1, EmptySeq
  <2> QED BY <2>1, FlattenEmpty, EmptySeq
<1>2. CASE Len(ss) # 0
  <2>1. Len(ss) \in Nat \ {0} /\ \A i \in 1 .. Len(ss) : ss[i] \in Seq(S)
    BY <1>2, LenProperties, ElementOfSeq
  <2>2. PICK g : Joins(g, ss, Len(ss)) /\ FlattenSeq(ss) = g[Len(ss)]
    BY <2>1, FlattenJoins
  <2> DEFINE P == {n \in Nat : n \in 1 .. Len(ss) => g[n] \in Seq(S)}
  <2>3. 0 \in P
    OBVIOUS
  <2>4. ASSUME NEW n \in P PROVE n + 1 \in P
    <3> SUFFICES ASSUME n + 1 \in 1 .. Len(ss) PROVE g[n + 1] \in Seq(S)
      OBVIOUS
    <3>1. CASE n = 0
      BY <2>1, <2>2, <3>1 DEF Joins
    <3>2. CASE n # 0
      <4>1. n \in 1 .. Len(ss) /\ g[n] \in Seq(S) /\ ss[n + 1] \in Seq(S)
        BY <2>1, <2>4, <3>2
      <4>2. g[n + 1] = g[n] \o ss[n + 1]
        <5>1. n \in Nat \ {0} /\ Len(ss) \in Nat
          BY <2>1, <3>2
        <5> QED BY <5>1, <2>2, JoinStep
      <4> QED BY <4>1, <4>2, ConcatProperties
    <3> QED BY <3>1, <3>2
  <2>5. P = Nat
    <3>1. P \in SUBSET Nat
      OBVIOUS
    <3> HIDE DEF P
    <3> QED BY <2>3, <2>4, <3>1, SetInduction
  <2> QED BY <2>1, <2>2, <2>5
<1> QED BY <1>1, <1>2

(* One sequence more is joined at the end, of none too. *)
LEMMA FlattenAppend ==
    ASSUME NEW S, NEW ss \in Seq(Seq(S)), NEW s \in Seq(S)
    PROVE  FlattenSeq(Append(ss, s)) = FlattenSeq(ss) \o s
<1>1. CASE Len(ss) = 0
  <2>1. ss = << >> /\ Len(Append(ss, s)) = 1 /\ Append(ss, s)[1] = s
    BY <1>1, EmptySeq, AppendProperties
  <2> QED BY <2>1, FlattenEmpty, FlattenOne, ConcatEmptySeq
<1>2. CASE Len(ss) # 0
  <2>1. Len(ss) > 0
    BY <1>2, LenProperties
  <2> QED BY <2>1, FlattenMore
<1> QED BY <1>1, <1>2

(* What a joined sequence holds. *)
LEMMA ConcatSet ==
    ASSUME NEW S, NEW s \in Seq(S), NEW t \in Seq(S)
    PROVE  ToSet(s \o t) = ToSet(s) \cup ToSet(t)
<1>1. /\ DOMAIN (s \o t) = 1 .. Len(s) + Len(t)
      /\ DOMAIN s = 1 .. Len(s) /\ DOMAIN t = 1 .. Len(t)
      /\ Len(s) \in Nat /\ Len(t) \in Nat
  BY ConcatProperties, LenProperties
<1>2. \A i \in 1 .. Len(s) + Len(t) :
          (s \o t)[i] = IF i <= Len(s) THEN s[i] ELSE t[i - Len(s)]
  BY ConcatProperties
<1>3. ASSUME NEW x \in ToSet(s \o t) PROVE x \in ToSet(s) \cup ToSet(t)
  BY <1>1, <1>2, <1>3 DEF ToSet
<1>4. ASSUME NEW x \in ToSet(s) PROVE x \in ToSet(s \o t)
  BY <1>1, <1>2, <1>4 DEF ToSet
<1>5. ASSUME NEW x \in ToSet(t) PROVE x \in ToSet(s \o t)
  <2>1. PICK i \in 1 .. Len(t) : x = t[i]
    BY <1>1, <1>5 DEF ToSet
  <2>2. i + Len(s) \in 1 .. Len(s) + Len(t) /\ (s \o t)[i + Len(s)] = x
    BY <1>1, <1>2, <2>1
  <2> QED BY <1>1, <2>2 DEF ToSet
<1> QED BY <1>3, <1>4, <1>5

(* What is joined is what there was, and nothing else. *)
LEMMA FlattenElements ==
    ASSUME NEW S, NEW ss \in Seq(Seq(S)), NEW x
    PROVE  x \in ToSet(FlattenSeq(ss)) <=> \E i \in 1 .. Len(ss) : x \in ToSet(ss[i])
<1> DEFINE F == FlattenSeq(ss)
<1>1. CASE Len(ss) = 0
  <2>1. F = << >> /\ 1 .. Len(ss) = {}
    BY <1>1, FlattenEmpty, EmptySeq
  <2>2. ToSet(F) = {}
    BY <2>1 DEF ToSet
  <2> QED BY <2>1, <2>2
<1>2. CASE Len(ss) # 0
  <2>1. Len(ss) \in Nat \ {0} /\ \A i \in 1 .. Len(ss) : ss[i] \in Seq(S)
    BY <1>2, LenProperties, ElementOfSeq
  <2>2. PICK g : Joins(g, ss, Len(ss)) /\ F = g[Len(ss)]
    BY <2>1, FlattenJoins
  <2> DEFINE In(n) == x \in ToSet(g[n]) <=> \E i \in 1 .. n : x \in ToSet(ss[i])
             P == {n \in Nat : n \in 1 .. Len(ss) => g[n] \in Seq(S) /\ In(n)}
  <2>3. 0 \in P
    OBVIOUS
  <2>4. ASSUME NEW n \in P PROVE n + 1 \in P
    <3> SUFFICES ASSUME n + 1 \in 1 .. Len(ss) PROVE g[n + 1] \in Seq(S) /\ In(n + 1)
      OBVIOUS
    <3>1. CASE n = 0
      <4>1. g[1] = ss[1]
        BY <2>1, <2>2 DEF Joins
      <4> QED BY <2>1, <3>1, <4>1
    <3>2. CASE n # 0
      <4>1. n \in Nat \ {0} /\ n \in 1 .. Len(ss) /\ g[n] \in Seq(S) /\ In(n)
        BY <2>1, <3>2
      <4>2. ss[n + 1] \in Seq(S)
        BY <2>1
      <4>3. g[n + 1] = g[n] \o ss[n + 1]
        BY <2>1, <2>2, <4>1, JoinStep
      <4>4. g[n + 1] \in Seq(S) /\ ToSet(g[n + 1]) = ToSet(g[n]) \cup ToSet(ss[n + 1])
        BY <4>1, <4>2, <4>3, ConcatProperties, ConcatSet
      <4>5. x \in ToSet(g[n + 1]) <=> x \in ToSet(g[n]) \/ x \in ToSet(ss[n + 1])
        BY <4>4
      <4> QED BY <4>1, <4>4, <4>5
    <3> QED BY <3>1, <3>2
  <2>5. P = Nat
    <3>1. P \in SUBSET Nat
      OBVIOUS
    <3> HIDE DEF P
    <3> QED BY <2>3, <2>4, <3>1, SetInduction
  <2>6. In(Len(ss))
    BY <2>1, <2>5
  <2> QED BY <2>2, <2>6
<1> QED BY <1>1, <1>2

-----------------------------------------------------------------------------
(* How many places of a sequence hold a member of R. *)
Tally(s, R) == Cardinality({n \in DOMAIN s : s[n] \in R})

(* The places of a sequence that satisfy anything are finitely many.       *)
LEMMA PlacesFinite ==
    ASSUME NEW S, NEW s \in Seq(S), NEW P \in SUBSET DOMAIN s
    PROVE  IsFiniteSet(P) /\ Cardinality(P) \in Nat
<1>1. DOMAIN s = 1 .. Len(s) /\ Len(s) \in Int
  BY LenProperties
<1>2. IsFiniteSet(1 .. Len(s))
  BY <1>1, FS_Interval
<1> QED BY <1>1, <1>2, FS_Subset, FS_CardinalityType

(* A tally is a number. *)
LEMMA TallyNatural ==
    ASSUME NEW S, NEW s \in Seq(S), NEW R
    PROVE  Tally(s, R) \in Nat
<1>1. {n \in DOMAIN s : s[n] \in R} \in SUBSET DOMAIN s
  OBVIOUS
<1> QED BY <1>1, PlacesFinite DEF Tally

(* It is 0 if nothing is held. *)
LEMMA TallyNone ==
    ASSUME NEW S, NEW s \in Seq(S), NEW R
    PROVE  Tally(s, R) = 0 <=> \A n \in DOMAIN s : s[n] \notin R
<1> DEFINE P == {n \in DOMAIN s : s[n] \in R}
<1>1. IsFiniteSet(P)
  <2>1. P \in SUBSET DOMAIN s
    OBVIOUS
  <2> HIDE DEF P
  <2> QED BY <2>1, PlacesFinite
<1>2. Cardinality(P) = 0 <=> P = {}
  <2> HIDE DEF P
  <2> QED BY <1>1, FS_EmptySet
<1> QED BY <1>2 DEF Tally

(* Of all members it is the length. *)
LEMMA TallyAll ==
    ASSUME NEW S, NEW s \in Seq(S), NEW R, S \subseteq R
    PROVE  Tally(s, R) = Len(s)
<1>1. DOMAIN s = 1 .. Len(s) /\ Len(s) \in Nat /\ \A n \in 1 .. Len(s) : s[n] \in S
  BY LenProperties, ElementOfSeq
<1>2. {n \in DOMAIN s : s[n] \in R} = 1 .. Len(s)
  BY <1>1
<1>3. Cardinality(1 .. Len(s)) = Len(s)
  <2>1. 1 \in Int /\ Len(s) \in Int
    BY <1>1
  <2>2. Cardinality(1 .. Len(s)) = IF 1 > Len(s) THEN 0 ELSE Len(s) - 1 + 1
    BY <2>1, FS_Interval
  <2> QED BY <1>1, <2>2
<1> QED BY <1>2, <1>3 DEF Tally

(* What is moved by a number is as many. *)
LEMMA ShiftedCount ==
    ASSUME NEW P \in SUBSET Nat, NEW k \in Nat, IsFiniteSet(P)
    PROVE  /\ IsFiniteSet({n + k : n \in P})
           /\ Cardinality({n + k : n \in P}) = Cardinality(P)
<1> DEFINE Q == {n + k : n \in P}
           f == [n \in P |-> n + k]
<1>1. f \in Bijection(P, Q)
  <2>1. f \in [P -> Q] /\ (\A a, b \in P : f[a] = f[b] => a = b) /\ (\A q \in Q : \E a \in P : f[a] = q)
    OBVIOUS
  <2> HIDE DEF f, Q
  <2> QED BY <2>1, Fun_IsBij
<1>2. ExistsBijection(P, Q)
  <2> HIDE DEF f, Q
  <2> QED BY <1>1 DEF ExistsBijection
<1> HIDE DEF Q
<1>3. IsFiniteSet(Q) /\ Cardinality(Q) = Cardinality(P)
  BY <1>2, FS_Bijection
<1> QED BY <1>3 DEF Q

(* What a joined sequence holds is what its parts hold. *)
LEMMA TallyConcat ==
    ASSUME NEW S, NEW s \in Seq(S), NEW t \in Seq(S), NEW R
    PROVE  Tally(s \o t, R) = Tally(s, R) + Tally(t, R)
<1> DEFINE u == s \o t
           A == {n \in DOMAIN s : s[n] \in R}
           B == {n \in DOMAIN t : t[n] \in R}
           C == {n + Len(s) : n \in B}
           U == {n \in DOMAIN u : u[n] \in R}
<1>1. /\ DOMAIN u = 1 .. Len(s) + Len(t)
      /\ DOMAIN s = 1 .. Len(s) /\ DOMAIN t = 1 .. Len(t)
      /\ Len(s) \in Nat /\ Len(t) \in Nat
      /\ \A i \in 1 .. Len(s) + Len(t) :
             u[i] = IF i <= Len(s) THEN s[i] ELSE t[i - Len(s)]
  BY ConcatProperties, LenProperties
<1> HIDE DEF u
<1>2. U = A \cup C
  <2>1. ASSUME NEW n \in U PROVE n \in A \cup C
    <3>1. CASE n <= Len(s)
      BY <1>1, <3>1
    <3>2. CASE ~(n <= Len(s))
      <4>1. n - Len(s) \in B /\ n = (n - Len(s)) + Len(s)
        BY <1>1, <3>2
      <4> QED BY <4>1
    <3> QED BY <3>1, <3>2
  <2>2. ASSUME NEW n \in A PROVE n \in U
    BY <1>1
  <2>3. ASSUME NEW n \in B PROVE n + Len(s) \in U
    <3>1. n \in 1 .. Len(t) /\ t[n] \in R
      BY <1>1
    <3>2. n + Len(s) \in 1 .. Len(s) + Len(t) /\ ~(n + Len(s) <= Len(s)) /\ (n + Len(s)) - Len(s) = n
      BY <1>1, <3>1
    <3> QED BY <1>1, <3>1, <3>2
  <2> QED BY <2>1, <2>2, <2>3
<1>3. A \cap C = {}
  BY <1>1
<1>4. IsFiniteSet(A) /\ IsFiniteSet(B) /\ B \in SUBSET Nat
  <2>1. A \in SUBSET DOMAIN s /\ B \in SUBSET DOMAIN t
    OBVIOUS
  <2>2. B \in SUBSET Nat
    BY <1>1
  <2> HIDE DEF A, B
  <2> QED BY <2>1, <2>2, PlacesFinite
<1>5. IsFiniteSet(C) /\ Cardinality(C) = Cardinality(B)
  <2> HIDE DEF B
  <2> QED BY <1>1, <1>4, ShiftedCount
<1>6. Cardinality(A) \in Nat /\ Cardinality(C) \in Nat
  <2> HIDE DEF A, C
  <2> QED BY <1>4, <1>5, FS_CardinalityType
<1>7. Cardinality(U) = Cardinality(A) + Cardinality(C)
  <2> HIDE DEF A, C, U
  <2>1. Cardinality(A \cup C) = Cardinality(A) + Cardinality(C) - Cardinality({})
    BY <1>3, <1>4, <1>5, FS_Union
  <2> QED BY <1>2, <1>6, <2>1, FS_EmptySet
<1>8. Tally(u, R) = Tally(s, R) + Tally(t, R)
  BY <1>5, <1>7 DEF Tally
<1> QED BY <1>8 DEF u

(* A conditional member is there once or not. *)
LEMMA TallyOne ==
    ASSUME NEW r, NEW R
    PROVE  /\ Tally(<< r >>, R) = IF r \in R THEN 1 ELSE 0
           /\ Tally(<< >>, R) = 0
<1>1. {n \in DOMAIN << r >> : << r >>[n] \in R} = IF r \in R THEN {1} ELSE {}
  OBVIOUS
<1>2. {n \in DOMAIN << >> : << >>[n] \in R} = {}
  OBVIOUS
<1>3. Cardinality({1}) = 1 /\ Cardinality({}) = 0
  BY FS_Singleton, FS_EmptySet
<1> QED BY <1>1, <1>2, <1>3 DEF Tally

(* Two tallies of what cannot be both are the tally of either. *)
LEMMA TallySplit ==
    ASSUME NEW S, NEW s \in Seq(S), NEW R, NEW Q, R \cap Q = {}
    PROVE  Tally(s, R \cup Q) = Tally(s, R) + Tally(s, Q)
<1> DEFINE A == {n \in DOMAIN s : s[n] \in R}
           B == {n \in DOMAIN s : s[n] \in Q}
           U == {n \in DOMAIN s : s[n] \in R \cup Q}
<1>1. U = A \cup B /\ A \cap B = {} /\ A \in SUBSET DOMAIN s /\ B \in SUBSET DOMAIN s
  OBVIOUS
<1>2. Cardinality(U) = Cardinality(A) + Cardinality(B)
  <2> HIDE DEF A, B, U
  <2>1. IsFiniteSet(A) /\ IsFiniteSet(B) /\ Cardinality(A) \in Nat /\ Cardinality(B) \in Nat
    BY <1>1, PlacesFinite
  <2>2. Cardinality(A \cup B) = Cardinality(A) + Cardinality(B) - Cardinality({})
    BY <1>1, <2>1, FS_Union
  <2> QED BY <1>1, <2>1, <2>2, FS_EmptySet
<1> QED BY <1>2 DEF Tally

(* Parts of a sequence of sequences, disjoint shares of a set, and parts   *)
(* that hold as many of R as s holds of each share.                        *)
Parts(ss, m, S) == m \in Nat /\ ss \in [1 .. m -> Seq(S)]

Shares(P, m, T) ==
    P \in [1 .. m -> SUBSET T] /\ \A i, j \in 1 .. m : i # j => P[i] \cap P[j] = {}

TalliesAre(ss, R, s, P, m) == \A i \in 1 .. m : Tally(ss[i], R) = Tally(s, P[i])

(* If each part holds as many of R as s holds of its share, then what is   *)
(* joined holds as many as s holds of all the shares.                      *)
LEMMA TallyFlatten ==
    ASSUME NEW S, NEW m, NEW ss, Parts(ss, m, S), NEW R, NEW T, NEW s \in Seq(T),
           NEW P, Shares(P, m, T), TalliesAre(ss, R, s, P, m)
    PROVE  Tally(FlattenSeq(ss), R) = Tally(s, UNION {P[i] : i \in 1 .. m})
<1> USE DEF Parts, Shares, TalliesAre
<1>1. CASE m = 0
  <2>1. ss = << >> /\ 1 .. m = {}
    BY <1>1, EmptySeq, SeqDef
  <2>2. UNION {P[i] : i \in 1 .. m} = {}
    BY <2>1
  <2>3. Tally(s, {}) = 0
    BY TallyNone
  <2> QED BY <2>1, <2>2, <2>3, FlattenEmpty, TallyOne
<1>2. CASE m # 0
  <2>1. Len(ss) = m /\ Len(ss) \in Nat \ {0}
    BY <1>2
  <2>2. PICK g : Joins(g, ss, m) /\ FlattenSeq(ss) = g[m]
    BY <2>1, FlattenJoins
  <2>7. ASSUME NEW n \in Nat \ {0}, n + 1 \in 1 .. m PROVE g[n + 1] = g[n] \o ss[n + 1]
    <3>1. n + 1 # 1 /\ (n + 1) - 1 = n
      BY <2>7
    <3>2. g[n + 1] = IF n + 1 = 1 THEN ss[n + 1] ELSE g[(n + 1) - 1] \o ss[n + 1]
      BY <2>2, <2>7 DEF Joins
    <3> QED BY <3>1, <3>2
  <2>8. \A A, B : A \cap B = {} => Tally(s, A \cup B) = Tally(s, A) + Tally(s, B)
    BY TallySplit
  <2> DEFINE Upto(n) == UNION {P[i] : i \in 1 .. n}
             Good(n) == g[n] \in Seq(S) /\ Tally(g[n], R) = Tally(s, Upto(n))
             M == {n \in Nat : n \in 1 .. m => Good(n)}
  <2>3. 0 \in M
    OBVIOUS
  <2>4. ASSUME NEW n \in M PROVE n + 1 \in M
    <3> SUFFICES ASSUME n + 1 \in 1 .. m PROVE Good(n + 1)
      OBVIOUS
    <3>1. CASE n = 0
      <4>1. g[1] = ss[1] /\ 1 \in 1 .. m
        BY <1>2, <2>2 DEF Joins
      <4>2. Upto(1) = P[1] /\ n + 1 = 1
        BY <3>1
      <4>3. ss[1] \in Seq(S) /\ Tally(ss[1], R) = Tally(s, P[1])
        BY <4>1
      <4> HIDE DEF Upto
      <4> QED BY <4>1, <4>2, <4>3
    <3>2. CASE n # 0
      <4>1. n \in Nat \ {0} /\ n \in 1 .. m /\ Good(n)
        BY <2>4, <3>2
      <4>2. g[n + 1] = g[n] \o ss[n + 1]
        BY <2>7, <4>1
      <4>3. g[n] \in Seq(S) /\ ss[n + 1] \in Seq(S)
        BY <4>1
      <4>4. Tally(g[n + 1], R) = Tally(g[n], R) + Tally(ss[n + 1], R) /\ g[n + 1] \in Seq(S)
        BY <4>2, <4>3, TallyConcat, ConcatProperties
      <4>5. Upto(n + 1) = Upto(n) \cup P[n + 1]
        <5>1. 1 .. n + 1 = (1 .. n) \cup {n + 1}
          BY <4>1
        <5> QED BY <5>1
      <4>6. Upto(n) \cap P[n + 1] = {}
        <5>1. \A i \in 1 .. n : i \in 1 .. m /\ i # n + 1
          BY <4>1
        <5> QED BY <5>1
      <4>7. Tally(s, Upto(n + 1)) = Tally(s, Upto(n)) + Tally(s, P[n + 1])
        <5> HIDE DEF Upto
        <5> QED BY <2>8, <4>5, <4>6
      <4> HIDE DEF Upto
      <4> QED BY <4>1, <4>4, <4>7
    <3> QED BY <3>1, <3>2
  <2>5. M = Nat
    <3>1. M \in SUBSET Nat
      OBVIOUS
    <3> HIDE DEF M
    <3> QED BY <2>3, <2>4, <3>1, SetInduction
  <2>6. Good(m)
    <3>1. m \in M /\ m \in 1 .. m
      <4> HIDE DEF M
      <4> QED BY <1>2, <2>5
    <3> QED BY <3>1
  <2> QED BY <2>2, <2>6
<1> QED BY <1>1, <1>2

(* The parts at the places Q hold one of R, the others none. *)
HeldAt(ss, R, Q, m) == \A n \in 1 .. m : Tally(ss[n], R) = IF n \in Q THEN 1 ELSE 0

(* What is joined from such parts holds as many as there are such places.  *)
LEMMA TallyPlaces ==
    ASSUME NEW S, NEW m, NEW ss, Parts(ss, m, S), NEW R, NEW Q \in SUBSET (1 .. m),
           HeldAt(ss, R, Q, m)
    PROVE  Tally(FlattenSeq(ss), R) = Cardinality(Q)
<1> DEFINE s == [n \in 1 .. m |-> n]
           P == [n \in 1 .. m |-> Q \cap {n}]
<1>0. m \in Nat
  BY DEF Parts
<1>1. s \in Seq(1 .. m)
  BY <1>0, SeqDef
<1>2. DOMAIN s = 1 .. m /\ \A n \in 1 .. m : s[n] = n
  OBVIOUS
<1>3. Shares(P, m, 1 .. m)
  BY DEF Shares
<1>4. ASSUME NEW n \in 1 .. m PROVE Tally(ss[n], R) = Tally(s, P[n])
  <2>1. {k \in DOMAIN s : s[k] \in P[n]} = IF n \in Q THEN {n} ELSE {}
    OBVIOUS
  <2>2. Cardinality({n}) = 1 /\ Cardinality({}) = 0
    BY FS_Singleton, FS_EmptySet
  <2> HIDE DEF s, P
  <2>3. Tally(s, P[n]) = IF n \in Q THEN 1 ELSE 0
    BY <2>1, <2>2 DEF Tally
  <2>4. Tally(ss[n], R) = IF n \in Q THEN 1 ELSE 0
    BY DEF HeldAt
  <2> QED BY <2>3, <2>4
<1>5. UNION {P[i] : i \in 1 .. m} = Q
  <2>1. \A i \in 1 .. m : P[i] = Q \cap {i}
    OBVIOUS
  <2> HIDE DEF P
  <2>2. \A x \in UNION {P[i] : i \in 1 .. m} : x \in Q
    BY <2>1
  <2>3. \A x \in Q : x \in P[x]
    BY <2>1
  <2>4. \A x \in Q : x \in UNION {P[i] : i \in 1 .. m}
    BY <2>3
  <2> QED BY <2>2, <2>4
<1>6. {n \in DOMAIN s : s[n] \in Q} = Q
  OBVIOUS
<1> HIDE DEF s, P
<1>7. Tally(FlattenSeq(ss), R) = Tally(s, UNION {P[i] : i \in 1 .. m})
  <2>1. TalliesAre(ss, R, s, P, m)
    BY <1>4 DEF TalliesAre
  <2> QED BY <1>1, <1>3, <2>1, TallyFlatten
<1>8. Tally(s, Q) = Cardinality(Q)
  BY <1>6 DEF Tally
<1> QED BY <1>5, <1>7, <1>8

(* How far the parts reach when they are joined. *)
Reach(c, ss, m) ==
    c \in [0 .. m -> Nat] /\ c[0] = 0 /\ \A i \in 1 .. m : c[i] = c[i - 1] + Len(ss[i])

(* The first n parts stand in s, each from where the one before it ends.   *)
StandsTo(s, c, ss, n) ==
    /\ Len(s) = c[n]
    /\ \A i \in 1 .. n : \A x \in 1 .. Len(ss[i]) : s[c[i - 1] + x] = ss[i][x]

(* Where each part stands in what is joined. *)
LEMMA FlattenAt ==
    ASSUME NEW S, NEW m, NEW ss, Parts(ss, m, S), NEW c, Reach(c, ss, m)
    PROVE  StandsTo(FlattenSeq(ss), c, ss, m)
<1> USE DEF Parts
<1>0. /\ \A i \in 0 .. m : c[i] \in Nat
      /\ c[0] = 0
      /\ \A i \in 1 .. m : c[i] = c[i - 1] + Len(ss[i])
      /\ \A i \in 1 .. m : ss[i] \in Seq(S) /\ Len(ss[i]) \in Nat
  BY LenProperties DEF Reach
<1>1. CASE m = 0
  <2>1. ss = << >>
    BY <1>1, EmptySeq, SeqDef
  <2>2. Len(FlattenSeq(ss)) = 0
    BY <2>1, FlattenEmpty
  <2> QED BY <1>0, <1>1, <2>2 DEF StandsTo
<1>2. CASE m # 0
  <2>1. Len(ss) = m /\ Len(ss) \in Nat \ {0}
    BY <1>2
  <2>2. PICK g : Joins(g, ss, m) /\ FlattenSeq(ss) = g[m]
    BY <2>1, FlattenJoins
  <2> DEFINE Good(n) == /\ g[n] \in Seq(S) /\ StandsTo(g[n], c, ss, n)
                        /\ \A i \in 1 .. n : c[i] <= c[n]
             M == {n \in Nat : n \in 1 .. m => Good(n)}
  <2>3. 0 \in M
    OBVIOUS
  <2>4. ASSUME NEW n \in M PROVE n + 1 \in M
    <3> SUFFICES ASSUME n + 1 \in 1 .. m PROVE Good(n + 1)
      OBVIOUS
    <3>1. CASE n = 0
      <4>1. g[1] = ss[1] /\ 1 \in 1 .. m /\ ss[1] \in Seq(S)
        BY <1>0, <1>2, <2>2 DEF Joins
      <4>2. c[1 - 1] = 0 /\ c[1] = Len(ss[1])
        BY <1>0, <4>1
      <4>3. \A x \in 1 .. Len(ss[1]) : c[1 - 1] + x = x
        BY <4>2
      <4>4. StandsTo(g[1], c, ss, 1)
        BY <4>1, <4>2, <4>3 DEF StandsTo
      <4> QED BY <3>1, <4>1, <4>2, <4>4
    <3>2. CASE n # 0
      <4>1. n \in Nat \ {0} /\ n \in 1 .. m /\ Good(n)
        BY <2>4, <3>2
      <4>2. g[n + 1] = g[n] \o ss[n + 1]
        BY <2>2, <4>1, JoinStep
      <4> DEFINE u == g[n + 1]
                 s == g[n]
                 t == ss[n + 1]
      <4>3. s \in Seq(S) /\ t \in Seq(S) /\ c[n] \in Nat /\ c[n + 1] = c[n] + Len(t)
        <5>1. c[n + 1] = c[(n + 1) - 1] + Len(ss[n + 1]) /\ (n + 1) - 1 = n
          BY <1>0
        <5> QED BY <1>0, <4>1, <5>1
      <4>4. Len(s) = c[n] /\ \A i \in 1 .. n : c[i] <= c[n]
        BY <4>1 DEF StandsTo
      <4>5. ASSUME NEW i \in 1 .. n PROVE \A x \in 1 .. Len(ss[i]) : s[c[i - 1] + x] = ss[i][x]
        BY <4>1 DEF StandsTo
      <4> HIDE DEF u, s, t
      <4>6. u = s \o t
        BY <4>2 DEF u, s, t
      <4>7. /\ Len(u) = Len(s) + Len(t) /\ u \in Seq(S)
            /\ Len(s) \in Nat /\ Len(t) \in Nat
            /\ \A k \in 1 .. Len(s) + Len(t) :
                   u[k] = IF k <= Len(s) THEN s[k] ELSE t[k - Len(s)]
        BY <4>3, <4>6, ConcatProperties, LenProperties
      <4>8. ASSUME NEW i \in 1 .. n + 1 PROVE c[i] <= c[n + 1]
        <5>1. CASE i = n + 1
          BY <4>3, <4>7, <5>1
        <5>2. CASE i # n + 1
          <6>1. i \in 1 .. n
            BY <5>2
          <6>2. c[i] <= c[n] /\ c[i] \in Nat
            BY <1>0, <4>1, <4>4, <6>1
          <6> QED BY <4>3, <4>7, <6>2
        <5> QED BY <5>1, <5>2
      <4>9. ASSUME NEW i \in 1 .. n + 1, NEW x \in 1 .. Len(ss[i]) PROVE u[c[i - 1] + x] = ss[i][x]
        <5>1. CASE i = n + 1
          <6>1. i - 1 = n /\ ss[i] = t
            BY <5>1 DEF t
          <6>2. c[n] + x \in 1 .. Len(s) + Len(t) /\ ~(c[n] + x <= Len(s))
                    /\ (c[n] + x) - Len(s) = x
            BY <4>3, <4>4, <4>7, <6>1
          <6> QED BY <4>7, <6>1, <6>2
        <5>2. CASE i # n + 1
          <6>1. i \in 1 .. n /\ i \in 1 .. m /\ i - 1 \in 0 .. m
            BY <4>1, <5>2
          <6>2. c[i] <= c[n] /\ c[i] = c[i - 1] + Len(ss[i]) /\ c[i - 1] \in Nat
                    /\ Len(ss[i]) \in Nat
            BY <1>0, <4>4, <6>1
          <6>3. c[i - 1] + x \in 1 .. Len(s)
            <7> DEFINE a == c[i - 1]
                       b == Len(ss[i])
                       d == Len(s)
            <7>1. a \in Nat /\ b \in Nat /\ d \in Nat /\ x \in 1 .. b /\ a + b <= d
              BY <4>4, <4>7, <6>2
            <7> HIDE DEF a, b, d
            <7>2. a + x \in 1 .. d
              BY <7>1
            <7> QED BY <7>2 DEF a, d
          <6>4. c[i - 1] + x \in 1 .. Len(s) + Len(t) /\ c[i - 1] + x <= Len(s)
            BY <4>7, <6>3
          <6>5. s[c[i - 1] + x] = ss[i][x]
            BY <4>5, <6>1
          <6> QED BY <4>7, <6>4, <6>5
        <5> QED BY <5>1, <5>2
      <4>10. StandsTo(u, c, ss, n + 1)
        BY <4>3, <4>4, <4>7, <4>9 DEF StandsTo
      <4> QED BY <4>7, <4>8, <4>10 DEF u
    <3> QED BY <3>1, <3>2
  <2>5. M = Nat
    <3>1. M \in SUBSET Nat
      OBVIOUS
    <3> HIDE DEF M
    <3> QED BY <2>3, <2>4, <3>1, SetInduction
  <2>6. Good(m)
    <3>1. m \in M /\ m \in 1 .. m
      <4> HIDE DEF M
      <4> QED BY <1>2, <2>5
    <3> QED BY <3>1
  <2> QED BY <2>2, <2>6
<1> QED BY <1>1, <1>2

(* How many of the numbers in Q are at most n. *)
CountTo(Q, n) == Cardinality(Q \cap (1 .. n))

LEMMA CountGrows ==
    ASSUME NEW m \in Nat, NEW Q \in SUBSET (1 .. m)
    PROVE  /\ CountTo(Q, 0) = 0 /\ CountTo(Q, m) = Cardinality(Q)
           /\ \A n \in 0 .. m : CountTo(Q, n) \in Nat
           /\ \A n \in 1 .. m : CountTo(Q, n) = CountTo(Q, n - 1) + (IF n \in Q THEN 1 ELSE 0)
           /\ \A n \in Q : CountTo(Q, n) \in 1 .. Cardinality(Q)
<1>1. Q \cap (1 .. 0) = {} /\ Q \cap (1 .. m) = Q
  <2>1. 1 .. 0 = {}
    OBVIOUS
  <2>2. \A n \in Q : n \in 1 .. m
    OBVIOUS
  <2> QED BY <2>1, <2>2, Zenon
<1>2. \A n \in 0 .. m : IsFiniteSet(Q \cap (1 .. n)) /\ CountTo(Q, n) \in Nat
  <2>1. ASSUME NEW n \in 0 .. m PROVE IsFiniteSet(Q \cap (1 .. n))
    <3>1. IsFiniteSet(1 .. n)
      BY FS_Interval
    <3>2. Q \cap (1 .. n) \subseteq 1 .. n
      OBVIOUS
    <3> QED BY <3>1, <3>2, FS_Subset
  <2> QED BY <2>1, FS_CardinalityType DEF CountTo
<1>3. ASSUME NEW n \in 1 .. m
      PROVE  CountTo(Q, n) = CountTo(Q, n - 1) + (IF n \in Q THEN 1 ELSE 0)
  <2>1. n - 1 \in 0 .. m
    OBVIOUS
  <2>2. CASE n \in Q
    <3>1. Q \cap (1 .. n) = (Q \cap (1 .. n - 1)) \cup {n} /\ n \notin Q \cap (1 .. n - 1)
      BY <2>2
    <3> QED BY <1>2, <2>1, <2>2, <3>1, FS_AddElement DEF CountTo
  <2>3. CASE n \notin Q
    <3>1. Q \cap (1 .. n) = Q \cap (1 .. n - 1)
      BY <2>3
    <3>2. CountTo(Q, n) = CountTo(Q, n - 1) /\ CountTo(Q, n - 1) \in Nat
      BY <1>2, <2>1, <3>1 DEF CountTo
    <3> QED BY <2>3, <3>2
  <2> QED BY <2>2, <2>3
<1>4. ASSUME NEW n \in Q PROVE CountTo(Q, n) \in 1 .. Cardinality(Q)
  <2>1. n \in 1 .. m /\ n - 1 \in 0 .. m /\ n \in 0 .. m /\ m \in 0 .. m
    OBVIOUS
  <2>2. CountTo(Q, n) = CountTo(Q, n - 1) + 1 /\ CountTo(Q, n - 1) \in Nat
    BY <1>2, <1>3, <2>1
  <2>3. IsFiniteSet(Q) /\ Cardinality(Q) \in Nat
    BY <1>1, <1>2, <2>1 DEF CountTo
  <2>4. Q \cap (1 .. n) \subseteq Q
    OBVIOUS
  <2>5. Cardinality(Q \cap (1 .. n)) <= Cardinality(Q)
    BY <2>3, <2>4, FS_Subset
  <2> QED BY <2>2, <2>3, <2>5 DEF CountTo
<1> QED BY <1>1, <1>2, <1>3, <1>4, FS_EmptySet DEF CountTo

(* A part of one member at the places Q, none at the others. *)
MarkedBy(ss, s, Q, m) ==
    \A n \in 1 .. m : ss[n] = IF n \in Q THEN << s[n] >> ELSE << >>

(* What is joined has the marked members in their order. *)
LEMMA FlattenMarked ==
    ASSUME NEW S, NEW m, NEW ss, Parts(ss, m, S), NEW s, NEW Q \in SUBSET (1 .. m),
           MarkedBy(ss, s, Q, m)
    PROVE  /\ Len(FlattenSeq(ss)) = Cardinality(Q)
           /\ \A n \in Q : FlattenSeq(ss)[CountTo(Q, n)] = s[n]
<1> DEFINE c == [n \in 0 .. m |-> CountTo(Q, n)]
<1>0. m \in Nat
  BY DEF Parts
<1>1. /\ \A n \in 0 .. m : c[n] = CountTo(Q, n) /\ c[n] \in Nat
      /\ \A n \in 1 .. m : c[n] = c[n - 1] + (IF n \in Q THEN 1 ELSE 0)
      /\ c[0] = 0 /\ c[m] = Cardinality(Q)
  <2>1. 0 \in 0 .. m /\ m \in 0 .. m /\ \A n \in 1 .. m : n \in 0 .. m /\ n - 1 \in 0 .. m
    BY <1>0
  <2> QED BY <1>0, <2>1, CountGrows
<1>2. c \in [0 .. m -> Nat]
  BY <1>1
<1> HIDE DEF c
<1>3. ASSUME NEW n \in 1 .. m
      PROVE  /\ Len(ss[n]) = IF n \in Q THEN 1 ELSE 0
             /\ n \in Q => ss[n][1] = s[n]
  <2> DEFINE t == ss[n]
  <2>1. t = IF n \in Q THEN << s[n] >> ELSE << >>
    BY DEF MarkedBy
  <2> HIDE DEF t
  <2>2. CASE n \in Q
    <3>1. t = << s[n] >>
      BY <2>1, <2>2
    <3>2. Len(t) = 1 /\ t[1] = s[n]
      BY <3>1
    <3> QED BY <2>2, <3>2 DEF t
  <2>3. CASE n \notin Q
    <3>1. t = << >>
      BY <2>1, <2>3
    <3>2. Len(t) = 0
      BY <3>1
    <3> QED BY <2>3, <3>2 DEF t
  <2> QED BY <2>2, <2>3
<1>4. Reach(c, ss, m)
  <2>1. ASSUME NEW n \in 1 .. m PROVE c[n] = c[n - 1] + Len(ss[n])
    BY <1>1, <1>3
  <2> QED BY <1>1, <1>2, <2>1 DEF Reach
<1>5. StandsTo(FlattenSeq(ss), c, ss, m)
  BY <1>4, FlattenAt
<1>6. ASSUME NEW n \in Q PROVE FlattenSeq(ss)[CountTo(Q, n)] = s[n]
  <2>1. n \in 1 .. m /\ n \in 0 .. m /\ n - 1 \in 0 .. m
    BY <1>0
  <2>2. ss[n][1] = s[n] /\ 1 \in 1 .. Len(ss[n])
    BY <1>3, <2>1
  <2>3. c[n - 1] + 1 = CountTo(Q, n)
    BY <1>1, <2>1
  <2>4. FlattenSeq(ss)[c[n - 1] + 1] = ss[n][1]
    BY <1>5, <2>1, <2>2 DEF StandsTo
  <2> QED BY <2>2, <2>3, <2>4
<1> QED BY <1>1, <1>5, <1>6 DEF StandsTo

-----------------------------------------------------------------------------
(* The function a sum is defined by: the sums over the subsets of S, one   *)
(* member taken away at a time.                                            *)
SumOver(h, f, s) == IF s = {} THEN 0 ELSE LET x == CHOOSE x \in s : TRUE IN f[x] + h[s \ {x}]

Sums(h, f, S) == h = [s \in SUBSET S |-> SumOver(h, f, s)]

(* Taking a member away leaves one less. *)
LEMMA OneLess ==
    ASSUME NEW s, IsFiniteSet(s), NEW x \in s
    PROVE  /\ IsFiniteSet(s \ {x}) /\ Cardinality(s) \in Nat \ {0}
           /\ Cardinality(s \ {x}) = Cardinality(s) - 1
<1>1. IsFiniteSet(s \ {x}) /\ Cardinality(s \ {x}) = Cardinality(s) - 1
  BY FS_RemoveElement
<1>2. Cardinality(s) \in Nat /\ Cardinality(s) # 0
  BY FS_CardinalityType, FS_EmptySet
<1> QED BY <1>1, <1>2

(* There is one, for every finite set. *)
LEMMA SumsExist ==
    ASSUME NEW f, NEW S, IsFiniteSet(S)
    PROVE  \E h : Sums(h, f, S)
<1> DEFINE Upto(h, n) == \A s \in SUBSET S : Cardinality(s) <= n => h[s] = SumOver(h, f, s)
           N == {n \in Nat : \E h : Upto(h, n)}
<1>1. \A s \in SUBSET S : IsFiniteSet(s) /\ Cardinality(s) \in Nat
  BY FS_Subset, FS_CardinalityType
<1>2. 0 \in N
  <2> DEFINE h == [s \in SUBSET S |-> 0]
  <2>1. \A s \in SUBSET S : Cardinality(s) <= 0 => s = {}
    BY <1>1, FS_EmptySet
  <2>2. Upto(h, 0)
    BY <2>1 DEF SumOver
  <2> QED BY <2>2
<1>3. ASSUME NEW n \in N PROVE n + 1 \in N
  <2>1. PICK h : Upto(h, n)
    OBVIOUS
  <2> DEFINE k == [s \in SUBSET S |-> IF Cardinality(s) <= n THEN h[s] ELSE SumOver(h, f, s)]
  <2>2. ASSUME NEW s \in SUBSET S, Cardinality(s) <= n + 1
        PROVE  k[s] = SumOver(k, f, s)
    <3>1. CASE s = {}
      <4>1. k[s] = SumOver(h, f, s)
        BY <2>1
      <4> QED BY <3>1, <4>1 DEF SumOver
    <3>2. CASE s # {}
      <4> DEFINE x == CHOOSE x \in s : TRUE
      <4>1. x \in s
        BY <3>2
      <4> HIDE DEF x
      <4>2. s \ {x} \in SUBSET S /\ Cardinality(s \ {x}) <= n
        <5>1. Cardinality(s) \in Nat /\ Cardinality(s \ {x}) = Cardinality(s) - 1
          BY <1>1, <4>1, OneLess
        <5> QED BY <2>2, <5>1
      <4>3. k[s \ {x}] = h[s \ {x}]
        BY <4>2
      <4>4. k[s] = SumOver(h, f, s)
        BY <2>1
      <4>5. SumOver(h, f, s) = f[x] + h[s \ {x}] /\ SumOver(k, f, s) = f[x] + k[s \ {x}]
        BY <3>2 DEF SumOver, x
      <4> QED BY <4>3, <4>4, <4>5
    <3> QED BY <3>1, <3>2
  <2> HIDE DEF k
  <2>3. Upto(k, n + 1)
    BY <2>2
  <2> QED BY <2>3
<1>4. N = Nat
  <2>1. N \in SUBSET Nat
    OBVIOUS
  <2> HIDE DEF N
  <2> QED BY <1>2, <1>3, <2>1, SetInduction
<1>5. PICK h : Upto(h, Cardinality(S))
  <2>1. Cardinality(S) \in N
    <3> HIDE DEF N
    <3> QED BY <1>1, <1>4
  <2> QED BY <2>1
<1> DEFINE g == [s \in SUBSET S |-> h[s]]
<1>6. \A s \in SUBSET S : Cardinality(s) <= Cardinality(S)
  BY FS_Subset
<1>7. \A s \in SUBSET S : g[s] = SumOver(h, f, s)
  BY <1>5, <1>6
<1>8. ASSUME NEW s \in SUBSET S PROVE SumOver(h, f, s) = SumOver(g, f, s)
  <2>1. s \ {CHOOSE x \in s : TRUE} \in SUBSET S
    OBVIOUS
  <2> QED BY <2>1 DEF SumOver
<1>9. g = [s \in SUBSET S |-> SumOver(g, f, s)]
  <2>1. g = [s \in SUBSET S |-> g[s]]
    OBVIOUS
  <2>2. \A s \in SUBSET S : g[s] = SumOver(g, f, s)
    BY <1>7, <1>8
  <2> HIDE DEF g
  <2> QED BY <2>1, <2>2
<1> QED BY <1>9 DEF Sums

(* SumFunctionOnSet is its value at the whole set. *)
LEMMA SumIs ==
    ASSUME NEW f, NEW S, IsFiniteSet(S)
    PROVE  \E h : Sums(h, f, S) /\ SumFunctionOnSet(f, S) = h[S]
<1> DEFINE iter[s \in SUBSET S] ==
               IF s = {} THEN 0 ELSE LET x == CHOOSE x \in s : TRUE IN f[x] + iter[s \ {x}]
<1>1. Sums(iter, f, S)
  <2>1. \E h : h = [s \in SUBSET S |->
                      IF s = {} THEN 0 ELSE LET x == CHOOSE x \in s : TRUE IN f[x] + h[s \ {x}]]
    <3>1. PICK h : Sums(h, f, S)
      BY SumsExist
    <3>2. h = [s \in SUBSET S |-> SumOver(h, f, s)]
      BY <3>1 DEF Sums
    <3>3. h = [s \in SUBSET S |->
                  IF s = {} THEN 0 ELSE LET x == CHOOSE x \in s : TRUE IN f[x] + h[s \ {x}]]
      BY <3>2, Zenon DEF SumOver
    <3> QED BY <3>3
  <2>2. iter = [s \in SUBSET S |->
                   IF s = {} THEN 0 ELSE LET x == CHOOSE x \in s : TRUE IN f[x] + iter[s \ {x}]]
    BY <2>1
  <2> HIDE DEF iter
  <2> QED BY <2>2 DEF Sums, SumOver
<1>2. SumFunctionOnSet(f, S) = iter[S]
  BY DEF SumFunctionOnSet, FoldFunctionOnSet, MapThenFoldSet
<1> QED BY <1>1, <1>2

(* It depends on the values of the members only. *)
LEMMA SumsAgree ==
    ASSUME NEW f, NEW g, NEW S, NEW T, IsFiniteSet(T), S \subseteq T, NEW h, NEW k,
           Sums(h, f, S), Sums(k, g, T), \A x \in S : f[x] = g[x]
    PROVE  \A s \in SUBSET S : h[s] = k[s]
<1> DEFINE N == {n \in Nat : \A s \in SUBSET S : Cardinality(s) = n => h[s] = k[s]}
<1>1. \A s \in SUBSET S : IsFiniteSet(s) /\ Cardinality(s) \in Nat
  BY FS_Subset, FS_CardinalityType
<1>2. \A s \in SUBSET S : h[s] = SumOver(h, f, s) /\ k[s] = SumOver(k, g, s)
  BY DEF Sums
<1>3. 0 \in N
  <2>1. \A s \in SUBSET S : Cardinality(s) = 0 => s = {}
    BY <1>1, FS_EmptySet
  <2>2. SumOver(h, f, {}) = 0 /\ SumOver(k, g, {}) = 0
    BY DEF SumOver
  <2> QED BY <1>2, <2>1, <2>2
<1>4. ASSUME NEW n \in N PROVE n + 1 \in N
  <2>1. ASSUME NEW s \in SUBSET S, Cardinality(s) = n + 1 PROVE h[s] = k[s]
    <3> DEFINE x == CHOOSE x \in s : TRUE
    <3>1. s # {}
      <4>1. n + 1 # 0
        OBVIOUS
      <4> HIDE DEF N
      <4> QED BY <2>1, <4>1, FS_EmptySet
    <3>2. x \in s
      BY <3>1
    <3>3. SumOver(h, f, s) = f[x] + h[s \ {x}] /\ SumOver(k, g, s) = g[x] + k[s \ {x}]
      BY <3>1 DEF SumOver
    <3> HIDE DEF x
    <3>4. s \ {x} \in SUBSET S /\ Cardinality(s \ {x}) = n
      <4>1. Cardinality(s) \in Nat /\ Cardinality(s \ {x}) = Cardinality(s) - 1
        BY <1>1, <3>2, OneLess
      <4> QED BY <2>1, <4>1
    <3>5. h[s \ {x}] = k[s \ {x}]
      BY <3>4
    <3> HIDE DEF N
    <3> QED BY <1>2, <3>2, <3>3, <3>5
  <2> QED BY <2>1
<1>5. N = Nat
  <2>1. N \in SUBSET Nat
    OBVIOUS
  <2> HIDE DEF N
  <2> QED BY <1>3, <1>4, <2>1, SetInduction
<1> QED BY <1>1, <1>5

(* The sum of nothing, and the sum of more: in the order of the choices. *)
LEMMA SumEmpty ==
    ASSUME NEW f PROVE SumFunctionOnSet(f, {}) = 0
<1>1. PICK h : Sums(h, f, {}) /\ SumFunctionOnSet(f, {}) = h[{}]
  BY SumIs, FS_EmptySet
<1> QED BY <1>1 DEF Sums, SumOver

LEMMA SumChosen ==
    ASSUME NEW f, NEW S, IsFiniteSet(S), S # {}
    PROVE  LET x == CHOOSE x \in S : TRUE
           IN  SumFunctionOnSet(f, S) = f[x] + SumFunctionOnSet(f, S \ {x})
<1> DEFINE x == CHOOSE x \in S : TRUE
<1>1. PICK h : Sums(h, f, S) /\ SumFunctionOnSet(f, S) = h[S]
  BY SumIs
<1>2. h[S] = f[x] + h[S \ {x}]
  BY <1>1 DEF Sums, SumOver
<1>3. S \ {x} \subseteq S /\ x \in S
  OBVIOUS
<1> HIDE DEF x
<1>4. PICK k : Sums(k, f, S \ {x}) /\ SumFunctionOnSet(f, S \ {x}) = k[S \ {x}]
  BY <1>3, SumIs, OneLess
<1>5. \A s \in SUBSET (S \ {x}) : k[s] = h[s]
  BY <1>1, <1>3, <1>4, SumsAgree
<1>6. SumFunctionOnSet(f, S) = f[x] + SumFunctionOnSet(f, S \ {x})
  BY <1>1, <1>2, <1>4, <1>5
<1> QED BY <1>6 DEF x

(* Functions with the same values have the same sum. *)
LEMMA SumSame ==
    ASSUME NEW f, NEW g, NEW S, IsFiniteSet(S), \A x \in S : f[x] = g[x]
    PROVE  SumFunctionOnSet(f, S) = SumFunctionOnSet(g, S)
<1>1. PICK h : Sums(h, f, S) /\ SumFunctionOnSet(f, S) = h[S]
  BY SumIs
<1>2. PICK k : Sums(k, g, S) /\ SumFunctionOnSet(g, S) = k[S]
  BY SumIs
<1>3. \A s \in SUBSET S : h[s] = k[s]
  BY <1>1, <1>2, SumsAgree
<1> QED BY <1>1, <1>2, <1>3

(* A sum of numbers is one, and whichever member is taken away first does  *)
(* not matter.                                                             *)
LEMMA SumTakes ==
    ASSUME NEW D, NEW f \in [D -> Int], NEW S \in SUBSET D, IsFiniteSet(S)
    PROVE  /\ SumFunctionOnSet(f, S) \in Int
           /\ \A x \in S : SumFunctionOnSet(f, S) = f[x] + SumFunctionOnSet(f, S \ {x})
<1> DEFINE Sum(s) == SumFunctionOnSet(f, s)
           Good(s) == Sum(s) \in Int /\ \A x \in s : Sum(s \ {x}) \in Int /\ Sum(s) = f[x] + Sum(s \ {x})
           N == {n \in Nat : \A s \in SUBSET S : Cardinality(s) = n => Good(s)}
<1>1. \A s \in SUBSET S : IsFiniteSet(s) /\ Cardinality(s) \in Nat
  BY FS_Subset, FS_CardinalityType
<1>2. Sum({}) = 0
  BY SumEmpty
<1>3. ASSUME NEW s \in SUBSET S, s # {}
      PROVE  \E x \in s : Sum(s) = f[x] + Sum(s \ {x})
  <2> DEFINE x == CHOOSE x \in s : TRUE
  <2>1. x \in s /\ Sum(s) = f[x] + Sum(s \ {x})
    BY <1>1, <1>3, SumChosen
  <2> QED BY <2>1
<1> HIDE DEF Sum
<1>4. 0 \in N
  <2>1. \A s \in SUBSET S : Cardinality(s) = 0 => s = {}
    BY <1>1, FS_EmptySet
  <2>2. Good({})
    BY <1>2
  <2> QED BY <2>1, <2>2
<1>5. ASSUME NEW n \in N PROVE n + 1 \in N
  <2>1. ASSUME NEW s \in SUBSET S, Cardinality(s) = n + 1 PROVE Good(s)
    <3>1. s # {}
      <4>1. n + 1 # 0
        OBVIOUS
      <4> HIDE DEF N
      <4> QED BY <2>1, <4>1, FS_EmptySet
    <3>2. ASSUME NEW x \in s
          PROVE  Good(s \ {x}) /\ f[x] \in Int /\ Cardinality(s \ {x}) = n
      <4>1. Cardinality(s) \in Nat /\ Cardinality(s \ {x}) = Cardinality(s) - 1
        BY <1>1, OneLess
      <4>2. s \ {x} \in SUBSET S /\ Cardinality(s \ {x}) = n
        BY <2>1, <4>1
      <4>3. Good(s \ {x})
        BY <4>2
      <4>4. x \in D
        OBVIOUS
      <4> QED BY <4>2, <4>3, <4>4
    <3> HIDE DEF N
    <3>3. PICK y \in s : Sum(s) = f[y] + Sum(s \ {y})
      BY <1>3, <3>1
    <3>4. Sum(s) \in Int
      BY <3>2, <3>3
    <3>5. ASSUME NEW x \in s, x # y PROVE Sum(s) = f[x] + Sum(s \ {x})
      <4> DEFINE r == (s \ {x}) \ {y}
      <4>1. Sum(s \ {y}) \in Int /\ Sum(s \ {y}) = f[x] + Sum((s \ {y}) \ {x})
        BY <3>2, <3>5
      <4>2. Sum(s \ {x}) = f[y] + Sum(r)
        BY <3>2, <3>5
      <4>3. (s \ {y}) \ {x} = r
        OBVIOUS
      <4>4. Sum(r) \in Int
        BY <3>2, <3>5
      <4>6. Sum((s \ {y}) \ {x}) = Sum(r)
        BY <4>3, Zenon
      <4> HIDE DEF r
      <4>5. f[x] \in Int /\ f[y] \in Int
        BY <3>2
      <4> QED BY <3>3, <4>1, <4>2, <4>4, <4>5, <4>6
    <3>6. \A x \in s : Sum(s \ {x}) \in Int
      BY <3>2
    <3> QED BY <3>3, <3>4, <3>5, <3>6
  <2> QED BY <2>1
<1>6. N = Nat
  <2>1. N \in SUBSET Nat
    OBVIOUS
  <2> HIDE DEF N
  <2> QED BY <1>4, <1>5, <2>1, SetInduction
<1>7. Good(S)
  BY <1>1, <1>6
<1> QED BY <1>7 DEF Sum

(* A sum over one more member. *)
OneMoreTerm(S, x, f, g) ==
    /\ IsFiniteSet(S) /\ x \notin S
    /\ f \in [S -> Int] /\ g \in [S \cup {x} -> Int]
    /\ \A y \in S : g[y] = f[y]

LEMMA SumGrows ==
    ASSUME NEW S, NEW x, NEW f, NEW g, OneMoreTerm(S, x, f, g)
    PROVE  /\ SumFunction(f) \in Int
           /\ SumFunction(g) = SumFunction(f) + g[x]
<1> USE DEF OneMoreTerm
<1> DEFINE D == S \cup {x}
<1>1. IsFiniteSet(D) /\ D \ {x} = S /\ x \in D
  BY FS_AddElement
<1>2. SumFunctionOnSet(g, D) = g[x] + SumFunctionOnSet(g, D \ {x})
  BY <1>1, SumTakes
<1>3. SumFunctionOnSet(g, D \ {x}) = SumFunctionOnSet(g, S)
  BY <1>1, Zenon
<1>4. SumFunctionOnSet(g, S) = SumFunctionOnSet(f, S)
  BY SumSame
<1>5. SumFunctionOnSet(f, S) \in Int
  BY SumTakes
<1>6. SumFunction(g) = SumFunctionOnSet(g, D) /\ SumFunction(f) = SumFunctionOnSet(f, S)
  BY DEF SumFunction
<1>7. g[x] \in Int
  BY <1>1
<1> HIDE DEF D
<1> QED BY <1>2, <1>3, <1>4, <1>5, <1>6, <1>7

-----------------------------------------------------------------------------
(* The greatest of a set.                                                  *)
LEMMA MaxIs ==
    ASSUME NEW S \in SUBSET Int, NEW x \in S, \A y \in S : y <= x PROVE Max(S) = x
<1>1. \A y \in S : x >= y
  OBVIOUS
<1>2. \A z \in S : (\A y \in S : z >= y) => z = x
  OBVIOUS
<1> QED BY <1>1, <1>2 DEF Max

(* The least of a set.                                                     *)
LEMMA MinIs ==
    ASSUME NEW S \in SUBSET Int, NEW x \in S, \A y \in S : x <= y PROVE Min(S) = x
<1>1. \A z \in S : (\A y \in S : z <= y) => z = x
  OBVIOUS
<1> QED BY <1>1 DEF Min

(* Of finitely many numbers one is the largest.                            *)
LEMMA LargestPlace ==
    ASSUME NEW n \in Nat \ {0}, NEW g, \A i \in 1 .. n : g[i] \in Int
    PROVE  \E x \in 1 .. n : \A y \in 1 .. n : g[y] <= g[x]
<1> DEFINE P == {k \in Nat : k + 1 <= n =>
                     \E x \in 1 .. k + 1 : \A y \in 1 .. k + 1 : g[y] <= g[x]}
<1>1. 0 \in P
  OBVIOUS
<1>2. ASSUME NEW k \in P PROVE k + 1 \in P
  <2> SUFFICES ASSUME k + 2 <= n
               PROVE  \E x \in 1 .. k + 2 : \A y \in 1 .. k + 2 : g[y] <= g[x]
    OBVIOUS
  <2>1. PICK x \in 1 .. k + 1 : \A y \in 1 .. k + 1 : g[y] <= g[x]
    OBVIOUS
  <2>2. /\ k \in Nat /\ g[x] \in Int /\ g[k + 2] \in Int /\ x \in 1 .. k + 2
        /\ \A y \in 1 .. k + 1 : g[y] \in Int
    OBVIOUS
  <2>3. \A y \in 1 .. k + 2 : y \in 1 .. k + 1 \/ y = k + 2
    BY <2>2
  <2> HIDE DEF P
  <2>4. CASE g[k + 2] <= g[x]
    BY <2>1, <2>2, <2>3, <2>4
  <2>5. CASE ~(g[k + 2] <= g[x])
    <3>1. \A y \in 1 .. k + 2 : g[y] <= g[k + 2]
      BY <2>1, <2>2, <2>3, <2>5
    <3>2. k + 2 \in 1 .. k + 2
      BY <2>2
    <3> QED BY <3>1, <3>2
  <2> QED BY <2>4, <2>5
<1>3. P = Nat
  <2>1. P \in SUBSET Nat
    OBVIOUS
  <2> HIDE DEF P
  <2> QED BY <1>1, <1>2, <2>1, SetInduction
<1>4. n - 1 \in P
  <2> HIDE DEF P
  <2> QED BY <1>3
<1> QED BY <1>4
=============================================================================
