----------------------------- MODULE Arithmetic -----------------------------
(***************************************************************************)
(* Facts about products, quotients and counters that wrap, which the       *)
(* proofs about clocks, loaders and rings share.                           *)
(***************************************************************************)
EXTENDS Integers, TLAPS

(* A larger factor, a larger product.                                      *)
LEMMA Scaled == \A a, b, c \in Nat : a <= b => a * c <= b * c
<1> SUFFICES ASSUME NEW a \in Nat, NEW b \in Nat, NEW c \in Nat, a <= b PROVE a * c <= b * c
  OBVIOUS
<1>1. PICK k \in Nat : b = a + k
  BY b - a \in Nat, b = a + (b - a)
<1>2. b * c = a * c + k * c /\ k * c \in Nat /\ a * c \in Nat
  BY <1>1
<1> QED
  BY <1>2

(* A positive factor cancels.                                              *)
LEMMA Cancelled == \A a, b \in Nat : \A c \in Nat \ {0} : a * c <= b * c => a <= b
<1> SUFFICES ASSUME NEW a \in Nat, NEW b \in Nat, NEW c \in Nat \ {0}, a * c <= b * c, a > b
             PROVE  FALSE
  OBVIOUS
<1>1. (b + 1) * c <= a * c
  BY Scaled, b + 1 \in Nat, b + 1 <= a
<1>2. (b + 1) * c = b * c + c /\ b * c \in Nat /\ a * c \in Nat
  OBVIOUS
<1> QED
  BY <1>1, <1>2

(* Division rounds down.                                                   *)
LEMMA Quotient ==
    \A a \in Nat : \A b \in Nat \ {0} :
        /\ a \div b \in Nat
        /\ (a \div b) * b <= a
        /\ a <= (a \div b + 1) * b
        /\ a < (a \div b + 1) * b
<1> SUFFICES ASSUME NEW a \in Nat, NEW b \in Nat \ {0}
             PROVE  /\ a \div b \in Nat
                    /\ (a \div b) * b <= a
                    /\ a < (a \div b + 1) * b
  OBVIOUS
<1>1. a \div b \in Nat /\ a % b \in 0 .. b - 1 /\ a = b * (a \div b) + (a % b)
  OBVIOUS
<1>2. ASSUME NEW q \in Nat, NEW r \in 0 .. b - 1, a = b * q + r
      PROVE  q * b <= a /\ a < (q + 1) * b
  <2>1. (q + 1) * b = b * q + b /\ q * b = b * q /\ b * q \in Nat
    OBVIOUS
  <2> QED
    BY <1>2, <2>1
<1> QED
  BY <1>1, <1>2

(* Division rounds down to the multiple below.                             *)
LEMMA Multiple ==
    \A a \in Nat : \A b \in Nat \ {0} :
        /\ a \div b \in Nat
        /\ (a \div b) * b \in Nat
        /\ (a \div b) * b <= a
        /\ a < (a \div b) * b + b
        /\ (a \div b + 1) * b = (a \div b) * b + b
<1> SUFFICES ASSUME NEW a \in Nat, NEW b \in Nat \ {0}
             PROVE  /\ a \div b \in Nat
                    /\ (a \div b) * b \in Nat
                    /\ (a \div b) * b <= a
                    /\ a < (a \div b) * b + b
                    /\ (a \div b + 1) * b = (a \div b) * b + b
  OBVIOUS
<1>1. a \div b \in Nat /\ a % b \in 0 .. b - 1 /\ a = b * (a \div b) + (a % b)
  OBVIOUS
<1>2. ASSUME NEW q \in Nat, NEW r \in 0 .. b - 1, a = b * q + r
      PROVE  q * b \in Nat /\ q * b <= a /\ a < q * b + b /\ (q + 1) * b = q * b + b
  <2>1. (q + 1) * b = q * b + b /\ q * b = b * q /\ b * q \in Nat
    OBVIOUS
  <2> QED
    BY <1>2, <2>1
<1> QED
  BY <1>1, <1>2

(* Division by the same number keeps the order.                            *)
LEMMA QuotientGrows ==
    \A a, b \in Nat : \A c \in Nat \ {0} : a <= b => a \div c <= b \div c
<1> SUFFICES ASSUME NEW a \in Nat, NEW b \in Nat, NEW c \in Nat \ {0}, a <= b
             PROVE  a \div c <= b \div c
  OBVIOUS
<1>1. /\ a \div c \in Nat /\ b \div c \in Nat
      /\ (a \div c) * c <= a /\ b < (b \div c + 1) * c
  BY Quotient
<1>2. ASSUME NEW x \in Nat, NEW y \in Nat, x * c <= a, b < (y + 1) * c PROVE x <= y
  <2> SUFFICES ASSUME y + 1 <= x PROVE FALSE
    OBVIOUS
  <2>1. (y + 1) * c <= x * c
    BY Scaled
  <2>2. (y + 1) * c \in Nat /\ x * c \in Nat
    OBVIOUS
  <2> QED
    BY <1>2, <2>1, <2>2
<1> QED
  BY <1>1, <1>2

(* Halving a natural number.                                               *)
LEMMA Halves ==
    ASSUME NEW n \in Nat
    PROVE  /\ n % 2 = 0 \/ n % 2 = 1
           /\ n \div 2 \in Nat /\ (n + 1) \div 2 \in Nat
           /\ n = 2 * (n \div 2) + (n % 2)
           /\ n % 2 = 0 => (n + 1) % 2 = 1 /\ (n + 1) \div 2 = n \div 2
           /\ n % 2 = 1 => (n + 1) % 2 = 0 /\ (n + 1) \div 2 = n \div 2 + 1
<1>1. n % 2 \in 0 .. 1 /\ n \div 2 \in Nat /\ n = 2 * (n \div 2) + (n % 2)
  OBVIOUS
<1>2. (n + 1) % 2 \in 0 .. 1 /\ (n + 1) \div 2 \in Nat /\ n + 1 = 2 * ((n + 1) \div 2) + ((n + 1) % 2)
  OBVIOUS
<1>3. ASSUME NEW q \in Nat, NEW r \in 0 .. 1, NEW p \in Nat, NEW t \in 0 .. 1,
             n = 2 * q + r, n + 1 = 2 * p + t
      PROVE  /\ r = 0 => t = 1 /\ p = q
             /\ r = 1 => t = 0 /\ p = q + 1
  BY <1>3
<1> QED
  BY <1>1, <1>2, <1>3

(* Ticks converted by a rate that is rounded down are not too many         *)
(* nanoseconds, and too few by less than the two roundings.                *)
LEMMA Converted ==
    ASSUME NEW d \in Nat, NEW m \in Nat, NEW p \in Nat \ {0}, NEW f \in Nat \ {0}, NEW n \in Nat,
           m * f <= n * p, n * p < (m + 1) * f
    PROVE  LET q == (d * m) \div p IN
           /\ q \in Nat
           /\ q * f <= d * n
           /\ d * n * p <= f * ((q + 1) * p + d)
<1> DEFINE q == (d * m) \div p
<1>1. d * m \in Nat /\ q \in Nat /\ q * p <= d * m /\ d * m <= (q + 1) * p
  <2>1. d * m \in Nat
    OBVIOUS
  <2> QED
    BY <2>1, Quotient
<1> HIDE DEF q
<1>2. q * f <= d * n
  <2>1. (q * p) * f <= (d * m) * f
    BY <1>1, Scaled, q * p \in Nat
  <2>2. (m * f) * d <= (n * p) * d
    BY Scaled, m * f \in Nat, n * p \in Nat
  <2>3. (q * p) * f = (q * f) * p /\ (d * m) * f = (m * f) * d /\ (n * p) * d = (d * n) * p
    BY <1>1
  <2>4. (q * f) * p <= (d * n) * p
    <3>1. (q * p) * f \in Nat /\ (d * m) * f \in Nat /\ (n * p) * d \in Nat
      BY <1>1
    <3> QED
      BY <2>1, <2>2, <2>3, <3>1
  <2>5. q * f \in Nat /\ d * n \in Nat
    BY <1>1
  <2> QED
    BY <2>4, <2>5, Cancelled
<1>3. d * n * p <= f * ((q + 1) * p + d)
  <2>1. (n * p) * d <= ((m + 1) * f) * d
    BY Scaled, n * p \in Nat, (m + 1) * f \in Nat, n * p <= (m + 1) * f
  <2>2. ((m + 1) * f) * d = (d * m + d) * f /\ (n * p) * d = d * n * p
    OBVIOUS
  <2>3. (d * m + d) * f <= ((q + 1) * p + d) * f
    <3>1. d * m + d \in Nat /\ (q + 1) * p + d \in Nat /\ d * m + d <= (q + 1) * p + d
      BY <1>1
    <3> QED
      BY <3>1, Scaled
  <2>4. ((q + 1) * p + d) * f = f * ((q + 1) * p + d)
    BY <1>1
  <2>5. d * n * p \in Nat /\ (d * m + d) * f \in Nat /\ f * ((q + 1) * p + d) \in Nat
    BY <1>1
  <2> QED
    BY <2>1, <2>2, <2>3, <2>4, <2>5
<1> QED
  BY <1>1, <1>2, <1>3 DEF q

(* Adding the conversion of d ticks to a clock keeps it never ahead, and   *)
(* adds at most one nanosecond and d roundings to what it has lost.        *)
LEMMA Advanced ==
    ASSUME NEW t \in Nat, NEW b \in Nat, NEW r \in Nat, NEW d \in Nat, NEW q \in Nat,
           NEW p \in Nat \ {0}, NEW f \in Nat \ {0}, NEW n \in Nat,
           b * f <= t * n, q * f <= d * n
    PROVE  /\ (b + q) * f <= (t + d) * n
           /\ t * n * p <= f * ((b + r) * p + t) /\ d * n * p <= f * ((q + 1) * p + d)
              => (t + d) * n * p <= f * ((b + q + (r + 1)) * p + (t + d))
<1>1. (b + q) * f = b * f + q * f /\ (t + d) * n = t * n + d * n
  OBVIOUS
<1>2. b * f \in Nat /\ q * f \in Nat /\ t * n \in Nat /\ d * n \in Nat
  OBVIOUS
<1>3. (b + q) * f <= (t + d) * n
  BY <1>1, <1>2
<1>4. (t + d) * n * p = t * n * p + d * n * p
  OBVIOUS
<1>5. f * ((b + q + (r + 1)) * p + (t + d))
        = f * ((b + r) * p + t) + f * ((q + 1) * p + d)
  <2>1. (b + q + (r + 1)) * p + (t + d) = ((b + r) * p + t) + ((q + 1) * p + d)
    OBVIOUS
  <2>2. \A x, y \in Nat : f * (x + y) = f * x + f * y
    OBVIOUS
  <2>3. (b + r) * p + t \in Nat /\ (q + 1) * p + d \in Nat
    OBVIOUS
  <2> QED
    BY <2>1, <2>2, <2>3
<1>6. /\ t * n * p \in Nat /\ d * n * p \in Nat
      /\ f * ((b + r) * p + t) \in Nat /\ f * ((q + 1) * p + d) \in Nat
  OBVIOUS
<1> QED
  BY <1>3, <1>4, <1>5, <1>6

(* Numbers less than e apart have different remainders modulo e.           *)
LEMMA Apart ==
    ASSUME NEW e \in Nat \ {0}, NEW m \in Nat, NEW n \in Nat, n < m, m < n + e
    PROVE  m % e # n % e
<1>1. /\ m \div e \in Nat /\ m % e \in 0 .. e - 1 /\ m = e * (m \div e) + (m % e)
      /\ n \div e \in Nat /\ n % e \in 0 .. e - 1 /\ n = e * (n \div e) + (n % e)
  OBVIOUS
<1>2. ASSUME NEW p \in Nat, NEW q \in Nat, NEW r \in 0 .. e - 1, m = e * p + r, n = e * q + r
      PROVE  FALSE
  <2>1. CASE p <= q
    <3>1. p * e <= q * e
      BY <2>1, Scaled
    <3>2. e * p = p * e /\ e * q = q * e /\ p * e \in Nat /\ q * e \in Nat
      OBVIOUS
    <3> QED
      BY <1>2, <3>1, <3>2
  <2>2. CASE q + 1 <= p
    <3>1. (q + 1) * e <= p * e
      BY <2>2, Scaled
    <3>2. (q + 1) * e = q * e + e /\ e * p = p * e /\ e * q = q * e /\ p * e \in Nat /\ q * e \in Nat
      OBVIOUS
    <3> QED
      BY <1>2, <3>1, <3>2
  <2> QED
    BY <2>1, <2>2
<1> QED
  BY <1>1, <1>2, Zenon

(* A remainder is what is left over whole multiples.                       *)
LEMMA Remainder ==
    ASSUME NEW e \in Nat \ {0}, NEW n \in Int, NEW q \in Int, NEW r \in 0 .. e - 1, n = e * q + r
    PROVE  n % e = r
<1>1. n \div e \in Int /\ n % e \in 0 .. e - 1 /\ n = e * (n \div e) + (n % e)
  OBVIOUS
<1>2. ASSUME NEW p \in Int, NEW t \in 0 .. e - 1, n = e * p + t PROVE t = r
  <2>1. CASE p < q
    <3>1. (q - p - 1) * e \in Nat
      BY <2>1, q - p - 1 \in Nat
    <3>2. (q - p - 1) * e = e * q - e * p - e /\ e * q \in Int /\ e * p \in Int
      OBVIOUS
    <3> QED
      BY <1>2, <3>1, <3>2
  <2>2. CASE q < p
    <3>1. (p - q - 1) * e \in Nat
      BY <2>2, p - q - 1 \in Nat
    <3>2. (p - q - 1) * e = e * p - e * q - e /\ e * q \in Int /\ e * p \in Int
      OBVIOUS
    <3> QED
      BY <1>2, <3>1, <3>2
  <2>3. CASE p = q
    BY <1>2, <2>3, e * q \in Int
  <2> QED
    BY <2>1, <2>2, <2>3
<1> QED
  BY <1>1, <1>2

(* A free-running index may wrap before or after it is advanced.           *)
LEMMA WrapPlus ==
    ASSUME NEW e \in Nat \ {0}, NEW x \in Nat, NEW n \in Nat
    PROVE  ((x % e) + n) % e = (x + n) % e
<1>1. x \div e \in Nat /\ x % e \in 0 .. e - 1 /\ x = e * (x \div e) + (x % e)
  OBVIOUS
<1>2. ASSUME NEW q \in Nat, NEW r \in 0 .. e - 1, x = e * q + r PROVE (r + n) % e = (x + n) % e
  <2>1. (r + n) \div e \in Nat /\ (r + n) % e \in 0 .. e - 1
        /\ r + n = e * ((r + n) \div e) + ((r + n) % e)
    BY r + n \in Nat
  <2>2. ASSUME NEW p \in Nat, NEW t \in 0 .. e - 1, r + n = e * p + t PROVE t = (x + n) % e
    <3>1. x + n = e * (q + p) + t
      <4>1. e * (q + p) = e * q + e * p /\ e * q \in Nat /\ e * p \in Nat
        OBVIOUS
      <4> QED
        BY <1>2, <2>2, <4>1
    <3> QED
      BY <3>1, Remainder, q + p \in Int, x + n \in Int, Zenon
  <2> QED
    BY <2>1, <2>2, Zenon
<1> QED
  BY <1>1, <1>2, Zenon

(* It selects the same slot of a ring before and after it wraps, as the    *)
(* ring's size divides the word.                                           *)
LEMMA WrapSlot ==
    ASSUME NEW e \in Nat \ {0}, NEW s \in Nat \ {0}, e % s = 0, NEW x \in Nat
    PROVE  (x % e) % s = x % s
<1>1. x \div e \in Nat /\ x % e \in 0 .. e - 1 /\ x = e * (x \div e) + (x % e)
  OBVIOUS
<1>2. e \div s \in Nat /\ e = s * (e \div s)
  <2>1. e \div s \in Nat /\ e = s * (e \div s) + (e % s)
    OBVIOUS
  <2>2. ASSUME NEW k \in Nat, e = s * k + 0 PROVE e = s * k
    BY <2>2, s * k \in Nat
  <2> QED
    BY <2>1, <2>2
<1>3. ASSUME NEW q \in Nat, NEW r \in 0 .. e - 1, x = e * q + r, NEW k \in Nat, e = s * k
      PROVE  r % s = x % s
  <2>1. r \in Nat /\ r \div s \in Nat /\ r % s \in 0 .. s - 1 /\ r = s * (r \div s) + (r % s)
    OBVIOUS
  <2>2. ASSUME NEW p \in Nat, NEW t \in 0 .. s - 1, r = s * p + t PROVE t = x % s
    <3>1. x = s * (k * q + p) + t
      <4>1. s * (k * q + p) = (s * k) * q + s * p /\ (s * k) * q \in Nat /\ s * p \in Nat
        OBVIOUS
      <4> QED
        BY <1>3, <2>2, <4>1
    <3> QED
      BY <3>1, Remainder, k * q + p \in Int, x \in Int
  <2> QED
    BY <2>1, <2>2
<1>4. PICK k \in Nat : e = s * k
  BY <1>2
<1> QED
  BY <1>1, <1>3, <1>4, Zenon

(* Wrapped indexes less than a word apart have their true difference.      *)
LEMMA WrapMinus ==
    ASSUME NEW e \in Nat \ {0}, NEW x \in Nat, NEW y \in Nat, y <= x, x < y + e
    PROVE  ((x % e) - (y % e)) % e = x - y
<1>1. /\ x \div e \in Nat /\ x % e \in 0 .. e - 1 /\ x = e * (x \div e) + (x % e)
      /\ y \div e \in Nat /\ y % e \in 0 .. e - 1 /\ y = e * (y \div e) + (y % e)
  OBVIOUS
<1>2. ASSUME NEW q \in Nat, NEW r \in 0 .. e - 1, x = e * q + r,
             NEW p \in Nat, NEW t \in 0 .. e - 1, y = e * p + t
      PROVE  (r - t) % e = x - y
  <2>1. e * (p - q) = e * p - e * q /\ e * p \in Nat /\ e * q \in Nat
    OBVIOUS
  <2>2. r - t = e * (p - q) + (x - y)
    BY <1>2, <2>1
  <2>3. x - y \in 0 .. e - 1
    OBVIOUS
  <2> QED
    BY <2>2, <2>3, Remainder, p - q \in Int, r - t \in Int
<1> QED
  BY <1>1, <1>2, Zenon

(* The same from the successor of the earlier index, which may be a word.  *)
LEMMA WrapNext ==
    ASSUME NEW e \in Nat \ {0}, NEW x \in Nat, NEW y \in Nat, y < x, x <= y + e
    PROVE  ((x % e) - ((y % e) + 1)) % e = x - y - 1
<1>1. /\ x \div e \in Nat /\ x % e \in 0 .. e - 1 /\ x = e * (x \div e) + (x % e)
      /\ y \div e \in Nat /\ y % e \in 0 .. e - 1 /\ y = e * (y \div e) + (y % e)
  OBVIOUS
<1>2. ASSUME NEW q \in Nat, NEW r \in 0 .. e - 1, x = e * q + r,
             NEW p \in Nat, NEW t \in 0 .. e - 1, y = e * p + t
      PROVE  (r - (t + 1)) % e = x - y - 1
  <2>1. e * (p - q) = e * p - e * q /\ e * p \in Nat /\ e * q \in Nat
    OBVIOUS
  <2>2. r - (t + 1) = e * (p - q) + (x - y - 1)
    BY <1>2, <2>1
  <2>3. x - y - 1 \in 0 .. e - 1
    OBVIOUS
  <2> QED
    BY <2>2, <2>3, Remainder, p - q \in Int, r - (t + 1) \in Int, Zenon
<1> QED
  BY <1>1, <1>2, Zenon
=============================================================================
