---------------------------- MODULE NumberProofs ----------------------------
(***************************************************************************)
(* For all widths and precisions with the order of the real ones: numbers  *)
(* in the range of int or of unsigned int pass through double and text     *)
(* unchanged, one in the range of both int and its field arrives, and one  *)
(* beyond int arrives as the end of that range.  The text of any number is *)
(* near it, and on the right side of the text of any other.                *)
(***************************************************************************)
EXTENDS Number, WellFoundedInduction, TLAPS

-----------------------------------------------------------------------------
(* Induction over the natural numbers, for sets instead of predicates: the theorems of *)
(* the library need an operator as a parameter, the least element of a set needs none *)

Less == {ss \in Nat \X Nat : ss[1] < ss[2]}

\* A set of natural numbers has a least element.
LEMMA LeastElement ==
    ASSUME NEW T, T \subseteq Nat, T # {}
    PROVE  \E x \in T : \A y \in T : x <= y
<1>1. IsWellFoundedOn(Less, Nat)
  BY NatLessThanWellFounded DEF OpToRel, Less
<1>2. PICK x \in T : \A y \in T : ~(<<y, x>> \in Less)
  BY <1>1, WFMin
<1>3. ASSUME NEW y \in T
      PROVE  x <= y
  <2>1. x \in Nat /\ y \in Nat
    OBVIOUS
  <2>2. ~(<<y, x>> \in Less)
    BY <1>2
  <2>3. ~(y < x)
    BY <2>1, <2>2 DEF Less
  <2> QED
    BY <2>1, <2>3
<1> QED
  BY <1>3

\* Induction: zero is in the set, and with every number the next one.
LEMMA Upward ==
    ASSUME NEW T, 0 \in T, \A n \in Nat : n \in T => n + 1 \in T
    PROVE  \A n \in Nat : n \in T
<1> SUFFICES ASSUME NEW m \in Nat, m \notin T
             PROVE  FALSE
  OBVIOUS
<1> DEFINE B == {n \in Nat : n \notin T}
<1>1. PICK x \in B : \A y \in B : x <= y
  <2>1. B \subseteq Nat /\ B # {}
    OBVIOUS
  <2> HIDE DEF B
  <2> QED
    BY <2>1, LeastElement
<1>2. x # 0 /\ x \in Nat
  OBVIOUS
<1>3. x - 1 \in Nat /\ x - 1 \notin B
  <2>1. x - 1 \in Nat /\ ~(x <= x - 1)
    BY <1>2
  <2> QED
    BY <1>1, <2>1
<1> QED
  BY <1>2, <1>3

\* Induction up to a bound.
LEMMA UpTo ==
    ASSUME NEW T, NEW m \in Nat, 0 \in T, \A n \in 0 .. m - 1 : n \in T => n + 1 \in T
    PROVE  \A n \in 0 .. m : n \in T
<1> DEFINE U == {n \in Nat : n <= m => n \in T}
<1>1. 0 \in U
  OBVIOUS
<1>2. ASSUME NEW n \in Nat, n \in U
      PROVE  n + 1 \in U
  <2>1. CASE n + 1 <= m
    <3>1. n <= m /\ n \in 0 .. m - 1 /\ n + 1 \in Nat
      BY <2>1
    <3>2. n \in T
      BY <1>2, <3>1
    <3> QED
      BY <3>1, <3>2
  <2>2. CASE ~(n + 1 <= m)
    BY <2>2
  <2> QED
    BY <2>1, <2>2
<1> HIDE DEF U
<1>3. \A n \in Nat : n \in U
  BY <1>1, <1>2, Upward
<1> QED
  BY <1>3 DEF U

\* Induction from a bound downward.
LEMMA Downward ==
    ASSUME NEW T, NEW m \in Nat, m \in T, \A n \in 1 .. m : n \in T => n - 1 \in T
    PROVE  \A n \in 0 .. m : n \in T
<1> DEFINE U == {n \in Nat : n <= m => m - n \in T}
<1>1. 0 \in U
  OBVIOUS
<1>2. ASSUME NEW n \in Nat, n \in U
      PROVE  n + 1 \in U
  <2>1. CASE n + 1 <= m
    <3>1. n <= m /\ m - n \in 1 .. m /\ n + 1 \in Nat /\ m - (n + 1) = (m - n) - 1
      BY <2>1
    <3>2. m - n \in T
      BY <1>2, <3>1
    <3>3. (m - n) - 1 \in T
      BY <3>1, <3>2
    <3> QED
      BY <3>1, <3>3
  <2>2. CASE ~(n + 1 <= m)
    BY <2>2
  <2> QED
    BY <2>1, <2>2
<1> HIDE DEF U
<1>3. \A n \in Nat : n \in U
  BY <1>1, <1>2, Upward
<1>4. ASSUME NEW n \in 0 .. m
      PROVE  n \in T
  <2>1. m - n \in Nat /\ m - n <= m /\ m - (m - n) = n
    OBVIOUS
  <2>2. m - n \in U
    BY <1>3, <2>1
  <2>3. m - (m - n) \in T
    BY <2>1, <2>2 DEF U
  <2> QED
    BY <2>1, <2>3
<1> QED
  BY <1>4

-----------------------------------------------------------------------------
(* Powers, last places, and numbers that stay exact *)

\* The powers up to the k-th.
PowersTo(base, k) ==
    CHOOSE p : p = [i \in 0..k |-> IF i = 0 THEN 1 ELSE base * p[i - 1]]

LEMMA PowerIs ==
    ASSUME NEW base, NEW k
    PROVE  Power(base, k) = PowersTo(base, k)[k]
BY DEF Power, PowersTo

LEMMA PowersToExist ==
    ASSUME NEW base \in Nat, NEW k \in Nat
    PROVE  PowersTo(base, k) = [i \in 0..k |-> IF i = 0 THEN 1 ELSE base * PowersTo(base, k)[i - 1]]
<1> DEFINE T == {n \in Nat : \E p : p = [i \in 0..n |-> IF i = 0 THEN 1 ELSE base * p[i - 1]]}
<1>1. 0 \in T
  <2> DEFINE p == [i \in 0..0 |-> 1]
  <2>1. p = [i \in 0..0 |-> IF i = 0 THEN 1 ELSE base * p[i - 1]]
    OBVIOUS
  <2> HIDE DEF p
  <2> QED
    BY <2>1
<1>2. ASSUME NEW n \in Nat, n \in T
      PROVE  n + 1 \in T
  <2>1. PICK p : p = [i \in 0..n |-> IF i = 0 THEN 1 ELSE base * p[i - 1]]
    BY <1>2
  <2> DEFINE q == [i \in 0..n + 1 |-> IF i = n + 1 THEN base * p[n] ELSE p[i]]
  <2>2. q = [i \in 0..n + 1 |-> IF i = 0 THEN 1 ELSE base * q[i - 1]]
    <3> SUFFICES ASSUME NEW i \in 0..n + 1
                 PROVE  q[i] = IF i = 0 THEN 1 ELSE base * q[i - 1]
      OBVIOUS
    <3>1. CASE i = n + 1
      <4>1. q[i] = base * p[n] /\ q[i - 1] = p[n] /\ i # 0
        BY <3>1
      <4> QED
        BY <4>1
    <3>2. CASE i # n + 1
      <4>1. i \in 0..n /\ q[i] = p[i] /\ (i # 0 => q[i - 1] = p[i - 1])
        BY <3>2
      <4> HIDE DEF q
      <4>2. p[i] = IF i = 0 THEN 1 ELSE base * p[i - 1]
        BY <2>1, <4>1
      <4> QED
        BY <4>1, <4>2
    <3> QED
      BY <3>1, <3>2
  <2> HIDE DEF q
  <2> QED
    BY <2>2
<1> HIDE DEF T
<1>3. k \in T
  BY <1>1, <1>2, Upward
<1> QED
  BY <1>3 DEF T, PowersTo

\* Whatever the last, the powers are the same.
LEMMA PowersAgree ==
    ASSUME NEW base \in Nat, NEW k \in Nat, NEW m \in Nat, k <= m
    PROVE  \A n \in 0..k : PowersTo(base, m)[n] = PowersTo(base, k)[n]
<1> DEFINE f == PowersTo(base, k)
           g == PowersTo(base, m)
           T == {n \in 0..k : g[n] = f[n]}
<1>1. f = [i \in 0..k |-> IF i = 0 THEN 1 ELSE base * f[i - 1]]
  BY PowersToExist
<1>2. g = [i \in 0..m |-> IF i = 0 THEN 1 ELSE base * g[i - 1]]
  BY PowersToExist
<1> HIDE DEF f, g
<1>3. 0 \in T
  BY <1>1, <1>2
<1>4. ASSUME NEW n \in 0..k - 1, n \in T
      PROVE  n + 1 \in T
  <2>1. n + 1 \in 0..k /\ n + 1 \in 0..m /\ n + 1 # 0 /\ (n + 1) - 1 = n
    OBVIOUS
  <2>2. g[n + 1] = base * g[n] /\ f[n + 1] = base * f[n]
    BY <1>1, <1>2, <2>1
  <2> QED
    BY <1>4, <2>1, <2>2
<1> HIDE DEF T
<1>5. \A n \in 0..k : n \in T
  BY <1>3, <1>4, UpTo
<1> QED
  BY <1>5 DEF T, f, g

\* What a power is.
LEMMA PowerStep ==
    ASSUME NEW base \in Nat
    PROVE  /\ Power(base, 0) = 1
           /\ \A k \in Nat : Power(base, k + 1) = base * Power(base, k)
<1>1. Power(base, 0) = 1
  BY PowerIs, PowersToExist
<1>2. ASSUME NEW k \in Nat
      PROVE  Power(base, k + 1) = base * Power(base, k)
  <2>1. k + 1 \in Nat /\ k + 1 \in 0..k + 1 /\ k + 1 # 0 /\ (k + 1) - 1 = k /\ k <= k + 1
    OBVIOUS
  <2>2. PowersTo(base, k + 1)[k + 1] = base * PowersTo(base, k + 1)[k]
    <3> DEFINE f == PowersTo(base, k + 1)
    <3>1. f = [i \in 0..k + 1 |-> IF i = 0 THEN 1 ELSE base * f[i - 1]]
      BY <2>1, PowersToExist
    <3> HIDE DEF f
    <3>2. f[k + 1] = base * f[k]
      BY <2>1, <3>1
    <3> QED
      BY <3>2 DEF f
  <2>3. PowersTo(base, k + 1)[k] = PowersTo(base, k)[k]
    BY <2>1, PowersAgree
  <2> QED
    BY <2>2, <2>3, PowerIs
<1> QED
  BY <1>1, <1>2

\* A power is positive, and above its exponent.
LEMMA PowerGrows ==
    ASSUME NEW base \in Nat, base > 1
    PROVE  \A k \in Nat : Power(base, k) \in Nat /\ Power(base, k) > k
<1> DEFINE T == {k \in Nat : Power(base, k) \in Nat /\ Power(base, k) > k}
<1>1. 0 \in T
  BY PowerStep
<1>2. ASSUME NEW k \in Nat, k \in T
      PROVE  k + 1 \in T
  <2> DEFINE p == Power(base, k)
  <2>1. p \in Nat /\ p >= k + 1
    BY <1>2
  <2>2. Power(base, k + 1) = base * p
    BY PowerStep
  <2> HIDE DEF p
  <2>3. base * p \in Nat /\ base * p >= 2 * p
    BY <2>1
  <2>4. base * p > k + 1
    BY <2>1, <2>3
  <2> QED
    BY <2>2, <2>3, <2>4
<1> HIDE DEF T
<1>3. \A k \in Nat : k \in T
  BY <1>1, <1>2, Upward
<1> QED
  BY <1>3 DEF T

\* A number of more than limit has a last place: a unit, and the one before it, a base-th.
LEMMA LastPlaceIs ==
    ASSUME NEW n \in Int, NEW limit \in Nat \ {0}, NEW base \in Nat, base > 1, limit <= Abs(n)
    PROVE  \E k \in Nat :
              /\ LastPlace(n, limit, base) = Power(base, k + 1)
              /\ Power(base, k + 1) = base * Power(base, k)
              /\ Power(base, k) \in Nat \ {0} /\ Power(base, k + 1) \in Nat \ {0}
              /\ Abs(n) < limit * Power(base, k + 1)
              /\ Abs(n) >= limit * Power(base, k)
<1> DEFINE a == Abs(n)
           T == {k \in Nat : a < limit * Power(base, k)}
<1>1. a \in Nat /\ a >= 1 /\ limit <= a
  BY DEF Abs
<1>2. \A k \in Nat : Power(base, k) \in Nat \ {0}
  BY PowerGrows
<1>3. a \in T
  <2>1. Power(base, a) \in Nat /\ Power(base, a) > a
    BY <1>1, PowerGrows
  <2>2. \A p \in Nat : p > a => limit * p > a
    BY <1>1
  <2> QED
    BY <1>1, <2>1, <2>2
<1>4. PICK x \in T : \A y \in T : x <= y
  <2>1. T \subseteq Nat /\ T # {}
    BY <1>3
  <2> HIDE DEF T
  <2> QED
    BY <2>1, LeastElement
<1>5. x # 0
  <2>1. limit * 1 = limit
    OBVIOUS
  <2> QED
    BY <1>1, <2>1, PowerStep
<1>6. x \in 1..a /\ x - 1 \in Nat /\ x - 1 \notin T
  <2>1. x \in Nat /\ x <= a /\ ~(x <= x - 1)
    BY <1>1, <1>3, <1>4
  <2> HIDE DEF T
  <2> QED
    BY <1>1, <1>4, <1>5, <2>1
<1>7. a < limit * Power(base, x) /\ a >= limit * Power(base, x - 1)
  <2>1. limit * Power(base, x - 1) \in Nat
    BY <1>2, <1>6
  <2> QED
    BY <1>1, <1>6, <2>1
<1> DEFINE P(k) == a < limit * Power(base, k) /\ a >= limit * Power(base, k - 1)
           c    == CHOOSE k \in 1..a : P(k)
<1>8. c \in 1..a /\ P(c)
  BY <1>6, <1>7
<1>9. LastPlace(n, limit, base) = Power(base, c)
  BY DEF LastPlace
<1> HIDE DEF c, T, a
<1>10. c - 1 \in Nat /\ (c - 1) + 1 = c
  BY <1>1, <1>8
<1>11. Power(base, c) = base * Power(base, c - 1)
  BY <1>10, PowerStep
<1>12. c \in Nat
  BY <1>1, <1>8
<1> QED
  BY <1>2, <1>8, <1>9, <1>10, <1>11, <1>12 DEF a

\* Quotient and rest.
LEMMA QuotientAndRest ==
    ASSUME NEW a \in Nat, NEW u \in Nat \ {0}
    PROVE  /\ a \div u \in Nat /\ a % u \in 0..u - 1
           /\ a = u * (a \div u) + (a % u)
OBVIOUS

\* The nearest multiple of a unit is at most half a unit away, on the same side of zero.
LEMMA NearestIs ==
    ASSUME NEW n \in Int, NEW u \in Nat \ {0}
    PROVE  \E c \in Nat :
              /\ u * c \in Nat
              /\ Nearest(n, u) = IF n < 0 THEN -(u * c) ELSE u * c
              /\ 2 * (u * c - Abs(n)) <= u
              /\ 2 * (Abs(n) - u * c) <= u
<1> DEFINE a == Abs(n)
           q == a \div u
           r == a % u
           up == 2 * r > u \/ (2 * r = u /\ q % 2 = 1)
           c == IF up THEN q + 1 ELSE q
<1>1. a \in Nat
  BY DEF Abs
<1>2. q \in Nat /\ r \in 0..u - 1 /\ a = u * q + r
  BY <1>1, QuotientAndRest
<1>3. Nearest(n, u) = IF n < 0 THEN -(u * c) ELSE u * c
  BY DEF Nearest
<1>4. up => 2 * r >= u
  BY <1>2
<1>5. ~up => 2 * r <= u
  BY <1>2
<1>6. c \in Nat /\ (up => c = q + 1) /\ (~up => c = q)
  BY <1>2
<1> HIDE DEF a, q, r, up, c
<1>7. u * q \in Nat /\ u * (q + 1) = u * q + u
  BY <1>2
<1>8. /\ u * c \in Nat
      /\ 2 * (u * c - a) <= u
      /\ 2 * (a - u * c) <= u
  <2>1. CASE up
    BY <1>1, <1>2, <1>4, <1>6, <1>7, <2>1
  <2>2. CASE ~up
    BY <1>1, <1>2, <1>5, <1>6, <1>7, <2>2
  <2> QED
    BY <2>1, <2>2
<1> QED
  BY <1>3, <1>6, <1>8 DEF a

\* n is rounded to c times u, its last place, of which h is the base-th part: that is no more
\* than half of u away, and on the same side of zero.
RoundsTo(n, limit, base, k, u, h, c) ==
    /\ h = Power(base, k) /\ u = Power(base, k + 1)
    /\ u = base * h
    /\ limit * h \in Nat /\ limit * h <= Abs(n)
    /\ limit * u \in Nat /\ Abs(n) < limit * u
    /\ u * c \in Nat
    /\ Rounded(n, limit, base) = IF n < 0 THEN -(u * c) ELSE u * c
    /\ 2 * (u * c - Abs(n)) <= u
    /\ 2 * (Abs(n) - u * c) <= u

\* What rounding gives if it is not the number itself.
LEMMA RoundedIs ==
    ASSUME NEW n \in Int, NEW limit \in Nat \ {0}, NEW base \in Nat, base > 1, limit <= Abs(n)
    PROVE  \E k \in Nat, u \in Nat \ {0}, h \in Nat \ {0}, c \in Nat :
              RoundsTo(n, limit, base, k, u, h, c)
<1>1. PICK k \in Nat :
              /\ LastPlace(n, limit, base) = Power(base, k + 1)
              /\ Power(base, k + 1) = base * Power(base, k)
              /\ Power(base, k) \in Nat \ {0} /\ Power(base, k + 1) \in Nat \ {0}
              /\ Abs(n) < limit * Power(base, k + 1)
              /\ Abs(n) >= limit * Power(base, k)
  BY LastPlaceIs
<1> DEFINE u == Power(base, k + 1)
           h == Power(base, k)
<1>2. u \in Nat \ {0} /\ h \in Nat \ {0} /\ u = base * h
  BY <1>1
<1>3. Abs(n) \in Nat /\ ~(Abs(n) < limit)
  BY DEF Abs
<1>4. Rounded(n, limit, base) = Nearest(n, u)
  BY <1>1, <1>3 DEF Rounded
<1>5. PICK c \in Nat :
              /\ u * c \in Nat
              /\ Nearest(n, u) = IF n < 0 THEN -(u * c) ELSE u * c
              /\ 2 * (u * c - Abs(n)) <= u
              /\ 2 * (Abs(n) - u * c) <= u
  BY <1>2, NearestIs
<1>6. limit * u \in Nat /\ limit * h \in Nat
  BY <1>2
<1>7. limit * h <= Abs(n) /\ Abs(n) < limit * u
  BY <1>1, <1>3, <1>6
<1>8. h = Power(base, k) /\ u = Power(base, k + 1)
  OBVIOUS
<1> HIDE DEF u, h
<1>9. RoundsTo(n, limit, base, k, u, h, c)
  BY <1>2, <1>4, <1>5, <1>6, <1>7, <1>8 DEF RoundsTo
<1> QED
  BY <1>2, <1>9

\* Rounding never makes less of a number than limit, if that is a multiple of base: with so
\* many digits, the first number of the next length is there.
LEMMA RoundedNotBelow ==
    ASSUME NEW n \in Int, NEW limit \in Nat \ {0}, NEW base \in Nat, base > 1,
           limit % base = 0, limit <= Abs(n)
    PROVE  /\ Rounded(n, limit, base) \in Int
           /\ n > 0 => Rounded(n, limit, base) >= limit
           /\ n < 0 => Rounded(n, limit, base) <= -limit
<1>1. PICK k \in Nat, u \in Nat \ {0}, h \in Nat \ {0}, c \in Nat :
              RoundsTo(n, limit, base, k, u, h, c)
  BY RoundedIs
<1> DEFINE l == limit \div base
<1>2. l \in Nat /\ limit = base * l
  <2>1. limit \in Nat /\ base \in Nat \ {0}
    OBVIOUS
  <2>2. limit = base * l + (limit % base) /\ l \in Nat
    BY <2>1, QuotientAndRest
  <2> HIDE DEF l
  <2>3. base * l \in Nat
    BY <2>2
  <2> QED
    BY <2>2, <2>3
<1> HIDE DEF l
<1>3. limit * h = u * l
  BY <1>1, <1>2 DEF RoundsTo
<1>4. c >= l
  <2> SUFFICES ASSUME c + 1 <= l
               PROVE  FALSE
    BY <1>2
  <2>1. u * c + u <= u * l
    <3>1. u * c + u = u * (c + 1)
      OBVIOUS
    <3>2. u * (c + 1) <= u * l
      BY <1>2
    <3> QED
      BY <3>1, <3>2
  <2>2. Abs(n) \in Nat
    BY DEF Abs
  <2> QED
    BY <1>1, <1>3, <2>1, <2>2 DEF RoundsTo
<1>5. u * c >= limit
  <2>1. u * c >= u * l
    BY <1>2, <1>4
  <2>2. limit * h >= limit
    OBVIOUS
  <2>3. u * l \in Nat
    BY <1>1, <1>3 DEF RoundsTo
  <2> QED
    BY <1>1, <1>3, <2>1, <2>2, <2>3 DEF RoundsTo
<1> QED
  BY <1>1, <1>5 DEF RoundsTo

\* The double, the digits and the double again of a long number are long.
LEMMA DoubleNotBelow ==
    ASSUME NEW n \in Int, Short <= Abs(n)
    PROVE  /\ Double(n) \in Int
           /\ n > 0 => Double(n) >= Short
           /\ n < 0 => Double(n) <= -Short
<1>1. /\ Mantissa \in Nat \ {0} /\ Short \in Nat \ {0} /\ Mantissa % 2 = 0 /\ Short <= Mantissa
      /\ Abs(n) \in Nat
  BY NumberAssumption DEF Abs
<1>2. CASE Abs(n) < Mantissa
  <2>1. Double(n) = n
    BY <1>2 DEF Double, Rounded
  <2> QED
    BY <1>1, <2>1 DEF Abs
<1>3. CASE Mantissa <= Abs(n)
  <2>1. /\ Rounded(n, Mantissa, 2) \in Int
        /\ n > 0 => Rounded(n, Mantissa, 2) >= Mantissa
        /\ n < 0 => Rounded(n, Mantissa, 2) <= -Mantissa
    BY <1>1, <1>3, RoundedNotBelow
  <2> QED
    BY <1>1, <2>1 DEF Double
<1> QED
  BY <1>1, <1>2, <1>3

LEMMA PrintNotBelow ==
    ASSUME NEW d \in Int, Short <= Abs(d)
    PROVE  /\ PrintNumber(d) \in Int
           /\ d > 0 => PrintNumber(d) >= Short
           /\ d < 0 => PrintNumber(d) <= -Short
<1>1. /\ Long \in Nat \ {0} /\ Short \in Nat \ {0} /\ Base \in Nat /\ Base > 1
      /\ Short % Base = 0 /\ Long % Base = 0
      /\ Abs(d) \in Nat
  BY NumberAssumption DEF Abs
<1>2. Short <= Long
  <2>1. Base * Mantissa >= Mantissa /\ Base * Mantissa \in Int /\ Mantissa \in Nat
    BY NumberAssumption
  <2>2. Base * Mantissa <= Long /\ 7 * Short <= Mantissa
    BY NumberAssumption
  <2> QED
    BY <1>1, <2>1, <2>2
<1>3. /\ Decimal(d, Short) \in Int
      /\ d > 0 => Decimal(d, Short) >= Short
      /\ d < 0 => Decimal(d, Short) <= -Short
  BY <1>1, RoundedNotBelow DEF Decimal
<1>4. /\ Decimal(d, Long) \in Int
      /\ d > 0 => Decimal(d, Long) >= Short
      /\ d < 0 => Decimal(d, Long) <= -Short
  <2>1. CASE Abs(d) < Long
    <3>1. Decimal(d, Long) = d
      BY <2>1 DEF Decimal, Rounded
    <3> QED
      BY <1>1, <3>1 DEF Abs
  <2>2. CASE Long <= Abs(d)
    <3>1. /\ Rounded(d, Long, Base) \in Int
          /\ d > 0 => Rounded(d, Long, Base) >= Long
          /\ d < 0 => Rounded(d, Long, Base) <= -Long
      BY <1>1, <2>2, RoundedNotBelow
    <3> QED
      BY <1>1, <1>2, <3>1 DEF Decimal
  <2> QED
    BY <1>1, <2>1, <2>2
<1> QED
  BY <1>3, <1>4 DEF PrintNumber
\* A number with no more places than there are keeps them all.
LEMMA RoundedExact ==
    ASSUME NEW n \in Int, NEW limit \in Int, NEW base \in Int, Abs(n) < limit
    PROVE  Rounded(n, limit, base) = n
BY DEF Rounded

\* compare_double holds a number equal to itself.
LEMMA CompareSame ==
    ASSUME NEW n \in Int
    PROVE  CompareDouble(n, n)
<1>1. Abs(n) \in Nat
  BY DEF Abs
<1>2. Abs(n - n) = 0
  BY DEF Abs
<1>3. Mantissa \in Nat
  BY NumberAssumption
<1>4. 0 * Mantissa <= 2 * Abs(n)
  BY <1>1, <1>3
<1> QED
  BY <1>2, <1>4 DEF CompareDouble

\* cJSON_AddNumberToObject and print_number write a number of fewer than 15 digits as it
\* is, all ints and unsigned ints among them.
THEOREM ShortNumbersExact ==
    ASSUME NEW n \in Int, Abs(n) < Short
    PROVE  /\ Text(n) = n
           /\ Double(n) = n
<1> Short \in Nat /\ Mantissa \in Nat /\ Base \in Nat /\ Short < Mantissa
  BY NumberAssumption
<1>1. Double(n) = n
  <2>1. Abs(n) \in Int
    BY DEF Abs
  <2>2. Abs(n) < Mantissa
    BY <2>1
  <2> QED
    BY <2>2, RoundedExact DEF Double
<1>2. Decimal(n, Short) = n
  BY RoundedExact DEF Decimal
<1>3. PrintNumber(n) = n
  BY <1>1, <1>2, CompareSame DEF PrintNumber
<1> QED
  BY <1>1, <1>3 DEF Text

\* Whatever the number, its text has one, and the double read from that.
LEMMA RoundedInt ==
    ASSUME NEW n \in Int, NEW limit \in Nat \ {0}, NEW base \in Nat, base > 1
    PROVE  Rounded(n, limit, base) \in Int
<1>1. CASE Abs(n) < limit
  BY <1>1 DEF Rounded
<1>2. CASE ~(Abs(n) < limit)
  <2>1. limit <= Abs(n)
    BY <1>2 DEF Abs
  <2>2. PICK k \in Nat, u \in Nat \ {0}, h \in Nat \ {0}, c \in Nat :
              RoundsTo(n, limit, base, k, u, h, c)
    BY <2>1, RoundedIs
  <2> QED
    BY <2>2 DEF RoundsTo
<1> QED
  BY <1>1, <1>2

LEMMA TextInt ==
    ASSUME NEW n \in Int
    PROVE  Double(n) \in Int /\ PrintNumber(n) \in Int /\ Text(n) \in Int
<1>1. \A i \in Int : Double(i) \in Int
  <2>1. Mantissa \in Nat \ {0} /\ 2 \in Nat /\ 2 > 1
    BY NumberAssumption
  <2> QED
    BY <2>1, RoundedInt DEF Double
<1>2. \A i \in Int : PrintNumber(i) \in Int
  BY RoundedInt, NumberAssumption DEF PrintNumber, Decimal
<1> QED
  BY <1>1, <1>2 DEF Text

\* The way of a number through a text ends at the number cut to the range of int: valueint
\* saturates also when the digits have been rounded.
THEOREM NumbersSaturate ==
    ASSUME NEW n \in Int
    PROVE  ValueInt(Double(Text(n))) =
           IF n > Max32 THEN Max32 ELSE IF n < -Max32 - 1 THEN -Max32 - 1 ELSE n
<1>1. Max32 \in Nat /\ Short \in Nat /\ 2 * Max32 + 1 < Short /\ Abs(n) \in Nat
  BY NumberAssumption DEF Abs
<1>2. CASE Abs(n) < Short
  <2>1. Double(Text(n)) = n
    BY <1>2, ShortNumbersExact
  <2> QED
    BY <1>1, <2>1 DEF ValueInt
<1>3. CASE Short <= Abs(n)
  <2> DEFINE d == Double(n)
             e == PrintNumber(d)
             g == Double(e)
  <2>1. d \in Int /\ (n > 0 => d >= Short) /\ (n < 0 => d <= -Short)
    BY <1>3, DoubleNotBelow
  <2>2. Short <= Abs(d)
    BY <1>1, <1>3, <2>1 DEF Abs
  <2> HIDE DEF d
  <2>3. e \in Int /\ (d > 0 => e >= Short) /\ (d < 0 => e <= -Short)
    BY <2>1, <2>2, PrintNotBelow
  <2>4. Short <= Abs(e)
    BY <1>1, <2>1, <2>2, <2>3 DEF Abs
  <2> HIDE DEF e
  <2>5. g \in Int /\ (e > 0 => g >= Short) /\ (e < 0 => g <= -Short)
    BY <2>3, <2>4, DoubleNotBelow
  <2> HIDE DEF g
  <2>6. (n > 0 => g >= Short) /\ (n < 0 => g <= -Short) /\ n # 0
    BY <1>1, <1>3, <2>1, <2>3, <2>5 DEF Abs
  <2>7. ValueInt(g) = IF n > Max32 THEN Max32 ELSE IF n < -Max32 - 1 THEN -Max32 - 1 ELSE n
    BY <1>1, <1>3, <2>5, <2>6 DEF ValueInt, Abs
  <2> QED
    BY <2>7 DEF d, e, g, Text
<1> QED
  BY <1>1, <1>2, <1>3

\* An int that a signed field has is assigned to it unchanged.
LEMMA SignedExact ==
    ASSUME NEW max \in Nat, NEW i \in Signed(max)
    PROVE  ToSigned(i, max) = i
<1>1. i + max + 1 \in 0 .. 2 * max + 1
  BY DEF Signed
<1>2. \A m \in Nat \ {0} : \A k \in 0 .. m - 1 : k % m = k
  OBVIOUS
<1>3. (i + max + 1) % (2 * max + 2) = i + max + 1
  BY <1>1, <1>2
<1> QED
  BY <1>3 DEF ToSigned, Signed

\* An int that an unsigned field has is assigned to it unchanged.
LEMMA UnsignedExact ==
    ASSUME NEW max \in Nat, NEW i \in Unsigned(max)
    PROVE  ToUnsigned(i, max) = i
<1>1. \A m \in Nat \ {0} : \A k \in 0 .. m - 1 : k % m = k
  OBVIOUS
<1> QED
  BY <1>1 DEF ToUnsigned, Unsigned

\* From the field of one sample to the field of another: a number that is in the range of
\* int and of the field's own type comes back as it was, signed or unsigned.
THEOREM IntArrives ==
    ASSUME NEW max \in Nat, NEW n \in Signed(Max32)
    PROVE  LET i == ValueInt(Double(Text(n)))
           IN  /\ i = n
               /\ n \in Signed(max) => ToSigned(i, max) = n
               /\ n \in Unsigned(max) => ToUnsigned(i, max) = n
<1>1. Max32 \in Nat /\ Short \in Nat /\ 2 * Max32 + 1 < Short
  BY NumberAssumption
<1>2. n \in Int /\ Abs(n) < Short
  BY <1>1, NumberAssumption DEF Signed, Abs
<1>3. Double(Text(n)) = n
  BY <1>2, ShortNumbersExact
<1>4. ValueInt(n) = n
  BY <1>1 DEF ValueInt, Signed
<1> QED
  BY <1>3, <1>4, SignedExact, UnsignedExact

-----------------------------------------------------------------------------
(* Rounding keeps the order *)

\* Every power is a multiple of those before it.
LEMMA PowersDivide ==
    ASSUME NEW base \in Nat, base > 1, NEW j \in Nat
    PROVE  \A i \in Nat : \E m \in Nat \ {0} : Power(base, j + i) = Power(base, j) * m
<1> DEFINE p == Power(base, j)
           T == {i \in Nat : \E m \in Nat \ {0} : Power(base, j + i) = p * m}
<1>1. p \in Nat
  BY PowerGrows
<1>2. 0 \in T
  <2>1. j + 0 = j
    OBVIOUS
  <2>2. Power(base, j + 0) = p * 1
    <3>1. Power(base, j + 0) = p
      BY <2>1
    <3> HIDE DEF p
    <3> QED
      BY <1>1, <3>1
  <2>3. \E m \in Nat \ {0} : Power(base, j + 0) = p * m
    BY <2>2
  <2> QED
    BY <2>3
<1>3. ASSUME NEW i \in Nat, i \in T
      PROVE  i + 1 \in T
  <2>1. PICK m \in Nat \ {0} : Power(base, j + i) = p * m
    BY <1>3
  <2>2. Power(base, (j + i) + 1) = base * Power(base, j + i)
    <3>1. j + i \in Nat
      OBVIOUS
    <3> QED
      BY <3>1, PowerStep
  <2> HIDE DEF p
  <2>3. base * (p * m) = p * (base * m) /\ base * m \in Nat \ {0}
    BY <1>1
  <2>4. (j + i) + 1 = j + (i + 1)
    OBVIOUS
  <2>5. Power(base, j + (i + 1)) = p * (base * m)
    BY <2>1, <2>2, <2>3, <2>4
  <2>6. \E k \in Nat \ {0} : Power(base, j + (i + 1)) = p * k
    BY <2>3, <2>5
  <2> QED
    BY <2>6
<1> HIDE DEF T
<1>4. \A i \in Nat : i \in T
  BY <1>2, <1>3, Upward
<1> QED
  BY <1>4 DEF T, p

LEMMA PowersBefore ==
    ASSUME NEW base \in Nat, base > 1, NEW j \in Nat, NEW k \in Nat, j <= k
    PROVE  \E m \in Nat \ {0} : /\ Power(base, k) = Power(base, j) * m
                                /\ Power(base, j) <= Power(base, k)
<1>1. k - j \in Nat /\ j + (k - j) = k
  OBVIOUS
<1>2. PICK m \in Nat \ {0} : Power(base, j + (k - j)) = Power(base, j) * m
  <2>1. \A i \in Nat : \E m \in Nat \ {0} : Power(base, j + i) = Power(base, j) * m
    BY PowersDivide
  <2>2. k - j \in Nat
    BY <1>1
  <2> QED
    BY <2>1, <2>2, Zenon
<1>3. Power(base, j) \in Nat
  BY PowerGrows
<1> DEFINE p == Power(base, j)
<1> HIDE DEF p
<1>4. p <= p * m
  BY <1>3 DEF p
<1>5. Power(base, k) = p * m
  BY <1>1, <1>2 DEF p
<1> QED
  BY <1>4, <1>5 DEF p

\* There is one quotient.
LEMMA OneQuotient ==
    ASSUME NEW u \in Nat \ {0}, NEW q \in Nat, NEW r \in 0 .. u - 1,
           NEW c \in Nat, NEW s \in 0 .. u - 1, u * q + r <= u * c + s
    PROVE  q <= c
<1> SUFFICES ASSUME c + 1 <= q
             PROVE  FALSE
  OBVIOUS
<1>1. u * (c + 1) <= u * q
  OBVIOUS
<1>2. u * (c + 1) = u * c + u
  OBVIOUS
<1>3. u * c \in Nat /\ u * q \in Nat
  OBVIOUS
<1> QED
  BY <1>1, <1>2, <1>3

\* A multiple of the unit is the one next to it.
LEMMA NearestMultiple ==
    ASSUME NEW u \in Nat \ {0}, NEW c \in Nat
    PROVE  Nearest(u * c, u) = u * c
<1> DEFINE a == u * c
           q == a \div u
           r == a % u
<1>1. a \in Nat
  OBVIOUS
<1>2. a + 0 = u * c + 0 /\ 0 \in 0 .. u - 1
  OBVIOUS
<1> HIDE DEF a
<1>3. q \in Nat /\ r \in 0 .. u - 1 /\ a = u * q + r
  BY <1>1, QuotientAndRest
<1> HIDE DEF q, r
<1>4. u * q + r <= u * c + 0 /\ u * c + 0 <= u * q + r
  BY <1>1, <1>2, <1>3
<1>5. q <= c /\ c <= q
  BY <1>2, <1>3, <1>4, OneQuotient
<1>6. q = c
  BY <1>3, <1>5
<1>7. r = 0
  <2>1. u * c \in Nat
    OBVIOUS
  <2> QED
    BY <1>2, <1>3, <1>6, <2>1
<1>8. Abs(a) = a /\ ~(a < 0)
  BY <1>1 DEF Abs
<1>9. Nearest(a, u) = u * q
  <2>1. ~(2 * r > u) /\ 2 * r # u
    BY <1>7
  <2> QED
    BY <1>8, <2>1 DEF Nearest, q, r
<1> QED
  BY <1>6, <1>9 DEF a

\* What is next to a unit's multiples keeps the order.
LEMMA NearestMonotone ==
    ASSUME NEW u \in Nat \ {0}, NEW a \in Nat, NEW b \in Nat, a <= b
    PROVE  Nearest(a, u) <= Nearest(b, u)
<1> DEFINE qa == a \div u
           ra == a % u
           upa == 2 * ra > u \/ (2 * ra = u /\ qa % 2 = 1)
           ca == IF upa THEN qa + 1 ELSE qa
           qb == b \div u
           rb == b % u
           upb == 2 * rb > u \/ (2 * rb = u /\ qb % 2 = 1)
           cb == IF upb THEN qb + 1 ELSE qb
<1>1. Nearest(a, u) = u * ca /\ Nearest(b, u) = u * cb
  <2>1. Abs(a) = a /\ Abs(b) = b /\ ~(a < 0) /\ ~(b < 0)
    BY DEF Abs
  <2> QED
    BY <2>1 DEF Nearest
<1>2. /\ qa \in Nat /\ ra \in 0 .. u - 1 /\ a = u * qa + ra
      /\ qb \in Nat /\ rb \in 0 .. u - 1 /\ b = u * qb + rb
  BY QuotientAndRest
<1> HIDE DEF qa, qb, ra, rb
<1>3. qa <= qb
  <2>1. u * qa + ra <= u * qb + rb
    BY <1>2
  <2> QED
    BY <1>2, <2>1, OneQuotient
<1>4. ca <= cb
  <2>1. CASE qa = qb
    <3>1. ra <= rb
      <4>1. u * qa \in Nat
        BY <1>2
      <4> QED
        BY <1>2, <2>1, <4>1
    <3>2. upa => upb
      BY <1>2, <2>1, <3>1
    <3> QED
      BY <1>2, <2>1, <3>2
  <2>2. CASE qa # qb
    <3>1. qa + 1 <= qb
      BY <1>2, <1>3, <2>2
    <3> QED
      BY <1>2, <3>1
  <2> QED
    BY <2>1, <2>2
<1>5. ca \in Nat /\ cb \in Nat
  BY <1>2
<1> HIDE DEF ca, cb
<1>6. u * ca <= u * cb
  BY <1>4, <1>5
<1> QED
  BY <1>1, <1>6

\* A number with few enough places is the one it is rounded to.
LEMMA Representable ==
    ASSUME NEW limit \in Nat \ {0}, NEW base \in Nat, base > 1, limit % base = 0,
           NEW j \in Nat, NEW c \in Nat, c <= limit
    PROVE  Rounded(Power(base, j) * c, limit, base) = Power(base, j) * c
<1> DEFINE w == Power(base, j)
           x == w * c
<1>1. w \in Nat \ {0}
  BY PowerGrows
<1> HIDE DEF w
<1>2. x \in Nat
  BY <1>1
<1>3. Abs(x) = x
  BY <1>2 DEF Abs
<1>4. CASE x < limit
  BY <1>3, <1>4 DEF Rounded, w
<1>5. CASE ~(x < limit)
  <2> DEFINE l == limit \div base
  <2>0. l \in Nat /\ limit = base * l
    <3>1. limit \in Nat /\ base \in Nat \ {0}
      OBVIOUS
    <3>2. limit = base * l + (limit % base) /\ l \in Nat
      BY <3>1, QuotientAndRest
    <3> HIDE DEF l
    <3>3. base * l \in Nat
      BY <3>2
    <3> QED
      BY <3>2, <3>3
  <2> HIDE DEF l, x
  <2>1. limit <= Abs(x) /\ x \in Int
    BY <1>2, <1>3, <1>5
  <2>2. PICK k \in Nat :
              /\ LastPlace(x, limit, base) = Power(base, k + 1)
              /\ Power(base, k + 1) = base * Power(base, k)
              /\ Power(base, k) \in Nat \ {0} /\ Power(base, k + 1) \in Nat \ {0}
              /\ Abs(x) < limit * Power(base, k + 1)
              /\ Abs(x) >= limit * Power(base, k)
    BY <2>1, LastPlaceIs
  <2> DEFINE u == Power(base, k + 1)
             h == Power(base, k)
  <2>3. Rounded(x, limit, base) = Nearest(x, u)
    BY <1>3, <1>5, <2>2 DEF Rounded
  <2>4. \E d \in Nat : x = u * d
    <3>1. CASE k + 1 <= j
      <4>1. PICK m \in Nat \ {0} : w = u * m
        BY <3>1, PowersBefore DEF w
      <4> HIDE DEF u
      <4>2. x = u * (m * c) /\ m * c \in Nat
        BY <2>2, <4>1 DEF u, x
      <4> QED
        BY <4>2
    <3>2. CASE ~(k + 1 <= j)
      <4>1. j <= k
        BY <3>2
      <4>2. w <= h
        BY <4>1, PowersBefore DEF w
      <4>3. h \in Nat \ {0} /\ u = base * h /\ limit * h <= x
        BY <1>3, <2>2
      <4> HIDE DEF u, h
      <4>4. w * c <= w * limit /\ w * limit <= limit * h
        BY <1>1, <4>2, <4>3
      <4>5. limit * h \in Nat /\ w * limit \in Nat
        BY <1>1, <4>3
      <4>6. x = limit * h
        BY <1>2, <4>3, <4>4, <4>5 DEF x
      <4>7. limit * h = u * l
        BY <2>0, <4>3
      <4> QED
        BY <2>0, <4>6, <4>7
    <3> QED
      BY <3>1, <3>2
  <2>5. PICK d \in Nat : x = u * d
    BY <2>4
  <2>6. Nearest(u * d, u) = u * d
    <3>1. u \in Nat \ {0}
      BY <2>2
    <3> HIDE DEF u
    <3> QED
      BY <3>1, NearestMultiple
  <2>7. Rounded(x, limit, base) = x
    BY <2>3, <2>5, <2>6
  <2> QED
    BY <2>7 DEF x, w
<1> QED
  BY <1>4, <1>5

\* Rounding stays between the ends of a length, both of which have few enough places.
LEMMA RoundsBetween ==
    ASSUME NEW n \in Nat, NEW limit \in Nat \ {0}, NEW base \in Nat, base > 1,
           limit % base = 0, NEW k \in Nat, NEW u \in Nat \ {0}, NEW h \in Nat \ {0}, NEW c \in Nat,
           RoundsTo(n, limit, base, k, u, h, c)
    PROVE  /\ c <= limit /\ Rounded(n, limit, base) = u * c
           /\ Nearest(n, u) = u * c
           /\ limit * h <= u * c /\ u * c <= limit * u
<1> DEFINE l == limit \div base
<1>1. l \in Nat /\ limit = base * l
  <2>1. limit \in Nat /\ base \in Nat \ {0}
    OBVIOUS
  <2>2. limit = base * l + (limit % base) /\ l \in Nat
    BY <2>1, QuotientAndRest
  <2> HIDE DEF l
  <2>3. base * l \in Nat
    BY <2>2
  <2> QED
    BY <2>2, <2>3
<1> HIDE DEF l
<1>2. Abs(n) = n /\ ~(n < 0)
  BY DEF Abs
<1>3. /\ limit * h <= n /\ n < limit * u /\ u * c \in Nat /\ limit * u \in Nat
      /\ Rounded(n, limit, base) = u * c
      /\ 2 * (u * c - n) <= u /\ 2 * (n - u * c) <= u /\ u = base * h /\ limit * h \in Nat
  BY <1>2 DEF RoundsTo
<1>4. limit * h = u * l
  BY <1>1, <1>3
<1>5. c <= limit
  <2> SUFFICES ASSUME limit + 1 <= c
               PROVE  FALSE
    OBVIOUS
  <2>1. u * (limit + 1) <= u * c
    OBVIOUS
  <2>2. u * (limit + 1) = limit * u + u
    OBVIOUS
  <2> QED
    BY <1>3, <2>1, <2>2
<1>6. l <= c
  <2> SUFFICES ASSUME c + 1 <= l
               PROVE  FALSE
    BY <1>1
  <2>1. u * (c + 1) <= u * l
    BY <1>1
  <2>2. u * (c + 1) = u * c + u
    OBVIOUS
  <2> QED
    BY <1>3, <1>4, <2>1, <2>2
<1>7. u * l <= u * c /\ u * c <= limit * u
  BY <1>1, <1>5, <1>6
<1>8. Nearest(n, u) = u * c
  <2>1. Nearest(n, u) = Rounded(n, limit, base)
    <3>1. ~(n < limit)
      <4>1. limit <= limit * h
        OBVIOUS
      <4> QED
        BY <1>3, <4>1
    <3>2. limit <= Abs(n) /\ n \in Int
      BY <1>2, <3>1
    <3>3. PICK i \in Nat :
              /\ LastPlace(n, limit, base) = Power(base, i + 1)
              /\ Power(base, i + 1) = base * Power(base, i)
              /\ Power(base, i) \in Nat \ {0} /\ Power(base, i + 1) \in Nat \ {0}
              /\ Abs(n) < limit * Power(base, i + 1)
              /\ Abs(n) >= limit * Power(base, i)
      BY <3>2, LastPlaceIs
    <3>4. i = k
      <4>1. /\ n < limit * Power(base, i + 1) /\ n >= limit * Power(base, i)
            /\ Power(base, i) \in Nat /\ Power(base, i + 1) \in Nat
        BY <1>2, <3>3
      <4>2. h = Power(base, k) /\ u = Power(base, k + 1)
        BY DEF RoundsTo
      <4>3. CASE i + 1 <= k
        <5>1. Power(base, i + 1) <= h
          BY <4>2, <4>3, PowersBefore
        <5>2. limit * Power(base, i + 1) <= limit * h
          BY <4>1, <5>1
        <5>3. limit * Power(base, i + 1) \in Nat
          BY <4>1
        <5> QED
          BY <1>3, <4>1, <5>2, <5>3
      <4>4. CASE k + 1 <= i
        <5>1. u <= Power(base, i)
          BY <4>2, <4>4, PowersBefore
        <5>2. limit * u <= limit * Power(base, i)
          BY <4>1, <5>1
        <5>3. limit * Power(base, i) \in Nat
          BY <4>1
        <5> QED
          BY <1>3, <4>1, <5>2, <5>3
      <4> QED
        BY <4>3, <4>4
    <3>5. LastPlace(n, limit, base) = u
      BY <3>3, <3>4 DEF RoundsTo
    <3> QED
      BY <1>2, <3>1, <3>5 DEF Rounded
  <2> QED
    BY <1>3, <2>1
<1> QED
  BY <1>3, <1>4, <1>5, <1>7, <1>8

\* What is rounded has few enough places.
LEMMA RoundedPlaces ==
    ASSUME NEW n \in Nat, NEW limit \in Nat \ {0}, NEW base \in Nat, base > 1, limit % base = 0
    PROVE  \E j \in Nat, c \in Nat : c <= limit /\ Rounded(n, limit, base) = Power(base, j) * c
<1>1. CASE n < limit
  <2>1. Rounded(n, limit, base) = n
    BY <1>1 DEF Rounded, Abs
  <2>2. Power(base, 0) = 1
    BY PowerStep
  <2>3. Rounded(n, limit, base) = Power(base, 0) * n
    BY <2>1, <2>2
  <2>4. n <= limit /\ 0 \in Nat
    BY <1>1
  <2> QED
    BY <2>3, <2>4
<1>2. CASE ~(n < limit)
  <2>1. limit <= Abs(n) /\ n \in Int
    BY <1>2 DEF Abs
  <2>2. PICK k \in Nat, u \in Nat \ {0}, h \in Nat \ {0}, c \in Nat :
              RoundsTo(n, limit, base, k, u, h, c)
    BY <2>1, RoundedIs
  <2>3. c <= limit /\ Rounded(n, limit, base) = u * c
    BY <2>2, RoundsBetween
  <2>4. u = Power(base, k + 1) /\ k + 1 \in Nat
    BY <2>2 DEF RoundsTo
  <2> QED
    BY <2>3, <2>4
<1> QED
  BY <1>1, <1>2

\* Rounding keeps the order.
LEMMA RoundedMonotone ==
    ASSUME NEW a \in Nat, NEW b \in Nat, a <= b, NEW limit \in Nat \ {0},
           NEW base \in Nat, base > 1, limit % base = 0
    PROVE  Rounded(a, limit, base) <= Rounded(b, limit, base)
<1>0. Abs(a) = a /\ Abs(b) = b /\ a \in Int /\ b \in Int
  BY DEF Abs
<1>1. CASE a < limit
  <2>1. Rounded(a, limit, base) = a
    BY <1>0, <1>1 DEF Rounded
  <2>2. CASE b < limit
    <3>1. Rounded(b, limit, base) = b
      BY <1>0, <2>2 DEF Rounded
    <3> QED
      BY <2>1, <3>1
  <2>3. CASE ~(b < limit)
    <3>1. limit <= Abs(b) /\ b > 0
      BY <1>0, <2>3
    <3>2. Rounded(b, limit, base) \in Int /\ Rounded(b, limit, base) >= limit
      BY <1>0, <3>1, RoundedNotBelow
    <3> QED
      BY <1>1, <2>1, <3>2
  <2> QED
    BY <2>2, <2>3
<1>2. CASE ~(a < limit)
  <2>1. limit <= Abs(a) /\ limit <= Abs(b)
    BY <1>0, <1>2
  <2>2. PICK k \in Nat, u \in Nat \ {0}, h \in Nat \ {0}, c \in Nat :
              RoundsTo(a, limit, base, k, u, h, c)
    BY <1>0, <2>1, RoundedIs
  <2>3. PICK i \in Nat, v \in Nat \ {0}, g \in Nat \ {0}, d \in Nat :
              RoundsTo(b, limit, base, i, v, g, d)
    BY <1>0, <2>1, RoundedIs
  <2>4. /\ Rounded(a, limit, base) = u * c /\ Nearest(a, u) = u * c /\ u * c <= limit * u
        /\ limit * h <= a /\ limit * u \in Nat /\ u = Power(base, k + 1) /\ u * c \in Nat
    <3>1. /\ limit * h <= a /\ limit * u \in Nat /\ u = Power(base, k + 1) /\ u * c \in Nat
      BY <1>0, <2>2 DEF RoundsTo
    <3>2. Rounded(a, limit, base) = u * c /\ Nearest(a, u) = u * c /\ u * c <= limit * u
      BY <2>2, RoundsBetween
    <3> QED
      BY <3>1, <3>2
  <2>5. /\ Rounded(b, limit, base) = v * d /\ Nearest(b, v) = v * d /\ limit * g <= v * d
        /\ b < limit * v /\ limit * g \in Nat /\ v = Power(base, i + 1) /\ g = Power(base, i)
        /\ v * d \in Nat /\ limit * v \in Nat
    <3>1. /\ b < limit * v /\ limit * g \in Nat /\ v = Power(base, i + 1) /\ g = Power(base, i)
          /\ v * d \in Nat /\ limit * v \in Nat
      BY <1>0, <2>3 DEF RoundsTo
    <3>2. Rounded(b, limit, base) = v * d /\ Nearest(b, v) = v * d /\ limit * g <= v * d
      BY <2>3, RoundsBetween
    <3> QED
      BY <3>1, <3>2
  <2>6. CASE k = i
    BY <2>4, <2>5, <2>6, NearestMonotone
  <2>7. CASE k + 1 <= i
    <3>1. u <= g
      BY <2>4, <2>5, <2>7, PowersBefore
    <3>2. limit * u <= limit * g
      BY <3>1
    <3> QED
      BY <2>4, <2>5, <3>2
  <2>8. CASE i + 1 <= k
    <3>1. v <= h
      <4>1. h = Power(base, k)
        BY <2>2 DEF RoundsTo
      <4> QED
        BY <2>5, <2>8, <4>1, PowersBefore
    <3>2. limit * v <= limit * h /\ limit * h \in Nat
      BY <3>1
    <3> QED
      BY <2>4, <2>5, <3>2
  <2> QED
    BY <2>6, <2>7, <2>8
<1> QED
  BY <1>1, <1>2

\* Rounding treats a number and its negative alike.
LEMMA RoundedOdd ==
    ASSUME NEW n \in Int, NEW limit \in Nat \ {0}, NEW base \in Nat, base > 1
    PROVE  Rounded(-n, limit, base) = -Rounded(n, limit, base)
<1>1. Abs(-n) = Abs(n) /\ Abs(n) \in Nat
  BY DEF Abs
<1>2. CASE Abs(n) < limit
  BY <1>1, <1>2 DEF Rounded
<1>3. CASE ~(Abs(n) < limit)
  <2> DEFINE u == LastPlace(n, limit, base)
  <2>1. LastPlace(-n, limit, base) = u
    BY <1>1 DEF LastPlace
  <2>2. u \in Nat \ {0}
    <3>1. limit <= Abs(n)
      BY <1>1, <1>3
    <3> QED
      BY <3>1, LastPlaceIs
  <2> HIDE DEF u
  <2> DEFINE q == Abs(n) \div u
             r == Abs(n) % u
             up == 2 * r > u \/ (2 * r = u /\ q % 2 = 1)
             m == u * (IF up THEN q + 1 ELSE q)
  <2>3. /\ Nearest(n, u) = IF n < 0 THEN -m ELSE m
        /\ Nearest(-n, u) = IF -n < 0 THEN -m ELSE m
    BY <1>1 DEF Nearest
  <2>4. q \in Nat
    BY <1>1, <2>2, QuotientAndRest
  <2>5. m \in Int
    <3> HIDE DEF q, up
    <3> QED
      BY <2>2, <2>4
  <2>6. n = 0 => FALSE
    BY <1>3 DEF Abs
  <2> HIDE DEF m
  <2>7. Nearest(-n, u) = -Nearest(n, u)
    BY <2>3, <2>5, <2>6
  <2> QED
    BY <1>1, <1>3, <2>1, <2>7 DEF Rounded, u
<1> QED
  BY <1>2, <1>3

\* Rounding again, to as many places or more, changes nothing.
LEMMA RoundedTwice ==
    ASSUME NEW n \in Nat, NEW limit \in Nat \ {0}, NEW more \in Nat \ {0}, limit <= more,
           NEW base \in Nat, base > 1, limit % base = 0, more % base = 0
    PROVE  Rounded(Rounded(n, limit, base), more, base) = Rounded(n, limit, base)
<1>1. PICK j \in Nat, c \in Nat : c <= limit /\ Rounded(n, limit, base) = Power(base, j) * c
  BY RoundedPlaces
<1>2. c <= more
  BY <1>1
<1>3. Rounded(Power(base, j) * c, more, base) = Power(base, j) * c
  BY <1>2, Representable
<1> QED
  BY <1>1, <1>3

\* A natural number stays one.
LEMMA RoundedNat ==
    ASSUME NEW n \in Nat, NEW limit \in Nat \ {0}, NEW base \in Nat, base > 1, limit % base = 0
    PROVE  Rounded(n, limit, base) \in Nat
<1>1. PICK j \in Nat, c \in Nat : c <= limit /\ Rounded(n, limit, base) = Power(base, j) * c
  BY RoundedPlaces
<1>2. Power(base, j) \in Nat
  BY PowerGrows
<1> DEFINE w == Power(base, j)
<1> HIDE DEF w
<1>3. w * c \in Nat
  BY <1>2 DEF w
<1> QED
  BY <1>1, <1>3 DEF w

\* compare_double of two numbers of which the greater one is known.
LEMMA CompareOrdered ==
    ASSUME NEW a \in Nat, NEW b \in Nat, a <= b
    PROVE  /\ CompareDouble(a, b) <=> (b - a) * Mantissa <= 2 * b
           /\ CompareDouble(b, a) <=> (b - a) * Mantissa <= 2 * b
<1>1. Abs(a) = a /\ Abs(b) = b /\ Abs(a - b) = b - a /\ Abs(b - a) = b - a
  BY DEF Abs
<1>2. (IF Abs(a) > Abs(b) THEN Abs(a) ELSE Abs(b)) = b
  BY <1>1
<1>3. (IF Abs(b) > Abs(a) THEN Abs(b) ELSE Abs(a)) = b
  BY <1>1
<1>4. CompareDouble(a, b) <=> (b - a) * Mantissa <= 2 * b
  BY <1>1, <1>2 DEF CompareDouble
<1>5. CompareDouble(b, a) <=> (b - a) * Mantissa <= 2 * b
  BY <1>1, <1>3 DEF CompareDouble
<1> QED
  BY <1>4, <1>5

\* What the constants say about the three lengths.
LEMMA Lengths ==
    /\ Mantissa \in Nat \ {0} /\ Mantissa % 2 = 0 /\ 2 \in Nat /\ 2 > 1 /\ Mantissa >= 2
    /\ Short \in Nat \ {0} /\ Long \in Nat \ {0} /\ Short <= Long
    /\ Short % Base = 0 /\ Long % Base = 0 /\ Base \in Nat /\ Base > 1
<1> DEFINE bm == Base * Mantissa
<1>1. /\ Mantissa \in Nat \ {0} /\ Mantissa % 2 = 0 /\ Short \in Nat \ {0} /\ Long \in Nat \ {0}
      /\ Short % Base = 0 /\ Long % Base = 0 /\ Base \in Nat /\ Base > 1
      /\ 7 * Short <= Mantissa /\ bm <= Long
  BY NumberAssumption
<1>2. Mantissa <= bm
  BY <1>1
<1>3. bm \in Nat
  BY <1>1
<1> HIDE DEF bm
<1> QED
  BY <1>1, <1>2, <1>3

\* Doubles, and texts of either length, keep the order and are stable.
LEMMA DoubleOrder ==
    ASSUME NEW a \in Nat, NEW b \in Nat, a <= b
    PROVE  /\ Double(a) \in Nat /\ Double(b) \in Nat /\ Double(a) <= Double(b)
           /\ Double(Double(a)) = Double(a)
<1>1. Rounded(a, Mantissa, 2) \in Nat /\ Rounded(b, Mantissa, 2) \in Nat
  BY Lengths, RoundedNat
<1>2. Rounded(a, Mantissa, 2) <= Rounded(b, Mantissa, 2)
  BY Lengths, RoundedMonotone
<1>3. Rounded(Rounded(a, Mantissa, 2), Mantissa, 2) = Rounded(a, Mantissa, 2)
  BY Lengths, RoundedTwice
<1> QED
  BY <1>1, <1>2, <1>3 DEF Double

LEMMA DecimalOrder ==
    ASSUME NEW a \in Nat, NEW b \in Nat, a <= b
    PROVE  /\ Decimal(a, Short) \in Nat /\ Decimal(a, Long) \in Nat
           /\ Decimal(b, Short) \in Nat /\ Decimal(b, Long) \in Nat
           /\ Decimal(a, Short) <= Decimal(b, Short)
           /\ Decimal(a, Long) <= Decimal(b, Long)
           /\ Decimal(Decimal(a, Short), Short) = Decimal(a, Short)
           /\ Decimal(Decimal(a, Short), Long) = Decimal(a, Short)
           /\ Decimal(Decimal(b, Short), Short) = Decimal(b, Short)
           /\ Decimal(Decimal(b, Short), Long) = Decimal(b, Short)
<1>1. ASSUME NEW c \in Nat, NEW limit \in {Short, Long}
      PROVE  Rounded(c, limit, Base) \in Nat
  BY Lengths, RoundedNat
<1>2. ASSUME NEW limit \in {Short, Long}
      PROVE  Rounded(a, limit, Base) <= Rounded(b, limit, Base)
  BY Lengths, RoundedMonotone
<1>3. ASSUME NEW c \in Nat
      PROVE  /\ Rounded(Rounded(c, Short, Base), Short, Base) = Rounded(c, Short, Base)
             /\ Rounded(Rounded(c, Short, Base), Long, Base) = Rounded(c, Short, Base)
  <2>1. Rounded(Rounded(c, Short, Base), Short, Base) = Rounded(c, Short, Base)
    BY Lengths, RoundedTwice
  <2>2. Rounded(Rounded(c, Short, Base), Long, Base) = Rounded(c, Short, Base)
    BY Lengths, RoundedTwice
  <2> QED
    BY <2>1, <2>2
<1> QED
  BY <1>1, <1>2, <1>3 DEF Decimal

\* The text of doubles, of either length, keeps their order.
LEMMA PrintInOrder ==
    ASSUME NEW d1 \in Nat, NEW d2 \in Nat, d1 <= d2, Double(d1) = d1, Double(d2) = d2
    PROVE  PrintNumber(d1) <= PrintNumber(d2)
<1> DEFINE s1 == Decimal(d1, Short)
           s2 == Decimal(d2, Short)
           l1 == Decimal(d1, Long)
           l2 == Decimal(d2, Long)
           short1 == CompareDouble(Double(s1), d1)
           short2 == CompareDouble(Double(s2), d2)
<1>1. /\ s1 \in Nat /\ s2 \in Nat /\ l1 \in Nat /\ l2 \in Nat /\ s1 <= s2 /\ l1 <= l2
      /\ Decimal(s1, Short) = s1 /\ Decimal(s1, Long) = s1
      /\ Decimal(s2, Short) = s2 /\ Decimal(s2, Long) = s2
  BY DecimalOrder
<1>2. /\ PrintNumber(d1) = IF short1 THEN s1 ELSE l1
      /\ PrintNumber(d2) = IF short2 THEN s2 ELSE l2
  BY DEF PrintNumber
<1>3. Mantissa \in Nat /\ Mantissa >= 2
  BY Lengths
<1>4. ASSUME short1, ~short2
      PROVE  s1 <= l2
  <2>1. CASE s1 <= d2
    <3>1. Decimal(s1, Long) <= Decimal(d2, Long)
      BY <1>1, <2>1, DecimalOrder
    <3> QED
      BY <1>1, <3>1
  <2>2. CASE d2 < s1
    <3>1. s2 = s1
      <4>1. d2 <= s1
        BY <1>1, <2>2
      <4>2. Decimal(d2, Short) <= Decimal(s1, Short)
        BY <1>1, <4>1, DecimalOrder
      <4> QED
        BY <1>1, <4>2
    <3> DEFINE e == Double(s1)
    <3>2. e \in Nat /\ d2 <= e
      <4>1. d2 <= s1
        BY <1>1, <2>2
      <4>2. Double(d2) <= Double(s1) /\ Double(s1) \in Nat
        BY <1>1, <4>1, DoubleOrder
      <4> QED
        BY <4>2
    <3>3. CompareDouble(e, d1) /\ ~CompareDouble(e, d2)
      BY <1>4, <3>1
    <3> HIDE DEF e
    <3>4. (e - d1) * Mantissa <= 2 * e
      BY <3>2, <3>3, CompareOrdered
    <3>5. ~((e - d2) * Mantissa <= 2 * e)
      BY <3>2, <3>3, CompareOrdered
    <3>6. (e - d2) * Mantissa <= (e - d1) * Mantissa
      BY <1>3, <3>2
    <3>7. (e - d2) * Mantissa \in Int /\ (e - d1) * Mantissa \in Int
      BY <1>3, <3>2
    <3> QED
      BY <3>2, <3>4, <3>5, <3>6, <3>7
  <2> QED
    BY <1>1, <2>1, <2>2
<1>5. ASSUME ~short1, short2
      PROVE  l1 <= s2
  <2>1. CASE d1 <= s2
    <3>1. Decimal(d1, Long) <= Decimal(s2, Long)
      BY <1>1, <2>1, DecimalOrder
    <3> QED
      BY <1>1, <3>1
  <2>2. CASE s2 < d1
    <3>1. s2 = s1
      <4>1. s2 <= d1
        BY <1>1, <2>2
      <4>2. Decimal(s2, Short) <= Decimal(d1, Short)
        BY <1>1, <4>1, DecimalOrder
      <4> QED
        BY <1>1, <4>2
    <3> DEFINE e == Double(s2)
    <3>2. e \in Nat /\ e <= d1
      <4>1. s2 <= d1
        BY <1>1, <2>2
      <4>2. Double(s2) <= Double(d1) /\ Double(s2) \in Nat
        BY <1>1, <4>1, DoubleOrder
      <4> QED
        BY <4>2
    <3>3. ~CompareDouble(e, d1) /\ CompareDouble(e, d2)
      BY <1>5, <3>1
    <3> HIDE DEF e
    <3>4. (d2 - e) * Mantissa <= 2 * d2
      BY <3>2, <3>3, CompareOrdered
    <3>5. ~((d1 - e) * Mantissa <= 2 * d1)
      BY <3>2, <3>3, CompareOrdered
    <3> DEFINE x == d2 - d1
    <3>6. x \in Nat /\ d2 = d1 + x
      OBVIOUS
    <3> HIDE DEF x
    <3>7. (d2 - e) * Mantissa = (d1 - e) * Mantissa + x * Mantissa
      BY <1>3, <3>2, <3>6
    <3>8. 2 * x <= x * Mantissa
      BY <1>3, <3>6
    <3>9. (d2 - e) * Mantissa \in Int /\ (d1 - e) * Mantissa \in Int /\ x * Mantissa \in Int
      BY <1>3, <3>2, <3>6
    <3> QED
      BY <3>4, <3>5, <3>6, <3>7, <3>8, <3>9
  <2> QED
    BY <1>1, <2>1, <2>2
<1> HIDE DEF s1, s2, l1, l2, short1, short2
<1> QED
  BY <1>1, <1>2, <1>4, <1>5

\* The text of a negative number is that of the positive one with a minus.
LEMMA TextOdd ==
    ASSUME NEW n \in Int
    PROVE  Text(-n) = -Text(n)
<1>1. ASSUME NEW d \in Int
      PROVE  Double(-d) = -Double(d) /\ Double(d) \in Int
  <2>1. Rounded(-d, Mantissa, 2) = -Rounded(d, Mantissa, 2) /\ Rounded(d, Mantissa, 2) \in Int
    BY Lengths, RoundedOdd, RoundedInt
  <2> QED
    BY <2>1 DEF Double
<1>2. ASSUME NEW d \in Int, NEW limit \in {Short, Long}
      PROVE  Decimal(-d, limit) = -Decimal(d, limit) /\ Decimal(d, limit) \in Int
  <2>1. Rounded(-d, limit, Base) = -Rounded(d, limit, Base) /\ Rounded(d, limit, Base) \in Int
    BY Lengths, RoundedOdd, RoundedInt
  <2> QED
    BY <2>1 DEF Decimal
<1>3. ASSUME NEW a \in Int, NEW b \in Int
      PROVE  CompareDouble(-a, -b) = CompareDouble(a, b)
  <2>1. Abs(-a) = Abs(a) /\ Abs(-b) = Abs(b) /\ Abs((-a) - (-b)) = Abs(a - b)
    BY DEF Abs
  <2> QED
    BY <2>1 DEF CompareDouble
<1> DEFINE d == Double(n)
<1>4. d \in Int /\ Double(-n) = -d
  BY <1>1
<1> HIDE DEF d
<1>5. PrintNumber(-d) = -PrintNumber(d)
  <2> DEFINE s == Decimal(d, Short)
             l == Decimal(d, Long)
             e == Double(s)
  <2>1. s \in Int /\ l \in Int /\ Decimal(-d, Short) = -s /\ Decimal(-d, Long) = -l
    BY <1>2, <1>4
  <2>2. e \in Int /\ Double(-s) = -e
    BY <1>1, <2>1
  <2>3. CompareDouble(-e, -d) = CompareDouble(e, d)
    BY <1>3, <1>4, <2>2
  <2>4. PrintNumber(-d) = IF CompareDouble(e, d) THEN -s ELSE -l
    <3>1. PrintNumber(-d) = IF CompareDouble(Double(Decimal(-d, Short)), -d)
                            THEN Decimal(-d, Short) ELSE Decimal(-d, Long)
      BY DEF PrintNumber
    <3>2. Double(Decimal(-d, Short)) = -e
      BY <2>1, <2>2
    <3> HIDE DEF s, l, e
    <3> QED
      BY <2>1, <2>3, <3>1, <3>2
  <2>5. PrintNumber(d) = IF CompareDouble(e, d) THEN s ELSE l
    BY DEF PrintNumber
  <2> HIDE DEF s, l, e
  <2> QED
    BY <2>1, <2>4, <2>5
<1> QED
  BY <1>4, <1>5 DEF Text, d

LEMMA TextInOrderAbove ==
    ASSUME NEW n \in Nat, NEW m \in Nat, n <= m
    PROVE  Text(n) <= Text(m) /\ Text(n) \in Nat
<1>1. /\ Double(n) \in Nat /\ Double(m) \in Nat /\ Double(n) <= Double(m)
      /\ Double(Double(n)) = Double(n)
  BY DoubleOrder
<1>2. Double(Double(m)) = Double(m)
  BY DoubleOrder
<1>3. PrintNumber(Double(n)) <= PrintNumber(Double(m))
  BY <1>1, <1>2, PrintInOrder
<1>4. PrintNumber(Double(n)) \in Nat
  <2>1. Decimal(Double(n), Short) \in Nat /\ Decimal(Double(n), Long) \in Nat
    BY <1>1, DecimalOrder
  <2> QED
    BY <2>1 DEF PrintNumber
<1> QED
  BY <1>3, <1>4 DEF Text

\* The text of a number says what its value is nearly enough to compare by: no greater number
\* has a lesser text, through both roundings and the choice between 15 and 17 digits that
\* print_number makes for each number alone.
THEOREM TextKeepsOrder ==
    ASSUME NEW n \in Int, NEW m \in Int, n <= m
    PROVE  Text(n) <= Text(m)
<1>0. Text(n) \in Int /\ Text(m) \in Int
  BY TextInt
<1>1. CASE n >= 0
  BY <1>1, TextInOrderAbove
<1>2. CASE n < 0 /\ m >= 0
  <2>1. -n \in Nat /\ 0 \in Nat /\ m \in Nat /\ 0 <= m /\ -n <= -n
    BY <1>2
  <2>2. Text(-n) \in Nat /\ Text(m) \in Nat
    BY <2>1, TextInOrderAbove
  <2>3. Text(-n) = -Text(n)
    BY TextOdd
  <2> QED
    BY <1>0, <2>2, <2>3
<1>3. CASE m < 0
  <2>1. -n \in Nat /\ -m \in Nat /\ -m <= -n
    BY <1>3
  <2>2. Text(-m) <= Text(-n)
    BY <2>1, TextInOrderAbove
  <2>3. Text(-n) = -Text(n) /\ Text(-m) = -Text(m)
    BY TextOdd
  <2> QED
    BY <1>0, <2>2, <2>3
<1> QED
  BY <1>1, <1>2, <1>3

-----------------------------------------------------------------------------
(* How far a text is from its number *)

\* Twice a distance is enough to bound it in parts of a number.
LEMMA CloseBy ==
    ASSUME NEW m \in Nat, NEW n \in Nat, NEW t \in Nat, NEW w \in Nat,
           2 * (t - n) <= w, 2 * (n - t) <= w, w * m <= 8 * n
    PROVE  Abs(t - n) * m <= 4 * n
<1> DEFINE a == Abs(t - n)
<1>1. a \in Nat /\ 2 * a <= w
  BY DEF Abs
<1> HIDE DEF a
<1>2. (2 * a) * m <= w * m
  BY <1>1
<1>3. (2 * a) * m = 2 * (a * m) /\ a * m \in Nat /\ w * m \in Nat
  BY <1>1
<1>4. a * m <= 4 * n
  BY <1>2, <1>3
<1> QED
  BY <1>4 DEF a

\* The steps between doubles of one length: two that compare_double holds equal are one step
\* apart, or two if the greater one is the end of the length.
LEMMA CloseSame ==
    ASSUME NEW m \in Nat, m >= 56, NEW n \in Nat, NEW d \in Nat, NEW e \in Nat, NEW t \in Nat,
           NEW h \in Nat \ {0}, NEW p \in Nat, p = m * h, NEW c \in Nat, NEW b \in Nat,
           p <= n, d = 2 * (h * c), e = 2 * (h * b), d <= 2 * p, e <= 2 * p,
           d - n <= h, n - d <= h, t - e <= h, e - t <= h,
           d <= e => (e - d) * m <= 2 * e, e <= d => (d - e) * m <= 2 * d
    PROVE  Abs(t - n) * m <= 4 * n
<1>1. h * c \in Nat /\ h * b \in Nat /\ h * m = p
  OBVIOUS
<1>2. CASE b <= c + 1 /\ c <= b + 1
  <2>1. h * b <= h * (c + 1) /\ h * c <= h * (b + 1)
    BY <1>2
  <2>2. h * (c + 1) = h * c + h /\ h * (b + 1) = h * b + h
    OBVIOUS
  <2>3. e - d <= 2 * h /\ d - e <= 2 * h
    BY <1>1, <2>1, <2>2
  <2>4. 2 * (t - n) <= 8 * h /\ 2 * (n - t) <= 8 * h
    BY <2>3
  <2>5. (8 * h) * m = 8 * p /\ 8 * p <= 8 * n /\ 8 * h \in Nat
    OBVIOUS
  <2>6. (8 * h) * m <= 8 * n
    BY <2>5
  <2> QED
    BY <2>4, <2>5, <2>6, CloseBy
<1>3. ASSUME NEW x \in Nat, NEW top \in Nat, top <= 2 * p, x * m <= 2 * top, 4 * h <= x,
             d >= top - x, e - d <= x, d - e <= x
      PROVE  Abs(t - n) * m <= 4 * n
  <2>1. x <= 4 * h
    <3> SUFFICES ASSUME 4 * h + 1 <= x
                 PROVE  FALSE
      OBVIOUS
    <3>1. (4 * h + 1) * m <= x * m
      OBVIOUS
    <3>2. (4 * h + 1) * m = 4 * p + m
      OBVIOUS
    <3>3. x * m \in Nat
      OBVIOUS
    <3> QED
      BY <1>3, <3>1, <3>2, <3>3
  <2>2. (4 * h) * m <= x * m /\ (4 * h) * m = 4 * p /\ x * m \in Nat
    BY <1>3
  <2>3. top >= 2 * p
    BY <1>3, <2>2
  <2>4. n >= 2 * p - 5 * h
    BY <1>3, <2>1, <2>3
  <2>5. 2 * (t - n) <= 12 * h /\ 2 * (n - t) <= 12 * h
    BY <1>3, <2>1
  <2>6. p >= 56 * h
    OBVIOUS
  <2>7. (12 * h) * m = 12 * p /\ 12 * h \in Nat
    OBVIOUS
  <2>8. (12 * h) * m <= 8 * n
    BY <2>4, <2>6, <2>7
  <2> QED
    BY <2>5, <2>7, <2>8, CloseBy
<1>4. CASE c + 2 <= b
  <2>1. h * (c + 2) <= h * b /\ h * (c + 2) = h * c + 2 * h
    BY <1>4
  <2>2. e - d \in Nat /\ 4 * h <= e - d /\ d <= e
    BY <1>1, <2>1
  <2>3. (e - d) * m <= 2 * e
    BY <2>2
  <2>4. d >= e - (e - d) /\ e - d <= e - d /\ d - e <= e - d
    BY <2>2
  <2> QED
    BY <1>3, <2>2, <2>3, <2>4
<1>5. CASE b + 2 <= c
  <2>1. h * (b + 2) <= h * c /\ h * (b + 2) = h * b + 2 * h
    BY <1>5
  <2>2. d - e \in Nat /\ 4 * h <= d - e /\ e <= d
    BY <1>1, <2>1
  <2>3. (d - e) * m <= 2 * d
    BY <2>2
  <2>4. d >= d - (d - e) /\ e - d <= d - e /\ d - e <= d - e
    BY <2>2
  <2> QED
    BY <1>3, <2>2, <2>3, <2>4
<1> QED
  BY <1>2, <1>4, <1>5

\* The text is in the next length.
LEMMA CloseAbove ==
    ASSUME NEW m \in Nat, m >= 56, NEW n \in Nat, NEW d \in Nat, NEW e \in Nat, NEW t \in Nat,
           NEW h \in Nat \ {0}, NEW p \in Nat, p = m * h,
           d <= 2 * p, 2 * p <= e, d - n <= h, n - d <= h, t - e <= 2 * h, e - t <= 2 * h,
           (e - d) * m <= 2 * e
    PROVE  Abs(t - n) * m <= 4 * n
<1> DEFINE x == e - d
<1>1. x \in Nat /\ e = d + x /\ x * m <= 2 * e
  OBVIOUS
<1> HIDE DEF x
<1>2. p >= 56 * h
  OBVIOUS
<1>3. 2 * x <= 9 * h
  <2> SUFFICES ASSUME 9 * h + 1 <= 2 * x
               PROVE  FALSE
    BY <1>1
  <2>1. (9 * h + 1) * (m - 2) <= (2 * x) * (m - 2)
    BY <1>1
  <2>2. (9 * h + 1) * (m - 2) = 9 * p - 18 * h + m - 2
    OBVIOUS
  <2>3. (2 * x) * (m - 2) = 2 * (x * m) - 4 * x /\ x * m \in Nat
    BY <1>1
  <2> QED
    BY <1>1, <1>2, <2>1, <2>2, <2>3
<1>4. 2 * n >= 4 * p - 11 * h
  BY <1>1, <1>3
<1>5. 2 * (t - n) <= 15 * h /\ 2 * (n - t) <= 15 * h
  BY <1>1, <1>3
<1>6. (15 * h) * m = 15 * p /\ 15 * h \in Nat
  OBVIOUS
<1>7. (15 * h) * m <= 8 * n
  BY <1>2, <1>4, <1>6
<1> QED
  BY <1>5, <1>6, <1>7, CloseBy

\* The text is in the length before, of which the step is half as great.
LEMMA CloseBelow ==
    ASSUME NEW m \in Nat, m >= 56, NEW n \in Nat, NEW d \in Nat, NEW e \in Nat, NEW t \in Nat,
           NEW h \in Nat \ {0}, NEW p \in Nat, p = m * h,
           p <= n, p <= d, e <= p, d - n <= h, n - d <= h, 2 * (t - e) <= h, 2 * (e - t) <= h,
           (d - e) * m <= 2 * d
    PROVE  Abs(t - n) * m <= 4 * n
<1> DEFINE x == d - e
<1>1. x \in Nat /\ d = e + x /\ x * m <= 2 * d
  OBVIOUS
<1> HIDE DEF x
<1>2. p >= 56 * h
  OBVIOUS
<1>3. 2 * x <= 5 * h
  <2> SUFFICES ASSUME 5 * h + 1 <= 2 * x
               PROVE  FALSE
    BY <1>1
  <2>1. (5 * h + 1) * (m - 2) <= (2 * x) * (m - 2)
    BY <1>1
  <2>2. (5 * h + 1) * (m - 2) = 5 * p - 10 * h + m - 2
    OBVIOUS
  <2>3. (2 * x) * (m - 2) = 2 * (x * m) - 4 * x /\ x * m \in Nat
    BY <1>1
  <2> QED
    BY <1>1, <1>2, <2>1, <2>2, <2>3
<1>4. 2 * (t - n) <= 8 * h /\ 2 * (n - t) <= 8 * h
  BY <1>1, <1>3
<1>5. (8 * h) * m = 8 * p /\ 8 * h \in Nat
  OBVIOUS
<1>6. (8 * h) * m <= 8 * n
  BY <1>5
<1> QED
  BY <1>4, <1>5, <1>6, CloseBy


\* Both numbers are exact as doubles.
LEMMA CloseExact ==
    ASSUME NEW m \in Nat, m >= 56, NEW n \in Nat, NEW t \in Nat,
           n <= t => (t - n) * m <= 2 * t, t <= n => (n - t) * m <= 2 * n
    PROVE  Abs(t - n) * m <= 4 * n
<1>1. CASE t <= n
  <2>1. Abs(t - n) = n - t /\ (n - t) * m <= 2 * n
    BY <1>1 DEF Abs
  <2> QED
    BY <2>1
<1>2. CASE n < t
  <2> DEFINE x == t - n
  <2>1. Abs(t - n) = x /\ x * m <= 2 * t /\ x \in Nat /\ t = n + x
    BY <1>2 DEF Abs
  <2> HIDE DEF x
  <2>2. 56 * x <= x * m /\ x * m \in Nat
    BY <2>1
  <2>3. x * m <= 4 * n
    BY <2>1, <2>2
  <2> QED
    BY <2>1, <2>3
<1> QED
  BY <1>1, <1>2

\* The text has passed the end of the numbers that are exact.
LEMMA CloseLeaving ==
    ASSUME NEW m \in Nat, m >= 56, NEW n \in Nat, NEW e \in Nat, NEW t \in Nat,
           NEW h \in Nat \ {0}, n < m, m * h <= e, e - t <= h, t - e <= h, m <= t,
           (e - n) * m <= 2 * e
    PROVE  Abs(t - n) * m <= 4 * n
<1>0. m * h \in Nat /\ m <= m * h
  OBVIOUS
<1> DEFINE x == e - n
<1>1. x \in Nat /\ e = n + x /\ x * m <= 2 * e
  BY <1>0
<1> HIDE DEF x
<1>2. x <= 2
  <2> SUFFICES ASSUME 3 <= x
               PROVE  FALSE
    BY <1>1
  <2>1. 3 * (m - 2) <= x * (m - 2) /\ x * (m - 2) = x * m - 2 * x /\ x * m \in Nat
    BY <1>1
  <2> QED
    BY <1>1, <2>1
<1>3. h = 1
  <2> SUFFICES ASSUME 2 <= h
               PROVE  FALSE
    OBVIOUS
  <2>1. m * 2 <= m * h
    OBVIOUS
  <2> QED
    BY <1>0, <1>1, <1>2, <2>1
<1>4. 2 * (t - n) <= 6 /\ 2 * (n - t) <= 6 /\ 6 * m <= 8 * n
  BY <1>0, <1>1, <1>2, <1>3
<1> QED
  BY <1>4, CloseBy

\* The text has fallen back among them.
LEMMA CloseReturning ==
    ASSUME NEW m \in Nat, m >= 56, NEW n \in Nat, NEW d \in Nat, NEW t \in Nat,
           NEW h \in Nat \ {0}, t < m, m * h <= d, d - n <= h, n - d <= h, m <= n,
           (d - t) * m <= 2 * d
    PROVE  Abs(t - n) * m <= 4 * n
<1>0. m * h \in Nat /\ m <= m * h
  OBVIOUS
<1> DEFINE x == d - t
<1>1. x \in Nat /\ d = t + x /\ x * m <= 2 * d
  BY <1>0
<1> HIDE DEF x
<1>2. x <= 2
  <2> SUFFICES ASSUME 3 <= x
               PROVE  FALSE
    BY <1>1
  <2>1. 3 * (m - 2) <= x * (m - 2) /\ x * (m - 2) = x * m - 2 * x /\ x * m \in Nat
    BY <1>1
  <2> QED
    BY <1>1, <2>1
<1>3. h = 1
  <2> SUFFICES ASSUME 2 <= h
               PROVE  FALSE
    OBVIOUS
  <2>1. m * 2 <= m * h
    OBVIOUS
  <2> QED
    BY <1>0, <1>1, <1>2, <2>1
<1>4. 2 * (t - n) <= 6 /\ 2 * (n - t) <= 6 /\ 6 * m <= 8 * n
  BY <1>0, <1>1, <1>2, <1>3
<1> QED
  BY <1>4, CloseBy

\* Rounding to places of the base moves a number by half a place, within its length.
LEMMA RoundsWithin ==
    ASSUME NEW n \in Nat, NEW limit \in Nat \ {0}, NEW base \in Nat, base > 1,
           limit % base = 0, limit <= n
    PROVE  \E k \in Nat, h \in Nat \ {0}, c \in Nat :
              /\ h = Power(base, k) /\ limit * h \in Nat /\ limit * h <= n
              /\ Rounded(n, limit, base) \in Nat
              /\ Rounded(n, limit, base) = base * (h * c)
              /\ limit * h <= Rounded(n, limit, base)
              /\ Rounded(n, limit, base) <= base * (limit * h)
              /\ 2 * (Rounded(n, limit, base) - n) <= base * h
              /\ 2 * (n - Rounded(n, limit, base)) <= base * h
<1>1. Abs(n) = n /\ n \in Int /\ ~(n < 0) /\ limit <= Abs(n)
  BY DEF Abs
<1>2. PICK k \in Nat, u \in Nat \ {0}, h \in Nat \ {0}, c \in Nat :
            RoundsTo(n, limit, base, k, u, h, c)
  BY <1>1, RoundedIs
<1>3. Rounded(n, limit, base) = u * c /\ limit * h <= u * c /\ u * c <= limit * u
  BY <1>2, RoundsBetween
<1>4. /\ h = Power(base, k) /\ u = base * h /\ limit * h \in Nat /\ limit * h <= n
      /\ u * c \in Nat /\ 2 * (u * c - n) <= u /\ 2 * (n - u * c) <= u
  BY <1>1, <1>2 DEF RoundsTo
<1>5. (base * h) * c = base * (h * c) /\ limit * (base * h) = base * (limit * h)
  OBVIOUS
<1>6. u * c = base * (h * c) /\ limit * u = base * (limit * h)
  BY ONLY <1>4, <1>5
<1> QED
  BY <1>3, <1>4, <1>6

\* n is too long for a double: the doubles around it are 2 * h apart.
Steps(n, k, h, c) ==
    /\ h = Power(2, k)
    /\ Mantissa * h \in Nat /\ Mantissa * h <= n
    /\ Double(n) \in Nat /\ Double(n) = 2 * (h * c)
    /\ Mantissa * h <= Double(n) /\ Double(n) <= 2 * (Mantissa * h)
    /\ Double(n) - n <= h /\ n - Double(n) <= h

LEMMA StepsAre ==
    ASSUME NEW n \in Nat, Mantissa <= n
    PROVE  \E k \in Nat, h \in Nat \ {0}, c \in Nat : Steps(n, k, h, c)
<1> DEFINE d == Rounded(n, Mantissa, 2)
<1>1. PICK k \in Nat, h \in Nat \ {0}, c \in Nat :
              /\ h = Power(2, k) /\ Mantissa * h \in Nat /\ Mantissa * h <= n
              /\ d \in Nat /\ d = 2 * (h * c)
              /\ Mantissa * h <= d /\ d <= 2 * (Mantissa * h)
              /\ 2 * (d - n) <= 2 * h /\ 2 * (n - d) <= 2 * h
  <2> DEFINE m == Mantissa
             two == 2
  <2>1. m \in Nat \ {0} /\ two \in Nat /\ two > 1 /\ m % two = 0 /\ m <= n
    BY Lengths
  <2> HIDE DEF m, two
  <2>2. \E k \in Nat, h \in Nat \ {0}, c \in Nat :
              /\ h = Power(two, k) /\ m * h \in Nat /\ m * h <= n
              /\ Rounded(n, m, two) \in Nat
              /\ Rounded(n, m, two) = two * (h * c)
              /\ m * h <= Rounded(n, m, two)
              /\ Rounded(n, m, two) <= two * (m * h)
              /\ 2 * (Rounded(n, m, two) - n) <= two * h
              /\ 2 * (n - Rounded(n, m, two)) <= two * h
    BY ONLY n \in Nat, <2>1, RoundsWithin
  <2> QED
    BY <2>2, Zenon DEF m, two
<1>2. d = Double(n)
  BY DEF Double
<1> HIDE DEF d
<1>3. d - n <= h /\ n - d <= h
  BY <1>1
<1>4. Steps(n, k, h, c)
  BY <1>1, <1>2, <1>3 DEF Steps
<1> QED
  BY <1>4

\* A number and its text of 15 digits, if print_number takes that one.
LEMMA CloseShort ==
    ASSUME NEW n \in Nat, NEW t \in Nat, CompareDouble(Double(t), Double(n))
    PROVE  Abs(t - n) * Mantissa <= 4 * n
<1> DEFINE m == Mantissa
           d == Double(n)
           e == Double(t)
<1>1. m \in Nat /\ m >= 56
  <2>0. {Max8, Max16, Max32, Max64, Mantissa, Short, Long} \subseteq Nat \ {0}
    BY NumberAssumption
  <2>1. /\ Max8 \in Nat \ {0} /\ Max16 \in Nat /\ Max32 \in Nat /\ Short \in Nat /\ Mantissa \in Nat
    BY <2>0
  <2>2. Max8 < Max16 /\ Max16 < Max32 /\ 2 * Max32 + 1 < Short /\ 7 * Short <= Mantissa
    BY NumberAssumption
  <2> HIDE DEF m
  <2>3. Mantissa >= 56
    BY <2>1, <2>2
  <2> QED
    BY <2>1, <2>3 DEF m
<1>2. d \in Nat /\ e \in Nat
  BY DoubleOrder
<1>3. /\ d <= e => (e - d) * m <= 2 * e
      /\ e <= d => (d - e) * m <= 2 * d
  BY <1>2, CompareOrdered
<1>4. n < m => d = n
  BY <1>1, RoundedExact DEF Double, Abs
<1>5. t < m => e = t
  BY <1>1, RoundedExact DEF Double, Abs
<1>6. CASE n < m /\ t < m
  <2> HIDE DEF m, d, e
  <2>1. /\ n <= t => (t - n) * m <= 2 * t
        /\ t <= n => (n - t) * m <= 2 * n
    BY <1>3, <1>4, <1>5, <1>6
  <2>2. Abs(t - n) * m <= 4 * n
    BY <1>1, <2>1, CloseExact
  <2> QED
    BY <2>2 DEF m
<1>7. CASE n < m /\ ~(t < m)
  <2>1. m <= t
    BY <1>1, <1>7
  <2>2. PICK k \in Nat, h \in Nat \ {0}, c \in Nat : Steps(t, k, h, c)
    BY <2>1, StepsAre
  <2>3. m * h \in Nat /\ m * h <= e /\ e - t <= h /\ t - e <= h
    BY <2>2 DEF Steps
  <2> HIDE DEF m, d, e
  <2>4. m <= m * h
    BY <1>1
  <2>5. (e - n) * m <= 2 * e
    BY <1>1, <1>2, <1>3, <1>4, <1>7, <2>3, <2>4
  <2>6. Abs(t - n) * m <= 4 * n
    BY <1>1, <1>2, <1>7, <2>1, <2>3, <2>5, CloseLeaving
  <2> QED
    BY <2>6 DEF m
<1>8. CASE ~(n < m) /\ t < m
  <2>1. m <= n
    BY <1>1, <1>8
  <2>2. PICK k \in Nat, h \in Nat \ {0}, c \in Nat : Steps(n, k, h, c)
    BY <2>1, StepsAre
  <2>3. m * h \in Nat /\ m * h <= d /\ d - n <= h /\ n - d <= h
    BY <2>2 DEF Steps
  <2> HIDE DEF m, d, e
  <2>4. m <= m * h
    BY <1>1
  <2>5. (d - t) * m <= 2 * d
    BY <1>1, <1>2, <1>3, <1>5, <1>8, <2>3, <2>4
  <2>6. Abs(t - n) * m <= 4 * n
    BY <1>1, <1>2, <1>8, <2>1, <2>3, <2>5, CloseReturning
  <2> QED
    BY <2>6 DEF m
<1>9. CASE ~(n < m) /\ ~(t < m)
  <2>1. m <= n /\ m <= t
    BY <1>1, <1>9
  <2>2. PICK k \in Nat, h \in Nat \ {0}, c \in Nat : Steps(n, k, h, c)
    BY <2>1, StepsAre
  <2>3. PICK i \in Nat, g \in Nat \ {0}, b \in Nat : Steps(t, i, g, b)
    BY <2>1, StepsAre
  <2> DEFINE p == m * h
             q == m * g
  <2>4. /\ h = Power(2, k) /\ p \in Nat /\ p <= n /\ d = 2 * (h * c)
        /\ p <= d /\ d <= 2 * p /\ d - n <= h /\ n - d <= h
    BY <2>2 DEF Steps
  <2>5. /\ g = Power(2, i) /\ q \in Nat /\ q <= t /\ e = 2 * (g * b)
        /\ q <= e /\ e <= 2 * q /\ e - t <= g /\ t - e <= g
    BY <2>3 DEF Steps
  <2> HIDE DEF m, d, e
  <2>6. CASE i = k
    <3>1. g = h /\ q = p
      BY <2>4, <2>5, <2>6
    <3>2. /\ p = m * h /\ e = 2 * (h * b) /\ e <= 2 * p /\ t - e <= h /\ e - t <= h
      BY <2>5, <3>1
    <3> HIDE DEF p, q
    <3>3. Abs(t - n) * m <= 4 * n
      BY <1>1, <1>2, <1>3, <2>4, <3>2, CloseSame
    <3> QED
      BY <3>3 DEF m
  <2>7. CASE i = k + 1
    <3>1. g = 2 * h
      BY <2>4, <2>5, <2>7, PowerStep
    <3>2. q = 2 * p
      BY <1>1, <3>1
    <3>3. p = m * h
      OBVIOUS
    <3> HIDE DEF p, q
    <3>4. 2 * p <= e /\ t - e <= 2 * h /\ e - t <= 2 * h /\ (e - d) * m <= 2 * e
      BY <1>2, <1>3, <2>4, <2>5, <3>1, <3>2
    <3>5. Abs(t - n) * m <= 4 * n
      BY <1>1, <1>2, <2>4, <3>3, <3>4, CloseAbove
    <3> QED
      BY <3>5 DEF m
  <2>8. CASE k = i + 1
    <3>1. h = 2 * g
      BY <2>4, <2>5, <2>8, PowerStep
    <3>2. p = 2 * q
      BY <1>1, <3>1
    <3>3. p = m * h
      OBVIOUS
    <3> HIDE DEF p, q
    <3>4. e <= p /\ 2 * (t - e) <= h /\ 2 * (e - t) <= h /\ (d - e) * m <= 2 * d
      BY <1>2, <1>3, <2>4, <2>5, <3>1, <3>2
    <3>5. Abs(t - n) * m <= 4 * n
      BY <1>1, <1>2, <2>4, <3>3, <3>4, CloseBelow
    <3> QED
      BY <3>5 DEF m
  <2>9. ASSUME NEW j \in Nat, NEW l \in Nat, j + 2 <= l
        PROVE  4 * Power(2, j) <= Power(2, l)
    <3>1. Power(2, j + 2) <= Power(2, l)
      <4>1. 2 \in Nat /\ 2 > 1 /\ j + 2 \in Nat
        OBVIOUS
      <4> QED
        BY <2>9, <4>1, PowersBefore
    <3>2. Power(2, j + 1) = 2 * Power(2, j) /\ Power(2, (j + 1) + 1) = 2 * Power(2, j + 1)
      BY PowerStep
    <3>3. Power(2, j) \in Nat /\ Power(2, l) \in Nat /\ Power(2, j + 1) \in Nat
      <4>1. \A x \in Nat : Power(2, x) \in Nat
        BY PowerGrows
      <4>2. j + 1 \in Nat
        OBVIOUS
      <4> QED
        BY <4>1, <4>2
    <3>4. (j + 1) + 1 = j + 2
      OBVIOUS
    <3> QED
      BY <3>1, <3>2, <3>3, <3>4
  <2>10. ASSUME NEW x \in Nat, NEW y \in Nat, NEW r \in Nat \ {0}, x <= 2 * r, 4 * r <= y,
                (y - x) * m <= 2 * y
         PROVE  FALSE
    <3>1. 2 * (y - x) >= y /\ y > 0
      BY <2>10
    <3>2. y - x \in Nat /\ 56 * (y - x) <= (y - x) * m
      BY <1>1, <2>10
    <3>3. (y - x) * m \in Nat
      BY <1>1, <3>2
    <3> QED
      BY <2>10, <3>1, <3>2, <3>3
  <2>11. CASE k + 2 <= i
    <3>1. 4 * h <= g
      BY <2>4, <2>5, <2>9, <2>11
    <3>2. 4 * p <= q /\ p \in Nat \ {0}
      BY <1>1, <3>1
    <3> HIDE DEF p, q
    <3>3. d <= 2 * p /\ 4 * p <= e /\ (e - d) * m <= 2 * e
      BY <1>2, <1>3, <2>4, <2>5, <3>2
    <3> QED
      BY <1>2, <2>10, <3>2, <3>3
  <2>12. CASE i + 2 <= k
    <3>1. 4 * g <= h
      BY <2>4, <2>5, <2>9, <2>12
    <3>2. 4 * q <= p /\ q \in Nat \ {0}
      BY <1>1, <3>1
    <3> HIDE DEF p, q
    <3>3. e <= 2 * q /\ 4 * q <= d /\ (d - e) * m <= 2 * d
      BY <1>2, <1>3, <2>4, <2>5, <3>2
    <3> QED
      BY <1>2, <2>10, <3>2, <3>3
  <2>13. \/ i = k \/ i = k + 1 \/ k = i + 1 \/ k + 2 <= i \/ i + 2 <= k
    OBVIOUS
  <2> QED
    BY <2>6, <2>7, <2>8, <2>11, <2>12, <2>13
<1> QED
  BY <1>6, <1>7, <1>8, <1>9

\* A number and its double, and a double and its text of 17 digits.
LEMMA DoubleClose ==
    ASSUME NEW n \in Nat
    PROVE  /\ Double(n) \in Nat
           /\ (Double(n) - n) * Mantissa <= n /\ (n - Double(n)) * Mantissa <= n
<1> DEFINE m == Mantissa
           d == Double(n)
<1>1. m \in Nat /\ d \in Nat
  BY Lengths, DoubleOrder
<1>2. CASE n < m
  <2>1. d = n
    BY <1>1, <1>2, RoundedExact DEF Double, Abs
  <2> HIDE DEF m, d
  <2>2. (d - n) * m = 0 /\ (n - d) * m = 0
    BY <1>1, <2>1
  <2>3. (d - n) * m <= n /\ (n - d) * m <= n
    BY <2>2
  <2> QED
    BY <1>1, <2>3 DEF m, d
<1>3. CASE ~(n < m)
  <2>1. m <= n
    BY <1>1, <1>3
  <2>2. PICK k \in Nat, h \in Nat \ {0}, c \in Nat : Steps(n, k, h, c)
    BY <2>1, StepsAre
  <2>3. m * h \in Nat /\ m * h <= n /\ d - n <= h /\ n - d <= h
    BY <2>2 DEF Steps
  <2> HIDE DEF m, d
  <2>4. (d - n) * m <= h * m /\ (n - d) * m <= h * m
    BY <1>1, <2>3
  <2>5. h * m = m * h /\ (d - n) * m \in Int /\ (n - d) * m \in Int
    BY <1>1
  <2>6. (d - n) * m <= n /\ (n - d) * m <= n
    BY <2>3, <2>4, <2>5
  <2> QED
    BY <1>1, <2>6 DEF m, d
<1> QED
  BY <1>2, <1>3

LEMMA LongClose ==
    ASSUME NEW d \in Nat
    PROVE  /\ Decimal(d, Long) \in Nat
           /\ 2 * ((Decimal(d, Long) - d) * Mantissa) <= d
           /\ 2 * ((d - Decimal(d, Long)) * Mantissa) <= d
<1> DEFINE m == Mantissa
           l == Long
           b == Base
           t == Rounded(d, l, b)
<1>1. m \in Nat /\ l \in Nat \ {0} /\ b \in Nat /\ b > 1 /\ l % b = 0 /\ b * m <= l
  BY Lengths, NumberAssumption
<1>2. t = Decimal(d, Long)
  BY DEF Decimal
<1>3. /\ t \in Nat /\ 2 * ((t - d) * m) <= d /\ 2 * ((d - t) * m) <= d
  <2> HIDE DEF m, l, b
  <2>1. CASE d < l
    <3>1. t = d
      BY <1>1, <2>1, RoundedExact DEF Abs
    <3> HIDE DEF t
    <3>2. (t - d) * m = 0 /\ (d - t) * m = 0
      BY <1>1, <3>1
    <3> QED
      BY <3>1, <3>2
  <2>2. CASE ~(d < l)
    <3>1. l <= d
      BY <1>1, <2>2
    <3>2. PICK k \in Nat, h \in Nat \ {0}, c \in Nat :
              /\ h = Power(b, k) /\ l * h \in Nat /\ l * h <= d
              /\ Rounded(d, l, b) \in Nat
              /\ Rounded(d, l, b) = b * (h * c)
              /\ l * h <= Rounded(d, l, b)
              /\ Rounded(d, l, b) <= b * (l * h)
              /\ 2 * (Rounded(d, l, b) - d) <= b * h
              /\ 2 * (d - Rounded(d, l, b)) <= b * h
      BY <1>1, <3>1, RoundsWithin
    <3>3. t \in Nat /\ l * h <= d /\ 2 * (t - d) <= b * h /\ 2 * (d - t) <= b * h
      BY <3>2
    <3> HIDE DEF t
    <3> DEFINE w == b * h
               bm == b * m
    <3>4. w \in Nat /\ bm \in Nat /\ bm <= l /\ w * m = bm * h
      BY <1>1
    <3>5. bm * h <= l * h /\ bm * h \in Nat /\ l * h \in Nat
      <4> HIDE DEF w, bm
      <4> QED
        BY <1>1, <3>4
    <3>6. 2 * (t - d) <= w /\ 2 * (d - t) <= w
      BY <3>3
    <3> HIDE DEF w, bm
    <3>7. (2 * (t - d)) * m <= w * m /\ (2 * (d - t)) * m <= w * m
      BY <1>1, <3>3, <3>4, <3>6
    <3>8. (2 * (t - d)) * m = 2 * ((t - d) * m) /\ (2 * (d - t)) * m = 2 * ((d - t) * m)
      BY <1>1, <3>3
    <3>9. (t - d) * m \in Int /\ (d - t) * m \in Int
      BY <1>1, <3>3
    <3> QED
      BY <3>3, <3>4, <3>5, <3>7, <3>8, <3>9
  <2> QED
    BY <2>1, <2>2
<1> QED
  BY <1>2, <1>3

LEMMA TextCloseAbove ==
    ASSUME NEW n \in Nat
    PROVE  Abs(Text(n) - n) * Mantissa <= 4 * n
<1> DEFINE d == Double(n)
           s == Decimal(d, Short)
           l == Decimal(d, Long)
           m == Mantissa
<1>1. m \in Nat /\ m > 1
  BY Lengths
<1>2. d \in Nat /\ (d - n) * m <= n /\ (n - d) * m <= n
  BY DoubleClose
<1>3. s \in Nat /\ l \in Nat
  BY <1>2, DecimalOrder
<1>4. Text(n) = IF CompareDouble(Double(s), d) THEN s ELSE l
  BY DEF Text, PrintNumber
<1>5. CASE CompareDouble(Double(s), d)
  <2>1. Text(n) = s /\ CompareDouble(Double(s), Double(n))
    BY <1>4, <1>5
  <2>2. Abs(s - n) * Mantissa <= 4 * n
    <3> HIDE DEF s
    <3> QED
      BY <1>3, <2>1, CloseShort
  <2> QED
    BY <2>1, <2>2
<1>6. CASE ~CompareDouble(Double(s), d)
  <2>1. Text(n) = l
    BY <1>4, <1>6
  <2>2. 2 * ((l - d) * m) <= d /\ 2 * ((d - l) * m) <= d
    BY <1>2, LongClose
  <2>3. Abs(l - n) * m <= 4 * n
    <3> HIDE DEF d, s, l, m
    <3> DEFINE x == (d - n) * m
               y == (l - d) * m
    <3>1. /\ x \in Int /\ y \in Int /\ (n - d) * m = -x /\ (d - l) * m = -y
          /\ (l - n) * m = y + x /\ (n - l) * m = -(y + x)
      BY <1>1, <1>2, <1>3
    <3>2. d - n <= 0 \/ d - n <= x
      <4>1. CASE d - n > 0
        BY <1>1, <1>2, <4>1
      <4> QED
        BY <1>2, <4>1
    <3> HIDE DEF x, y
    <3>3. x <= n /\ -x <= n /\ 2 * y <= d /\ -(2 * y) <= d
      BY <1>2, <2>2, <3>1 DEF x, y
    <3>4. d <= 2 * n
      BY <1>2, <3>1, <3>2, <3>3
    <3>5. y + x <= 4 * n /\ -(y + x) <= 4 * n
      BY <1>2, <3>1, <3>3, <3>4
    <3>6. CASE l >= n
      <4>1. Abs(l - n) = l - n
        BY <1>3, <3>6 DEF Abs
      <4> QED
        BY <3>1, <3>5, <4>1
    <3>7. CASE l < n
      <4>1. Abs(l - n) = n - l
        BY <1>3, <3>7 DEF Abs
      <4> QED
        BY <3>1, <3>5, <4>1
    <3> QED
      BY <1>3, <3>6, <3>7
  <2> QED
    BY <2>1, <2>3
<1> QED
  BY <1>5, <1>6

\* However great a number is, its text is off by four parts in 2^53 at most: half of the last
\* place of one double and of another, and what compare_double allows between them, also where
\* the three are not of the same length.
THEOREM TextStaysClose ==
    ASSUME NEW n \in Int
    PROVE  Abs(Text(n) - n) * Mantissa <= 4 * Abs(n)
<1>1. CASE n >= 0
  <2>1. n \in Nat /\ Abs(n) = n
    BY <1>1 DEF Abs
  <2> QED
    BY <2>1, TextCloseAbove
<1>2. CASE n < 0
  <2>1. -n \in Nat /\ Abs(n) = -n
    BY <1>2 DEF Abs
  <2>2. Abs(Text(-n) - (-n)) * Mantissa <= 4 * (-n)
    BY <2>1, TextCloseAbove
  <2>3. Text(-n) = -Text(n) /\ Text(n) \in Int
    BY TextOdd, TextInt
  <2>4. Abs(Text(-n) - (-n)) = Abs(Text(n) - n)
    BY <2>3 DEF Abs
  <2> QED
    BY <2>1, <2>2, <2>4
<1> QED
  BY <1>1, <1>2
=============================================================================
