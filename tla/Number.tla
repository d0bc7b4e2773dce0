------------------------------- MODULE Number -------------------------------
(***************************************************************************)
(* What becomes of the numbers of a sample in cJSON and on their way       *)
(* through the text: double, decimal digits, double, int and back to the   *)
(* width of the field.  Every width is a constant, so that TLC can run     *)
(* through all numbers.  A number stands for its integral part: valueint   *)
(* is cut to it, and both tests for saturation compare with integers.      *)
(***************************************************************************)
EXTENDS Integers

CONSTANTS
    Max8, Max16, Max32, Max64,  \* INT8_MAX, INT16_MAX, INT_MAX, INT64_MAX
    Mantissa,                   \* 2^53: a double holds every smaller integer
    Base,                       \* 10, of the text
    Short,                      \* 10^15: "%1.15g" has every smaller integer
    Long                        \* 10^17, of "%1.17g"

ASSUME NumberAssumption ==
    /\ {Max8, Max16, Max32, Max64, Mantissa, Short, Long} \subseteq Nat \ {0}
    /\ Base \in Nat /\ Base > 1
    /\ Max8 < Max16 /\ Max16 < Max32 /\ 2 * Max32 + 1 < Short
    /\ 7 * Short <= Mantissa /\ Mantissa < Max64 /\ Base * Mantissa <= Long
    /\ Mantissa % 2 = 0 /\ Short % Base = 0 /\ Long % Base = 0

Abs(n) == IF n < 0 THEN -n ELSE n

\* base to the power of k.
Power(base, k) ==
    LET power[i \in 0..k] == IF i = 0 THEN 1 ELSE base * power[i - 1]
    IN  power[k]

\* The power of base that is the last place of n when there are places for limit numbers.
LastPlace(n, limit, base) ==
    LET k == CHOOSE k \in 1..Abs(n) : /\ Abs(n) < limit * Power(base, k)
                                      /\ Abs(n) >= limit * Power(base, k - 1)
    IN  Power(base, k)

\* The multiple of unit next to n; of two, the even one.
Nearest(n, unit) ==
    LET q  == Abs(n) \div unit
        r  == Abs(n) % unit
        up == 2 * r > unit \/ (2 * r = unit /\ q % 2 = 1)
        m  == unit * (IF up THEN q + 1 ELSE q)
    IN  IF n < 0 THEN -m ELSE m

\* n with its leading places only.
Rounded(n, limit, base) ==
    IF Abs(n) < limit THEN n ELSE Nearest(n, LastPlace(n, limit, base))

\* Conversion to double, and strtod.
Double(n) == Rounded(n, Mantissa, 2)

\* sprintf, "%1.15g" and "%1.17g"
Decimal(d, limit) == Rounded(d, limit, Base)

\* compare_double: DBL_EPSILON is 2 / Mantissa.
CompareDouble(a, b) ==
    LET maxVal == IF Abs(a) > Abs(b) THEN Abs(a) ELSE Abs(b)
    IN  Abs(a - b) * Mantissa <= 2 * maxVal

\* Fault: 15 digits suffice.
PrintNumberShort(d) == Decimal(d, Short)

\* Fault: the two tests for precision exchanged.
PrintNumberSwapped(d) ==
    IF CompareDouble(Double(Decimal(d, Short)), d)
    THEN Decimal(d, Long)
    ELSE Decimal(d, Short)

\* print_number: the fewest digits from which the double comes back, almost.
PrintNumber(d) ==
    IF CompareDouble(Double(Decimal(d, Short)), d)
    THEN Decimal(d, Short)
    ELSE Decimal(d, Long)

\* Fault: no saturation, the low bits.
ValueIntWraps(d) == ((d + Max32 + 1) % (2 * Max32 + 2)) - (Max32 + 1)

\* valueint of an item, with saturation.
ValueInt(d) ==
    IF d >= Max32 THEN Max32
    ELSE IF d <= -Max32 - 1 THEN -Max32 - 1
    ELSE d

\* The text of a field (cJSON_AddNumberToObject, print_number).
Text(n) == PrintNumber(Double(n))

\* An int assigned to a signed or an unsigned field with the given maximum.
ToSigned(i, max)   == ((i + max + 1) % (2 * max + 2)) - (max + 1)
ToUnsigned(i, max) == i % (2 * max + 2)

Signed(max)   == -max - 1 .. max
Unsigned(max) == 0 .. 2 * max + 1

\* The places that print_number prints a double with, as a limit.
Precision(d) == IF CompareDouble(Double(Decimal(d, Short)), d) THEN Short ELSE Long

\* How many characters that are.  With more places than its precision a number is printed
\* as "%g" does: without the zeros at its end, and with a point behind the first digit if
\* there are others, then e+ and two digits.
Characters(d) ==
    LET n       == Abs(PrintNumber(d))
        Places(m) == CHOOSE k \in 1..20 : m < Base^k /\ (k = 1 \/ m >= Base^(k - 1))
        zeros   == IF n = 0 THEN 0
                   ELSE CHOOSE k \in 0..20 : n % Base^k = 0 /\ n % Base^(k + 1) # 0
        places  == Places(n) - zeros
    IN  (IF d < 0 THEN 1 ELSE 0)
        + (IF n < Precision(d) THEN Places(n)
           ELSE places + 4 + (IF places > 1 THEN 1 ELSE 0))
=============================================================================
