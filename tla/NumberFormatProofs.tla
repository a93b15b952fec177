------------------------- MODULE NumberFormatProofs -------------------------
(***************************************************************************)
(* num::IntoStr, for every number below 2^31 in every base: a digit loop   *)
(* writes the places that were reserved for it, and no other; what is      *)
(* written of an integer or a float is that number.  fmt::Formatter, for   *)
(* every style: a field is filled as its style says.                       *)
(***************************************************************************)
EXTENDS NumberFormat, FiniteSetTheorems, NaturalsInduction, TLAPS

Bases == {2, 8, 10, 16}

\* The largest number that is modelled is a number.
LEMMA MaxIsNat == MaxValue \in Nat
BY SMT DEF MaxValue

\* It is odd, so that v | 1 is never larger.
LEMMA MaxIsOdd == MaxValue % 2 = 1
BY SMT DEF MaxValue

\* The table of powers of 2 doubles, and grows.
LEMMA Powers2Facts ==
  /\ \A n \in 1 .. 31 : Powers2[n] \in Nat
  /\ \A n \in 1 .. 30 : Powers2[n + 1] = 2 * Powers2[n]
  /\ \A n \in 1 .. 28 : Powers2[n + 3] = 8 * Powers2[n]
  /\ \A n \in 1 .. 27 : Powers2[n + 4] = 16 * Powers2[n]
  /\ \A i, k \in 1 .. 31 : i <= k => Powers2[i] <= Powers2[k]
<1>1. \A n \in 1 .. 31 : Powers2[n] \in Nat
  BY SMT DEF Powers2
<1>2. \A n \in 1 .. 30 : Powers2[n + 1] = 2 * Powers2[n]
  BY SMT DEF Powers2
<1>3. \A i, k \in 1 .. 31 : i <= k => Powers2[i] <= Powers2[k]
  BY SMT DEF Powers2
<1>4. \A n \in 1 .. 28 : Powers2[n + 3] = 8 * Powers2[n]
  BY SMT DEF Powers2
<1>5. \A n \in 1 .. 27 : Powers2[n + 4] = 16 * Powers2[n]
  BY SMT DEF Powers2
<1> QED BY <1>1, <1>2, <1>3, <1>4, <1>5

\* The table of powers of 10.
LEMMA Powers10Facts ==
  /\ \A n \in 1 .. 10 : Powers10[n] \in Nat
  /\ \A n \in 1 .. 9 : Powers10[n + 1] = 10 * Powers10[n]
<1> QED BY SMT DEF Powers10

\* The count of bits is the one that is meant: a number below 2^31 lies
\* between two entries of the table.
LEMMA BitsFacts ==
  ASSUME NEW v \in 1 .. MaxValue
  PROVE  /\ Bits(v) \in 1 .. 31
         /\ Powers2[Bits(v)] <= v
         /\ Bits(v) < 31 => v < Powers2[Bits(v) + 1]
<1>1. SUFFICES ASSUME \A n \in 1 .. 31 :
                        ~(Powers2[n] <= v /\ (n < 31 => v < Powers2[n + 1]))
               PROVE  FALSE
  BY DEF Bits
<1>2. \A n \in 1 .. 30 : Powers2[n] <= v => Powers2[n + 1] <= v
  BY <1>1, Powers2Facts
<1>3. \A n \in 1 .. 26 : Powers2[n] <= v => Powers2[n + 5] <= v
  <2> SUFFICES ASSUME NEW n \in 1 .. 26, Powers2[n] <= v
               PROVE  Powers2[n + 5] <= v
    OBVIOUS
  <2>1. Powers2[n + 1] <= v /\ Powers2[n + 2] <= v
    BY <1>2
  <2>2. Powers2[n + 3] <= v /\ Powers2[n + 4] <= v
    BY <1>2, <2>1
  <2> QED BY <1>2, <2>2
<1>4. Powers2[1] <= v
  BY SMT DEF Powers2
<1>5. Powers2[6] <= v /\ Powers2[11] <= v /\ Powers2[16] <= v
  BY <1>3, <1>4
<1>6. Powers2[21] <= v /\ Powers2[26] <= v /\ Powers2[31] <= v
  BY <1>3, <1>5
<1> QED BY <1>1, <1>6

\* One digit more is worth the base.
LEMMA LeastGrows ==
  ASSUME NEW base \in Bases, NEW n \in 1 .. MostDigits(base)
  PROVE  /\ Least(base, n) \in Nat
         /\ n < MostDigits(base) => Least(base, n + 1) = base * Least(base, n)
         /\ n = 1 => Least(base, n) = 1
<1>1. CASE base = 10
  BY <1>1, Powers10Facts, SMT DEF Least, MostDigits, Powers10
<1>2. CASE base = 2
  BY <1>2, Powers2Facts, SMT DEF Least, MostDigits, BitsOf, Powers2
<1>3. CASE base = 8
  <2>1. 3 * (n - 1) + 1 \in 1 .. 31
    BY <1>3 DEF MostDigits
  <2>2. n < 11 => /\ 3 * (n - 1) + 1 \in 1 .. 28
                  /\ 3 * n + 1 = (3 * (n - 1) + 1) + 3
    BY <1>3 DEF MostDigits
  <2>3. n < 11 => Powers2[3 * n + 1] = 8 * Powers2[3 * (n - 1) + 1]
    BY <2>2, Powers2Facts
  <2> QED BY <1>3, <2>1, <2>3, Powers2Facts, SMT DEF Least, MostDigits, BitsOf, Powers2
<1>4. CASE base = 16
  <2>1. 4 * (n - 1) + 1 \in 1 .. 31
    BY <1>4 DEF MostDigits
  <2>2. n < 8 => /\ 4 * (n - 1) + 1 \in 1 .. 27
                 /\ 4 * n + 1 = (4 * (n - 1) + 1) + 4
    BY <1>4 DEF MostDigits
  <2>3. n < 8 => Powers2[4 * n + 1] = 16 * Powers2[4 * (n - 1) + 1]
    BY <2>2, Powers2Facts
  <2> QED BY <1>4, <2>1, <2>3, Powers2Facts, SMT DEF Least, MostDigits, BitsOf, Powers2
<1> QED BY <1>1, <1>2, <1>3, <1>4 DEF Bases

\* No number that is modelled has more digits than MostDigits.
LEMMA MostIsEnough ==
  ASSUME NEW base \in Bases
  PROVE  MaxValue < base * Least(base, MostDigits(base))
<1>1. CASE base = 10
  BY <1>1, SMT DEF Least, MostDigits, Powers10, MaxValue
<1>2. CASE base = 2
  BY <1>2, SMT DEF Least, MostDigits, BitsOf, Powers2, MaxValue
<1>3. CASE base = 8
  BY <1>3, SMT DEF Least, MostDigits, BitsOf, Powers2, MaxValue
<1>4. CASE base = 16
  BY <1>4, SMT DEF Least, MostDigits, BitsOf, Powers2, MaxValue
<1> QED BY <1>1, <1>2, <1>3, <1>4 DEF Bases

\* A digit less is a division by the base.
LEMMA DigitLess ==
  ASSUME NEW base \in Bases, NEW v \in 0 .. MaxValue, NEW n,
         HasDigits(v, base, n), v >= base
  PROVE  n > 1 /\ HasDigits(v \div base, base, n - 1) /\ v \div base \in 0 .. MaxValue
<1>1. n \in 1 .. MostDigits(base) /\ MostDigits(base) \in Nat
  BY DEF HasDigits, MostDigits, Bases
<1>2. n # 1
  <2>1. SUFFICES ASSUME n = 1 PROVE FALSE
    OBVIOUS
  <2>2. 1 \in 1 .. MostDigits(base) /\ 1 < MostDigits(base)
    BY DEF MostDigits, Bases
  <2> QED BY <2>1, <2>2, LeastGrows DEF HasDigits, Bases
<1>3. n - 1 \in 1 .. MostDigits(base) /\ n - 1 < MostDigits(base)
  BY <1>1, <1>2
<1>4. /\ Least(base, n) = base * Least(base, n - 1)
      /\ Least(base, n) \in Nat /\ Least(base, n - 1) \in Nat
  BY <1>1, <1>3, LeastGrows
<1>5. Least(base, n - 1) <= v \div base
  BY <1>1, <1>2, <1>4 DEF HasDigits, Bases
<1>6. v \div base < Least(base, n)
  <2>1. CASE n < MostDigits(base)
    BY <1>1, <1>4, <2>1, LeastGrows DEF HasDigits, Bases
  <2>2. CASE n = MostDigits(base)
    <3>1. MaxValue < base * Least(base, n)
      BY <2>2, MostIsEnough
    <3>2. v \in Nat /\ v <= MaxValue /\ MaxValue \in Nat
      BY MaxIsNat
    <3> QED BY <1>4, <3>1, <3>2 DEF Bases
  <2> QED BY <1>1, <2>1, <2>2
<1>7. v \div base \in 0 .. MaxValue
  <2>1. v \in Nat /\ MaxValue \in Nat /\ v <= MaxValue
    BY MaxIsNat
  <2>2. v \div base \in Nat /\ v \div base <= v
    BY <2>1 DEF Bases
  <2> QED BY <2>1, <2>2
<1> QED BY <1>1, <1>2, <1>3, <1>5, <1>6, <1>7 DEF HasDigits

\* 1233/4096 is near enough to the logarithm of 2: the number of decimal
\* digits of a number of b bits is this product or one more.
LEMMA LogFacts ==
  ASSUME NEW b \in 1 .. 31, NEW k, k = (b * 1233) \div 4096
  PROVE  /\ k \in 0 .. 9
         /\ k > 0 => Powers10[k] <= Powers2[b]
         /\ k < 9 => b < 31 /\ Powers2[b + 1] <= Powers10[k + 2]
<1>1. k \in 0 .. 9
  OBVIOUS
<1>2. k > 0 => Powers10[k] <= Powers2[b]
  BY <1>1, SMT DEF Powers2, Powers10
<1>3. k < 9 => b < 31
  OBVIOUS
<1>4. k < 9 => Powers2[b + 1] <= Powers10[k + 2]
  BY <1>1, <1>3, SMT DEF Powers2, Powers10
<1> QED BY <1>1, <1>2, <1>3, <1>4

\* uint_count_digits_by_dcm counts the decimal digits, of every number below
\* 2^31: also of 0, and although the count is made for the odd number next to
\* an even one, which has as many digits.
THEOREM CountDcmExact ==
  ASSUME NEW v \in 0 .. MaxValue
  PROVE  HasDigits(v, 10, CountDcm(v))
<1> DEFINE odd == IF v % 2 = 0 THEN v + 1 ELSE v
           b == Bits(odd)
           k == (b * 1233) \div 4096
           n == IF odd < Powers10[k + 1] THEN k ELSE k + 1
<1>1. v \in Nat /\ v <= odd /\ odd <= v + 1 /\ odd % 2 = 1 /\ odd \in Nat
  BY MaxIsNat
<1>2. odd \in 1 .. MaxValue
  BY <1>1, MaxIsNat, MaxIsOdd
<1>3. /\ b \in 1 .. 31
      /\ Powers2[b] <= odd
      /\ b < 31 => odd < Powers2[b + 1]
  BY <1>2, BitsFacts
<1> HIDE DEF odd, b
<1>4. /\ k \in 0 .. 9
      /\ k > 0 => Powers10[k] <= Powers2[b]
      /\ k < 9 => b < 31 /\ Powers2[b + 1] <= Powers10[k + 2]
  BY <1>3, LogFacts
<1> HIDE DEF k
<1>5. /\ \A i \in 1 .. 10 : Powers10[i] \in Nat
      /\ \A i \in 2 .. 10 : Powers10[i] % 2 = 0
      /\ Powers10[1] = 1
  BY Powers10Facts, SMT DEF Powers10
<1>6. /\ b < 31 => Powers2[b + 1] \in Nat
      /\ Powers2[b] \in Nat
  <2>1. b < 31 => b + 1 \in 1 .. 31
    BY <1>3
  <2> QED BY <1>3, <2>1, Powers2Facts
<1>7. n \in 1 .. 10
  BY <1>1, <1>2, <1>4, <1>5
<1>8. n > 1 => Powers10[n] <= odd
  BY <1>1, <1>3, <1>4, <1>5, <1>6
<1>9. n < 10 => odd < Powers10[n + 1]
  BY <1>1, <1>3, <1>4, <1>5, <1>6
<1> HIDE DEF n
<1>10. n > 1 => Powers10[n] <= v
  <2> SUFFICES ASSUME n > 1 PROVE Powers10[n] <= v
    OBVIOUS
  <2>1. Powers10[n] \in Nat /\ Powers10[n] % 2 = 0 /\ Powers10[n] <= odd
    BY <1>5, <1>7, <1>8
  <2>2. CASE v = odd
    BY <2>1, <2>2
  <2>3. CASE v = odd - 1
    BY <1>1, <2>1, <2>3
  <2> QED BY <1>1, <2>2, <2>3
<1>11. n < 10 => v < Powers10[n + 1]
  <2> SUFFICES ASSUME n < 10 PROVE v < Powers10[n + 1]
    OBVIOUS
  <2>1. Powers10[n + 1] \in Nat
    BY <1>5, <1>7
  <2> QED BY <1>1, <1>9, <2>1
<1>12. CountDcm(v) = n
  BY DEF CountDcm, n, k, b, odd
<1> QED BY <1>7, <1>10, <1>11, <1>12 DEF HasDigits, Least, MostDigits

\* uint_count_digits_by_bin counts the digits of every number from 1 on.
THEOREM CountBinExact ==
  ASSUME NEW base \in Bases, base # 10, NEW v \in 1 .. MaxValue
  PROVE  HasDigits(v, base, CountBin(v, BitsOf(base)))
<1> DEFINE s == BitsOf(base)
           b == Bits(v)
           n == (b + s - 1) \div s
<1>1. /\ b \in 1 .. 31
      /\ Powers2[b] <= v
      /\ b < 31 => v < Powers2[b + 1]
  BY BitsFacts
<1>2. v \in Nat
  BY MaxIsNat
<1> HIDE DEF b
<1>3. base \in {2, 8, 16} /\ s \in {1, 3, 4}
  BY DEF Bases, BitsOf
<1>4. /\ n \in 1 .. MostDigits(base)
      /\ s * (n - 1) + 1 \in 1 .. b
      /\ n < MostDigits(base) => b < 31 /\ s * n + 1 \in b + 1 .. 31
  <2>1. CASE base = 2
    BY <1>1, <2>1 DEF MostDigits, BitsOf
  <2>2. CASE base = 8
    <3>1. s = 3 /\ MostDigits(base) = 11
      BY <2>2 DEF MostDigits, BitsOf
    <3>2. n = (b + 2) \div 3
      BY <1>1, <3>1
    <3> HIDE DEF n, s
    <3>3. n \in Nat /\ 3 * n <= b + 2 /\ b + 2 < 3 * n + 3
      BY <1>1, <3>2
    <3> QED BY <1>1, <3>1, <3>3
  <2>3. CASE base = 16
    BY <1>1, <2>3 DEF MostDigits, BitsOf
  <2> QED BY <1>3, <2>1, <2>2, <2>3
<1> HIDE DEF n, s
<1>5. Powers2[s * (n - 1) + 1] <= v
  <2>1. s * (n - 1) + 1 \in 1 .. 31 /\ s * (n - 1) + 1 <= b
    BY <1>1, <1>4
  <2>2. Powers2[s * (n - 1) + 1] <= Powers2[b]
    BY <1>1, <2>1, Powers2Facts
  <2>3. Powers2[s * (n - 1) + 1] \in Nat /\ Powers2[b] \in Nat
    BY <1>1, <2>1, Powers2Facts
  <2> QED BY <1>1, <1>2, <2>2, <2>3
<1>6. n < MostDigits(base) => v < Powers2[s * n + 1]
  <2> SUFFICES ASSUME n < MostDigits(base) PROVE v < Powers2[s * n + 1]
    OBVIOUS
  <2>1. b < 31 /\ b + 1 \in 1 .. 31 /\ s * n + 1 \in 1 .. 31 /\ b + 1 <= s * n + 1
    BY <1>1, <1>4
  <2>2. Powers2[b + 1] <= Powers2[s * n + 1]
    BY <2>1, Powers2Facts
  <2>3. Powers2[s * n + 1] \in Nat /\ Powers2[b + 1] \in Nat
    BY <2>1, Powers2Facts
  <2> QED BY <1>1, <1>2, <2>1, <2>2, <2>3
<1>7. n + 1 - 1 = n
  BY <1>4
<1> QED BY <1>3, <1>4, <1>5, <1>6, <1>7 DEF HasDigits, Least, CountBin, s, n, b

\* The digits of a number are a part with as many digits as the number has.
LEMMA CountExact ==
  ASSUME NEW base \in Bases, NEW v \in 0 .. MaxValue, base # 10 => v > 0
  PROVE  HasDigits(v, base, Count(v, base))
<1>1. CASE base = 10
  BY <1>1, CountDcmExact DEF Count
<1>2. CASE base # 10
  <2>1. v \in 1 .. MaxValue
    BY <1>2, MaxIsNat
  <2> QED BY <1>2, <2>1, CountBinExact DEF Count
<1> QED BY <1>1, <1>2
-----------------------------------------------------------------------------
\* A part that was not begun: the digits of a number were counted, or a
\* character that fills no field is repeated.
Planned ==
  {h \in [op : {"chars", "digits"}, val : Nat, base : Nat, cnt : Nat, at : Int] :
     /\ h.op = "digits" => /\ h.val \in 0 .. MaxValue /\ h.base \in Bases
                           /\ HasDigits(h.val, h.base, h.cnt)
     /\ h.op = "chars" => h.val \in 0 .. Unset}

\* A part whose digits are being written
Begun == [op : {"loop"}, val : 0 .. MaxValue, base : Bases, cnt : Nat, at : Int]

\* What the steps preserve: the text is shorter than the buffer, only the
\* first part can be in a digit loop, and its places fit.
IInv ==
  /\ len \in 0 .. Capacity - 1
  /\ arg \in Args
  /\ \/ todo \in Seq(Planned)
     \/ /\ todo # <<>> /\ Head(todo) \in Begun /\ Tail(todo) \in Seq(Planned)
        /\ Head(todo).at <= len + Head(todo).cnt /\ len + Head(todo).cnt < Capacity
        /\ HasDigits(Head(todo).val, Head(todo).base, Head(todo).at - len)

\* A part made of a number has its digits counted.
LEMMA DigitsPlanned ==
  ASSUME NEW base \in Bases, NEW v \in 0 .. MaxValue, base # 10 => v > 0
  PROVE  Digits(v, base) \in Planned
<1>1. HasDigits(v, base, Count(v, base))
  BY CountExact
<1>2. Count(v, base) \in Nat
  BY <1>1 DEF HasDigits, MostDigits, Bases
<1>3. v \in Nat /\ base \in Nat
  BY MaxIsNat DEF Bases
<1> QED BY <1>1, <1>2, <1>3 DEF Digits, Part, Planned

\* A repeated character is a part with nothing to count.
LEMMA CharsPlanned ==
  ASSUME NEW c \in 0 .. Unset, NEW n \in Nat
  PROVE  Chars(c, n) \in Planned
BY DEF Chars, Part, Planned, Unset

\* A fraction that is rounded to some places stays far below 2^31.
LEMMA RoundedBound ==
  ASSUME NEW frac \in 0 .. 999, NEW places \in 1 .. 6
  PROVE  Rounded(frac, places) \in 0 .. MaxValue
<1> DEFINE p == Powers10[places + 1]
<1>1. p \in Nat /\ p <= 1000 * 1000
  BY SMT DEF Powers10
<1> HIDE DEF p
<1> DEFINE q == frac * p
<1>2. q \in Nat /\ q <= 999 * (1000 * 1000)
  <2>1. frac \in Nat /\ p \in Nat /\ frac <= 999
    BY <1>1
  <2>2. frac * p \in Nat /\ frac * p <= 999 * p
    BY <2>1, SMT
  <2> QED BY <1>1, <2>2, SMT
<1>3. 2 * frac * p = 2 * q
  BY <1>1, SMT
<1> HIDE DEF q
<1> DEFINE r == (2 * q + 1000) \div 2000
<1>4. r \in Nat /\ r <= 1000 * 1000
  BY <1>2, SMT
<1>5. Rounded(frac, places) = r
  BY <1>3 DEF Rounded, p
<1> HIDE DEF r
<1>6. 1000 * 1000 <= MaxValue
  BY SMT DEF MaxValue
<1> QED BY <1>4, <1>5, <1>6, MaxIsNat, SMT

\* The parts of a fraction: a dot, zeros, and digits that were counted.
LEMMA FractionPlanned ==
  ASSUME NEW frac \in 0 .. 999, NEW places \in 1 .. 6
  PROVE  Fraction(frac, places) \in Seq(Planned)
<1> DEFINE v == Rounded(frac, places)
<1>1. v \in 0 .. MaxValue
  BY RoundedBound
<1> HIDE DEF v
<1>2. CountDcm(v) \in Nat
  BY <1>1, CountDcmExact DEF HasDigits, MostDigits
<1>3. (places - CountDcm(v)) % UsizeMod \in Nat
  BY <1>2, IntoStrAssumption
<1>4. Digits(v, 10) \in Planned
  BY <1>1, DigitsPlanned DEF Bases
<1>5. /\ Chars(Dot, 1) \in Planned
      /\ Chars(0, (places - CountDcm(v)) % UsizeMod) \in Planned
  BY <1>3, CharsPlanned DEF Dot, Unset
<1> QED BY <1>4, <1>5 DEF Fraction, v

\* A float that is written has a whole part, a fraction and places within
\* the bounds of the count of digits.
LEMMA FloatRanges ==
  ASSUME NEW a \in Args, a.kind = "flt"
  PROVE  /\ a.num.whole \in 0 .. MaxValue /\ a.precision \in 0 .. 6 /\ a.type \in {"f", "g", "%"}
         /\ Whole(a) \in 0 .. MaxValue /\ Frac(a) \in 0 .. 999
<1>1. /\ a.num.whole \in 0 .. MaxValue \div 100 - 1 /\ a.num.frac \in 0 .. 999
      /\ a.precision \in 0 .. 6 /\ a.type \in {"f", "g", "%"}
  <2>1. a \in [kind : {"flt"}, num : Floats, type : {"f", "g", "%"}, precision : Precisions]
    BY DEF Args
  <2>2. a.num \in Floats /\ a.precision \in Precisions /\ a.type \in {"f", "g", "%"}
    BY <2>1
  <2>3. a.num \in [neg : BOOLEAN, whole : 0 .. MaxValue \div 100 - 1, frac : 0 .. 999]
    BY <2>2, NumbersAssumption
  <2>4. a.num.whole \in 0 .. MaxValue \div 100 - 1 /\ a.num.frac \in 0 .. 999
    BY <2>3
  <2>5. a.precision \in 0 .. 6
    BY <2>2, NumbersAssumption
  <2> QED BY <2>2, <2>4, <2>5
<1> DEFINE w == Whole(a)
           f == Frac(a)
           x == a.num.whole
           y == a.num.frac
<1>2. x \in Nat /\ x <= MaxValue \div 100 - 1 /\ y \in 0 .. 999
  BY <1>1, MaxIsNat
<1>3. w = x \/ w = x * 100 + y \div 10
  BY DEF Whole
<1>4. f \in 0 .. 999
  <2>1. f = y \/ f = (y % 10) * 100
    BY DEF Frac
  <2> HIDE DEF y, f
  <2>2. y % 10 \in 0 .. 9
    BY <1>2
  <2>3. (y % 10) * 100 \in 0 .. 999
    BY <2>2
  <2> QED
    BY <1>2, <2>1, <2>3
<1> HIDE DEF x, y, w, f
<1>5. 100 * (MaxValue \div 100) <= MaxValue /\ MaxValue \div 100 \in Nat
  BY MaxIsNat
<1>6. y \div 10 \in 0 .. 99
  BY <1>2
<1>7. w \in 0 .. MaxValue /\ x \in 0 .. MaxValue
  BY <1>2, <1>3, <1>5, <1>6, MaxIsNat
<1> QED
  BY <1>1, <1>4, <1>7 DEF w, f, x

\* A number begins with parts that are counted right.
LEMMA PartsPlanned ==
  ASSUME NEW a \in Args, a.kind # "text"
  PROVE  Parts(a) \in Seq(Planned)
<1>1. CASE a.kind = "int"
  <2>1. a.num.val \in 0 .. MaxValue /\ a.base \in Bases /\ (a.base # 10 => a.num.val > 0)
    BY <1>1, NumbersAssumption DEF Args, Bases
  <2>2. Digits(a.num.val, a.base) \in Planned
    BY <2>1, DigitsPlanned
  <2> QED BY <1>1, <2>2 DEF Parts
<1>2. CASE a.kind = "flt"
  <2> DEFINE w == Whole(a)
             f == Frac(a)
  <2>1. a.precision \in 0 .. 6 /\ a.type \in {"f", "g", "%"}
    BY <1>2, FloatRanges
  <2>2. w \in 0 .. MaxValue
    BY <1>2, FloatRanges
  <2>3. f \in 0 .. 999
    BY <1>2, FloatRanges
  <2> HIDE DEF w, f
  <2>4. Digits(w, 10) \in Planned
    BY <2>2, DigitsPlanned DEF Bases
  <2>5. Fixed(w, f, a.precision) \in Seq(Planned)
    <3>1. CASE a.precision = 0
      BY <2>4, <3>1 DEF Fixed
    <3>2. CASE a.precision # 0
      <4>1. Fraction(f, a.precision) \in Seq(Planned)
        <5>1. a.precision \in 1 .. 6
          BY <2>1, <3>2
        <5> QED BY <2>3, <5>1, FractionPlanned
      <4> QED BY <2>4, <3>2, <4>1 DEF Fixed
    <3> QED BY <3>1, <3>2
  <2>6. General(w, f, a.precision) \in Seq(Planned)
    <3> DEFINE n == CountDcm(w)
    <3>1. n \in Nat \ {0}
      BY <2>2, CountDcmExact DEF HasDigits, MostDigits
    <3> HIDE DEF n
    <3>2. CASE n >= a.precision
      BY <2>4, <3>2 DEF General, n
    <3>3. CASE ~(n >= a.precision)
      <4>1. a.precision - n \in 1 .. 6
        BY <2>1, <3>1, <3>3
      <4>2. Fraction(f, a.precision - n) \in Seq(Planned)
        BY <2>3, <4>1, FractionPlanned
      <4> QED BY <2>4, <3>3, <4>2 DEF General, n
    <3> QED BY <3>2, <3>3
  <2>7. <<Chars(Percent, 1)>> \in Seq(Planned)
    BY CharsPlanned DEF Percent, Unset
  <2>8. Parts(a) \in {Fixed(w, f, a.precision), General(w, f, a.precision),
                      Fixed(w, f, a.precision) \o <<Chars(Percent, 1)>>}
    BY <1>2, <2>1 DEF Parts, w, f
  <2>9. Fixed(w, f, a.precision) \o <<Chars(Percent, 1)>> \in Seq(Planned)
    <3> DEFINE s == Fixed(w, f, a.precision)
               c == Chars(Percent, 1)
    <3>1. s \in Seq(Planned) /\ <<c>> \in Seq(Planned)
      BY <2>5, <2>7
    <3> HIDE DEF s, c
    <3>2. s \o <<c>> \in Seq(Planned)
      BY <3>1
    <3> QED BY <3>2 DEF s, c
  <2> QED BY <2>5, <2>6, <2>8, <2>9
<1> QED BY <1>1, <1>2 DEF Args

\* An empty IntoStr satisfies the invariant.
THEOREM InitIInv == Init => IInv
<1> SUFFICES ASSUME Init PROVE IInv
  OBVIOUS
<1>1. len \in 0 .. Capacity - 1
  BY IntoStrAssumption DEF Init, InitInto
<1>2. todo \in Seq(Planned)
  BY DEF Init, InitInto
<1> QED BY <1>1, <1>2 DEF IInv, Init

\* A loop that was begun is the only part that is one.
LEMMA LoopBegun ==
  ASSUME IInv, todo # <<>>, Head(todo).op = "loop"
  PROVE  /\ Head(todo) \in Begun /\ Tail(todo) \in Seq(Planned)
         /\ Head(todo).at <= len + Head(todo).cnt /\ len + Head(todo).cnt < Capacity
         /\ HasDigits(Head(todo).val, Head(todo).base, Head(todo).at - len)
<1>1. CASE todo \in Seq(Planned)
  <2>1. Head(todo) \in Planned
    BY <1>1
  <2> QED BY <2>1 DEF Planned
<1> QED BY <1>1 DEF IInv

\* Another part was not begun, nor were those after it.
LEMMA OtherPlanned ==
  ASSUME IInv, todo # <<>>, Head(todo).op # "loop"
  PROVE  Head(todo) \in Planned /\ Tail(todo) \in Seq(Planned)
<1>1. CASE todo \in Seq(Planned)
  BY <1>1
<1>2. CASE Head(todo) \in Begun
  BY <1>2 DEF Begun
<1> QED BY <1>1, <1>2 DEF IInv

\* The text is shorter than the buffer.
LEMMA LenInt == ASSUME IInv PROVE len \in Nat /\ len < Capacity
BY IntoStrAssumption DEF IInv

\* write_chr and write_chs keep the text shorter than the buffer, even when
\* the sum in reserve wraps.
THEOREM WriteCharsKeeps ==
  ASSUME IInv, WriteChars, arg' = arg
  PROVE  IInv'
<1>1. Head(todo) \in Planned /\ Tail(todo) \in Seq(Planned)
  BY OtherPlanned DEF WriteChars
<1>2. len' \in 0 .. Capacity - 1
  <2>1. Head(todo).cnt \in Nat
    BY <1>1 DEF Planned
  <2>2. (len + Head(todo).cnt) % UsizeMod \in Nat
    BY <2>1, LenInt, IntoStrAssumption
  <2> QED BY <2>2, LenInt, IntoStrAssumption DEF WriteChars, Fits, IInv
<1>3. todo' \in Seq(Planned)
  BY <1>1 DEF WriteChars
<1> QED BY <1>2, <1>3 DEF IInv

\* Room is reserved without wrapping around: the counted digits and the
\* length are small.
THEOREM ReserveKeeps ==
  ASSUME IInv, Reserve, arg' = arg
  PROVE  IInv'
<1> DEFINE h == Head(todo)
           g == [h EXCEPT !.op = "loop", !.at = len + h.cnt]
<1>1. h \in Planned /\ Tail(todo) \in Seq(Planned)
  BY OtherPlanned DEF Reserve
<1>2. /\ h.val \in 0 .. MaxValue /\ h.base \in Bases /\ h.cnt \in Nat
      /\ HasDigits(h.val, h.base, h.cnt)
  BY <1>1 DEF Reserve, Planned
<1>3. len' = len /\ len \in Nat /\ len < Capacity
  BY LenInt DEF Reserve
<1>4. CASE Fits(h.cnt)
  <2>1. h.cnt <= 31
    BY <1>2 DEF HasDigits, MostDigits, Bases
  <2>2. len + h.cnt < Capacity
    <3>1. len + h.cnt \in 0 .. UsizeMod - 1
      BY <1>2, <1>3, <2>1, IntoStrAssumption
    <3>2. (len + h.cnt) % UsizeMod = len + h.cnt
      BY <3>1, IntoStrAssumption
    <3> QED BY <1>4, <3>2 DEF Fits
  <2>3. todo' = <<g>> \o Tail(todo)
    BY <1>4 DEF Reserve
  <2>4. /\ g \in Begun /\ g.at = len + h.cnt /\ g.cnt = h.cnt
        /\ g.val = h.val /\ g.base = h.base
    <3>1. h \in [op : {"chars", "digits"}, val : Nat, base : Nat, cnt : Nat, at : Int]
      BY <1>1 DEF Planned
    <3>2. len + h.cnt \in Int
      BY <1>2, <1>3
    <3> HIDE DEF h
    <3> QED BY <1>2, <3>1, <3>2 DEF Begun
  <2> HIDE DEF g, h
  <2>5. todo' # <<>> /\ Head(todo') = g /\ Tail(todo') = Tail(todo)
    BY <1>1, <2>3
  <2>6. g.at - len = h.cnt
    BY <1>2, <1>3, <2>4
  <2>7. g.at <= len + g.cnt /\ len + g.cnt < Capacity
    BY <1>2, <1>3, <2>2, <2>4
  <2>8. HasDigits(g.val, g.base, g.at - len)
    BY <1>2, <2>4, <2>6
  <2> QED BY <1>1, <1>3, <2>4, <2>5, <2>7, <2>8 DEF IInv
<1>5. CASE ~Fits(h.cnt)
  BY <1>1, <1>3, <1>5 DEF Reserve, IInv
<1> QED BY <1>4, <1>5

\* Two decimal digits are two divisions by ten.
LEMMA TwoDigitsLess ==
  ASSUME NEW v \in 0 .. MaxValue, NEW n, HasDigits(v, 10, n), v >= 100
  PROVE  n > 2 /\ HasDigits(v \div 100, 10, n - 2) /\ v \div 100 \in 0 .. MaxValue
<1> DEFINE w == v \div 10
<1>1. v \in Nat
  BY MaxIsNat
<1>2. 10 \in Bases /\ v >= 10
  BY <1>1 DEF Bases
<1>3. n > 1 /\ HasDigits(w, 10, n - 1) /\ w \in 0 .. MaxValue
  BY <1>2, DigitLess
<1>4. w >= 10 /\ w \div 10 = v \div 100
  BY <1>1
<1> HIDE DEF w
<1>5. n - 1 > 1 /\ HasDigits(w \div 10, 10, n - 1 - 1) /\ w \div 10 \in 0 .. MaxValue
  BY <1>2, <1>3, <1>4, DigitLess
<1>6. n \in Nat
  BY DEF HasDigits, MostDigits
<1>7. n - 1 - 1 = n - 2 /\ n > 2
  BY <1>5, <1>6
<1> QED BY <1>4, <1>5, <1>7

\* A round of write_unit_by_rev writes two digits and has two fewer to write.
THEOREM LoopTwoKeeps ==
  ASSUME IInv, LoopTwo, arg' = arg
  PROVE  IInv'
<1> DEFINE h == Head(todo)
           g == [h EXCEPT !.val = h.val \div 100, !.at = h.at - 2]
<1>1. /\ h \in Begun /\ Tail(todo) \in Seq(Planned)
      /\ h.at <= len + h.cnt /\ len + h.cnt < Capacity
      /\ HasDigits(h.val, h.base, h.at - len)
  BY LoopBegun DEF LoopTwo
<1>2. /\ h.val \in 0 .. MaxValue /\ h.base = 10 /\ h.cnt \in Nat /\ h.at \in Int
      /\ len \in Nat /\ Capacity \in Nat
  BY <1>1, LenInt, IntoStrAssumption DEF LoopTwo, Begun
<1>3. CASE h.val >= 100
  <2>1. /\ h.at - len > 2 /\ HasDigits(h.val \div 100, 10, h.at - len - 2)
        /\ h.val \div 100 \in 0 .. MaxValue
    BY <1>1, <1>2, <1>3, TwoDigitsLess
  <2>2. todo' = <<g>> \o Tail(todo) /\ len' = len
    BY <1>3 DEF LoopTwo
  <2>3. /\ g \in Begun /\ g.at = h.at - 2 /\ g.cnt = h.cnt
        /\ g.val = h.val \div 100 /\ g.base = 10
    <3> DEFINE v == h.val \div 100
               i == h.at - 2
    <3>1. v \in 0 .. MaxValue /\ i \in Int
      BY <1>2, <2>1
    <3> HIDE DEF h, v, i
    <3>2. g = [h EXCEPT !.val = v, !.at = i]
      BY DEF v, i
    <3> HIDE DEF g
    <3> QED BY <1>1, <1>2, <3>1, <3>2 DEF Begun, v, i
  <2> HIDE DEF g, h
  <2>4. todo' # <<>> /\ Head(todo') = g /\ Tail(todo') = Tail(todo)
    BY <1>1, <2>2
  <2>5. g.at - len = h.at - len - 2 /\ g.at <= len + g.cnt /\ len + g.cnt < Capacity
    BY <1>1, <1>2, <2>3
  <2>6. HasDigits(g.val, g.base, g.at - len)
    BY <2>1, <2>3, <2>5
  <2> QED BY <1>1, <2>2, <2>3, <2>4, <2>5, <2>6 DEF IInv
<1>4. CASE ~(h.val >= 100)
  <2>1. todo' = Tail(todo) /\ len' = len + h.cnt
    BY <1>4 DEF LoopTwo
  <2>2. len' \in 0 .. Capacity - 1
    BY <1>1, <1>2, <2>1
  <2> QED BY <1>1, <2>1, <2>2 DEF IInv
<1> QED BY <1>3, <1>4

\* The last round of write_unit_by_rev, and every round of write_uint_by_bin,
\* writes one digit and has one fewer to write.
THEOREM LoopOneKeeps ==
  ASSUME IInv, LoopOne, arg' = arg
  PROVE  IInv'
<1> DEFINE h == Head(todo)
           g == [h EXCEPT !.val = h.val \div h.base, !.at = h.at - 1]
<1>1. /\ h \in Begun /\ Tail(todo) \in Seq(Planned)
      /\ h.at <= len + h.cnt /\ len + h.cnt < Capacity
      /\ HasDigits(h.val, h.base, h.at - len)
  BY LoopBegun DEF LoopOne
<1>2. /\ h.val \in 0 .. MaxValue /\ h.base \in Bases /\ h.cnt \in Nat /\ h.at \in Int
      /\ len \in Nat /\ Capacity \in Nat
  BY <1>1, LenInt, IntoStrAssumption DEF Begun
<1>3. CASE h.val >= h.base
  <2>1. /\ h.at - len > 1 /\ HasDigits(h.val \div h.base, h.base, h.at - len - 1)
        /\ h.val \div h.base \in 0 .. MaxValue
    BY <1>1, <1>2, <1>3, DigitLess
  <2>2. todo' = <<g>> \o Tail(todo) /\ len' = len
    BY <1>3 DEF LoopOne
  <2>3. /\ g \in Begun /\ g.at = h.at - 1 /\ g.cnt = h.cnt
        /\ g.val = h.val \div h.base /\ g.base = h.base
    <3> DEFINE v == h.val \div h.base
               i == h.at - 1
    <3>1. v \in 0 .. MaxValue /\ i \in Int
      BY <1>2, <2>1
    <3> HIDE DEF h, v, i
    <3>2. g = [h EXCEPT !.val = v, !.at = i]
      BY DEF v, i
    <3> HIDE DEF g
    <3> QED BY <1>1, <1>2, <3>1, <3>2 DEF Begun, v, i
  <2> HIDE DEF g, h
  <2>4. todo' # <<>> /\ Head(todo') = g /\ Tail(todo') = Tail(todo)
    BY <1>1, <2>2
  <2>5. g.at - len = h.at - len - 1 /\ g.at <= len + g.cnt /\ len + g.cnt < Capacity
    BY <1>1, <1>2, <2>3
  <2>6. HasDigits(g.val, g.base, g.at - len)
    BY <2>1, <2>3, <2>5
  <2> QED BY <1>1, <2>2, <2>3, <2>4, <2>5, <2>6 DEF IInv
<1>4. CASE ~(h.val >= h.base)
  <2>1. todo' = Tail(todo) /\ len' = len + h.cnt
    BY <1>4 DEF LoopOne
  <2>2. len' \in 0 .. Capacity - 1
    BY <1>1, <1>2, <2>1
  <2> QED BY <1>1, <2>1, <2>2 DEF IInv
<1> QED BY <1>3, <1>4

\* Every step keeps the invariant.
THEOREM NextIInv ==
  ASSUME IInv, [Next]_vars
  PROVE  IInv'
<1>1. CASE Begin
  <2>1. todo' \in Seq(Planned)
    BY <1>1, PartsPlanned DEF Begin, IInv
  <2> QED BY <1>1, <2>1 DEF Begin, IInv
<1>2. CASE Write
  <2>1. Into /\ arg' = arg
    BY <1>2 DEF Write
  <2> QED BY <2>1, WriteCharsKeeps, ReserveKeeps, LoopTwoKeeps, LoopOneKeeps DEF Into
<1>3. CASE PadNum
  BY <1>3 DEF PadNum, intoVars, IInv
<1>4. CASE PadText
  BY <1>4 DEF PadText, intoVars, IInv
<1>5. CASE UNCHANGED vars
  BY <1>5 DEF vars, intoVars, IInv
<1> QED BY <1>1, <1>2, <1>3, <1>4, <1>5 DEF Next

\* The places of a digit loop are exactly the digits it has left, so it ends
\* at the first place that was reserved for it and writes no other
\* (write_unit_by_rev, write_uint_by_bin): for every buffer, every set of
\* numbers below 2^31 and every style.
THEOREM LoopsFit == Spec => []LoopFits
<1>1. IInv => LoopFits
  BY LoopBegun DEF LoopFits
<1> QED BY <1>1, InitIInv, NextIInv, PTL DEF Spec
-----------------------------------------------------------------------------
\* The quotient is how often the divisor goes into v.
LEMMA DivIs ==
  ASSUME NEW v \in Nat, NEW n \in Nat \ {0}, NEW q \in Nat,
         q * n <= v, v < (q + 1) * n
  PROVE  v \div n = q
<1> DEFINE d == v \div n
<1>1. d \in Nat /\ d * n <= v /\ v < (d + 1) * n
  OBVIOUS
<1> HIDE DEF d
<1>2. \A i, k \in Nat : i < k => (i + 1) * n <= k * n
  OBVIOUS
<1>3. ~(d < q)
  <2>1. SUFFICES ASSUME d < q PROVE FALSE
    OBVIOUS
  <2>2. (d + 1) * n <= q * n
    BY <1>1, <1>2, <2>1
  <2> DEFINE x == (d + 1) * n
             y == q * n
  <2>3. x \in Nat /\ y \in Nat /\ x <= y /\ y <= v /\ v < x
    BY <1>1, <2>2
  <2> HIDE DEF x, y
  <2> QED
    BY <2>3
<1>4. ~(q < d)
  <2>1. SUFFICES ASSUME q < d PROVE FALSE
    OBVIOUS
  <2>2. (q + 1) * n <= d * n
    BY <1>1, <1>2, <2>1
  <2> DEFINE x == (q + 1) * n
             y == d * n
  <2>3. x \in Nat /\ y \in Nat /\ x <= y /\ y <= v /\ v < x
    BY <1>1, <2>2
  <2> HIDE DEF x, y
  <2> QED
    BY <2>3
<1> QED
  BY <1>1, <1>3, <1>4 DEF d

\* Two divisions are one, by the product.
LEMMA DivTwice ==
  ASSUME NEW v \in Nat, NEW p \in Nat \ {0}, NEW b \in Nat \ {0}
  PROVE  (v \div p) \div b = v \div (b * p)
<1> DEFINE q == v \div p
           r == q \div b
<1>1. q \in Nat /\ q * p <= v /\ v < (q + 1) * p
  OBVIOUS
<1> HIDE DEF q
<1>2. r \in Nat /\ r * b <= q /\ q + 1 <= (r + 1) * b
  BY <1>1
<1> HIDE DEF r
<1>3. r * (b * p) <= v
  <2>1. (r * b) * p <= q * p
    BY <1>1, <1>2
  <2>2. (r * b) * p = r * (b * p)
    BY <1>2
  <2> QED
    BY <1>1, <1>2, <2>1, <2>2
<1>4. v < (r + 1) * (b * p)
  <2>1. (q + 1) * p <= ((r + 1) * b) * p
    BY <1>1, <1>2
  <2>2. ((r + 1) * b) * p = (r + 1) * (b * p)
    BY <1>2
  <2> QED
    BY <1>1, <1>2, <2>1, <2>2
<1>5. b * p \in Nat \ {0}
  OBVIOUS
<1>6. v \div (b * p) = r
  BY <1>2, <1>3, <1>4, <1>5, DivIs
<1> QED
  BY <1>6 DEF r, q

\* Each entry of the tables is worth at least one.
LEMMA LeastPositive ==
  ASSUME NEW base \in Bases, NEW n \in 1 .. MostDigits(base)
  PROVE  Least(base, n) \in Nat \ {0}
<1>1. \A k \in 1 .. 31 : Powers2[k] # 0
  BY SMT DEF Powers2
<1>2. \A k \in 1 .. 10 : Powers10[k] # 0
  BY SMT DEF Powers10
<1>3. Least(base, n) \in Nat
  BY LeastGrows
<1>4. CASE base = 10
  BY <1>2, <1>3, <1>4 DEF Least, MostDigits
<1>5. CASE base = 2
  BY <1>1, <1>3, <1>5 DEF Least, MostDigits, BitsOf
<1>6. CASE base = 8
  BY <1>1, <1>3, <1>6 DEF Least, MostDigits, BitsOf
<1>7. CASE base = 16
  BY <1>1, <1>3, <1>7 DEF Least, MostDigits, BitsOf
<1> QED
  BY <1>4, <1>5, <1>6, <1>7 DEF Bases

\* What a digit loop has left when it has n digits written is the number
\* divided by the base n times.
LEMMA DigitsGoOn ==
  ASSUME NEW base \in Bases, NEW n \in 1 .. MostDigits(base), n < MostDigits(base), NEW v \in Nat
  PROVE  (v \div Least(base, n)) \div base = v \div Least(base, n + 1)
<1>1. Least(base, n + 1) = base * Least(base, n)
  BY LeastGrows
<1>2. base \in Nat \ {0}
  BY DEF Bases
<1> QED
  BY <1>1, <1>2, LeastPositive, DivTwice

\* A number below the base has one digit.
LEMMA OneDigit ==
  ASSUME NEW base \in Bases, NEW v \in Nat, NEW n, HasDigits(v, base, n), v < base
  PROVE  n = 1
<1>1. n \in 1 .. MostDigits(base) /\ MostDigits(base) \in Nat
  BY DEF HasDigits, MostDigits, Bases
<1>2. SUFFICES ASSUME n # 1 PROVE FALSE
  OBVIOUS
<1>3. n - 1 \in 1 .. MostDigits(base) /\ n - 1 < MostDigits(base) /\ (n - 1) + 1 = n
  BY <1>1, <1>2
<1> DEFINE m == n - 1
<1> HIDE DEF m
<1>4. Least(base, m + 1) = base * Least(base, m) /\ Least(base, m) \in Nat \ {0}
  BY <1>3, LeastGrows, LeastPositive DEF m
<1>5. base <= base * Least(base, m) /\ base \in Nat
  BY <1>4 DEF Bases
<1>6. Least(base, n) <= v
  BY <1>1, <1>2 DEF HasDigits
<1> QED
  BY <1>3, <1>4, <1>5, <1>6 DEF m

\* The number of decimal digits is unique.
LEMMA DigitsUnique ==
  ASSUME NEW v \in Nat, NEW m, NEW n, HasDigits(v, 10, m), HasDigits(v, 10, n)
  PROVE  m = n
<1>1. \A i, k \in 1 .. 10 : i <= k => Powers10[i] <= Powers10[k]
  BY SMT DEF Powers10
<1>2. \A i \in 1 .. 10 : Powers10[i] \in Nat
  BY Powers10Facts
<1>3. m \in 1 .. 10 /\ n \in 1 .. 10
  BY DEF HasDigits, MostDigits
<1>4. \A i, k \in 1 .. 10 : HasDigits(v, 10, i) /\ HasDigits(v, 10, k) => ~(i < k)
  <2> SUFFICES ASSUME NEW i \in 1 .. 10, NEW k \in 1 .. 10, HasDigits(v, 10, i), HasDigits(v, 10, k), i < k
               PROVE  FALSE
    OBVIOUS
  <2>1. v < Powers10[i + 1] /\ Powers10[k] <= v
    BY DEF HasDigits, MostDigits, Least
  <2>2. Powers10[i + 1] <= Powers10[k] /\ Powers10[i + 1] \in Nat /\ Powers10[k] \in Nat
    BY <1>1, <1>2
  <2> QED
    BY <2>1, <2>2
<1> QED
  BY <1>3, <1>4

\* The places of a float are those that its parts were made with.
LEMMA PlacesAre ==
  ASSUME NEW a \in Args, a.kind = "flt"
  PROVE  /\ Places(a) \in 0 .. 6
         /\ a.type = "g" => Places(a) = IF CountDcm(Whole(a)) >= a.precision THEN 0
                                        ELSE a.precision - CountDcm(Whole(a))
         /\ a.type # "g" => Places(a) = a.precision
<1>1. a.precision \in 0 .. 6 /\ a.type \in {"f", "g", "%"} /\ Whole(a) \in 0 .. MaxValue
  BY FloatRanges
<1>2. CASE a.type = "g"
  <2> DEFINE w == a.num.whole
             c == CountDcm(w)
             n == CHOOSE n \in 1 .. 10 : HasDigits(w, 10, n)
  <2>1. Whole(a) = w /\ w \in Nat
    BY <1>1, <1>2, MaxIsNat DEF Whole
  <2>2. HasDigits(w, 10, c)
    BY <1>1, <2>1, CountDcmExact
  <2>3. c \in 1 .. 10
    BY <2>2 DEF HasDigits, MostDigits
  <2>4. Places(a) = IF n < a.precision THEN a.precision - n ELSE 0
    BY <1>2 DEF Places
  <2> HIDE DEF w, c
  <2>5. HasDigits(w, 10, n)
    BY <2>2, <2>3
  <2> HIDE DEF n
  <2>6. n = c
    BY <2>1, <2>2, <2>5, DigitsUnique
  <2>7. Places(a) = IF c >= a.precision THEN 0 ELSE a.precision - c
    BY <1>1, <2>3, <2>4, <2>6
  <2> QED
    BY <1>1, <1>2, <2>1, <2>3, <2>7 DEF c
<1>3. CASE a.type # "g"
  BY <1>1, <1>3 DEF Places
<1> QED
  BY <1>2, <1>3

\* A float is its whole part, its fraction if it has places, and a percent
\* sign if its type is one.
LEMMA FloatParts ==
  ASSUME NEW a \in Args, a.kind = "flt"
  PROVE  Parts(a) = (IF Places(a) = 0 THEN <<Digits(Whole(a), 10)>>
                     ELSE <<Digits(Whole(a), 10)>> \o Fraction(Frac(a), Places(a)))
                    \o (IF a.type = "%" THEN <<Chars(Percent, 1)>> ELSE <<>>)
<1> DEFINE d == <<Digits(Whole(a), 10)>>
           f == Fraction(Frac(a), Places(a))
           body == IF Places(a) = 0 THEN d ELSE d \o f
<1>1. a.type \in {"f", "g", "%"} /\ a.precision \in 0 .. 6
  BY FloatRanges
<1>2. CASE a.type # "%"
  <2>1. Parts(a) = body
    <3>1. CASE a.type = "f"
      <4>1. Places(a) = a.precision /\ Parts(a) = Fixed(Whole(a), Frac(a), a.precision)
        BY <3>1, PlacesAre DEF Parts
      <4>2. d \o <<>> = d
        OBVIOUS
      <4> QED
        BY <4>1, <4>2 DEF Fixed
    <3>2. CASE a.type = "g"
      <4> DEFINE c == CountDcm(Whole(a))
      <4>1. Parts(a) = General(Whole(a), Frac(a), a.precision)
        BY <3>2 DEF Parts
      <4>2. Places(a) = IF c >= a.precision THEN 0 ELSE a.precision - c
        BY <3>2, PlacesAre
      <4>3. d \o <<>> = d
        OBVIOUS
      <4>4. c \in Nat
        BY FloatRanges, CountDcmExact DEF HasDigits, MostDigits
      <4>5. Parts(a) = d \o (IF c >= a.precision THEN <<>> ELSE Fraction(Frac(a), a.precision - c))
        BY <4>1 DEF General
      <4> HIDE DEF c, d
      <4>6. CASE c >= a.precision
        BY <4>2, <4>3, <4>5, <4>6
      <4>7. CASE ~(c >= a.precision)
        <5>1. Places(a) = a.precision - c /\ Places(a) # 0
          BY <1>1, <4>2, <4>4, <4>7
        <5> QED
          BY <4>5, <4>7, <5>1
      <4> QED
        BY <4>6, <4>7
    <3> QED
      BY <1>1, <1>2, <3>1, <3>2
  <2>2. body \o <<>> = body
    BY <1>2 DEF Fraction
  <2> HIDE DEF body
  <2> QED
    BY <1>2, <2>1, <2>2 DEF body
<1>3. CASE a.type = "%"
  <2>1. Places(a) = a.precision
    BY <1>3, PlacesAre
  <2>2. Parts(a) = Fixed(Whole(a), Frac(a), a.precision) \o <<Chars(Percent, 1)>>
    BY <1>3 DEF Parts
  <2>3. d \o <<>> = d
    OBVIOUS
  <2> QED
    BY <1>3, <2>1, <2>2, <2>3 DEF Fixed
<1> QED
  BY <1>2, <1>3

\* A fraction that does not round up to 1 has no more digits than places, and
\* the zeros in front of them are as many as are missing.
LEMMA ZerosCounted ==
  ASSUME NEW frac \in 0 .. 999, NEW places \in 1 .. 6, NEW v, v = Rounded(frac, places),
         v # Powers10[places + 1]
  PROVE  /\ v \in 0 .. MaxValue /\ v < Powers10[places + 1]
         /\ CountDcm(v) \in 1 .. places
         /\ (places - CountDcm(v)) % UsizeMod = places - CountDcm(v)
<1> DEFINE p == Powers10[places + 1]
           c == CountDcm(v)
<1>1. p \in Nat /\ p <= 1000 * 1000 /\ p >= 10
  BY SMT DEF Powers10
<1>2. v \in 0 .. MaxValue
  BY RoundedBound
<1>3. v < p
  <2> DEFINE q == frac * p
  <2>1. q \in Nat /\ q <= 999 * p
    <3>1. frac \in Nat /\ p \in Nat /\ frac <= 999
      BY <1>1
    <3> HIDE DEF p
    <3> QED BY <3>1, SMT
  <2>2. v = (2 * q + 1000) \div 2000
    <3>1. 2 * frac * p = 2 * q
      BY <1>1, SMT
    <3> QED BY <3>1 DEF Rounded
  <2>3. v # p
    OBVIOUS
  <2> HIDE DEF p, q
  <2>4. v <= p
    BY <1>1, <2>1, <2>2, SMT
  <2> QED
    BY <1>1, <1>2, <2>3, <2>4, MaxIsNat
<1>4. HasDigits(v, 10, c)
  BY <1>2, CountDcmExact
<1>5. c \in 1 .. 10 /\ (c > 1 => Powers10[c] <= v)
  BY <1>4 DEF HasDigits, MostDigits, Least
<1>6. c <= places
  <2>1. SUFFICES ASSUME ~(c <= places) PROVE FALSE
    OBVIOUS
  <2> HIDE DEF c
  <2>2. places + 1 <= c /\ c > 1
    BY <1>5, <2>1
  <2>3. \A i, k \in 1 .. 10 : i <= k => Powers10[i] <= Powers10[k]
    BY SMT DEF Powers10
  <2>4. p <= Powers10[c] /\ Powers10[c] \in Nat
    BY <1>5, <2>2, <2>3, Powers10Facts
  <2> HIDE DEF p
  <2> QED
    BY <1>1, <1>2, <1>3, <1>5, <2>2, <2>4, MaxIsNat
<1> HIDE DEF c
<1>7. places - c \in 0 .. UsizeMod - 1
  BY <1>5, <1>6, IntoStrAssumption
<1>8. (places - c) % UsizeMod = places - c
  BY <1>7, IntoStrAssumption
<1> QED
  BY <1>2, <1>3, <1>5, <1>6, <1>8 DEF c, p

\* y is u, of n elements, and then x, of m elements.
IsJoined(y, u, n, x, m) ==
  /\ Len(y) = n + m
  /\ \A i \in 1 .. n : y[i] = u[i]
  /\ \A i \in 1 .. m : y[n + i] = x[i]

\* One sequence after another
LEMMA Joined ==
  ASSUME NEW S, NEW u \in Seq(S), NEW x \in Seq(S), NEW n, Len(u) = n, NEW m, Len(x) = m
  PROVE  u \o x \in Seq(S) /\ IsJoined(u \o x, u, n, x, m)
BY DEF IsJoined

\* Parts that are put together
LEMMA PartsJoined ==
  ASSUME NEW d, NEW t, NEW z, NEW e, NEW c
  PROVE  /\ Len(<<d>> \o <<c>>) = 2 /\ (<<d>> \o <<c>>)[1] = d /\ (<<d>> \o <<c>>)[2] = c
         /\ LET s == (<<d>> \o <<t, z, e>>) \o <<>> IN
              Len(s) = 4 /\ s[1] = d /\ s[2] = t /\ s[3] = z /\ s[4] = e
         /\ LET s == (<<d>> \o <<t, z, e>>) \o <<c>> IN
              Len(s) = 5 /\ s[1] = d /\ s[2] = t /\ s[3] = z /\ s[4] = e /\ s[5] = c
<1> DEFINE S == {d, t, z, e, c}
           u == <<d>>
           w == <<t, z, e>>
           x == <<c>>
           y == u \o w
<1>1. u \in Seq(S) /\ Len(u) = 1 /\ u[1] = d
  OBVIOUS
<1>2. w \in Seq(S) /\ Len(w) = 3 /\ w[1] = t /\ w[2] = z /\ w[3] = e
  OBVIOUS
<1>3. x \in Seq(S) /\ Len(x) = 1 /\ x[1] = c
  OBVIOUS
<1>4. <<>> \in Seq(S) /\ Len(<<>>) = 0
  OBVIOUS
<1> HIDE DEF S, u, w, x
<1>5. Len(u \o x) = 2 /\ (u \o x)[1] = d /\ (u \o x)[2] = c
  <2>1. IsJoined(u \o x, u, 1, x, 1)
    BY <1>1, <1>3, Joined, Zenon
  <2> QED
    BY <1>1, <1>3, <2>1 DEF IsJoined
<1>6. y \in Seq(S) /\ Len(y) = 4 /\ y[1] = d /\ y[2] = t /\ y[3] = z /\ y[4] = e
  <2>1. y \in Seq(S) /\ IsJoined(y, u, 1, w, 3)
    BY <1>1, <1>2, Joined, Zenon
  <2> HIDE DEF y
  <2> QED
    BY <1>1, <1>2, <2>1 DEF IsJoined
<1> HIDE DEF y
<1>7. LET s == y \o <<>> IN
        Len(s) = 4 /\ s[1] = d /\ s[2] = t /\ s[3] = z /\ s[4] = e
  <2>1. IsJoined(y \o <<>>, y, 4, <<>>, 0)
    BY <1>4, <1>6, Joined, Zenon
  <2> QED
    BY <1>6, <2>1 DEF IsJoined
<1>8. LET s == y \o x IN
        Len(s) = 5 /\ s[1] = d /\ s[2] = t /\ s[3] = z /\ s[4] = e /\ s[5] = c
  <2>1. IsJoined(y \o x, y, 4, x, 1)
    BY <1>3, <1>6, Joined, Zenon
  <2> QED
    BY <1>3, <1>6, <2>1 DEF IsJoined
<1> QED
  BY <1>5, <1>7, <1>8 DEF u, w, x, y

\* The parts of a float, one by one.
LEMMA FloatPartsAre ==
  ASSUME NEW a \in Args, a.kind = "flt", ~RoundsUp(a),
         NEW P, P = Parts(a), NEW v, v = Rounded(Frac(a), Places(a))
  PROVE  /\ Len(P) = (IF Places(a) = 0 THEN 1 ELSE 4) + (IF a.type = "%" THEN 1 ELSE 0)
         /\ P[1] = Digits(Whole(a), 10)
         /\ Places(a) # 0 =>
              /\ v \in 0 .. MaxValue /\ v < Powers10[Places(a) + 1]
              /\ CountDcm(v) \in 1 .. Places(a)
              /\ P[2] = Chars(Dot, 1) /\ P[3] = Chars(0, Places(a) - CountDcm(v)) /\ P[4] = Digits(v, 10)
         /\ a.type = "%" => P[Len(P)] = Chars(Percent, 1)
<1> DEFINE n == Places(a)
           d == Digits(Whole(a), 10)
           c == Chars(Percent, 1)
           e == Digits(v, 10)
           z == Chars(0, n - CountDcm(v))
           t == Chars(Dot, 1)
<1>1. n \in 0 .. 6 /\ Frac(a) \in 0 .. 999
  BY FloatRanges, PlacesAre
<1>2. P = (IF n = 0 THEN <<d>> ELSE <<d>> \o Fraction(Frac(a), n))
          \o (IF a.type = "%" THEN <<c>> ELSE <<>>)
  BY FloatParts
<1>3. n # 0 => /\ v \in 0 .. MaxValue /\ v < Powers10[n + 1]
               /\ CountDcm(v) \in 1 .. n
               /\ Fraction(Frac(a), n) = <<t, z, e>>
  <2> SUFFICES ASSUME n # 0 PROVE /\ v \in 0 .. MaxValue /\ v < Powers10[n + 1]
                                  /\ CountDcm(v) \in 1 .. n
                                  /\ Fraction(Frac(a), n) = <<t, z, e>>
    OBVIOUS
  <2>1. n \in 1 .. 6 /\ v # Powers10[n + 1]
    BY <1>1 DEF RoundsUp
  <2> HIDE DEF n
  <2>2. /\ v \in 0 .. MaxValue /\ v < Powers10[n + 1]
        /\ CountDcm(v) \in 1 .. n
        /\ (n - CountDcm(v)) % UsizeMod = n - CountDcm(v)
    BY <1>1, <2>1, ZerosCounted DEF n
  <2>3. Fraction(Frac(a), n) = <<t, Chars(0, (n - CountDcm(v)) % UsizeMod), e>>
    BY DEF Fraction, n
  <2> QED
    BY <2>2, <2>3
<1> HIDE DEF n, d, c, e, z, t
<1>4. /\ Len(P) = (IF n = 0 THEN 1 ELSE 4) + (IF a.type = "%" THEN 1 ELSE 0)
      /\ P[1] = d
      /\ n # 0 => P[2] = t /\ P[3] = z /\ P[4] = e
      /\ a.type = "%" => P[Len(P)] = c
  <2> DEFINE f == Fraction(Frac(a), n)
  <2>1. n # 0 => f = <<t, z, e>>
    BY <1>3
  <2>2. P = (IF n = 0 THEN <<d>> ELSE <<d>> \o f)
          \o (IF a.type = "%" THEN <<c>> ELSE <<>>)
    BY <1>2
  <2> HIDE DEF f
  <2>3. CASE n = 0 /\ a.type # "%"
    <3>1. P = <<d>>
      BY <2>2, <2>3
    <3> QED BY <2>3, <3>1
  <2> DEFINE u == <<d>>
             w == <<t, z, e>>
             x == <<c>>
  <2>5. /\ n = 0 /\ a.type = "%" => P = u \o x
        /\ n # 0 /\ a.type # "%" => P = (u \o w) \o <<>>
        /\ n # 0 /\ a.type = "%" => P = (u \o w) \o x
    BY <2>1, <2>2, Zenon
  <2>6. Len(u \o x) = 2 /\ (u \o x)[1] = d /\ (u \o x)[2] = c
    BY PartsJoined
  <2>7. /\ Len((u \o w) \o <<>>) = 4 /\ ((u \o w) \o <<>>)[1] = d /\ ((u \o w) \o <<>>)[2] = t
        /\ ((u \o w) \o <<>>)[3] = z /\ ((u \o w) \o <<>>)[4] = e
    BY PartsJoined
  <2>8. /\ Len((u \o w) \o x) = 5 /\ ((u \o w) \o x)[1] = d /\ ((u \o w) \o x)[2] = t
        /\ ((u \o w) \o x)[3] = z /\ ((u \o w) \o x)[4] = e /\ ((u \o w) \o x)[5] = c
    BY PartsJoined
  <2> HIDE DEF u, w, x
  <2>10. CASE n = 0 /\ a.type = "%"
    BY <2>5, <2>6, <2>10
  <2>11. CASE n # 0 /\ a.type # "%"
    <3>1. P = (u \o w) \o <<>>
      BY <2>5, <2>11
    <3>2. Len(P) = 4 /\ P[1] = d /\ P[2] = t /\ P[3] = z /\ P[4] = e
      BY <2>7, <3>1, Zenon
    <3> QED
      BY <2>11, <3>2
  <2>12. CASE n # 0 /\ a.type = "%"
    <3>1. P = (u \o w) \o x
      BY <2>5, <2>12
    <3>2. Len(P) = 5 /\ P[1] = d /\ P[2] = t /\ P[3] = z /\ P[4] = e /\ P[5] = c
      BY <2>8, <3>1, Zenon
    <3> QED
      BY <2>12, <3>2
  <2> QED
    BY <2>3, <2>10, <2>11, <2>12
<1> QED
  BY <1>3, <1>4 DEF n, d, c, e, z, t

\* e[k] is the length of the text when k parts of P are written.
IsEnds(e, P) ==
  /\ e \in [0 .. Len(P) -> Nat] /\ e[0] = 0
  /\ \A k \in 1 .. Len(P) : e[k] = e[k - 1] + P[k].cnt
  /\ \A i, k \in 0 .. Len(P) : i <= k => e[i] <= e[k]
  /\ e[Len(P)] < Capacity
Ends(P) == CHOOSE e : IsEnds(e, P)

\* The five sums are where the first parts of P end, up to the n-th.
AreSums(P, n, s1, s2, s3, s4, s5) ==
  /\ Len(P) = n /\ n \in 1 .. 5
  /\ s1 \in Nat /\ s2 \in Nat /\ s3 \in Nat /\ s4 \in Nat /\ s5 \in Nat
  /\ s1 <= s2 /\ s2 <= s3 /\ s3 <= s4 /\ s4 <= s5 /\ s5 < Capacity
  /\ P[1].cnt = s1
  /\ n >= 2 => P[2].cnt = s2 - s1
  /\ n >= 3 => P[3].cnt = s3 - s2
  /\ n >= 4 => P[4].cnt = s4 - s3
  /\ n >= 5 => P[5].cnt = s5 - s4

\* Five parts or fewer have ends, and fit if they are short.
LEMMA EndsExist ==
  ASSUME NEW P, NEW n, NEW s1, NEW s2, NEW s3, NEW s4, NEW s5,
         AreSums(P, n, s1, s2, s3, s4, s5)
  PROVE  IsEnds(Ends(P), P)
<1> USE DEF AreSums
<1> DEFINE e == [k \in 0 .. n |->
                   IF k = 0 THEN 0 ELSE IF k = 1 THEN s1 ELSE IF k = 2 THEN s2
                   ELSE IF k = 3 THEN s3 ELSE IF k = 4 THEN s4 ELSE s5]
<1>1. e[0] = 0 /\ e \in [0 .. n -> Nat]
  OBVIOUS
<1>2. /\ e[1] = s1 /\ (n >= 2 => e[2] = s2) /\ (n >= 3 => e[3] = s3)
      /\ (n >= 4 => e[4] = s4) /\ (n >= 5 => e[5] = s5)
  OBVIOUS
<1>3. e[n] < Capacity
  BY IntoStrAssumption
<1>4. \A i, k \in 0 .. n : i <= k => e[i] <= e[k]
  OBVIOUS
<1> HIDE DEF e
<1>5. \A k \in 1 .. n : e[k] = e[k - 1] + P[k].cnt
  <2> SUFFICES ASSUME NEW k \in 1 .. n PROVE e[k] = e[k - 1] + P[k].cnt
    OBVIOUS
  <2>1. k = 1 \/ k = 2 \/ k = 3 \/ k = 4 \/ k = 5
    OBVIOUS
  <2>2. CASE k = 1
    BY <1>1, <1>2, <2>2
  <2>3. CASE k = 2
    BY <1>2, <2>3
  <2>4. CASE k = 3
    BY <1>2, <2>4
  <2>5. CASE k = 4
    BY <1>2, <2>5
  <2>6. CASE k = 5
    BY <1>2, <2>6
  <2> QED
    BY <2>1, <2>2, <2>3, <2>4, <2>5, <2>6
<1>6. IsEnds(e, P)
  BY <1>1, <1>3, <1>4, <1>5 DEF IsEnds
<1> QED
  BY <1>6 DEF Ends

\* In a buffer of more than 31 characters, as is IntoStr's of 256, every number
\* but a float whose fraction rounds up to 1 has room.
LEMMA PartsFit ==
  ASSUME Capacity > 31, NEW a \in Args, a.kind # "text", ~RoundsUp(a), NEW P, P = Parts(a)
  PROVE  IsEnds(Ends(P), P) /\ Len(P) \in 1 .. 5
<1>1. \A v, b : Digits(v, b).cnt = Count(v, b)
  BY DEF Digits, Part
<1>2. \A c, n : Chars(c, n).cnt = n
  BY DEF Chars, Part
<1>3. CASE a.kind = "int"
  <2>1. a.num.val \in 0 .. MaxValue /\ a.base \in Bases /\ (a.base # 10 => a.num.val > 0)
    BY <1>3, NumbersAssumption DEF Args, Bases
  <2> DEFINE c == Count(a.num.val, a.base)
  <2>2. c \in Nat /\ c < Capacity
    <3>1. HasDigits(a.num.val, a.base, c)
      BY <2>1, CountExact
    <3>2. c \in 1 .. MostDigits(a.base)
      BY <3>1 DEF HasDigits
    <3>3. MostDigits(a.base) \in 1 .. 31
      BY <2>1 DEF MostDigits, Bases
    <3> HIDE DEF c
    <3> QED
      BY <3>2, <3>3, IntoStrAssumption
  <2>3. P = <<Digits(a.num.val, a.base)>>
    BY <1>3 DEF Parts
  <2>4. Len(P) = 1 /\ P[1].cnt = c
    BY <1>1, <2>3
  <2> HIDE DEF c
  <2>5. AreSums(P, 1, c, c, c, c, c)
    BY <2>2, <2>4 DEF AreSums
  <2> QED
    BY <2>4, <2>5, EndsExist
<1>4. CASE a.kind = "flt"
  <2> DEFINE v == Rounded(Frac(a), Places(a))
             n == Places(a)
             c == CountDcm(Whole(a))
             k == CountDcm(v)
             x == IF a.type = "%" THEN 1 ELSE 0
  <2>1. n \in 0 .. 6
    BY <1>4, PlacesAre
  <2>2. c \in 1 .. 10
    <3>1. HasDigits(Whole(a), 10, c)
      BY <1>4, FloatRanges, CountDcmExact
    <3> QED
      BY <3>1 DEF HasDigits, MostDigits
  <2>3. /\ Len(P) = (IF n = 0 THEN 1 ELSE 4) + x
        /\ P[1].cnt = c
        /\ n # 0 => k \in 1 .. n /\ P[2].cnt = 1 /\ P[3].cnt = n - k /\ P[4].cnt = k
        /\ x = 1 => P[Len(P)].cnt = 1
    BY <1>1, <1>2, <1>4, FloatPartsAre DEF Count
  <2>4. x \in 0 .. 1
    OBVIOUS
  <2> HIDE DEF v, n, c, k, x
  <2>5. Capacity \in Nat /\ Capacity > 31
    BY IntoStrAssumption
  <2>6. CASE n = 0 /\ x = 0
    <3>1. Len(P) = 1
      BY <2>3, <2>6
    <3>2. AreSums(P, 1, c, c, c, c, c)
      BY <2>2, <2>3, <2>5, <3>1 DEF AreSums
    <3> QED
      BY <3>1, <3>2, EndsExist
  <2>7. CASE n = 0 /\ x = 1
    <3> DEFINE s2 == c + 1
    <3>1. Len(P) = 2 /\ P[2].cnt = 1
      BY <2>3, <2>7
    <3>2. s2 - c = 1 /\ s2 \in Nat /\ c <= s2 /\ s2 < Capacity
      BY <2>2, <2>5
    <3> HIDE DEF s2
    <3>3. AreSums(P, 2, c, s2, s2, s2, s2)
      BY <2>2, <2>3, <2>5, <3>1, <3>2 DEF AreSums
    <3> QED
      BY <3>1, <3>3, EndsExist
  <2>8. CASE n # 0
    <3> DEFINE s2 == c + 1
               s3 == c + 1 + (n - k)
               s4 == c + 1 + n
               s5 == c + 2 + n
    <3>1. k \in 1 .. n /\ P[2].cnt = 1 /\ P[3].cnt = n - k /\ P[4].cnt = k
      BY <2>3, <2>8
    <3>2. /\ s2 \in Nat /\ s3 \in Nat /\ s4 \in Nat /\ s5 \in Nat
          /\ c <= s2 /\ s2 <= s3 /\ s3 <= s4 /\ s4 <= s5 /\ s5 < Capacity
          /\ s2 - c = 1 /\ s3 - s2 = n - k /\ s4 - s3 = k /\ s5 - s4 = 1
      BY <2>1, <2>2, <2>5, <3>1
    <3>3. Len(P) = 4 \/ (Len(P) = 5 /\ P[5].cnt = 1)
      BY <2>3, <2>4, <2>8
    <3> HIDE DEF s2, s3, s4, s5
    <3>4. AreSums(P, Len(P), c, s2, s3, s4, s5)
      <4>1. CASE Len(P) = 4
        BY <2>2, <2>3, <3>1, <3>2, <4>1 DEF AreSums
      <4>2. CASE Len(P) = 5 /\ P[5].cnt = 1
        BY <2>2, <2>3, <3>1, <3>2, <4>2 DEF AreSums
      <4> QED
        BY <3>3, <4>1, <4>2
    <3> QED
      BY <3>3, <3>4, EndsExist
  <2> QED
    BY <2>4, <2>6, <2>7, <2>8
<1> QED
  BY <1>3, <1>4 DEF Args
-----------------------------------------------------------------------------
\* The i-th character of a part
Char(p, i) ==
  IF p.op = "digits" THEN (p.val \div Least(p.base, p.cnt - i + 1)) % p.base ELSE p.val

\* The characters of p from the m-th on, but for that one, are in b, in
\* which p begins at n.
Stands(b, n, p, m) == \A i \in m + 1 .. p.cnt : b[n + i - 1] = Char(p, i)

\* The first d parts of P are in b.
StandsUpto(b, P, d) == \A k \in 1 .. d : Stands(b, Ends(P)[k - 1], P[k], 0)

\* What is written behind the first parts does not disturb them.
LEMMA StandsStill ==
  ASSUME NEW P \in Seq(Planned), IsEnds(Ends(P), P), NEW d \in 0 .. Len(P),
         NEW b, NEW c, StandsUpto(b, P, d), \A j \in 0 .. Ends(P)[d] - 1 : c[j] = b[j]
  PROVE  StandsUpto(c, P, d)
<1> DEFINE e == Ends(P)
<1> SUFFICES ASSUME NEW k \in 1 .. d, NEW i \in 0 + 1 .. P[k].cnt
             PROVE  c[e[k - 1] + i - 1] = Char(P[k], i)
  BY DEF StandsUpto, Stands
<1>1. b[e[k - 1] + i - 1] = Char(P[k], i)
  BY DEF StandsUpto, Stands
<1>2. k \in 1 .. Len(P) /\ k - 1 \in 0 .. Len(P) /\ k \in 0 .. Len(P)
  OBVIOUS
<1>3. P[k].cnt \in Nat
  <2>1. P[k] \in Planned
    BY <1>2
  <2> QED
    BY <2>1 DEF Planned
<1> HIDE DEF e
<1>4. /\ e[k - 1] \in Nat /\ e[k] \in Nat /\ e[d] \in Nat
      /\ e[k] = e[k - 1] + P[k].cnt /\ e[k] <= e[d]
  <2>1. IsEnds(e, P)
    BY DEF e
  <2>2. e[k - 1] \in Nat /\ e[k] \in Nat /\ e[d] \in Nat
    BY <1>2, <2>1 DEF IsEnds
  <2>3. e[k] = e[k - 1] + P[k].cnt
    BY <1>2, <2>1 DEF IsEnds
  <2>4. k <= d
    OBVIOUS
  <2>5. e[k] <= e[d]
    BY <1>2, <2>1, <2>4 DEF IsEnds
  <2> QED
    BY <2>2, <2>3, <2>5
<1>5. e[k - 1] + i - 1 \in 0 .. e[d] - 1
  <2> DEFINE x == e[k - 1]
             y == e[d]
             z == P[k].cnt
  <2>1. x \in Nat /\ y \in Nat /\ z \in Nat /\ x + z <= y /\ i \in 1 .. z
    BY <1>3, <1>4
  <2> HIDE DEF x, y, z
  <2>2. x + i - 1 \in 0 .. y - 1
    BY <2>1
  <2> QED
    BY <2>2 DEF x, y
<1> QED
  BY <1>1, <1>5 DEF e

\* A part that is written behind the first ones is one more of them.
LEMMA StandsNext ==
  ASSUME NEW P \in Seq(Planned), IsEnds(Ends(P), P), NEW d \in 0 .. Len(P), d < Len(P),
         NEW b, NEW c, StandsUpto(b, P, d), \A j \in 0 .. Ends(P)[d] - 1 : c[j] = b[j],
         Stands(c, Ends(P)[d], P[d + 1], 0)
  PROVE  /\ StandsUpto(c, P, d + 1)
         /\ Ends(P)[d + 1] = Ends(P)[d] + P[d + 1].cnt
         /\ Ends(P)[d + 1] < Capacity
<1>1. StandsUpto(c, P, d)
  BY StandsStill
<1>2. \A k \in 1 .. d + 1 : k \in 1 .. d \/ (k = d + 1 /\ k - 1 = d)
  OBVIOUS
<1>3. StandsUpto(c, P, d + 1)
  BY <1>1, <1>2 DEF StandsUpto
<1>4. d + 1 \in 1 .. Len(P) /\ (d + 1) - 1 = d /\ d + 1 \in 0 .. Len(P) /\ Len(P) \in 0 .. Len(P)
  OBVIOUS
<1> DEFINE e == Ends(P)
<1> HIDE DEF e
<1>5. e[d + 1] = e[d] + P[d + 1].cnt
  BY <1>4 DEF IsEnds, e
<1>6. e[d + 1] <= e[Len(P)] /\ e[d + 1] \in Nat /\ e[Len(P)] \in Nat /\ e[Len(P)] < Capacity
  BY <1>4 DEF IsEnds, e
<1> QED
  BY <1>3, <1>5, <1>6, IntoStrAssumption DEF e

\* A round writes the digit in front of those that were written, and has left
\* what is in front of it.
LEMMA DigitWritten ==
  ASSUME NEW p \in Planned, p.op = "digits", NEW m \in 1 .. p.cnt, NEW n \in Nat,
         NEW v, v = p.val \div Least(p.base, p.cnt - m + 1),
         NEW b, n + m - 1 \in DOMAIN b, Stands(b, n, p, m),
         NEW c, c = [b EXCEPT ![n + m - 1] = v % p.base]
  PROVE  /\ Stands(c, n, p, m - 1)
         /\ m > 1 => v \div p.base = p.val \div Least(p.base, p.cnt - (m - 1) + 1)
         /\ \A j \in 0 .. n - 1 : c[j] = b[j]
         /\ DOMAIN c = DOMAIN b
<1>1. p.val \in 0 .. MaxValue /\ p.base \in Bases /\ p.cnt \in Nat /\ HasDigits(p.val, p.base, p.cnt)
  BY DEF Planned
<1>2. p.cnt \in 1 .. MostDigits(p.base) /\ MostDigits(p.base) \in Nat /\ m \in Nat /\ p.val \in Nat
  BY <1>1, MaxIsNat DEF HasDigits, MostDigits, Bases
<1>3. Stands(c, n, p, m - 1)
  <2> SUFFICES ASSUME NEW i \in (m - 1) + 1 .. p.cnt
               PROVE  c[n + i - 1] = Char(p, i)
    BY DEF Stands
  <2>1. i \in Nat /\ (i = m \/ i \in m + 1 .. p.cnt)
    BY <1>2
  <2>2. CASE i = m
    BY <2>2 DEF Char
  <2>3. CASE i \in m + 1 .. p.cnt
    <3>1. b[n + i - 1] = Char(p, i)
      BY <2>3 DEF Stands
    <3>2. n + i - 1 # n + m - 1
      BY <1>2, <2>3
    <3>3. c[n + i - 1] = b[n + i - 1]
      BY <3>2
    <3> QED
      BY <3>1, <3>3
  <2> QED
    BY <2>1, <2>2, <2>3
<1>4. m > 1 => v \div p.base = p.val \div Least(p.base, p.cnt - (m - 1) + 1)
  <2> SUFFICES ASSUME m > 1 PROVE v \div p.base = p.val \div Least(p.base, p.cnt - (m - 1) + 1)
    OBVIOUS
  <2> DEFINE k == p.cnt - m + 1
  <2>1. k \in 1 .. MostDigits(p.base) /\ k < MostDigits(p.base) /\ p.cnt - (m - 1) + 1 = k + 1
    BY <1>2
  <2> HIDE DEF k
  <2>2. (p.val \div Least(p.base, k)) \div p.base = p.val \div Least(p.base, k + 1)
    BY <1>1, <1>2, <2>1, DigitsGoOn
  <2> QED
    BY <2>1, <2>2 DEF k
<1>5. \A j \in 0 .. n - 1 : c[j] = b[j]
  BY <1>2
<1> QED
  BY <1>3, <1>4, <1>5
-----------------------------------------------------------------------------
\* The loop h has still to write the first digits of p, which begins at n
\* in b.
LoopAt(h, p, b, n) ==
  /\ p.op = "digits" /\ h.base = p.base /\ h.cnt = p.cnt
  /\ h.val = p.val \div Least(p.base, p.cnt - (h.at - n) + 1)
  /\ Stands(b, n, p, h.at - n)

\* What is written of a number is its first parts, and what is to be written
\* the others; a loop may be at the first of those.
InStep ==
  LET P == Parts(arg)
      d == Len(P) - Len(todo)
  IN /\ arg.kind # "text"
     /\ todo \in Seq(Planned \cup Begun) /\ Len(todo) <= Len(P)
     /\ len = Ends(P)[d]
     /\ StandsUpto(buf, P, d)
     /\ \A j \in 2 .. Len(todo) : todo[j] = P[d + j]
     /\ todo # <<>> /\ todo[1].op # "loop" => todo[1] = P[d + 1]
     /\ todo # <<>> /\ todo[1].op = "loop" => LoopAt(todo[1], P[d + 1], buf, len)

\* The invariant of what is spelled
Correct ==
  ~RoundsUp(arg) =>
    /\ wild = FALSE
    /\ DOMAIN buf = 0 .. Capacity - 1
    /\ phase = "begin" => todo = <<>> /\ len = 0
    /\ phase = "digits" => InStep

\* Where the steps of a number are
LEMMA Standing ==
  ASSUME IInv, Capacity > 31, ~RoundsUp(arg), InStep, todo # <<>>,
         NEW P, P = Parts(arg), NEW d, d = Len(P) - Len(todo)
  PROVE  /\ P \in Seq(Planned) /\ IsEnds(Ends(P), P)
         /\ d \in 0 .. Len(P) /\ d < Len(P)
         /\ P[d + 1] \in Planned
         /\ len \in Nat /\ len = Ends(P)[d]
         /\ Ends(P)[d + 1] = len + P[d + 1].cnt /\ Ends(P)[d + 1] < Capacity
         /\ Head(todo) = todo[1]
<1>1. P \in Seq(Planned)
  BY PartsPlanned DEF IInv, InStep
<1>2. IsEnds(Ends(P), P) /\ Len(P) \in 1 .. 5
  BY PartsFit DEF IInv, InStep
<1>3. todo \in Seq(Planned \cup Begun) /\ Len(todo) <= Len(P) /\ len = Ends(P)[d]
  BY DEF InStep
<1>4. Len(todo) \in Nat /\ Len(todo) > 0 /\ Head(todo) = todo[1]
  BY <1>3
<1> DEFINE n == Len(P)
           t == Len(todo)
           e == Ends(P)
<1>5. n \in 1 .. 5 /\ t \in Nat /\ t > 0 /\ t <= n /\ d = n - t
  BY <1>2, <1>3, <1>4
<1> HIDE DEF n, t, e
<1>6. d \in 0 .. n /\ d < n /\ d + 1 \in 1 .. n /\ (d + 1) - 1 = d /\ d + 1 \in 0 .. n /\ n \in 0 .. n /\ d + 1 <= n
  BY <1>5
<1>7. e[d] \in Nat /\ e[d + 1] \in Nat /\ e[n] \in Nat /\ e[n] < Capacity
  BY <1>2, <1>6 DEF IsEnds, e, n
<1>8. e[d + 1] = e[d] + P[d + 1].cnt
  BY <1>2, <1>6 DEF IsEnds, e, n
<1>9. e[d + 1] <= e[n]
  BY <1>2, <1>6 DEF IsEnds, e, n
<1>10. e[d + 1] < Capacity
  BY <1>7, <1>9, IntoStrAssumption
<1>11. P[d + 1] \in Planned
  BY <1>1, <1>6 DEF n
<1> QED
  BY <1>1, <1>2, <1>3, <1>4, <1>6, <1>7, <1>8, <1>10, <1>11 DEF n, e

\* A part that was written to its end is one of those that are done.
LEMMA PartDone ==
  ASSUME IInv, Capacity > 31, ~RoundsUp(arg), InStep, todo # <<>>,
         NEW P, P = Parts(arg), NEW d, d = Len(P) - Len(todo),
         arg' = arg, todo' = Tail(todo), len' = len + P[d + 1].cnt,
         \A j \in 0 .. len - 1 : buf'[j] = buf[j], Stands(buf', len, P[d + 1], 0)
  PROVE  InStep'
<1> DEFINE e == Ends(P)
<1>1. /\ P \in Seq(Planned) /\ IsEnds(e, P)
      /\ d \in 0 .. Len(P) /\ d < Len(P)
      /\ len \in Nat /\ len = e[d]
      /\ e[d + 1] = len + P[d + 1].cnt
  BY Standing
<1>2. StandsUpto(buf', P, d + 1)
  BY <1>1, StandsNext DEF InStep
<1>3. todo \in Seq(Planned \cup Begun) /\ Len(todo) <= Len(P) /\ arg.kind # "text"
  BY DEF InStep
<1>4. todo' \in Seq(Planned \cup Begun) /\ Len(todo') = Len(todo) - 1
  BY <1>3
<1>5. \A j \in 1 .. Len(todo') : todo'[j] = todo[j + 1]
  BY <1>3
<1> DEFINE n == Len(P)
           t == Len(todo)
           u == Len(todo')
<1>6. n \in Nat /\ t \in Nat /\ u \in Nat /\ u = t - 1 /\ t <= n /\ d = n - t
  BY <1>1, <1>3, <1>4
<1>7. \A j \in 2 .. t : todo[j] = P[d + j]
  BY DEF InStep
<1> HIDE DEF n, t, u, e
<1>8. n - u = d + 1 /\ u <= n
  BY <1>6
<1>9. \A j \in 1 .. u : todo'[j] = P[d + 1 + j]
  <2> SUFFICES ASSUME NEW j \in 1 .. u PROVE todo'[j] = P[d + 1 + j]
    OBVIOUS
  <2>1. j + 1 \in 2 .. t /\ d + (j + 1) = d + 1 + j
    BY <1>6
  <2>2. todo'[j] = todo[j + 1]
    BY <1>5 DEF u
  <2>3. todo[j + 1] = P[d + (j + 1)]
    BY <1>7, <2>1
  <2> QED
    BY <2>1, <2>2, <2>3
<1>10. todo' # <<>> => 1 \in 1 .. u
  BY <1>4, <1>6 DEF u
<1>11. todo' # <<>> => todo'[1] = P[d + 1 + 1] /\ todo'[1].op # "loop"
  <2> SUFFICES ASSUME todo' # <<>> PROVE todo'[1] = P[d + 1 + 1] /\ todo'[1].op # "loop"
    OBVIOUS
  <2>1. todo'[1] = P[d + 1 + 1]
    BY <1>9, <1>10
  <2>2. d + 1 + 1 \in 1 .. n
    BY <1>6, <1>10
  <2>3. P[d + 1 + 1] \in Planned
    BY <1>1, <2>2 DEF n
  <2> QED
    BY <2>1, <2>3 DEF Planned
<1>12. \A j \in 2 .. u : todo'[j] = P[d + 1 + j]
  <2>1. \A j \in 2 .. u : j \in 1 .. u
    BY <1>6
  <2> QED
    BY <1>9, <2>1, Zenon
<1>13. len' = e[d + 1]
  BY <1>1 DEF e
<1>14. Parts(arg') = P /\ arg'.kind # "text" /\ Len(P) - Len(todo') = d + 1
  BY <1>3, <1>8 DEF n, u
<1>15. todo' \in Seq(Planned \cup Begun) /\ Len(todo') <= Len(P)
  BY <1>4, <1>8 DEF n, u
<1>16. len' = Ends(P)[d + 1]
  BY <1>13 DEF e
<1>17. \A j \in 2 .. Len(todo') : todo'[j] = P[d + 1 + j]
  BY <1>12 DEF u
<1> DEFINE Q == Parts(arg')
           c == Len(Q) - Len(todo')
<1>18. Q = P /\ c = d + 1
  BY <1>14
<1> HIDE DEF c, Q
<1>19. /\ len' = Ends(Q)[c] /\ StandsUpto(buf', Q, c) /\ Len(todo') <= Len(Q)
       /\ \A j \in 2 .. Len(todo') : todo'[j] = Q[c + j]
       /\ todo' # <<>> => todo'[1] = Q[c + 1] /\ todo'[1].op # "loop"
  BY <1>2, <1>11, <1>15, <1>16, <1>17, <1>18
<1> QED
  BY <1>14, <1>15, <1>19, Zenon DEF InStep, Q, c

\* A loop at the first part goes on, or begins.
LEMMA LoopGoesOn ==
  ASSUME IInv, Capacity > 31, ~RoundsUp(arg), InStep, todo # <<>>,
         NEW P, P = Parts(arg), NEW d, d = Len(P) - Len(todo),
         NEW g \in Begun, arg' = arg, todo' = <<g>> \o Tail(todo), len' = len,
         \A j \in 0 .. len - 1 : buf'[j] = buf[j], LoopAt(g, P[d + 1], buf', len')
  PROVE  InStep'
<1>1. P \in Seq(Planned) /\ IsEnds(Ends(P), P) /\ d \in 0 .. Len(P) /\ len = Ends(P)[d]
  BY Standing
<1>2. StandsUpto(buf', P, d)
  BY <1>1, StandsStill DEF InStep
<1>3. todo \in Seq(Planned \cup Begun) /\ Len(todo) <= Len(P) /\ arg.kind # "text"
  BY DEF InStep
<1>4. /\ todo' \in Seq(Planned \cup Begun) /\ Len(todo') = Len(todo)
      /\ todo' # <<>> /\ todo'[1] = g
      /\ \A j \in 2 .. Len(todo) : todo'[j] = todo[j]
  BY <1>3
<1>5. \A j \in 2 .. Len(todo) : todo[j] = P[d + j]
  BY DEF InStep
<1>6. todo'[1].op = "loop"
  BY <1>4 DEF Begun
<1>7. Parts(arg') = P /\ arg'.kind # "text" /\ Len(P) - Len(todo') = d
  BY <1>3, <1>4
<1>8. len' = Ends(P)[d]
  BY <1>1
<1>9. LoopAt(todo'[1], P[d + 1], buf', len')
  BY <1>4
<1> QED
  BY <1>2, <1>3, <1>4, <1>5, <1>6, <1>7, <1>8, <1>9 DEF InStep

\* What the steps of a number start from
Spelling ==
  /\ IInv /\ Capacity > 31 /\ ~RoundsUp(arg) /\ InStep
  /\ wild = FALSE /\ DOMAIN buf = 0 .. Capacity - 1

\* write_chr and write_chs: the characters are those of the part.
LEMMA WriteCharsSpells ==
  ASSUME Spelling, WriteChars, arg' = arg
  PROVE  InStep' /\ wild' = FALSE /\ DOMAIN buf' = 0 .. Capacity - 1
<1> DEFINE P == Parts(arg)
           d == Len(P) - Len(todo)
           h == Head(todo)
           n == h.cnt
<1>1. /\ P \in Seq(Planned) /\ P[d + 1] \in Planned
      /\ len \in Nat
      /\ Ends(P)[d + 1] = len + P[d + 1].cnt /\ Ends(P)[d + 1] < Capacity
      /\ h = todo[1]
  BY Standing DEF Spelling, WriteChars
<1>2. h = P[d + 1] /\ h.op = "chars"
  BY <1>1 DEF InStep, WriteChars, Spelling
<1>3. n \in Nat /\ len + n < Capacity
  BY <1>1, <1>2 DEF Planned
<1> HIDE DEF P, d, h, n
<1>4. (len + n) % UsizeMod = len + n
  <2>1. len + n \in 0 .. UsizeMod - 1
    BY <1>1, <1>3, IntoStrAssumption
  <2> QED
    BY <2>1, IntoStrAssumption
<1>5. Fits(n)
  BY <1>3, <1>4 DEF Fits
<1>6. /\ buf' = [i \in DOMAIN buf |-> IF i >= len /\ i < len + n THEN h.val ELSE buf[i]]
      /\ len' = len + n
      /\ wild' = (len + n > Capacity)
      /\ todo' = Tail(todo)
  BY <1>4, <1>5 DEF WriteChars, h, n
<1>7. DOMAIN buf = 0 .. Capacity - 1
  BY DEF Spelling
<1>8. wild' = FALSE
  <2>1. ~(len + n > Capacity)
    BY <1>1, <1>3, IntoStrAssumption
  <2> DEFINE p == len + n > Capacity
  <2>2. wild' = p /\ p \in BOOLEAN
    BY <1>6
  <2>3. ~p
    BY <2>1
  <2> HIDE DEF p
  <2> QED
    BY <2>2, <2>3
<1>9. DOMAIN buf' = 0 .. Capacity - 1
  BY <1>6, <1>7
<1>10. \A j \in 0 .. len - 1 : buf'[j] = buf[j]
  BY <1>1, <1>3, <1>6, <1>7, IntoStrAssumption
<1>11. Stands(buf', len, P[d + 1], 0)
  <2> SUFFICES ASSUME NEW i \in 0 + 1 .. n PROVE buf'[len + i - 1] = Char(h, i)
    BY <1>2 DEF Stands, n
  <2>1. len + i - 1 \in 0 .. Capacity - 1 /\ len + i - 1 >= len /\ len + i - 1 < len + n
    BY <1>1, <1>3, IntoStrAssumption
  <2>2. buf'[len + i - 1] = h.val
    BY <1>6, <1>7, <2>1
  <2> QED
    BY <1>2, <2>2 DEF Char
<1>12. len' = len + P[d + 1].cnt
  BY <1>2, <1>6 DEF n
<1> QED
  BY <1>6, <1>8, <1>9, <1>10, <1>11, <1>12, PartDone DEF P, d, Spelling, WriteChars

\* Digits that were counted have room, and a loop begins behind their last.
LEMMA ReserveSpells ==
  ASSUME Spelling, Reserve, arg' = arg
  PROVE  InStep' /\ wild' = FALSE /\ DOMAIN buf' = 0 .. Capacity - 1
<1> DEFINE P == Parts(arg)
           d == Len(P) - Len(todo)
           h == Head(todo)
           n == h.cnt
           g == [h EXCEPT !.op = "loop", !.at = len + n]
<1>1. /\ P \in Seq(Planned) /\ P[d + 1] \in Planned
      /\ len \in Nat
      /\ Ends(P)[d + 1] = len + P[d + 1].cnt /\ Ends(P)[d + 1] < Capacity
      /\ h = todo[1]
  BY Standing DEF Spelling, Reserve
<1>2. h = P[d + 1] /\ h.op = "digits" /\ h \in Planned
  BY <1>1 DEF InStep, Reserve, Spelling
<1>3. n \in Nat /\ len + n < Capacity
  BY <1>1, <1>2 DEF Planned
<1>4. /\ h \in [op : {"chars", "digits"}, val : Nat, base : Nat, cnt : Nat, at : Int]
      /\ h.val \in 0 .. MaxValue /\ h.base \in Bases /\ HasDigits(h.val, h.base, n)
  BY <1>2 DEF Planned
<1> HIDE DEF P, d, h, n
<1>5. (len + n) % UsizeMod = len + n
  <2>1. len + n \in 0 .. UsizeMod - 1
    BY <1>1, <1>3, IntoStrAssumption
  <2> QED
    BY <2>1, IntoStrAssumption
<1>6. Fits(n)
  BY <1>3, <1>5 DEF Fits
<1>7. todo' = <<g>> \o Tail(todo) /\ len' = len /\ buf' = buf /\ wild' = wild
  BY <1>6 DEF Reserve, h, n
<1>8. /\ g \in Begun /\ g.val = h.val /\ g.base = h.base /\ g.cnt = n /\ g.at = len + n
  <2>1. len + n \in Int
    BY <1>1, <1>3
  <2>2. h.cnt = n
    BY DEF n
  <2> QED
    BY <1>4, <2>1, <2>2 DEF Begun
<1> HIDE DEF g
<1>9. LoopAt(g, P[d + 1], buf', len')
  <2>1. g.at - len = n /\ n - n + 1 = 1
    BY <1>1, <1>3, <1>8
  <2>2. h.val \div Least(h.base, 1) = h.val
    <3>1. 1 \in 1 .. MostDigits(h.base)
      BY <1>4 DEF MostDigits, Bases
    <3>2. Least(h.base, 1) = 1
      BY <1>4, <3>1, LeastGrows
    <3>3. h.val \in Nat
      BY <1>4, MaxIsNat
    <3> QED
      BY <3>2, <3>3
  <2>3. Stands(buf, len, h, n)
    BY <1>3 DEF Stands, n
  <2> QED
    BY <1>2, <1>7, <1>8, <2>1, <2>2, <2>3 DEF LoopAt, n
<1>10. InStep'
  BY <1>7, <1>8, <1>9, LoopGoesOn DEF P, d, Spelling, Reserve
<1> QED
  BY <1>7, <1>10 DEF Spelling

\* The state of a loop that has begun
LEMMA LoopStanding ==
  ASSUME Spelling, todo # <<>>, Head(todo).op = "loop",
         NEW P, P = Parts(arg), NEW d, d = Len(P) - Len(todo),
         NEW h, h = Head(todo), NEW p, p = P[d + 1], NEW m, m = h.at - len
  PROVE  /\ p \in Planned /\ p.op = "digits" /\ h \in Begun /\ h.base = p.base /\ h.cnt = p.cnt
         /\ len \in Nat /\ p.cnt \in Nat /\ len + p.cnt < Capacity
         /\ m \in 1 .. p.cnt /\ h.at = len + m /\ HasDigits(h.val, h.base, m)
         /\ h.val = p.val \div Least(p.base, p.cnt - m + 1)
         /\ Stands(buf, len, p, m)
<1>1. /\ p \in Planned /\ len \in Nat
      /\ Ends(P)[d + 1] = len + p.cnt /\ Ends(P)[d + 1] < Capacity
      /\ h = todo[1]
  BY Standing DEF Spelling
<1>2. p.cnt \in Nat /\ len + p.cnt < Capacity
  BY <1>1 DEF Planned
<1>3. h \in Begun /\ h.at <= len + h.cnt /\ HasDigits(h.val, h.base, m)
  BY LoopBegun DEF Spelling
<1>4. LoopAt(h, p, buf, len)
  BY <1>1 DEF Spelling, InStep
<1>5. /\ p.op = "digits" /\ h.base = p.base /\ h.cnt = p.cnt
      /\ h.val = p.val \div Least(p.base, p.cnt - m + 1)
      /\ Stands(buf, len, p, m)
  BY <1>4 DEF LoopAt
<1>6. h.at \in Int /\ m \in 1 .. MostDigits(h.base)
  BY <1>3 DEF Begun, HasDigits
<1>7. m \in 1 .. p.cnt /\ h.at = len + m
  <2>1. h.at <= len + p.cnt
    BY <1>3, <1>5
  <2>2. m >= 1
    BY <1>6
  <2> QED
    BY <1>1, <1>2, <1>6, <2>1, <2>2
<1> QED
  BY <1>1, <1>2, <1>3, <1>5, <1>7

\* A round of one digit writes a digit of the number, and leaves the digits in
\* front of it.
LEMMA LoopOneSpells ==
  ASSUME Spelling, LoopOne, arg' = arg
  PROVE  InStep' /\ wild' = FALSE /\ DOMAIN buf' = 0 .. Capacity - 1
<1> DEFINE P == Parts(arg)
           d == Len(P) - Len(todo)
           h == Head(todo)
           p == P[d + 1]
           m == h.at - len
           g == [h EXCEPT !.val = h.val \div h.base, !.at = h.at - 1]
<1>1. /\ p \in Planned /\ p.op = "digits" /\ h \in Begun /\ h.base = p.base /\ h.cnt = p.cnt
      /\ len \in Nat /\ p.cnt \in Nat /\ len + p.cnt < Capacity
      /\ m \in 1 .. p.cnt /\ h.at = len + m /\ HasDigits(h.val, h.base, m)
      /\ h.val = p.val \div Least(p.base, p.cnt - m + 1)
      /\ Stands(buf, len, p, m)
  BY LoopStanding DEF LoopOne
<1>2. /\ buf' = [buf EXCEPT ![h.at - 1] = h.val % h.base]
      /\ wild' = wild
      /\ h.val >= h.base => todo' = <<g>> \o Tail(todo) /\ len' = len
      /\ ~(h.val >= h.base) => todo' = Tail(todo) /\ len' = len + h.cnt
  BY DEF LoopOne
<1>3. wild' = FALSE /\ DOMAIN buf = 0 .. Capacity - 1
  BY <1>2 DEF Spelling
<1>4. h.val \in 0 .. MaxValue /\ h.val \in Nat /\ h.base \in Bases
  BY <1>1, MaxIsNat DEF Begun
<1> HIDE DEF m
<1>5. len + m - 1 \in DOMAIN buf /\ h.at - 1 = len + m - 1 /\ m \in Nat
  BY <1>1, <1>3, IntoStrAssumption
<1> HIDE DEF P, d, h, p
<1>6. buf' = [buf EXCEPT ![len + m - 1] = h.val % p.base]
  BY <1>1, <1>2, <1>5
<1>7. /\ Stands(buf', len, p, m - 1)
      /\ m > 1 => h.val \div p.base = p.val \div Least(p.base, p.cnt - (m - 1) + 1)
      /\ \A j \in 0 .. len - 1 : buf'[j] = buf[j]
      /\ DOMAIN buf' = DOMAIN buf
  <2> DEFINE c == [buf EXCEPT ![len + m - 1] = h.val % p.base]
  <2>1. /\ Stands(c, len, p, m - 1)
        /\ m > 1 => h.val \div p.base = p.val \div Least(p.base, p.cnt - (m - 1) + 1)
        /\ \A j \in 0 .. len - 1 : c[j] = buf[j]
        /\ DOMAIN c = DOMAIN buf
    BY <1>1, <1>5, DigitWritten
  <2>2. buf' = c
    BY <1>6
  <2> QED
    BY <2>1, <2>2, Zenon
<1>8. CASE h.val >= h.base
  <2>1. m > 1 /\ HasDigits(h.val \div h.base, h.base, m - 1) /\ h.val \div h.base \in 0 .. MaxValue
    BY <1>1, <1>4, <1>8, DigitLess
  <2> DEFINE v == h.val \div h.base
             i == h.at - 1
  <2>2. v \in 0 .. MaxValue /\ i \in Int
    BY <1>1, <2>1 DEF Begun
  <2>3. g = [h EXCEPT !.val = v, !.at = i]
    OBVIOUS
  <2> HIDE DEF v, i, g
  <2>4. g \in Begun /\ g.val = v /\ g.at = i /\ g.base = h.base /\ g.cnt = h.cnt
    BY <1>1, <2>2, <2>3 DEF Begun
  <2>5. g.at - len = m - 1
    BY <1>1, <1>5, <2>4 DEF i
  <2>6. LoopAt(g, p, buf', len')
    BY <1>1, <1>2, <1>7, <1>8, <2>1, <2>4, <2>5 DEF LoopAt, v
  <2>7. todo' = <<g>> \o Tail(todo) /\ len' = len
    BY <1>2, <1>8 DEF g
  <2> QED
    BY <1>3, <1>7, <2>4, <2>6, <2>7, LoopGoesOn DEF P, d, p, Spelling, LoopOne
<1>9. CASE ~(h.val >= h.base)
  <2>1. h.val < h.base
    BY <1>4, <1>9 DEF Bases
  <2>2. m = 1
    BY <1>1, <1>4, <2>1, OneDigit
  <2>3. Stands(buf', len, p, 0)
    BY <1>7, <2>2
  <2>4. todo' = Tail(todo) /\ len' = len + p.cnt
    BY <1>1, <1>2, <1>9
  <2> QED
    BY <1>3, <1>7, <2>3, <2>4, PartDone DEF P, d, p, Spelling, LoopOne
<1> QED
  BY <1>8, <1>9

\* A round of two digits is two rounds of one.
LEMMA LoopTwoSpells ==
  ASSUME Spelling, LoopTwo, arg' = arg
  PROVE  InStep' /\ wild' = FALSE /\ DOMAIN buf' = 0 .. Capacity - 1
<1> DEFINE P == Parts(arg)
           d == Len(P) - Len(todo)
           h == Head(todo)
           p == P[d + 1]
           m == h.at - len
           g == [h EXCEPT !.val = h.val \div 100, !.at = h.at - 2]
           b == [buf EXCEPT ![len + m - 1] = h.val % p.base]
           v == h.val \div 10
<1>1. /\ p \in Planned /\ p.op = "digits" /\ h \in Begun /\ h.base = p.base /\ h.cnt = p.cnt
      /\ len \in Nat /\ p.cnt \in Nat /\ len + p.cnt < Capacity
      /\ m \in 1 .. p.cnt /\ h.at = len + m /\ HasDigits(h.val, h.base, m)
      /\ h.val = p.val \div Least(p.base, p.cnt - m + 1)
      /\ Stands(buf, len, p, m)
  BY LoopStanding DEF LoopTwo
<1>2. /\ h.base = 10 /\ h.val >= 10
      /\ buf' = [buf EXCEPT ![h.at - 1] = h.val % 10, ![h.at - 2] = v % 10]
      /\ wild' = wild
      /\ h.val >= 100 => todo' = <<g>> \o Tail(todo) /\ len' = len
      /\ ~(h.val >= 100) => todo' = Tail(todo) /\ len' = len + h.cnt
  BY DEF LoopTwo
<1>3. wild' = FALSE /\ DOMAIN buf = 0 .. Capacity - 1
  BY <1>2 DEF Spelling
<1>4. h.val \in 0 .. MaxValue /\ h.val \in Nat /\ 10 \in Bases
  BY <1>1, MaxIsNat DEF Begun, Bases
<1> HIDE DEF m
<1>5. len + m - 1 \in DOMAIN buf /\ h.at - 1 = len + m - 1 /\ m \in Nat
  BY <1>1, <1>3, IntoStrAssumption
<1>6. m > 1 /\ HasDigits(v, 10, m - 1) /\ v \in 0 .. MaxValue
  BY <1>1, <1>2, <1>4, DigitLess
<1> HIDE DEF P, d, h, p, v
<1>7. v \in Nat /\ v = h.val \div p.base
  BY <1>1, <1>2, <1>6, MaxIsNat DEF v
<1> HIDE DEF b
<1>8. /\ Stands(b, len, p, m - 1)
      /\ v = p.val \div Least(p.base, p.cnt - (m - 1) + 1)
      /\ \A j \in 0 .. len - 1 : b[j] = buf[j]
      /\ DOMAIN b = DOMAIN buf
  BY <1>1, <1>5, <1>6, <1>7, DigitWritten DEF b
<1> DEFINE k == m - 1
<1>9. k \in 1 .. p.cnt /\ k \in Nat /\ len + k - 1 \in DOMAIN b /\ h.at - 2 = len + k - 1
  BY <1>1, <1>3, <1>5, <1>6, <1>8, IntoStrAssumption
<1>10. buf' = [b EXCEPT ![len + k - 1] = v % p.base]
  <2>1. h.at - 2 # h.at - 1
    BY <1>1, <1>5
  <2> QED
    BY <1>1, <1>2, <1>5, <1>9, <2>1 DEF b
<1> HIDE DEF k
<1>11. /\ Stands(b, len, p, k)
       /\ v = p.val \div Least(p.base, p.cnt - k + 1)
       /\ HasDigits(v, 10, k)
  BY <1>6, <1>8 DEF k
<1>12. /\ Stands(buf', len, p, k - 1)
       /\ k > 1 => v \div p.base = p.val \div Least(p.base, p.cnt - (k - 1) + 1)
       /\ \A j \in 0 .. len - 1 : buf'[j] = b[j]
       /\ DOMAIN buf' = DOMAIN b
  <2> DEFINE c == [b EXCEPT ![len + k - 1] = v % p.base]
  <2>1. /\ Stands(c, len, p, k - 1)
        /\ k > 1 => v \div p.base = p.val \div Least(p.base, p.cnt - (k - 1) + 1)
        /\ \A j \in 0 .. len - 1 : c[j] = b[j]
        /\ DOMAIN c = DOMAIN b
    BY <1>1, <1>9, <1>11, DigitWritten
  <2>2. buf' = c
    BY <1>10
  <2> QED
    BY <2>1, <2>2, Zenon
<1>13. DOMAIN buf' = 0 .. Capacity - 1 /\ \A j \in 0 .. len - 1 : buf'[j] = buf[j]
  BY <1>3, <1>8, <1>12
<1>14. CASE h.val >= 100
  <2>1. v >= 10 /\ v \div 10 = h.val \div 100
    BY <1>4, <1>14 DEF v
  <2>2. k > 1 /\ HasDigits(v \div 10, 10, k - 1) /\ v \div 10 \in 0 .. MaxValue
    BY <1>4, <1>6, <1>11, <2>1, DigitLess
  <2> DEFINE w == h.val \div 100
             i == h.at - 2
  <2>3. w \in 0 .. MaxValue /\ i \in Int
    BY <1>1, <2>1, <2>2 DEF Begun
  <2>4. g = [h EXCEPT !.val = w, !.at = i]
    OBVIOUS
  <2>5. w = v \div p.base
    BY <1>1, <1>2, <2>1
  <2> HIDE DEF w, i, g
  <2>6. g \in Begun /\ g.val = w /\ g.at = i /\ g.base = h.base /\ g.cnt = h.cnt
    BY <1>1, <2>3, <2>4 DEF Begun
  <2>7. g.at - len = k - 1
    BY <1>1, <1>9, <2>6 DEF i
  <2>8. todo' = <<g>> \o Tail(todo) /\ len' = len
    BY <1>2, <1>14 DEF g
  <2>9. LoopAt(g, p, buf', len')
    BY <1>1, <1>12, <2>2, <2>5, <2>6, <2>7, <2>8 DEF LoopAt
  <2> QED
    BY <1>3, <1>13, <2>6, <2>8, <2>9, LoopGoesOn DEF P, d, p, Spelling, LoopTwo
<1>15. CASE ~(h.val >= 100)
  <2>1. v < 10
    BY <1>4, <1>15 DEF v
  <2>2. k = 1
    BY <1>4, <1>7, <1>11, <2>1, OneDigit
  <2>3. Stands(buf', len, p, 0)
    BY <1>12, <2>2
  <2>4. todo' = Tail(todo) /\ len' = len + p.cnt
    BY <1>1, <1>2, <1>15
  <2> QED
    BY <1>3, <1>13, <2>3, <2>4, PartDone DEF P, d, p, Spelling, LoopTwo
<1> QED
  BY <1>14, <1>15

\* Nothing was written yet.
LEMMA InitCorrect == Init => Correct
BY DEF Init, InitInto, Correct

\* The parts of a number are all to be written.
LEMMA BeginCorrect ==
  ASSUME IInv, Correct, Capacity > 31, ~RoundsUp(arg), Begin
  PROVE  InStep'
<1> DEFINE P == Parts(arg)
<1>1. /\ todo' = P /\ arg' = arg /\ len' = len /\ buf' = buf
      /\ arg.kind # "text" /\ len = 0
  BY DEF Begin, Correct
<1>2. P \in Seq(Planned) /\ IsEnds(Ends(P), P) /\ Len(P) \in 1 .. 5
  BY <1>1, PartsPlanned, PartsFit DEF IInv
<1>3. Parts(arg') = P
  BY <1>1
<1> HIDE DEF P
<1>4. Len(P) - Len(todo') = 0 /\ Len(todo') <= Len(P) /\ Len(todo') = Len(P)
  BY <1>1, <1>2
<1>5. len' = Ends(P)[0]
  BY <1>1, <1>2 DEF IsEnds
<1>6. todo' \in Seq(Planned \cup Begun)
  BY <1>1, <1>2
<1>7. StandsUpto(buf', P, 0)
  BY DEF StandsUpto
<1>8. \A j \in 1 .. Len(P) : todo'[j] = P[0 + j]
  BY <1>1, <1>2
<1>9. 1 \in 1 .. Len(P) /\ \A j \in 2 .. Len(P) : j \in 1 .. Len(P)
  BY <1>2
<1>10. todo'[1] = P[0 + 1] /\ \A j \in 2 .. Len(P) : todo'[j] = P[0 + j]
  BY <1>8, <1>9, Zenon
<1>11. todo'[1].op # "loop"
  <2>1. P[1] \in Planned
    BY <1>2, <1>9
  <2> QED
    BY <1>1, <2>1 DEF Planned
<1> QED
  BY <1>1, <1>3, <1>4, <1>5, <1>6, <1>7, <1>10, <1>11 DEF InStep

\* Every step keeps what is spelled.
LEMMA NextCorrect ==
  ASSUME IInv, Correct, Capacity > 31, [Next]_vars
  PROVE  Correct'
<1> SUFFICES ASSUME ~RoundsUp(arg)'
             PROVE  /\ wild' = FALSE /\ DOMAIN buf' = 0 .. Capacity - 1
                    /\ phase' = "begin" => todo' = <<>> /\ len' = 0
                    /\ phase' = "digits" => InStep'
  BY DEF Correct
<1>1. arg' = arg
  BY DEF Next, Begin, Write, PadNum, PadText, vars
<1>2. ~RoundsUp(arg)
  BY <1>1
<1>3. /\ wild = FALSE /\ DOMAIN buf = 0 .. Capacity - 1
      /\ phase = "begin" => todo = <<>> /\ len = 0
      /\ phase = "digits" => InStep
  BY <1>2 DEF Correct
<1>4. CASE Begin
  BY <1>2, <1>3, <1>4, BeginCorrect DEF Begin
<1>5. CASE Write
  <2>1. Spelling /\ Into /\ phase' = "digits"
    BY <1>2, <1>3, <1>5 DEF Write, Spelling
  <2>2. InStep' /\ wild' = FALSE /\ DOMAIN buf' = 0 .. Capacity - 1
    BY <1>1, <2>1, WriteCharsSpells, ReserveSpells, LoopOneSpells, LoopTwoSpells DEF Into
  <2> QED
    BY <2>1, <2>2
<1>6. CASE PadNum
  BY <1>3, <1>6 DEF PadNum, intoVars
<1>7. CASE PadText
  BY <1>3, <1>7 DEF PadText, intoVars
<1>8. CASE UNCHANGED vars
  <2>1. InStep => InStep'
    BY <1>8 DEF vars, intoVars, InStep
  <2> QED
    BY <1>3, <1>8, <2>1 DEF vars, intoVars
<1> QED
  BY <1>4, <1>5, <1>6, <1>7, <1>8 DEF Next
-----------------------------------------------------------------------------
\* When all is written, the text is the parts.
LEMMA TextIsParts ==
  ASSUME IInv, Capacity > 31, ~RoundsUp(arg), InStep, todo = <<>>, NEW P, P = Parts(arg)
  PROVE  /\ arg \in Args /\ arg.kind # "text"
         /\ IsEnds(Ends(P), P)
         /\ Len(Text) = Ends(P)[Len(P)] /\ Len(Text) \in Nat /\ DOMAIN Text = 1 .. Len(Text)
         /\ \A k \in 1 .. Len(P) : \A i \in 1 .. P[k].cnt :
              Ends(P)[k - 1] + i \in 1 .. Len(Text) /\ Text[Ends(P)[k - 1] + i] = Char(P[k], i)
<1> DEFINE e == Ends(P)
           n == Len(P)
<1>1. P \in Seq(Planned) /\ IsEnds(e, P) /\ n \in 1 .. 5 /\ arg \in Args /\ arg.kind # "text"
  BY PartsPlanned, PartsFit DEF IInv, InStep
<1>2. len = e[n] /\ StandsUpto(buf, P, n)
  <2>1. n - Len(todo) = n
    BY <1>1
  <2> QED
    BY <2>1 DEF InStep
<1>3. /\ len \in Nat /\ Len(Text) = len /\ DOMAIN Text = 1 .. len
      /\ \A j \in 1 .. len : Text[j] = buf[j - 1]
  BY LenInt DEF Text
<1> HIDE DEF e, n
<1>4. \A k \in 1 .. n : \A i \in 1 .. P[k].cnt :
        e[k - 1] + i \in 1 .. len /\ Text[e[k - 1] + i] = Char(P[k], i)
  <2> SUFFICES ASSUME NEW k \in 1 .. n, NEW i \in 1 .. P[k].cnt
               PROVE  e[k - 1] + i \in 1 .. len /\ Text[e[k - 1] + i] = Char(P[k], i)
    OBVIOUS
  <2>1. k - 1 \in 0 .. n /\ k \in 0 .. n /\ k <= n /\ n \in 0 .. n
    BY <1>1
  <2>2. P[k].cnt \in Nat
    <3>1. P[k] \in Planned
      BY <1>1 DEF n
    <3> QED
      BY <3>1 DEF Planned
  <2>3. e[k - 1] \in Nat /\ e[k] \in Nat /\ e[k] = e[k - 1] + P[k].cnt /\ e[k] <= e[n]
    BY <1>1, <2>1 DEF IsEnds, n
  <2>4. e[k - 1] + i \in 1 .. len
    BY <1>2, <1>3, <2>2, <2>3
  <2>5. i \in 0 + 1 .. P[k].cnt
    OBVIOUS
  <2>6. buf[e[k - 1] + i - 1] = Char(P[k], i)
    BY <1>2, <2>5 DEF StandsUpto, Stands, e
  <2>7. Text[e[k - 1] + i] = buf[e[k - 1] + i - 1]
    <3> DEFINE x == e[k - 1] + i
    <3> HIDE DEF x
    <3>1. x \in 1 .. len
      BY <2>4 DEF x
    <3>2. Text[x] = buf[x - 1]
      BY <1>3, <3>1
    <3>3. x - 1 = e[k - 1] + i - 1
      BY <2>3 DEF x
    <3> QED
      BY <3>2, <3>3 DEF x
  <2> QED
    BY <2>4, <2>6, <2>7
<1> QED
  BY <1>1, <1>2, <1>3, <1>4 DEF e, n

\* An integer is spelled by its one part.
LEMMA IntSpelled ==
  ASSUME IInv, Capacity > 31, ~RoundsUp(arg), InStep, todo = <<>>, arg.kind = "int"
  PROVE  Spells(Text, arg.num.val, arg.base)
<1> DEFINE P == Parts(arg)
           v == arg.num.val
           b == arg.base
           c == Count(v, b)
           e == Ends(P)
<1>1. /\ IsEnds(e, P) /\ Len(Text) = e[Len(P)] /\ DOMAIN Text = 1 .. Len(Text)
      /\ \A k \in 1 .. Len(P) : \A i \in 1 .. P[k].cnt :
           e[k - 1] + i \in 1 .. Len(Text) /\ Text[e[k - 1] + i] = Char(P[k], i)
  BY TextIsParts
<1>2. v \in 0 .. MaxValue /\ b \in Bases /\ (b # 10 => v > 0)
  BY NumbersAssumption DEF IInv, Args, Bases
<1>3. HasDigits(v, b, c)
  BY <1>2, CountExact
<1>4. P = <<Digits(v, b)>>
  BY DEF Parts
<1>5. /\ Len(P) = 1 /\ P[1].op = "digits" /\ P[1].val = v
      /\ P[1].base = b /\ P[1].cnt = c
  BY <1>4 DEF Digits, Part
<1>6. c \in Nat
  BY <1>3 DEF HasDigits, MostDigits, Bases
<1> HIDE DEF P, e, c, v, b
<1>7. e[0] = 0 /\ e[1] = c
  <2>1. 1 \in 1 .. Len(P) /\ 1 - 1 = 0
    BY <1>5
  <2>2. e[0] = 0 /\ e[1] = e[1 - 1] + P[1].cnt
    BY <1>1, <2>1, Zenon DEF IsEnds
  <2> QED
    BY <1>5, <1>6, <2>1, <2>2
<1>8. Len(Text) = c
  BY <1>1, <1>5, <1>7
<1>9. \A i \in 1 .. c : Text[i] = (v \div Least(b, c - i + 1)) % b
  <2> SUFFICES ASSUME NEW i \in 1 .. c PROVE Text[i] = (v \div Least(b, c - i + 1)) % b
    OBVIOUS
  <2>1. 1 \in 1 .. Len(P) /\ 1 - 1 = 0 /\ i \in 1 .. P[1].cnt
    BY <1>5
  <2>2. Text[e[1 - 1] + i] = Char(P[1], i)
    BY <1>1, <2>1, Zenon
  <2>3. e[1 - 1] + i = i
    BY <1>7, <2>1
  <2> QED
    BY <1>5, <2>2, <2>3 DEF Char
<1>10. DOMAIN Text = 1 .. c
  BY <1>1, <1>8
<1> QED
  BY <1>3, <1>8, <1>9, <1>10 DEF Spells, Shows, v, b

\* The digits in front of a number are zeros.
LEMMA ZeroInFront ==
  ASSUME NEW v \in 0 .. MaxValue, NEW c, HasDigits(v, 10, c), NEW k \in 1 .. 10, k > c
  PROVE  (v \div Least(10, k)) % 10 = 0
<1>1. c \in 1 .. 10 /\ v \in Nat
  BY MaxIsNat DEF HasDigits, MostDigits
<1>2. v < Powers10[c + 1] /\ c + 1 \in 1 .. 10
  BY <1>1 DEF HasDigits, MostDigits, Least
<1>3. \A i, j \in 1 .. 10 : i <= j => Powers10[i] <= Powers10[j]
  BY SMT DEF Powers10
<1>4. Powers10[c + 1] <= Powers10[k] /\ Powers10[c + 1] \in Nat /\ Powers10[k] \in Nat
  BY <1>1, <1>2, <1>3, Powers10Facts
<1> DEFINE p == Powers10[k]
<1> HIDE DEF p
<1>5. p \in Nat /\ v < p
  BY <1>1, <1>2, <1>4 DEF p
<1>6. v \div p = 0
  BY <1>1, <1>5
<1> QED
  BY <1>6 DEF Least, p

\* The parts of a float, before a percent sign, spell it.
LEMMA FloatSpelled ==
  ASSUME IInv, Capacity > 31, ~RoundsUp(arg), InStep, todo = <<>>, arg.kind = "flt",
         NEW s, NEW S, s \in Seq(S), Len(s) = Ends(Parts(arg))[IF Places(arg) = 0 THEN 1 ELSE 4],
         \A j \in 1 .. Len(s) : s[j] = Text[j]
  PROVE  SpellsFloat(s, Places(arg))
<1> DEFINE P == Parts(arg)
           n == Places(arg)
           w == Whole(arg)
           c == CountDcm(w)
           v == Rounded(Frac(arg), n)
           k == CountDcm(v)
           e == Ends(P)
<1>1. /\ arg \in Args /\ IsEnds(e, P)
      /\ \A i \in 1 .. Len(P) : \A j \in 1 .. P[i].cnt :
           e[i - 1] + j \in 1 .. Len(Text) /\ Text[e[i - 1] + j] = Char(P[i], j)
  BY TextIsParts
<1>2. w \in 0 .. MaxValue /\ n \in 0 .. 6 /\ HasDigits(w, 10, c) /\ c \in 1 .. 10
  BY <1>1, FloatRanges, PlacesAre, CountDcmExact DEF HasDigits, MostDigits
<1>3. /\ Len(P) \in 1 .. 5 /\ P[1] = Digits(w, 10)
      /\ n # 0 =>
           /\ Len(P) >= 4 /\ v \in 0 .. MaxValue /\ v < Powers10[n + 1] /\ k \in 1 .. n
           /\ P[2] = Chars(Dot, 1) /\ P[3] = Chars(0, n - k) /\ P[4] = Digits(v, 10)
  <2> DEFINE x == IF arg.type = "%" THEN 1 ELSE 0
  <2>1. /\ Len(P) = (IF n = 0 THEN 1 ELSE 4) + x
        /\ P[1] = Digits(w, 10)
        /\ n # 0 =>
             /\ v \in 0 .. MaxValue /\ v < Powers10[n + 1] /\ k \in 1 .. n
             /\ P[2] = Chars(Dot, 1) /\ P[3] = Chars(0, n - k) /\ P[4] = Digits(v, 10)
    BY <1>1, FloatPartsAre
  <2>2. x \in 0 .. 1
    OBVIOUS
  <2> HIDE DEF x, P, n, w, v, k
  <2> QED
    BY <2>1, <2>2
<1>5. P[1].op = "digits" /\ P[1].val = w /\ P[1].base = 10 /\ P[1].cnt = c
  BY <1>3 DEF Digits, Part, Count
<1>6. n # 0 => /\ P[2].op = "chars" /\ P[2].val = Dot /\ P[2].cnt = 1
               /\ P[3].op = "chars" /\ P[3].val = 0 /\ P[3].cnt = n - k
               /\ P[4].op = "digits" /\ P[4].val = v /\ P[4].base = 10 /\ P[4].cnt = k
  BY <1>3 DEF Digits, Chars, Part, Count
<1>7. Len(s) = e[IF n = 0 THEN 1 ELSE 4] /\ \A j \in 1 .. Len(s) : s[j] = Text[j]
  OBVIOUS
<1>8. n # 0 => HasDigits(v, 10, k)
  BY <1>3, CountDcmExact
<1>9. w = Whole(arg) /\ v = Rounded(Frac(arg), n)
  OBVIOUS
<1> HIDE DEF P, n, w, c, v, k, e
<1>10. e[0] = 0 /\ \A i \in 1 .. Len(P) : e[i] = e[i - 1] + P[i].cnt
  BY <1>1 DEF IsEnds
<1>11. e[1] = c
  <2>1. 1 \in 1 .. Len(P) /\ 1 - 1 = 0
    BY <1>3
  <2>2. e[1] = e[1 - 1] + P[1].cnt
    BY <1>10, <2>1, Zenon
  <2> QED
    BY <1>2, <1>5, <1>10, <2>1, <2>2
<1>12. \A j \in 1 .. c : Text[j] = (w \div Least(10, c - j + 1)) % 10
  <2> SUFFICES ASSUME NEW j \in 1 .. c PROVE Text[j] = (w \div Least(10, c - j + 1)) % 10
    OBVIOUS
  <2>1. 1 \in 1 .. Len(P) /\ 1 - 1 = 0 /\ j \in 1 .. P[1].cnt
    BY <1>3, <1>5
  <2>2. Text[e[1 - 1] + j] = Char(P[1], j)
    BY <1>1, <2>1, Zenon
  <2>3. e[1 - 1] + j = j
    BY <1>2, <1>10, <2>1
  <2> QED
    BY <1>5, <2>2, <2>3 DEF Char
<1>13. CASE n = 0
  <2>1. Len(s) = c /\ DOMAIN s = 1 .. c
    BY <1>7, <1>11, <1>13
  <2>2. \A j \in 1 .. c : s[j] = (w \div Least(10, c - j + 1)) % 10
    BY <1>7, <1>12, <2>1
  <2>3. Spells(s, w, 10)
    BY <1>2, <2>1, <2>2 DEF Spells, Shows
  <2> QED
    BY <1>9, <1>13, <2>3 DEF SpellsFloat, n
<1>14. CASE n # 0
  <2>1. n \in 1 .. 6 /\ k \in 1 .. n /\ v \in 0 .. MaxValue /\ v < Powers10[n + 1]
    BY <1>2, <1>3, <1>14
  <2>2. e[2] = c + 1 /\ e[3] = c + 1 + (n - k) /\ e[4] = c + 1 + n
    <3>1. 2 \in 1 .. Len(P) /\ 3 \in 1 .. Len(P) /\ 4 \in 1 .. Len(P) /\ 2 - 1 = 1 /\ 3 - 1 = 2 /\ 4 - 1 = 3
      BY <1>3, <1>14
    <3>2. e[2] = e[1] + P[2].cnt /\ e[3] = e[2] + P[3].cnt /\ e[4] = e[3] + P[4].cnt
      <4>1. e[2] = e[2 - 1] + P[2].cnt /\ e[3] = e[3 - 1] + P[3].cnt /\ e[4] = e[4 - 1] + P[4].cnt
        BY <1>10, <3>1, Zenon
      <4> QED
        BY <3>1, <4>1
    <3>3. P[2].cnt = 1 /\ P[3].cnt = n - k /\ P[4].cnt = k
      BY <1>6, <1>14
    <3>4. e[2] = c + 1
      BY <1>2, <1>11, <3>2, <3>3
    <3>5. e[3] = c + 1 + (n - k)
      BY <1>2, <2>1, <3>2, <3>3, <3>4
    <3> QED
      BY <1>2, <2>1, <3>2, <3>3, <3>4, <3>5
  <2>3. Len(s) = c + 1 + n
    BY <1>7, <1>14, <2>2
  <2>4. Text[c + 1] = Dot
    <3>1. 2 \in 1 .. Len(P) /\ 2 - 1 = 1 /\ 1 \in 1 .. P[2].cnt
      BY <1>3, <1>6, <1>14
    <3>2. Text[e[2 - 1] + 1] = Char(P[2], 1)
      BY <1>1, <3>1, Zenon
    <3> QED
      BY <1>6, <1>11, <1>14, <3>1, <3>2 DEF Char
  <2>5. \A j \in 1 .. n - k : Text[c + 1 + j] = 0
    <3> SUFFICES ASSUME NEW j \in 1 .. n - k PROVE Text[c + 1 + j] = 0
      OBVIOUS
    <3>1. 3 \in 1 .. Len(P) /\ 3 - 1 = 2 /\ j \in 1 .. P[3].cnt
      BY <1>3, <1>6, <1>14
    <3>2. Text[e[3 - 1] + j] = Char(P[3], j)
      BY <1>1, <3>1, Zenon
    <3> QED
      BY <1>6, <1>14, <2>2, <3>1, <3>2 DEF Char
  <2>6. \A j \in 1 .. k : Text[c + 1 + (n - k) + j] = (v \div Least(10, k - j + 1)) % 10
    <3> SUFFICES ASSUME NEW j \in 1 .. k
                 PROVE  Text[c + 1 + (n - k) + j] = (v \div Least(10, k - j + 1)) % 10
      OBVIOUS
    <3>1. 4 \in 1 .. Len(P) /\ 4 - 1 = 3 /\ j \in 1 .. P[4].cnt
      BY <1>3, <1>6, <1>14
    <3>2. Text[e[4 - 1] + j] = Char(P[4], j)
      BY <1>1, <3>1, Zenon
    <3> QED
      BY <1>6, <1>14, <2>2, <3>1, <3>2 DEF Char
  <2>7. \A j \in 1 .. n : Text[c + 1 + j] = (v \div Least(10, n - j + 1)) % 10
    <3> SUFFICES ASSUME NEW j \in 1 .. n
                 PROVE  Text[c + 1 + j] = (v \div Least(10, n - j + 1)) % 10
      OBVIOUS
    <3>1. CASE j <= n - k
      <4>1. j \in 1 .. n - k /\ n - j + 1 \in 1 .. 10 /\ n - j + 1 > k
        BY <2>1, <3>1
      <4> QED
        BY <1>8, <1>14, <2>1, <2>5, <4>1, ZeroInFront
    <3>2. CASE ~(j <= n - k)
      <4> DEFINE i == j - (n - k)
      <4>1. i \in 1 .. k /\ c + 1 + (n - k) + i = c + 1 + j /\ k - i + 1 = n - j + 1
        BY <1>2, <2>1, <3>2
      <4> HIDE DEF i
      <4>2. Text[c + 1 + (n - k) + i] = (v \div Least(10, k - i + 1)) % 10
        BY <2>6, <4>1
      <4> QED
        BY <4>1, <4>2
    <3> QED
      BY <3>1, <3>2
  <2> DEFINE d == c + 1
             f == SubSeq(s, 1, d - 1)
             g == SubSeq(s, d + 1, Len(s))
  <2>8. d \in 2 .. Len(s) /\ Len(s) = d + n /\ d - 1 = c /\ d \in Nat
    <3>1. d = c + 1
      OBVIOUS
    <3> DEFINE t == Len(s)
    <3>2. t = c + 1 + n
      BY <2>3
    <3> HIDE DEF d, t
    <3>3. d \in 2 .. t /\ t = d + n /\ d - 1 = c /\ d \in Nat
      BY <1>2, <2>1, <3>1, <3>2
    <3> QED
      BY <3>3 DEF t
  <2>9. s[d] = Dot
    BY <1>7, <2>4, <2>8
  <2>10. Spells(f, w, 10)
    <3>1. Len(f) = c /\ DOMAIN f = 1 .. c /\ \A j \in 1 .. c : f[j] = s[j]
      BY <1>2, <2>8
    <3>2. \A j \in 1 .. c : s[j] = Text[j]
      BY <1>2, <1>7, <2>8
    <3> HIDE DEF f
    <3>3. \A j \in 1 .. c : f[j] = (w \div Least(10, c - j + 1)) % 10
      BY <1>12, <3>1, <3>2
    <3> QED
      BY <1>2, <3>1, <3>3 DEF Spells, Shows
  <2>11. Shows(g, v, 10)
    <3>1. Len(g) = n /\ DOMAIN g = 1 .. n /\ \A j \in 1 .. n : g[j] = s[d + j]
      BY <1>2, <2>1, <2>8
    <3>2. \A j \in 1 .. n : s[d + j] = Text[d + j]
      BY <1>2, <1>7, <2>1, <2>8
    <3>3. \A j \in 1 .. n : g[j] = (v \div Least(10, n - j + 1)) % 10
      BY <2>7, <3>1, <3>2
    <3> HIDE DEF g
    <3> QED
      BY <3>1, <3>3 DEF Shows
  <2> HIDE DEF d
  <2>12. \E q \in 2 .. Len(s) :
           /\ s[q] = Dot /\ Len(s) = q + n
           /\ Spells(SubSeq(s, 1, q - 1), w, 10)
           /\ v < Powers10[n + 1]
           /\ Shows(SubSeq(s, q + 1, Len(s)), v, 10)
    BY <2>1, <2>8, <2>9, <2>10, <2>11
  <2> QED
    BY <1>9, <1>14, <2>12 DEF SpellsFloat, n
<1> QED
  BY <1>13, <1>14

\* A float is spelled, its percent sign behind it if it has one.
LEMMA FloatTextSpelled ==
  ASSUME IInv, Capacity > 31, ~RoundsUp(arg), InStep, todo = <<>>, arg.kind = "flt"
  PROVE  /\ arg.type # "%" => SpellsFloat(Text, Places(arg))
         /\ arg.type = "%" => /\ Text # <<>> /\ Text[Len(Text)] = Percent
                              /\ SpellsFloat(SubSeq(Text, 1, Len(Text) - 1), Places(arg))
<1> DEFINE P == Parts(arg)
           e == Ends(P)
           b == IF Places(arg) = 0 THEN 1 ELSE 4
           x == IF arg.type = "%" THEN 1 ELSE 0
           n == Len(P)
<1>1. /\ arg \in Args /\ IsEnds(e, P)
      /\ Len(Text) = e[n] /\ Len(Text) \in Nat /\ DOMAIN Text = 1 .. Len(Text)
      /\ \A i \in 1 .. n : \A j \in 1 .. P[i].cnt :
           e[i - 1] + j \in 1 .. Len(Text) /\ Text[e[i - 1] + j] = Char(P[i], j)
  BY TextIsParts
<1>2. n = b + x /\ (x = 1 => P[n] = Chars(Percent, 1))
  BY <1>1, FloatPartsAre
<1>3. b \in {1, 4} /\ x \in {0, 1} /\ (x = 1 <=> arg.type = "%")
  OBVIOUS
<1> DEFINE S == {Text[i] : i \in 1 .. Len(Text)}
<1>4. Text \in Seq(S)
  <2>1. Text = [i \in 1 .. len |-> Text[i]] /\ len \in Nat /\ Len(Text) = len
    BY LenInt DEF Text
  <2>2. \A i \in 1 .. len : Text[i] \in S
    BY <2>1
  <2> HIDE DEF S
  <2>3. Text \in [1 .. len -> S]
    BY <2>1, <2>2
  <2> QED
    BY <2>1, <2>3
<1>5. b = IF Places(arg) = 0 THEN 1 ELSE 4
  OBVIOUS
<1> HIDE DEF e, b, x, n, S
<1>6. CASE x = 0
  <2>1. Len(Text) = e[b]
    BY <1>1, <1>2, <1>3, <1>6
  <2>2. SpellsFloat(Text, Places(arg))
    BY <1>4, <2>1, FloatSpelled DEF b, e
  <2> QED
    BY <1>3, <1>6, <2>2
<1>7. CASE x = 1
  <2>1. n = b + 1 /\ n \in Nat /\ n \in 1 .. n /\ n - 1 = b
    BY <1>2, <1>3, <1>7
  <2>2. P[n].op = "chars" /\ P[n].val = Percent /\ P[n].cnt = 1
    BY <1>2, <1>7 DEF Chars, Part
  <2>3. e[n] = e[b] + 1 /\ e[b] \in Nat
    <3>1. n \in 1 .. Len(P) /\ n - 1 \in 0 .. Len(P)
      BY <1>3, <2>1 DEF n
    <3>2. e[n] = e[n - 1] + P[n].cnt /\ e[n - 1] \in Nat
      BY <1>1, <3>1 DEF IsEnds
    <3> QED
      BY <2>1, <2>2, <3>2
  <2>4. Text[Len(Text)] = Percent
    <3>1. 1 \in 1 .. P[n].cnt
      BY <2>2
    <3>2. Text[e[n - 1] + 1] = Char(P[n], 1)
      BY <1>1, <2>1, <3>1, Zenon
    <3> QED
      BY <1>1, <2>1, <2>2, <2>3, <3>2 DEF Char
  <2> DEFINE L == Len(Text)
             s == SubSeq(Text, 1, L - 1)
  <2>5. L = e[b] + 1
    BY <1>1, <2>3
  <2>6. L - 1 \in Nat /\ L - 1 = e[b]
    <3> HIDE DEF L
    <3> QED
      BY <2>3, <2>5
  <2>7. s \in Seq(S) /\ Len(s) = L - 1 /\ \A j \in 1 .. Len(s) : s[j] = Text[j]
    <3>1. \A q \in Nat : q <= Len(Text) =>
            /\ SubSeq(Text, 1, q) \in Seq(S) /\ Len(SubSeq(Text, 1, q)) = q
            /\ \A j \in 1 .. q : SubSeq(Text, 1, q)[j] = Text[j]
      BY <1>4
    <3> DEFINE q == L - 1
    <3>2. q \in Nat
      BY <2>6
    <3>3. q <= Len(Text)
      <4> HIDE DEF L
      <4>1. q <= L
        BY <2>3, <2>5
      <4> QED
        BY <4>1 DEF L
    <3> HIDE DEF q
    <3>4. /\ SubSeq(Text, 1, q) \in Seq(S) /\ Len(SubSeq(Text, 1, q)) = q
          /\ \A j \in 1 .. q : SubSeq(Text, 1, q)[j] = Text[j]
      BY <3>1, <3>2, <3>3
    <3> QED
      BY <3>4 DEF q
  <2> HIDE DEF s, L
  <2>8. SpellsFloat(s, Places(arg))
    BY <2>6, <2>7, FloatSpelled DEF b, e
  <2>9. Text # <<>>
    BY <2>3, <2>5 DEF L
  <2> QED
    BY <1>3, <1>7, <2>4, <2>8, <2>9 DEF s, L
<1> QED
  BY <1>3, <1>6, <1>7

\* NumbersSpelled, for every buffer of more than 31 characters (the code's has
\* 256): the digits that are counted, reserved and written backwards in pairs,
\* with the dot, the zeros and the percent sign, are the number.
THEOREM NumbersAreSpelled ==
  ASSUME Capacity > 31
  PROVE  Spec => []NumbersSpelled
<1>1. IInv /\ Correct => NumbersSpelled
  <2> SUFFICES ASSUME IInv, Correct, ~RoundsUp(arg) PROVE Spelled
    BY DEF NumbersSpelled
  <2>1. wild = FALSE /\ (phase = "digits" => InStep)
    BY DEF Correct
  <2>2. ~wild
    BY <2>1
  <2>3. CASE phase = "digits" /\ todo = <<>>
    <3>1. arg.kind = "int" \/ arg.kind = "flt"
      BY <2>1, <2>3 DEF InStep, IInv, Args
    <3>2. CASE arg.kind = "int"
      BY <2>1, <2>2, <2>3, <3>2, IntSpelled DEF Spelled
    <3>3. CASE arg.kind = "flt"
      BY <2>1, <2>2, <2>3, <3>3, FloatTextSpelled DEF Spelled
    <3> QED
      BY <3>1, <3>2, <3>3
  <2> QED
    BY <2>2, <2>3 DEF Spelled
<1> QED
  BY <1>1, InitIInv, NextIInv, InitCorrect, NextCorrect, PTL DEF Spec
-----------------------------------------------------------------------------
\* A set of numbers that is not empty has a least one.
LEMMA LeastOf ==
  ASSUME NEW A \in SUBSET Nat, A # {}
  PROVE  \E i \in A : \A k \in A : i <= k
<1> DEFINE less == OpToRel(<, Nat)
<1>1. PICK i \in A : \A k \in A : <<k, i>> \notin less
  BY WFMin, NatLessThanWellFounded, Zenon
<1>2. \A k \in A : ~(k < i)
  BY <1>1 DEF OpToRel
<1> QED
  BY <1>2

\* What holds at first and is kept by each of n steps holds after all of them.
LEMMA RunKeeps ==
  ASSUME NEW n \in Nat, NEW P, 0 \in P, \A i \in 1 .. n : i - 1 \in P => i \in P
  PROVE  0 .. n \subseteq P
<1> DEFINE A == {i \in 0 .. n : i \notin P}
<1> SUFFICES ASSUME A # {} PROVE FALSE
  OBVIOUS
<1>1. PICK k \in A : \A j \in A : k <= j
  <2> HIDE DEF A
  <2>1. A \in SUBSET Nat
    BY DEF A
  <2> QED
    BY <2>1, LeastOf
<1>2. k \in 1 .. n /\ k - 1 \in 0 .. n
  BY <1>1
<1> QED
  BY <1>1, <1>2

\* The characters that are written, and those of them that fill no field.
Glyph == 0 .. Fill
Plain == 0 .. Letter

\* s holds w if the i-th character of s is one of w, the one after those
\* before it, or fills.
LEMMA HeldIs ==
  ASSUME NEW w \in Seq(Glyph), NEW s, Len(s) \in Nat,
         NEW c \in [0 .. Len(s) -> 0 .. Len(w)], c[0] = 0, c[Len(s)] = Len(w),
         \A i \in 1 .. Len(s) :
           IF s[i] = Fill THEN c[i] = c[i - 1] ELSE c[i] = c[i - 1] + 1 /\ s[i] = w[c[i]]
  PROVE  Held(s) = w
<1> DEFINE n == Len(s)
           Is(f) == f = [i \in 0 .. Len(s) |->
                           IF i = 0 THEN <<>> ELSE IF s[i] = Fill THEN f[i - 1] ELSE Append(f[i - 1], s[i])]
           g == [i \in 0 .. n |-> SubSeq(w, 1, c[i])]
           h == CHOOSE f : Is(f)
<1>1. Held(s) = h[n]
  BY Zenon DEF Held
<1>2. \A k \in 0 .. Len(w) : SubSeq(w, 1, k) \in Seq(Glyph) /\ (k > 0 => SubSeq(w, 1, k) = Append(SubSeq(w, 1, k - 1), w[k]))
  OBVIOUS
<1>3. SubSeq(w, 1, 0) = <<>> /\ SubSeq(w, 1, Len(w)) = w
  OBVIOUS
<1>4. Is(g)
  <2>1. ASSUME NEW i \in 0 .. n
        PROVE  g[i] = IF i = 0 THEN <<>> ELSE IF s[i] = Fill THEN g[i - 1] ELSE Append(g[i - 1], s[i])
    <3>1. CASE i = 0
      BY <1>3, <3>1
    <3>2. CASE i # 0
      <4>1. i \in 1 .. n /\ i - 1 \in 0 .. n /\ g[i] = SubSeq(w, 1, c[i]) /\ g[i - 1] = SubSeq(w, 1, c[i - 1])
        <5>1. i \in 1 .. n /\ i - 1 \in 0 .. n
          BY <3>2
        <5> QED
          BY <5>1
      <4>2. c[i] \in 0 .. Len(w) /\ c[i - 1] \in 0 .. Len(w)
        BY <4>1
      <4>3. CASE s[i] = Fill
        BY <3>2, <4>1, <4>3
      <4>4. CASE s[i] # Fill
        <5>1. c[i] = c[i - 1] + 1 /\ s[i] = w[c[i]]
          BY <4>1, <4>4
        <5>2. c[i] > 0 /\ c[i] - 1 = c[i - 1]
          BY <4>2, <5>1
        <5>3. g[i] = Append(g[i - 1], s[i])
          BY <1>2, <4>1, <4>2, <5>1, <5>2
        <5> QED
          BY <3>2, <4>4, <5>3
      <4> QED
        BY <4>3, <4>4
    <3> QED
      BY <3>1, <3>2
  <2> QED
    BY <2>1, Zenon
<1>5. Is(h)
  BY <1>4
<1> HIDE DEF h, g
<1>6. \A i \in 0 .. n : h[i] = IF i = 0 THEN <<>> ELSE IF s[i] = Fill THEN h[i - 1] ELSE Append(h[i - 1], s[i])
  BY <1>5, Zenon
<1>7. \A i \in 0 .. n : g[i] = IF i = 0 THEN <<>> ELSE IF s[i] = Fill THEN g[i - 1] ELSE Append(g[i - 1], s[i])
  BY <1>4, Zenon
<1> DEFINE P == {i \in 0 .. n : h[i] = g[i]}
<1>8. 0 \in P
  BY <1>6, <1>7
<1>9. ASSUME NEW i \in 1 .. n, i - 1 \in P PROVE i \in P
  <2>1. i \in 0 .. n /\ i # 0 /\ h[i - 1] = g[i - 1]
    BY <1>9
  <2> QED
    BY <1>6, <1>7, <2>1
<1> HIDE DEF P
<1>10. 0 .. n \subseteq P
  BY <1>8, <1>9, RunKeeps, Zenon
<1>11. h[n] = g[n]
  <2>1. n \in 0 .. n
    OBVIOUS
  <2> QED
    BY <1>10, <2>1 DEF P
<1>12. g[n] = w
  BY <1>3 DEF g
<1> QED
  BY <1>1, <1>11, <1>12

\* A field: l characters that fill it, u, m that fill it, x, and r that fill it.
IsField(y, l, u, m, x, r) ==
  /\ Len(y) = l + Len(u) + m + Len(x) + r /\ y \in Seq(Glyph)
  /\ \A i \in 1 .. Len(y) :
       y[i] = IF i <= l THEN Fill
              ELSE IF i <= l + Len(u) THEN u[i - l]
              ELSE IF i <= l + Len(u) + m THEN Fill
              ELSE IF i <= l + Len(u) + m + Len(x) THEN x[i - l - Len(u) - m]
              ELSE Fill

\* y is p, and then q.
Joins(y, p, q, T) ==
  /\ y \in Seq(T) /\ Len(y) = Len(p) + Len(q) /\ Len(p) \in Nat /\ Len(q) \in Nat
  /\ \A i \in 1 .. Len(p) + Len(q) : y[i] = IF i <= Len(p) THEN p[i] ELSE q[i - Len(p)]

\* Two texts that are joined
LEMMA TextsJoin == ASSUME NEW T, NEW p \in Seq(T), NEW q \in Seq(T) PROVE Joins(p \o q, p, q, T)
BY DEF Joins

\* A character that is repeated
LEMMA RepIs ==
  ASSUME NEW T, NEW c \in T, NEW n \in Nat
  PROVE  Rep(c, n) \in Seq(T) /\ Len(Rep(c, n)) = n /\ \A i \in 1 .. n : Rep(c, n)[i] = c
BY DEF Rep

\* What is put together as a field is one.
LEMMA FieldJoined ==
  ASSUME NEW u \in Seq(Glyph), NEW x \in Seq(Glyph), NEW l \in Nat, NEW m \in Nat, NEW r \in Nat
  PROVE  IsField(Rep(Fill, l) \o u \o Rep(Fill, m) \o x \o Rep(Fill, r), l, u, m, x, r)
<1> DEFINE T == Glyph
           a == Rep(Fill, l)
           b == Rep(Fill, m)
           c == Rep(Fill, r)
           p == a \o u
           q == p \o b
           s == q \o x
           y == s \o c
<1>0. Fill \in T
  BY DEF Glyph, Fill
<1> HIDE DEF T
<1>1. /\ a \in Seq(T) /\ b \in Seq(T) /\ c \in Seq(T) /\ Len(a) = l /\ Len(b) = m /\ Len(c) = r
      /\ \A i \in 1 .. l : a[i] = Fill
      /\ \A i \in 1 .. m : b[i] = Fill
      /\ \A i \in 1 .. r : c[i] = Fill
  BY <1>0, RepIs
<1> HIDE DEF a, b, c
<1>2. /\ p \in Seq(T) /\ Len(p) = l + Len(u) /\ Len(u) \in Nat
      /\ \A i \in 1 .. l + Len(u) : p[i] = IF i <= l THEN a[i] ELSE u[i - l]
  <2>1. u \in Seq(T)
    BY DEF T
  <2>2. Joins(p, a, u, T)
    BY <1>1, <2>1, TextsJoin, Zenon
  <2> HIDE DEF p
  <2> QED
    BY <1>1, <2>2 DEF Joins
<1> HIDE DEF p
<1>3. /\ q \in Seq(T) /\ Len(q) = Len(p) + m
      /\ \A i \in 1 .. Len(p) + m : q[i] = IF i <= Len(p) THEN p[i] ELSE b[i - Len(p)]
  <2>1. Joins(q, p, b, T)
    BY <1>1, <1>2, TextsJoin, Zenon
  <2> HIDE DEF q
  <2> QED
    BY <1>1, <2>1 DEF Joins
<1> HIDE DEF q
<1>4. /\ s \in Seq(T) /\ Len(s) = Len(q) + Len(x) /\ Len(x) \in Nat
      /\ \A i \in 1 .. Len(q) + Len(x) : s[i] = IF i <= Len(q) THEN q[i] ELSE x[i - Len(q)]
  <2>1. x \in Seq(T)
    BY DEF T
  <2>2. Joins(s, q, x, T)
    BY <1>3, <2>1, TextsJoin, Zenon
  <2> HIDE DEF s
  <2> QED
    BY <2>2 DEF Joins
<1> HIDE DEF s
<1>5. /\ y \in Seq(T) /\ Len(y) = Len(s) + r
      /\ \A i \in 1 .. Len(s) + r : y[i] = IF i <= Len(s) THEN s[i] ELSE c[i - Len(s)]
  <2>1. Joins(y, s, c, T)
    BY <1>1, <1>4, TextsJoin, Zenon
  <2> HIDE DEF y
  <2> QED
    BY <1>1, <2>1 DEF Joins
<1> HIDE DEF y
<1> DEFINE A == Len(u)
           B == Len(x)
<1>6. A \in Nat /\ B \in Nat /\ Len(p) = l + A /\ Len(q) = l + A + m /\ Len(s) = l + A + m + B /\ Len(y) = l + A + m + B + r
  BY <1>2, <1>3, <1>4, <1>5
<1> HIDE DEF A, B
<1>7. ASSUME NEW i \in 1 .. Len(y)
      PROVE  y[i] = IF i <= l THEN Fill
                    ELSE IF i <= l + A THEN u[i - l]
                    ELSE IF i <= l + A + m THEN Fill
                    ELSE IF i <= l + A + m + B THEN x[i - l - A - m]
                    ELSE Fill
  <2>0. i \in Nat /\ i >= 1 /\ i <= l + A + m + B + r
    BY <1>6
  <2>1. CASE i <= l
    <3>1. i \in 1 .. l /\ i <= Len(p) /\ i <= Len(q) /\ i <= Len(s) /\ i \in 1 .. Len(s) + r /\ i \in 1 .. Len(q) + B /\ i \in 1 .. Len(p) + m /\ i \in 1 .. l + A
      BY <1>6, <2>0, <2>1
    <3> QED
      BY <1>1, <1>2, <1>3, <1>4, <1>5, <2>1, <3>1 DEF A, B
  <2>2. CASE ~(i <= l) /\ i <= l + A
    <3>1. i <= Len(p) /\ i <= Len(q) /\ i <= Len(s) /\ i \in 1 .. Len(s) + r /\ i \in 1 .. Len(q) + B /\ i \in 1 .. Len(p) + m /\ i \in 1 .. l + A
      BY <1>6, <2>0, <2>2
    <3> QED
      BY <1>2, <1>3, <1>4, <1>5, <2>2, <3>1 DEF A, B
  <2>3. CASE ~(i <= l + A) /\ i <= l + A + m
    <3>1. ~(i <= l) /\ ~(i <= Len(p)) /\ i <= Len(q) /\ i <= Len(s) /\ i \in 1 .. Len(s) + r /\ i \in 1 .. Len(q) + B /\ i \in 1 .. Len(p) + m
          /\ i - Len(p) \in 1 .. m
      BY <1>6, <2>0, <2>3
    <3> QED
      BY <1>1, <1>3, <1>4, <1>5, <2>3, <3>1 DEF A, B
  <2>4. CASE ~(i <= l + A + m) /\ i <= l + A + m + B
    <3>1. ~(i <= l) /\ ~(i <= l + A) /\ ~(i <= Len(q)) /\ i <= Len(s) /\ i \in 1 .. Len(s) + r /\ i \in 1 .. Len(q) + B
          /\ i - Len(q) = i - l - A - m
      BY <1>6, <2>0, <2>4
    <3> QED
      BY <1>4, <1>5, <2>4, <3>1 DEF A, B
  <2>5. CASE ~(i <= l + A + m + B)
    <3>1. ~(i <= l) /\ ~(i <= l + A) /\ ~(i <= l + A + m) /\ ~(i <= Len(s)) /\ i \in 1 .. Len(s) + r /\ i - Len(s) \in 1 .. r
      BY <1>6, <2>0, <2>5
    <3> QED
      BY <1>1, <1>5, <2>5, <3>1
  <2> QED
    BY <1>6, <2>0, <2>1, <2>2, <2>3, <2>4, <2>5
<1> QED
  BY <1>5, <1>6, <1>7 DEF IsField, A, B, T, a, b, c, p, q, s, y

\* A text that fills no field
LEMMA PlainIs ==
  ASSUME NEW u \in Seq(Plain)
  PROVE  Len(u) \in Nat /\ u \in Seq(Glyph) /\ \A j \in 1 .. Len(u) : u[j] # Fill
<1> DEFINE T == Plain
<1>1. T \subseteq Glyph /\ Fill \notin T
  BY DEF Plain, Glyph, Letter, Fill
<1>2. u \in Seq(T)
  OBVIOUS
<1> HIDE DEF T
<1>3. Len(u) \in Nat /\ \A j \in 1 .. Len(u) : u[j] \in T
  BY <1>2
<1> QED
  BY <1>1, <1>2, <1>3

\* A field holds its two texts.
LEMMA FieldHeld ==
  ASSUME NEW u \in Seq(Plain), NEW x \in Seq(Plain), NEW l \in Nat, NEW m \in Nat, NEW r \in Nat,
         NEW y, IsField(y, l, u, m, x, r)
  PROVE  /\ Held(y) = u \o x /\ Len(u \o x) = Len(u) + Len(x) /\ Len(u) \in Nat /\ Len(x) \in Nat
         /\ \A j \in 1 .. Len(u) + Len(x) : (u \o x)[j] = IF j <= Len(u) THEN u[j] ELSE x[j - Len(u)]
<1> DEFINE A == Len(u)
           B == Len(x)
           w == u \o x
           c == [i \in 0 .. Len(y) |->
                   IF i <= l THEN 0 ELSE IF i <= l + A THEN i - l ELSE IF i <= l + A + m THEN A
                   ELSE IF i <= l + A + m + B THEN i - l - m ELSE A + B]
<1>1. u \in Seq(Glyph) /\ x \in Seq(Glyph)
  BY PlainIs
<1>2. Joins(w, u, x, Glyph)
  BY <1>1, TextsJoin, Zenon
<1>3. /\ A \in Nat /\ B \in Nat /\ \A j \in 1 .. A : u[j] # Fill
      /\ \A j \in 1 .. B : x[j] # Fill
  <2>1. /\ Len(u) \in Nat /\ \A j \in 1 .. Len(u) : u[j] # Fill
    BY PlainIs
  <2>2. /\ Len(x) \in Nat /\ \A j \in 1 .. Len(x) : x[j] # Fill
    BY PlainIs
  <2> QED
    BY <2>1, <2>2
<1> HIDE DEF w
<1>4. /\ w \in Seq(Glyph) /\ Len(w) = A + B
      /\ \A j \in 1 .. A + B : w[j] = IF j <= A THEN u[j] ELSE x[j - A]
  BY <1>2 DEF Joins
<1>5. Len(y) \in Nat /\ Len(y) = l + A + m + B + r
  BY <1>3 DEF IsField
<1>6. \A i \in 1 .. Len(y) :
        y[i] = IF i <= l THEN Fill ELSE IF i <= l + A THEN u[i - l] ELSE IF i <= l + A + m THEN Fill
               ELSE IF i <= l + A + m + B THEN x[i - l - A - m] ELSE Fill
  BY DEF IsField
<1> HIDE DEF A, B
<1>7. c \in [0 .. Len(y) -> 0 .. Len(w)]
  <2>1. ASSUME NEW i \in 0 .. Len(y) PROVE c[i] \in 0 .. A + B
    <3>1. i \in Nat /\ i <= l + A + m + B + r
      BY <1>5
    <3>2. c[i] = IF i <= l THEN 0 ELSE IF i <= l + A THEN i - l ELSE IF i <= l + A + m THEN A
                 ELSE IF i <= l + A + m + B THEN i - l - m ELSE A + B
      OBVIOUS
    <3> HIDE DEF c
    <3> QED
      BY <1>3, <3>1, <3>2
  <2> QED
    BY <1>4, <2>1
<1>8. c[0] = 0 /\ c[Len(y)] = Len(w)
  BY <1>3, <1>4, <1>5
<1>9. ASSUME NEW i \in 1 .. Len(y)
      PROVE  IF y[i] = Fill THEN c[i] = c[i - 1] ELSE c[i] = c[i - 1] + 1 /\ y[i] = w[c[i]]
  <2>1. i \in 0 .. Len(y) /\ i - 1 \in 0 .. Len(y) /\ i \in Nat /\ i - 1 \in Nat
    BY <1>5
  <2>2. CASE i <= l
    BY <1>3, <1>6, <2>1, <2>2
  <2>3. CASE ~(i <= l) /\ i <= l + A
    <3>1. i - l \in 1 .. A /\ y[i] = u[i - l]
      BY <1>3, <1>6, <2>1, <2>3
    <3>2. c[i] = i - l /\ c[i - 1] = (i - l) - 1
      BY <1>3, <2>1, <2>3
    <3>3. w[i - l] = u[i - l] /\ u[i - l] # Fill
      BY <1>3, <1>4, <3>1
    <3> HIDE DEF c
    <3> QED
      BY <2>1, <3>1, <3>2, <3>3
  <2>4. CASE ~(i <= l + A) /\ i <= l + A + m
    <3>1. y[i] = Fill
      BY <1>3, <1>6, <2>1, <2>4
    <3>2. c[i] = A
      BY <1>3, <2>1, <2>4
    <3>3. c[i - 1] = A
      BY <1>3, <2>1, <2>4
    <3> QED
      BY <3>1, <3>2, <3>3
  <2>5. CASE ~(i <= l + A + m) /\ i <= l + A + m + B
    <3>1. i - l - A - m \in 1 .. B /\ y[i] = x[i - l - A - m]
      <4>1. i - l - A - m \in 1 .. B /\ ~(i <= l) /\ ~(i <= l + A)
        BY <1>3, <2>1, <2>5
      <4> QED
        BY <1>6, <2>5, <4>1
    <3>2. c[i] = i - l - m /\ c[i - 1] = (i - l - m) - 1
      BY <1>3, <2>1, <2>5
    <3>3. i - l - m \in 1 .. A + B /\ ~(i - l - m <= A) /\ (i - l - m) - A = i - l - A - m
      BY <1>3, <2>1, <2>5
    <3>4. w[i - l - m] = x[i - l - A - m] /\ x[i - l - A - m] # Fill
      BY <1>3, <1>4, <3>1, <3>3
    <3> HIDE DEF c
    <3> QED
      BY <2>1, <3>1, <3>2, <3>3, <3>4
  <2>6. CASE ~(i <= l + A + m + B)
    <3>1. y[i] = Fill
      BY <1>3, <1>6, <2>1, <2>6
    <3>2. c[i] = A + B
      BY <1>3, <2>1, <2>6
    <3>3. c[i - 1] = A + B
      BY <1>3, <2>1, <2>6
    <3> QED
      BY <3>1, <3>2, <3>3
  <2> QED
    BY <1>3, <2>1, <2>2, <2>3, <2>4, <2>5, <2>6
<1> HIDE DEF c
<1>10. Held(y) = w
  BY <1>4, <1>5, <1>7, <1>8, <1>9, HeldIs
<1> QED
  BY <1>3, <1>4, <1>10 DEF A, B, w

\* Where a field is filled
LEMMA FieldFills ==
  ASSUME NEW u \in Seq(Plain), NEW x \in Seq(Plain), NEW l \in Nat, NEW m \in Nat, NEW r \in Nat,
         NEW y, IsField(y, l, u, m, x, r)
  PROVE  /\ DOMAIN y = 1 .. Len(y) /\ Len(y) \in Nat
         /\ {i \in DOMAIN y : y[i] = Fill}
              = (1 .. l) \cup (l + Len(u) + 1 .. l + Len(u) + m) \cup (l + Len(u) + m + Len(x) + 1 .. Len(y))
<1> DEFINE A == Len(u)
           B == Len(x)
<1>1. /\ A \in Nat /\ B \in Nat /\ \A j \in 1 .. A : u[j] # Fill
      /\ \A j \in 1 .. B : x[j] # Fill
  <2>1. /\ Len(u) \in Nat /\ \A j \in 1 .. Len(u) : u[j] # Fill
    BY PlainIs
  <2>2. /\ Len(x) \in Nat /\ \A j \in 1 .. Len(x) : x[j] # Fill
    BY PlainIs
  <2> QED
    BY <2>1, <2>2
<1>2. Len(y) \in Nat /\ Len(y) = l + A + m + B + r /\ DOMAIN y = 1 .. Len(y)
  BY <1>1 DEF IsField
<1>3. \A i \in 1 .. Len(y) :
        y[i] = IF i <= l THEN Fill ELSE IF i <= l + A THEN u[i - l] ELSE IF i <= l + A + m THEN Fill
               ELSE IF i <= l + A + m + B THEN x[i - l - A - m] ELSE Fill
  BY DEF IsField
<1> HIDE DEF A, B
<1>4. ASSUME NEW i \in 1 .. Len(y)
      PROVE  y[i] = Fill <=> i <= l \/ (l + A + 1 <= i /\ i <= l + A + m) \/ l + A + m + B + 1 <= i
  <2>1. i \in Nat
    BY <1>2
  <2>2. CASE ~(i <= l) /\ i <= l + A
    <3>1. i - l \in 1 .. A /\ y[i] = u[i - l]
      BY <1>1, <1>3, <2>1, <2>2
    <3> QED
      BY <1>1, <2>1, <2>2, <3>1
  <2>3. CASE ~(i <= l + A + m) /\ i <= l + A + m + B
    <3>1. i - l - A - m \in 1 .. B /\ y[i] = x[i - l - A - m]
      BY <1>1, <1>3, <2>1, <2>3
    <3> QED
      BY <1>1, <2>1, <2>3, <3>1
  <2>4. CASE i <= l \/ (~(i <= l + A) /\ i <= l + A + m) \/ ~(i <= l + A + m + B)
    <3>1. y[i] = Fill
      BY <1>1, <1>3, <2>1, <2>4
    <3> QED
      BY <1>1, <2>1, <2>4, <3>1
  <2> QED
    BY <1>1, <2>1, <2>2, <2>3, <2>4
<1>5. ASSUME NEW i
      PROVE  i \in {j \in DOMAIN y : y[j] = Fill} <=>
               i \in (1 .. l) \cup (l + A + 1 .. l + A + m) \cup (l + A + m + B + 1 .. Len(y))
  BY <1>1, <1>2, <1>4
<1> QED
  BY <1>2, <1>5 DEF A, B

\* How many characters fill a field of a style that has room for n.
Room(n) == IF style.width > n THEN style.width - n ELSE 0

\* Where a style lets them be
Sized(l, m, r, n) ==
  /\ l \in Nat /\ m \in Nat /\ r \in Nat /\ l + m + r = Room(n)
  /\ style.align # "=" => m = 0
  /\ style.align = "=" => l = 0 /\ r = 0
  /\ style.align = "<" => l = 0
  /\ style.align \in {">", "none"} => r = 0
  /\ style.align = "^" => r - l \in {0, 1}

\* Nothing that is repeated, and nothing that is joined
LEMMA NothingJoined ==
  ASSUME NEW T, NEW u \in Seq(T), NEW c
  PROVE  Rep(c, 0) = <<>> /\ u \o <<>> = u /\ <<>> \o u = u
<1>1. Rep(c, 0) = <<>>
  BY DEF Rep
<1> QED
  BY <1>1

\* Padded makes a field, which is filled where the style says.
LEMMA PaddedIs ==
  ASSUME style \in Styles, NEW u \in Seq(Plain), NEW x \in Seq(Plain)
  PROVE  \E l, m, r \in Nat : IsField(Padded(u, x), l, u, m, x, r) /\ Sized(l, m, r, Len(u) + Len(x))
<1> DEFINE n == style.width - Len(u) - Len(x)
           o == Rep(Fill, 0)
           p == Rep(Fill, n)
<1>1. /\ style.width \in Nat /\ style.align \in {"none", "<", ">", "^", "="}
      /\ Len(u) \in Nat /\ Len(x) \in Nat /\ u \in Seq(Glyph) /\ x \in Seq(Glyph)
  <2>1. style.width \in Nat /\ style.align \in {"none", "<", ">", "^", "="}
    BY StylesAssumption
  <2>2. Len(u) \in Nat /\ u \in Seq(Glyph)
    BY PlainIs
  <2>3. Len(x) \in Nat /\ x \in Seq(Glyph)
    BY PlainIs
  <2> QED
    BY <2>1, <2>2, <2>3
<1> DEFINE T == Glyph
<1>2. u \in Seq(T) /\ x \in Seq(T) /\ Fill \in T
  BY <1>1 DEF Glyph, Fill
<1> HIDE DEF T
<1>3. /\ o = <<>>
      /\ \A z \in Seq(T) : z \o o = z /\ o \o z = z
      /\ \A y, z \in Seq(T) : y \o z \in Seq(T)
  <2>1. o = <<>>
    BY NothingJoined, <1>2, Zenon
  <2> HIDE DEF o
  <2>2. \A z \in Seq(T) : z \o <<>> = z /\ <<>> \o z = z
    BY NothingJoined, Zenon
  <2> QED
    BY <2>1, <2>2
<1>4. ASSUME NEW l \in Nat, NEW m \in Nat, NEW r \in Nat
      PROVE  /\ IsField(Rep(Fill, l) \o u \o Rep(Fill, m) \o x \o Rep(Fill, r), l, u, m, x, r)
             /\ Rep(Fill, l) \in Seq(T)
  BY <1>1, <1>2, FieldJoined, RepIs, Zenon
<1>5. u \o x \in Seq(T)
  BY <1>2, <1>3
<1> HIDE DEF n
<1>6. CASE n <= 0
  <2>1. Padded(u, x) = u \o x
    BY <1>6 DEF Padded, n
  <2>2. o \o u \o o \o x \o o = u \o x
    <3> HIDE DEF o
    <3> QED
      BY <1>2, <1>3, <1>5
  <2>3. IsField(Padded(u, x), 0, u, 0, x, 0)
    BY <1>4, <2>1, <2>2
  <2>4. Sized(0, 0, 0, Len(u) + Len(x))
    BY <1>1, <1>6 DEF Sized, Room, n
  <2> QED
    BY <2>3, <2>4
<1>7. CASE ~(n <= 0)
  <2>1. n \in Nat /\ n = Room(Len(u) + Len(x))
    BY <1>1, <1>7 DEF Room, n
  <2>2. Padded(u, x) =
          CASE style.align = "<" -> u \o x \o p
            [] style.align = "^" -> Rep(Fill, n \div 2) \o u \o x \o Rep(Fill, (n + 1) \div 2)
            [] style.align = "=" -> u \o p \o x
            [] OTHER -> p \o u \o x
    BY <1>7 DEF Padded, n
  <2>3. p \in Seq(T)
    BY <1>4, <2>1
  <2>4. CASE style.align = "<"
    <3>1. Padded(u, x) = u \o x \o p
      BY <2>2, <2>4
    <3>2. o \o u \o o \o x \o p = u \o x \o p
      <4> HIDE DEF o, p
      <4> QED
        BY <1>2, <1>3
    <3>3. IsField(Padded(u, x), 0, u, 0, x, n)
      BY <1>4, <2>1, <3>1, <3>2
    <3>4. Sized(0, 0, n, Len(u) + Len(x))
      BY <2>1, <2>4 DEF Sized
    <3> QED
      BY <2>1, <3>3, <3>4
  <2>5. CASE style.align = "^"
    <3> DEFINE l == n \div 2
               r == (n + 1) \div 2
               a == Rep(Fill, l)
               b == Rep(Fill, r)
    <3>1. Padded(u, x) = a \o u \o x \o b
      BY <2>2, <2>5
    <3>2. l \in Nat /\ r \in Nat /\ l + r = n /\ r - l \in {0, 1}
      BY <2>1
    <3> HIDE DEF l, r
    <3>3. a \o u \o o \o x \o b = a \o u \o x \o b
      <4>1. a \in Seq(T)
        BY <1>4, <3>2
      <4> HIDE DEF o, a, b
      <4>2. a \o u \in Seq(T)
        BY <1>2, <1>3, <4>1
      <4> QED
        BY <1>3, <4>2
    <3>4. IsField(Padded(u, x), l, u, 0, x, r)
      BY <1>4, <3>1, <3>2, <3>3
    <3>5. Sized(l, 0, r, Len(u) + Len(x))
      BY <2>1, <2>5, <3>2 DEF Sized
    <3> QED
      BY <3>2, <3>4, <3>5
  <2>6. CASE style.align = "="
    <3>1. Padded(u, x) = u \o p \o x
      BY <2>2, <2>6
    <3>2. o \o u \o p \o x \o o = u \o p \o x
      <4> HIDE DEF o, p
      <4>1. u \o p \in Seq(T) /\ u \o p \o x \in Seq(T)
        BY <1>2, <1>3, <2>3
      <4> QED
        BY <1>2, <1>3, <4>1
    <3>3. IsField(Padded(u, x), 0, u, n, x, 0)
      BY <1>4, <2>1, <3>1, <3>2
    <3>4. Sized(0, n, 0, Len(u) + Len(x))
      BY <2>1, <2>6 DEF Sized
    <3> QED
      BY <2>1, <3>3, <3>4
  <2>7. CASE style.align \in {">", "none"}
    <3>1. Padded(u, x) = p \o u \o x
      BY <2>2, <2>7
    <3>2. p \o u \o o \o x \o o = p \o u \o x
      <4> HIDE DEF o, p
      <4>1. p \o u \in Seq(T) /\ p \o u \o x \in Seq(T)
        BY <1>2, <1>3, <2>3
      <4> QED
        BY <1>2, <1>3, <4>1
    <3>3. IsField(Padded(u, x), n, u, 0, x, 0)
      BY <1>4, <2>1, <3>1, <3>2
    <3>4. Sized(n, 0, 0, Len(u) + Len(x))
      BY <2>1, <2>7 DEF Sized
    <3> QED
      BY <2>1, <3>3, <3>4
  <2> QED
    BY <1>1, <2>4, <2>5, <2>6, <2>7
<1> QED
  BY <1>6, <1>7

\* A part of a text
LEMMA PartIs ==
  ASSUME NEW T, NEW y \in Seq(T), NEW w \in Seq(T), NEW l \in Nat, l + Len(w) <= Len(y),
         \A j \in 1 .. Len(w) : y[l + j] = w[j]
  PROVE  SubSeq(y, l + 1, l + Len(w)) = w
<1> DEFINE s == SubSeq(y, l + 1, l + Len(w))
<1>1. s \in Seq(T) /\ Len(s) = Len(w) /\ \A j \in 1 .. Len(w) : s[j] = y[l + j]
  OBVIOUS
<1> HIDE DEF s
<1>2. s = [j \in 1 .. Len(s) |-> s[j]] /\ w = [j \in 1 .. Len(w) |-> w[j]]
  BY <1>1
<1>3. s = w
  BY <1>1, <1>2
<1> QED
  BY <1>3 DEF s

\* How many there are in two ranges, one after the other
LEMMA RangesCounted ==
  ASSUME NEW l \in Nat, NEW k \in Nat, NEW r \in Nat
  PROVE  Cardinality((1 .. l) \cup (l + k + 1 .. l + k + r)) = l + r
<1> DEFINE A == 1 .. l
           B == l + k + 1 .. l + k + r
<1>1. IsFiniteSet(A) /\ Cardinality(A) = l
  <2>1. 1 \in Int /\ l \in Int
    OBVIOUS
  <2>2. IsFiniteSet(A) /\ Cardinality(A) = IF 1 > l THEN 0 ELSE l - 1 + 1
    BY <2>1, FS_Interval
  <2> QED
    BY <2>2
<1>2. IsFiniteSet(B) /\ Cardinality(B) = r
  <2> DEFINE a == l + k + 1
             b == l + k + r
  <2>1. a \in Int /\ b \in Int
    OBVIOUS
  <2>2. (IF a > b THEN 0 ELSE b - a + 1) = r
    OBVIOUS
  <2> HIDE DEF a, b
  <2>3. IsFiniteSet(a .. b) /\ Cardinality(a .. b) = IF a > b THEN 0 ELSE b - a + 1
    BY <2>1, FS_Interval
  <2> QED
    BY <2>2, <2>3 DEF a, b
<1>3. A \cap B = {}
  OBVIOUS
<1>4. Cardinality({}) = 0
  BY FS_EmptySet
<1> HIDE DEF A, B
<1>5. Cardinality(A \cup B) = Cardinality(A) + Cardinality(B) - Cardinality(A \cap B)
  BY <1>1, <1>2, FS_Union
<1>6. Cardinality(A \cup B) = l + r
  BY <1>1, <1>2, <1>3, <1>4, <1>5
<1> QED
  BY <1>6 DEF A, B

\* y is a sign and a body that were set into the field of the style.
IsSet(y, u, x) ==
  /\ Held(y) = u \o x
  /\ Len(y) = IF style.width > Len(Held(y)) THEN style.width ELSE Len(Held(y))
  /\ style.align # "=" =>
       \E i \in 0 .. Len(y) - Len(Held(y)) :
         /\ SubSeq(y, i + 1, i + Len(Held(y))) = Held(y)
         /\ style.align = "<" => i = 0
         /\ style.align \in {">", "none"} => i = Cardinality({k \in DOMAIN y : y[k] = Fill})
         /\ style.align = "^" => Cardinality({k \in DOMAIN y : y[k] = Fill}) - 2 * i \in {0, 1}
  /\ style.align = "=" =>
       {k \in DOMAIN y : y[k] = Fill} = Len(u) + 1 .. Len(y) - Len(x)

\* What Padded makes is set as the style says.
LEMMA PaddedSet ==
  ASSUME style \in Styles, NEW u \in Seq(Plain), NEW x \in Seq(Plain)
  PROVE  IsSet(Padded(u, x), u, x)
<1> DEFINE y == Padded(u, x)
           w == u \o x
           A == Len(u)
           B == Len(x)
<1>1. PICK l, m, r \in Nat : IsField(y, l, u, m, x, r) /\ Sized(l, m, r, A + B)
  BY PaddedIs
<1> HIDE DEF y
<1>2. /\ Held(y) = w /\ Len(w) = A + B /\ A \in Nat /\ B \in Nat
      /\ \A j \in 1 .. A + B : w[j] = IF j <= A THEN u[j] ELSE x[j - A]
  BY <1>1, FieldHeld
<1>3. /\ Len(y) \in Nat
      /\ {i \in DOMAIN y : y[i] = Fill} = (1 .. l) \cup (l + A + 1 .. l + A + m) \cup (l + A + m + B + 1 .. Len(y))
  BY <1>1, FieldFills
<1>4. /\ Len(y) = l + A + m + B + r /\ y \in Seq(Glyph)
      /\ \A i \in 1 .. Len(y) :
           y[i] = IF i <= l THEN Fill ELSE IF i <= l + A THEN u[i - l] ELSE IF i <= l + A + m THEN Fill
                  ELSE IF i <= l + A + m + B THEN x[i - l - A - m] ELSE Fill
  BY <1>1 DEF IsField
<1>5. /\ style.width \in Nat /\ style.align \in {"none", "<", ">", "^", "="}
  BY StylesAssumption
<1>6. w \in Seq(Glyph)
  <2>1. u \in Seq(Glyph) /\ x \in Seq(Glyph)
    BY PlainIs
  <2> QED
    BY <2>1
<1> HIDE DEF w, A, B
<1>7. Len(y) = IF style.width > A + B THEN style.width ELSE A + B
  <2>1. l + m + r = Room(A + B)
    BY <1>1 DEF Sized
  <2>2. Room(A + B) = IF style.width > A + B THEN style.width - (A + B) ELSE 0
    BY DEF Room
  <2>3. Len(y) = (l + m + r) + (A + B) /\ A + B \in Nat
    BY <1>2, <1>4
  <2> DEFINE k == A + B
  <2> HIDE DEF k
  <2> QED
    BY <1>5, <2>1, <2>2, <2>3 DEF k
<1>8. ASSUME style.align # "="
      PROVE  \E i \in 0 .. Len(y) - Len(w) :
               /\ SubSeq(y, i + 1, i + Len(w)) = w
               /\ style.align = "<" => i = 0
               /\ style.align \in {">", "none"} => i = Cardinality({k \in DOMAIN y : y[k] = Fill})
               /\ style.align = "^" => Cardinality({k \in DOMAIN y : y[k] = Fill}) - 2 * i \in {0, 1}
  <2>1. m = 0 /\ l \in 0 .. Len(y) - Len(w) /\ l + Len(w) <= Len(y) /\ Len(y) = l + A + B + r
    BY <1>1, <1>2, <1>4, <1>8 DEF Sized
  <2>2. SubSeq(y, l + 1, l + Len(w)) = w
    <3>1. ASSUME NEW j \in 1 .. Len(w) PROVE y[l + j] = w[j]
      <4>1. l + j \in 1 .. Len(y) /\ ~(l + j <= l) /\ j \in Nat
        BY <1>2, <1>4, <2>1
      <4>2. CASE j <= A
        <5>1. l + j <= l + A /\ (l + j) - l = j
          BY <1>2, <4>1, <4>2
        <5> QED
          BY <1>2, <1>4, <4>1, <4>2, <5>1
      <4>3. CASE ~(j <= A)
        <5>1. ~(l + j <= l + A) /\ ~(l + j <= l + A + m) /\ l + j <= l + A + m + B /\ (l + j) - l - A - m = j - A
          BY <1>2, <2>1, <4>1, <4>3
        <5> QED
          BY <1>2, <1>4, <4>1, <4>3, <5>1
      <4> QED
        BY <4>2, <4>3
    <3> QED
      BY <1>4, <1>6, <2>1, <3>1, PartIs
  <2>3. Cardinality({k \in DOMAIN y : y[k] = Fill}) = l + r
    <3> DEFINE k == A + B
    <3>1. k \in Nat
      BY <1>2
    <3>2. (1 .. l) \cup (l + A + 1 .. l + A + m) \cup (l + A + m + B + 1 .. Len(y)) = (1 .. l) \cup (l + k + 1 .. l + k + r)
      BY <1>2, <2>1
    <3> HIDE DEF k
    <3>3. Cardinality((1 .. l) \cup (l + k + 1 .. l + k + r)) = l + r
      BY <3>1, RangesCounted
    <3> QED
      BY <1>3, <3>2, <3>3
  <2> DEFINE c == Cardinality({k \in DOMAIN y : y[k] = Fill})
  <2>4. /\ style.align = "<" => l = 0
        /\ style.align \in {">", "none"} => l = c
        /\ style.align = "^" => c - 2 * l \in {0, 1}
    <3>1. c = l + r
      BY <2>3
    <3> HIDE DEF c
    <3>2. style.align = "<" => l = 0
      BY <1>1 DEF Sized
    <3>3. r = 0 => l = c
      BY <3>1
    <3>4. r - l \in {0, 1} => c - 2 * l \in {0, 1}
      BY <3>1
    <3>5. style.align \in {">", "none"} => l = c
      <4>1. style.align \in {">", "none"} => r = 0
        BY <1>1 DEF Sized
      <4> QED
        BY <3>3, <4>1, Zenon
    <3>6. style.align = "^" => c - 2 * l \in {0, 1}
      <4>1. style.align = "^" => r - l \in {0, 1}
        BY <1>1 DEF Sized
      <4> QED
        BY <3>4, <4>1, Zenon
    <3> QED
      BY <3>2, <3>5, <3>6, Zenon
  <2>5. l \in 0 .. Len(y) - Len(w)
    BY <2>1
  <2> QED
    BY <2>2, <2>4, <2>5, Zenon
<1>9. ASSUME style.align = "="
      PROVE  {k \in DOMAIN y : y[k] = Fill} = A + 1 .. Len(y) - B
  <2>1. l = 0 /\ r = 0 /\ Len(y) = A + m + B
    BY <1>1, <1>2, <1>4, <1>9 DEF Sized
  <2>2. (1 .. l) \cup (l + A + 1 .. l + A + m) \cup (l + A + m + B + 1 .. Len(y)) = A + 1 .. Len(y) - B
    BY <1>2, <2>1
  <2> QED
    BY <1>3, <2>2
<1>10. IsSet(y, u, x)
  BY <1>2, <1>7, <1>8, <1>9 DEF IsSet, w, A, B
<1> QED
  BY <1>10 DEF y

\* A number with a prefix is written without it if the field has no room, and
\* fills the field with zeros otherwise.
LEMMA PrefixFills ==
  ASSUME style \in Styles, NEW u \in Seq(Plain), NEW x \in Seq(Plain), Prefix # <<>>
  PROVE  \/ PaddedNum(u, x) = u \o x
         \/ /\ Len(PaddedNum(u, x)) = style.width
            /\ \E n \in 1 .. style.width : PaddedNum(u, x) = u \o Prefix \o Rep(Zero, n) \o x
<1> DEFINE fill == style.width - Len(Prefix) - Len(u) - Len(x)
           T == Plain
           p == Prefix
           z == Rep(Zero, fill)
<1>1. Zero \in T /\ Letter \in T
  BY DEF Plain, Zero, Letter
<1>2. style.width \in Nat
  BY StylesAssumption
<1>3. u \in Seq(T) /\ x \in Seq(T)
  OBVIOUS
<1> HIDE DEF T
<1>4. p \in Seq(T)
  <2>1. p = <<Zero, Letter>> \/ p = <<Zero>> \/ p = <<>>
    BY DEF Prefix
  <2>2. <<Zero, Letter>> \in Seq(T) /\ <<Zero>> \in Seq(T) /\ <<>> \in Seq(T)
    BY <1>1
  <2> QED
    BY <2>1, <2>2
<1>5. Len(p) \in Nat /\ Len(u) \in Nat /\ Len(x) \in Nat
  <2> HIDE DEF p
  <2> QED
    BY <1>3, <1>4
<1>6. fill \in Int /\ p # <<>>
  <2> HIDE DEF p
  <2>1. fill = style.width - Len(p) - Len(u) - Len(x)
    BY DEF p
  <2> HIDE DEF fill
  <2>2. p # <<>>
    BY DEF p
  <2> QED
    BY <1>2, <1>5, <2>1, <2>2
<1>7. PaddedNum(u, x) =
        CASE p = <<>> -> Padded(u, x)
          [] p # <<>> /\ fill <= 0 -> u \o x
          [] p # <<>> /\ fill > 0 -> u \o p \o z \o x
  BY Zenon DEF PaddedNum
<1>8. fill = style.width - Len(p) - Len(u) - Len(x)
  OBVIOUS
<1>9. fill \in Nat => z \in Seq(T) /\ Len(z) = fill
  <2> HIDE DEF fill
  <2> QED
    BY <1>1, RepIs
<1> HIDE DEF fill, p, z
<1>10. CASE fill <= 0
  BY <1>6, <1>7, <1>10
<1>11. CASE fill > 0
  <2>1. PaddedNum(u, x) = u \o p \o z \o x
    BY <1>6, <1>7, <1>11
  <2>2. fill \in 1 .. style.width /\ z \in Seq(T) /\ Len(z) = fill
    BY <1>2, <1>5, <1>6, <1>8, <1>9, <1>11
  <2> DEFINE q == u \o p
             s == q \o z
  <2>3. q \in Seq(T) /\ Len(q) = Len(u) + Len(p)
    BY <1>3, <1>4
  <2> HIDE DEF q
  <2>4. s \in Seq(T) /\ Len(s) = Len(q) + fill
    <3>1. Joins(s, q, z, T)
      BY <2>2, <2>3, TextsJoin, Zenon
    <3>2. s \in Seq(T) /\ Len(s) = Len(q) + Len(z)
      BY <3>1 DEF Joins
    <3> QED
      BY <2>2, <3>2
  <2> HIDE DEF s
  <2>5. Len(s \o x) = Len(s) + Len(x)
    BY <1>3, <2>4
  <2>6. Len(s \o x) = style.width
    <3> DEFINE i == Len(p)
               j == Len(u)
               k == Len(x)
               l == Len(q)
               m == Len(s)
               w == style.width
    <3>1. i \in Nat /\ j \in Nat /\ k \in Nat /\ w \in Nat /\ fill \in Int
      BY <1>2, <1>5, <1>6
    <3>2. fill = w - i - j - k /\ l = j + i /\ m = l + fill /\ Len(s \o x) = m + k
      BY <1>8, <2>3, <2>4, <2>5
    <3> HIDE DEF i, j, k, l, m, w
    <3>3. Len(s \o x) = w
      BY <3>1, <3>2
    <3> QED
      BY <3>3 DEF w
  <2> QED
    BY <2>1, <2>2, <2>6 DEF q, s, z, p
<1>12. fill <= 0 \/ fill > 0
  BY <1>6
<1> QED
  BY <1>10, <1>11, <1>12, Zenon

\* What the Formatter is given
Set == IF arg.kind = "text" THEN Padded(<<>>, Rep(Letter, arg.letters))
       ELSE PaddedNum(Sign(arg.num.neg), Text)

\* What the steps preserve of a field: the buffer holds characters, of which
\* none fills a field, and what was written is what pad or pad_num made.
FieldInv ==
  /\ style \in Styles
  /\ buf \in [0 .. Capacity - 1 -> 0 .. Unset]
  /\ phase = "digits" => arg.kind # "text"
  /\ phase = "end" => out = Set

\* A buffer in which one place is written holds characters still.
LEMMA PlaceWritten ==
  ASSUME NEW b \in [0 .. Capacity - 1 -> 0 .. Unset], NEW i, NEW c \in 0 .. Unset
  PROVE  [b EXCEPT ![i] = c] \in [0 .. Capacity - 1 -> 0 .. Unset]
OBVIOUS

\* A digit is a character.
LEMMA DigitIs ==
  ASSUME NEW v \in 0 .. MaxValue, NEW base \in Bases
  PROVE  v % base \in 0 .. Unset
<1>1. v \in Nat
  BY MaxIsNat
<1>2. v % base \in 0 .. base - 1
  BY <1>1 DEF Bases
<1> QED
  BY <1>2 DEF Bases, Unset

\* What is written into the buffer are characters.
LEMMA IntoHolds ==
  ASSUME IInv, Into, buf \in [0 .. Capacity - 1 -> 0 .. Unset]
  PROVE  buf' \in [0 .. Capacity - 1 -> 0 .. Unset]
<1> DEFINE h == Head(todo)
<1>1. CASE WriteChars
  <2>1. h \in Planned /\ h.op = "chars"
    BY <1>1, OtherPlanned DEF WriteChars
  <2>2. h.val \in 0 .. Unset
    BY <2>1 DEF Planned
  <2>3. buf' = buf \/ buf' = [i \in DOMAIN buf |-> IF i >= len /\ i < len + h.cnt THEN h.val ELSE buf[i]]
    BY <1>1 DEF WriteChars
  <2> HIDE DEF h
  <2> QED
    BY <2>2, <2>3
<1>2. CASE Reserve
  BY <1>2 DEF Reserve
<1>3. CASE LoopTwo
  <2>1. h \in Begun /\ h.base = 10
    BY <1>3, LoopBegun DEF LoopTwo
  <2>2. h.val \in 0 .. MaxValue /\ 10 \in Bases
    BY <2>1 DEF Begun, Bases
  <2>3. h.val \div 10 \in Nat
    BY <2>2, MaxIsNat
  <2> DEFINE c == h.val % 10
             d == (h.val \div 10) % 10
             b == [buf EXCEPT ![h.at - 1] = c]
  <2>4. c \in 0 .. Unset /\ d \in 0 .. Unset
    <3>1. c \in 0 .. Unset
      BY <2>2, DigitIs
    <3>2. d \in 0 .. Unset
      BY <2>3 DEF Unset
    <3> QED
      BY <3>1, <3>2
  <2>5. buf' = [b EXCEPT ![h.at - 2] = d]
    BY <1>3 DEF LoopTwo
  <2> HIDE DEF h, c, d
  <2>6. b \in [0 .. Capacity - 1 -> 0 .. Unset]
    BY <2>4, PlaceWritten
  <2> HIDE DEF b
  <2> QED
    BY <2>4, <2>5, <2>6, PlaceWritten
<1>4. CASE LoopOne
  <2>1. h \in Begun
    BY <1>4, LoopBegun DEF LoopOne
  <2>2. h.val \in 0 .. MaxValue /\ h.base \in Bases
    BY <2>1 DEF Begun
  <2> DEFINE c == h.val % h.base
  <2>3. c \in 0 .. Unset
    BY <2>2, DigitIs
  <2>4. buf' = [buf EXCEPT ![h.at - 1] = c]
    BY <1>4 DEF LoopOne
  <2> HIDE DEF h, c
  <2> QED
    BY <2>3, <2>4, PlaceWritten
<1> QED
  BY <1>1, <1>2, <1>3, <1>4 DEF Into

\* Nothing was written into the field at first.
LEMMA InitField == Init => FieldInv
BY DEF Init, InitInto, FieldInv, Unset

\* What was written into a field stays there.
LEMMA SetStays ==
  ASSUME UNCHANGED <<arg, style, buf, len>>
  PROVE  Set' = Set
BY DEF Set, Padded, PaddedNum, Sign, Prefix, Text

\* Every step keeps what is known of a field.
LEMMA NextField ==
  ASSUME IInv, FieldInv, [Next]_vars
  PROVE  FieldInv'
<1>1. /\ style \in Styles /\ buf \in [0 .. Capacity - 1 -> 0 .. Unset]
      /\ phase = "digits" => arg.kind # "text"
      /\ phase = "end" => out = Set
  BY DEF FieldInv
<1>2. CASE Begin
  <2>1. style' = style /\ buf' = buf /\ phase' = "digits" /\ arg' = arg /\ arg.kind # "text"
    BY <1>2 DEF Begin
  <2> QED
    BY <1>1, <2>1 DEF FieldInv
<1>3. CASE Write
  <2>1. style' = style /\ Into /\ phase = "digits" /\ phase' = phase /\ arg' = arg
    BY <1>3 DEF Write
  <2>2. buf' \in [0 .. Capacity - 1 -> 0 .. Unset]
    BY <1>1, <2>1, IntoHolds
  <2> QED
    BY <1>1, <2>1, <2>2 DEF FieldInv
<1>4. CASE PadNum
  <2>1. style' = style /\ buf' = buf /\ UNCHANGED <<arg, style, buf, len>> /\ out' = PaddedNum(Sign(arg.num.neg), Text)
        /\ phase = "digits" /\ phase' = "end"
    BY <1>4 DEF PadNum, intoVars
  <2>2. arg.kind # "text"
    BY <1>1, <2>1
  <2>3. out' = Set
    BY <2>1, <2>2 DEF Set
  <2>4. Set' = Set
    BY <2>1, SetStays
  <2> QED
    BY <1>1, <2>1, <2>3, <2>4 DEF FieldInv
<1>5. CASE PadText
  <2>1. style' = style /\ buf' = buf /\ UNCHANGED <<arg, style, buf, len>> /\ out' = Padded(<<>>, Rep(Letter, arg.letters))
        /\ arg.kind = "text" /\ phase' = "end"
    BY <1>5 DEF PadText, intoVars
  <2>3. out' = Set
    BY <2>1 DEF Set
  <2>4. Set' = Set
    BY <2>1, SetStays
  <2> QED
    BY <1>1, <2>1, <2>3, <2>4 DEF FieldInv
<1>6. CASE UNCHANGED vars
  <2>1. style' = style /\ buf' = buf /\ UNCHANGED <<arg, style, buf, len>> /\ phase' = phase /\ out' = out
    BY <1>6 DEF vars, intoVars
  <2>2. Set' = Set
    BY <2>1, SetStays
  <2> QED
    BY <1>1, <2>1, <2>2 DEF FieldInv
<1> QED
  BY <1>2, <1>3, <1>4, <1>5, <1>6 DEF Next

\* A sign fills no field.
LEMMA SignIs ==
  ASSUME style \in Styles, arg \in Args, arg.kind # "text"
  PROVE  Sign(arg.num.neg) \in Seq(Plain)
<1> DEFINE T == Plain
           neg == arg.num.neg
<1>1. Minus \in T /\ Plus \in T /\ Space \in T
  BY DEF Plain, Minus, Plus, Space, Letter
<1>2. style.sign \in {"+", "-", " "}
  BY StylesAssumption
<1>3. neg \in BOOLEAN
  <2>1. arg.num \in Ints \/ arg.num \in Floats
    BY DEF Args
  <2>2. CASE arg.num \in Ints
    BY <2>2, NumbersAssumption
  <2>3. CASE arg.num \in Floats
    BY <2>3, NumbersAssumption
  <2> QED
    BY <2>1, <2>2, <2>3
<1> HIDE DEF T, neg
<1>4. Sign(neg) = <<Minus>> \/ Sign(neg) = <<Plus>> \/ Sign(neg) = <<Space>> \/ Sign(neg) = <<>>
  <2>1. CASE neg
    BY <2>1 DEF Sign
  <2>2. CASE ~neg
    BY <1>2, <2>2 DEF Sign
  <2> QED
    BY <2>1, <2>2
<1>5. <<Minus>> \in Seq(T) /\ <<Plus>> \in Seq(T) /\ <<Space>> \in Seq(T) /\ <<>> \in Seq(T)
  BY <1>1
<1>6. Sign(neg) \in Seq(T)
  BY <1>4, <1>5
<1> QED
  BY <1>6 DEF T, neg

\* Nor does what was written of a number.
LEMMA TextIsPlain ==
  ASSUME IInv, buf \in [0 .. Capacity - 1 -> 0 .. Unset]
  PROVE  Text \in Seq(Plain)
<1>1. len \in Nat /\ len < Capacity
  BY LenInt
<1>2. ASSUME NEW i \in 1 .. len PROVE buf[i - 1] \in Plain
  <2>1. i - 1 \in 0 .. Capacity - 1
    BY <1>1, IntoStrAssumption
  <2>2. buf[i - 1] \in 0 .. Unset
    BY <2>1
  <2> QED
    BY <2>2 DEF Plain, Unset, Letter
<1> QED
  BY <1>1, <1>2 DEF Text

\* pad and pad_num (src/sfc/core/fmt.cc) fill a field as its style says, for
\* every number below 2^31, every text and every style: it is as wide as its
\* style or what it holds, it holds the sign and the body and nothing else,
\* and what fills it stands on the side that the alignment says, or, centered,
\* on both sides with a difference of one at most.
THEOREM FieldsFilled == Spec => []FieldFilled
<1>1. IInv /\ FieldInv => FieldFilled
  <2> SUFFICES ASSUME IInv, FieldInv, phase = "end" PROVE FieldFilled
    BY DEF FieldFilled
  <2>1. style \in Styles /\ arg \in Args /\ out = Set /\ buf \in [0 .. Capacity - 1 -> 0 .. Unset]
    BY DEF FieldInv, IInv
  <2>2. CASE arg.kind = "text"
    <3> DEFINE x == Rep(Letter, arg.letters)
    <3>1. x \in Seq(Plain) /\ <<>> \in Seq(Plain)
      <4>1. Letter \in Plain
        BY DEF Plain, Letter
      <4>2. arg.letters \in Nat
        BY <2>1, <2>2 DEF Args
      <4>3. x \in Seq(Plain)
        BY <4>1, <4>2, RepIs
      <4> QED
        BY <4>3
    <3>2. out = Padded(<<>>, x)
      BY <2>1, <2>2 DEF Set
    <3> HIDE DEF x
    <3>3. IsSet(out, <<>>, x)
      BY <2>1, <3>1, <3>2, PaddedSet
    <3> QED
      BY <2>2, <3>3 DEF FieldFilled, IsSet, x
  <2>3. CASE arg.kind # "text"
    <3> DEFINE u == Sign(arg.num.neg)
               x == Text
    <3>1. u \in Seq(Plain) /\ x \in Seq(Plain)
      BY <2>1, <2>3, SignIs, TextIsPlain
    <3>2. out = PaddedNum(u, x)
      BY <2>1, <2>3 DEF Set
    <3>3. CASE Prefix = <<>>
      <4>1. out = Padded(u, x)
        BY <3>2, <3>3 DEF PaddedNum
      <4> HIDE DEF u, x
      <4>2. IsSet(out, u, x)
        BY <2>1, <3>1, <4>1, PaddedSet
      <4> QED
        BY <2>3, <3>3, <4>2 DEF FieldFilled, IsSet, u, x
    <3>4. CASE Prefix # <<>>
      <4> HIDE DEF u, x
      <4>1. \/ out = u \o x
            \/ /\ Len(out) = style.width
               /\ \E n \in 1 .. style.width : out = u \o Prefix \o Rep(Zero, n) \o x
        BY <2>1, <3>1, <3>2, <3>4, PrefixFills
      <4> QED
        BY <2>3, <3>4, <4>1 DEF FieldFilled, u, x
    <3> QED
      BY <3>3, <3>4
  <2> QED
    BY <2>2, <2>3
<1> QED
  BY <1>1, InitIInv, NextIInv, InitField, NextField, PTL DEF Spec
=============================================================================
