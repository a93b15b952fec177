------------------------------- MODULE IntoStr -------------------------------
(***************************************************************************)
(* num::IntoStr (src/sfc/core/num.cc): the digits of a number are counted, *)
(* room for them is reserved, and they are written from the last to the    *)
(* first; of a float, the digits of its whole part, a dot, zeros, and the  *)
(* digits of its fraction.  A round of a digit loop is a step.             *)
(*                                                                         *)
(* A digit is its value, other characters are the numbers below.  Modelled *)
(* is the u32 path, for values below 2^31.                                 *)
(***************************************************************************)
EXTENDS Integers, Sequences

CONSTANTS
  Capacity,   \* IntoStr::CAPACITY
  UsizeMod    \* 2 to the width of usize

ASSUME IntoStrAssumption ==
  Capacity \in Nat \ {0} /\ UsizeMod \in Nat /\ UsizeMod > 2 * Capacity + 31

Dot == 16
Percent == 17
Unset == 18   \* a place of the buffer that was not written

VARIABLES
  buf,        \* _buf, by index
  len,        \* _len
  todo,       \* the parts of the number that are still to be written
  wild        \* was something written outside the buffer

intoVars == <<buf, len, todo, wild>>

InitInto ==
  /\ buf = [i \in 0 .. Capacity - 1 |-> Unset]
  /\ len = 0
  /\ todo = <<>>
  /\ wild = FALSE

\* 2^31 - 1
MaxValue == 2147483647

\* The powers of 2 and, as POWERS_10 of the code, of 10; the n-th entry is the
\* least number of n digits.
Powers2 ==
  <<1, 2, 4, 8, 16, 32, 64, 128, 256, 512, 1024, 2048, 4096, 8192, 16384,
    32768, 65536, 131072, 262144, 524288, 1048576, 2097152, 4194304,
    8388608, 16777216, 33554432, 67108864, 134217728, 268435456, 536870912,
    1073741824>>
Powers10 ==
  <<1, 10, 100, 1000, 10000, 100000, 1000000, 10000000, 100000000,
    1000000000>>

\* 32 - clz(v), for v from 1 on; the clz of 0 is undefined
Bits(v) == CHOOSE n \in 1 .. 31 : Powers2[n] <= v /\ (n < 31 => v < Powers2[n + 1])

(***************************************************************************)
(* Faulty forms of the operations below.                                   *)
(***************************************************************************)

\* The approximate logarithm is not corrected.
CountDcmRough(v) == 1 + (Bits(IF v % 2 = 0 THEN v + 1 ELSE v) * 1233) \div 4096

\* The digits of a pair are swapped.
LoopTwoSwapped ==
  /\ todo # <<>> /\ Head(todo).op = "loop" /\ Head(todo).base = 10 /\ Head(todo).val >= 10
  /\ LET h == Head(todo) IN
       /\ buf' = [buf EXCEPT ![h.at - 1] = (h.val \div 10) % 10, ![h.at - 2] = h.val % 10]
       /\ IF h.val >= 100
          THEN /\ todo' = <<[h EXCEPT !.val = h.val \div 100, !.at = h.at - 2]>> \o Tail(todo)
               /\ UNCHANGED len
          ELSE todo' = Tail(todo) /\ len' = len + h.cnt
  /\ UNCHANGED wild

(***************************************************************************)
(* Counting digits                                                         *)
(***************************************************************************)

\* uint_count_digits_by_dcm: 1233 / 4096 is just above the logarithm of 2,
\* and the table corrects what is one too many.
CountDcm(v) ==
  LET odd == IF v % 2 = 0 THEN v + 1 ELSE v
      k == (Bits(odd) * 1233) \div 4096
  IN IF odd < Powers10[k + 1] THEN k ELSE k + 1

\* uint_count_digits_by_bin
CountBin(v, bits) == (Bits(v) + bits - 1) \div bits

BitsOf(base) == CASE base = 2 -> 1 [] base = 8 -> 3 [] base = 16 -> 4

Count(v, base) == IF base = 10 THEN CountDcm(v) ELSE CountBin(v, BitsOf(base))

(***************************************************************************)
(* The parts of a number                                                   *)
(***************************************************************************)

Part(op, v, base, n) == [op |-> op, val |-> v, base |-> base, cnt |-> n, at |-> 0]
Digits(v, base) == Part("digits", v, base, Count(v, base))
Chars(c, n) == Part("chars", c, 0, n)

\* round((val - int_val) * 10^places), of a fraction in parts of 1000
Rounded(frac, places) == (2 * frac * Powers10[places + 1] + 1000) \div 2000

\* The dot and the places of a fraction; the zeros in front of the digits
\* are counted in usize.
Fraction(frac, places) ==
  LET v == Rounded(frac, places) IN
  <<Chars(Dot, 1), Chars(0, (places - CountDcm(v)) % UsizeMod), Digits(v, 10)>>

\* write_uflt_by_fix: the precision counts the places after the dot.
Fixed(whole, frac, precision) ==
  <<Digits(whole, 10)>> \o (IF precision = 0 THEN <<>> ELSE Fraction(frac, precision))

\* write_uflt_by_flt: the precision counts all digits.
General(whole, frac, precision) ==
  LET n == CountDcm(whole) IN
  <<Digits(whole, 10)>> \o (IF n >= precision THEN <<>> ELSE Fraction(frac, precision - n))

(***************************************************************************)
(* The steps                                                               *)
(***************************************************************************)

\* reserve: room for one character more than it will write
Fits(n) == (len + n) % UsizeMod < Capacity

\* write_chr, write_chs: all of the characters, or none if there is no room.
WriteChars ==
  /\ todo # <<>> /\ Head(todo).op = "chars"
  /\ LET n == Head(todo).cnt IN
       IF Fits(n)
       THEN /\ buf' = [i \in DOMAIN buf |->
                        IF i >= len /\ i < len + n THEN Head(todo).val ELSE buf[i]]
            /\ len' = (len + n) % UsizeMod
            /\ wild' = (len + n > Capacity)
       ELSE UNCHANGED <<buf, len, wild>>
  /\ todo' = Tail(todo)

\* write_unit_by_rev, write_uint_by_bin: the digits end where they will.
Reserve ==
  /\ todo # <<>> /\ Head(todo).op = "digits"
  /\ LET h == Head(todo) IN
       todo' = (IF Fits(h.cnt) THEN <<[h EXCEPT !.op = "loop", !.at = len + h.cnt]>> ELSE <<>>)
               \o Tail(todo)
  /\ UNCHANGED <<buf, len, wild>>

\* write_unit_by_rev: two decimal digits at a time
LoopTwo ==
  /\ todo # <<>> /\ Head(todo).op = "loop" /\ Head(todo).base = 10 /\ Head(todo).val >= 10
  /\ LET h == Head(todo) IN
       /\ buf' = [buf EXCEPT ![h.at - 1] = h.val % 10, ![h.at - 2] = (h.val \div 10) % 10]
       /\ IF h.val >= 100
          THEN /\ todo' = <<[h EXCEPT !.val = h.val \div 100, !.at = h.at - 2]>> \o Tail(todo)
               /\ UNCHANGED len
          ELSE todo' = Tail(todo) /\ len' = len + h.cnt
  /\ UNCHANGED wild

\* write_unit_by_rev with one digit left, write_uint_by_bin
LoopOne ==
  /\ todo # <<>> /\ Head(todo).op = "loop" /\ (Head(todo).base = 10 => Head(todo).val < 10)
  /\ LET h == Head(todo) IN
       /\ buf' = [buf EXCEPT ![h.at - 1] = h.val % h.base]
       /\ IF h.val >= h.base
          THEN /\ todo' = <<[h EXCEPT !.val = h.val \div h.base, !.at = h.at - 1]>> \o Tail(todo)
               /\ UNCHANGED len
          ELSE todo' = Tail(todo) /\ len' = len + h.cnt
  /\ UNCHANGED wild

Into == WriteChars \/ Reserve \/ LoopTwo \/ LoopOne

\* as_str
Text == [i \in 1 .. len |-> buf[i - 1]]
=============================================================================
