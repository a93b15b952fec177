---------------------------- MODULE NumberFormat ----------------------------
(***************************************************************************)
(* Debug<T>::format of integers and floats (src/sfc/core/num.cc), and      *)
(* Formatter::pad_num and pad (src/sfc/core/fmt.cc): a number is written   *)
(* into an IntoStr and set into a field by the Style of its placeholder.   *)
(*                                                                         *)
(* A float is its whole part and its fraction in parts of 1000: what the   *)
(* arithmetic of f64 rounds is not modelled.  Left out: the least value of *)
(* a signed type, whose abs is undefined, and 0 in a base other than 10,   *)
(* whose clz is.                                                           *)
(***************************************************************************)
EXTENDS IntoStr, FiniteSets

CONSTANTS
  Ints,       \* the integers that are written: [neg, val]
  Floats,     \* the floats that are written: [neg, whole, frac]
  Precisions, \* their precisions
  Styles      \* [width, align, sign, prefix], prefix being whether it has a '#'

Minus == 19
Plus == 20
Space == 21
Letter == 22
Fill == 23    \* the fill character of a style
Zero == 0

\* Numbers below 2^31, also a hundredfold, and fractions that stay there
\* when they are scaled.
ASSUME NumbersAssumption ==
  /\ Ints \subseteq [neg : BOOLEAN, val : 0 .. MaxValue]
  /\ Floats \subseteq [neg : BOOLEAN, whole : 0 .. MaxValue \div 100 - 1, frac : 0 .. 999]
  /\ Precisions \subseteq 0 .. 6

\* A style has one of the alignments and signs that it is parsed for.
ASSUME StylesAssumption ==
  Styles \subseteq [width : Nat, align : {"none", "<", ">", "^", "="}, sign : {"+", "-", " "},
                   prefix : BOOLEAN]

VARIABLES
  phase,      \* "begin", "digits", "pad", "end"
  arg,        \* the number
  style,      \* the Formatter's _style
  out         \* what was written to the Formatter's _out

vars == <<intoVars, phase, arg, style, out>>

Args ==
  [kind : {"int"}, num : Ints, base : {10}]
    \cup [kind : {"int"}, num : {n \in Ints : n.val > 0}, base : {2, 8, 16}]
    \cup [kind : {"flt"}, num : Floats, type : {"f", "g", "%"}, precision : Precisions]
    \cup [kind : {"text"}, letters : 0 .. 3]

Init ==
  /\ InitInto
  /\ phase = "begin"
  /\ arg \in Args
  /\ style \in Styles
  /\ out = <<>>

\* '%' shows a float 100 times as large.
Whole(a) == IF a.type = "%" THEN a.num.whole * 100 + a.num.frac \div 10 ELSE a.num.whole
Frac(a) == IF a.type = "%" THEN (a.num.frac % 10) * 100 ELSE a.num.frac

\* The parts of a number
Parts(a) ==
  CASE a.kind = "int" -> <<Digits(a.num.val, a.base)>>
    [] a.kind = "flt" /\ a.type = "f" -> Fixed(Whole(a), Frac(a), a.precision)
    [] a.kind = "flt" /\ a.type = "g" -> General(Whole(a), Frac(a), a.precision)
    [] a.kind = "flt" /\ a.type = "%" ->
         Fixed(Whole(a), Frac(a), a.precision) \o <<Chars(Percent, 1)>>

\* Style::sign
Sign(neg) ==
  CASE neg -> <<Minus>>
    [] ~neg /\ style.sign = "+" -> <<Plus>>
    [] ~neg /\ style.sign = " " -> <<Space>>
    [] ~neg /\ style.sign = "-" -> <<>>

\* Style::prefix, of numbers in a base
Prefix ==
  CASE style.prefix /\ arg.kind = "int" /\ arg.base \in {2, 16} -> <<Zero, Letter>>
    [] style.prefix /\ arg.kind = "int" /\ arg.base = 8 -> <<Zero>>
    [] OTHER -> <<>>

Rep(c, n) == [i \in 1 .. n |-> c]

(***************************************************************************)
(* Faulty forms of the operations below.                                   *)
(***************************************************************************)

\* The two halves of an odd fill are rounded alike.
PaddedHalves(sign, body) ==
  LET fill == style.width - Len(sign) - Len(body) IN
  IF fill <= 0 THEN sign \o body
  ELSE CASE style.align = "<" -> sign \o body \o Rep(Fill, fill)
         [] style.align = "^" -> Rep(Fill, fill \div 2) \o sign \o body \o Rep(Fill, fill \div 2)
         [] style.align = "=" -> sign \o Rep(Fill, fill) \o body
         [] OTHER -> Rep(Fill, fill) \o sign \o body

(***************************************************************************)
(* The operations                                                          *)
(***************************************************************************)

\* A body with its sign, set into the field
Padded(sign, body) ==
  LET fill == style.width - Len(sign) - Len(body) IN
  IF fill <= 0 THEN sign \o body
  ELSE CASE style.align = "<" -> sign \o body \o Rep(Fill, fill)
         [] style.align = "^" -> Rep(Fill, fill \div 2) \o sign \o body \o Rep(Fill, (fill + 1) \div 2)
         [] style.align = "=" -> sign \o Rep(Fill, fill) \o body
         [] OTHER -> Rep(Fill, fill) \o sign \o body

\* A prefix is written, with zeros, into a field that has room for more.
PaddedNum(sign, body) ==
  LET fill == style.width - Len(Prefix) - Len(sign) - Len(body) IN
  CASE Prefix = <<>> -> Padded(sign, body)
    [] Prefix # <<>> /\ fill <= 0 -> sign \o body
    [] Prefix # <<>> /\ fill > 0 -> sign \o Prefix \o Rep(Zero, fill) \o body

\* format of a number: an empty IntoStr, and the parts to write into it
Begin ==
  /\ phase = "begin" /\ arg.kind # "text"
  /\ todo' = Parts(arg)
  /\ phase' = "digits"
  /\ UNCHANGED <<buf, len, wild, arg, style, out>>

\* What is written outside the buffer ends what the model says.
Write ==
  /\ phase = "digits" /\ ~wild
  /\ Into
  /\ UNCHANGED <<phase, arg, style, out>>

\* pad_num
PadNum ==
  /\ phase = "digits" /\ ~wild /\ todo = <<>>
  /\ out' = PaddedNum(Sign(arg.num.neg), Text)
  /\ phase' = "end"
  /\ UNCHANGED <<intoVars, arg, style>>

\* pad, of a text of so many letters: '=' is '>' for it, as it has no sign.
PadText ==
  /\ phase = "begin" /\ arg.kind = "text"
  /\ out' = Padded(<<>>, Rep(Letter, arg.letters))
  /\ phase' = "end"
  /\ UNCHANGED <<intoVars, arg, style>>

Next == Begin \/ Write \/ PadNum \/ PadText

Spec == Init /\ [][Next]_vars
-----------------------------------------------------------------------------
\* The most digits of a number below 2^31, and the least number of n digits
MostDigits(base) == CASE base = 2 -> 31 [] base = 8 -> 11 [] base = 10 -> 10 [] base = 16 -> 8
Least(base, n) == IF base = 10 THEN Powers10[n] ELSE Powers2[BitsOf(base) * (n - 1) + 1]

\* v has n digits in a base.
HasDigits(v, base, n) ==
  /\ n \in 1 .. MostDigits(base)
  /\ n > 1 => Least(base, n) <= v
  /\ n < MostDigits(base) => v < Least(base, n + 1)

\* A digit loop has as many places left as the number it has left has digits:
\* it ends at the first place of the room that was reserved, after a count
\* that was made another way (by the leading zeros, and for base 10 by a
\* rational for the logarithm of 2 and a table), and never before it.
LoopFits ==
  todo # <<>> /\ Head(todo).op = "loop" =>
    LET h == Head(todo) IN
      /\ h.at <= len + h.cnt /\ len + h.cnt < Capacity
      /\ HasDigits(h.val, h.base, h.at - len)

\* s is v in a base, with as many digits as v has: the last is worth 1, and
\* each one the base times what the next is worth.
Shows(s, v, base) == \A i \in DOMAIN s : s[i] = (v \div Least(base, Len(s) - i + 1)) % base
Spells(s, v, base) == HasDigits(v, base, Len(s)) /\ Shows(s, v, base)

\* The places after the dot: as many as a precision asks for
Places(a) ==
  CASE a.type \in {"f", "%"} -> a.precision
    [] a.type = "g" ->
         LET n == CHOOSE n \in 1 .. 10 : HasDigits(a.num.whole, 10, n) IN
         IF n < a.precision THEN a.precision - n ELSE 0

\* The fraction rounds up to 1.
RoundsUp(a) ==
  a.kind = "flt" /\ Places(a) > 0 /\ Rounded(Frac(a), Places(a)) = Powers10[Places(a) + 1]

\* s is the float, with so many places, of which the first may be zeros.
SpellsFloat(s, places) ==
  IF places = 0 THEN Spells(s, Whole(arg), 10)
  ELSE \E k \in 2 .. Len(s) :
         /\ s[k] = Dot /\ Len(s) = k + places
         /\ Spells(SubSeq(s, 1, k - 1), Whole(arg), 10)
         /\ Rounded(Frac(arg), places) < Powers10[places + 1]
         /\ Shows(SubSeq(s, k + 1, Len(s)), Rounded(Frac(arg), places), 10)

\* What is written of a number is that number, in its base and with the
\* places asked for, all of it inside the buffer.
Spelled ==
  /\ ~wild
  /\ phase = "digits" /\ todo = <<>> =>
       CASE arg.kind = "int" -> Spells(Text, arg.num.val, arg.base)
         [] arg.kind = "flt" /\ arg.type # "%" -> SpellsFloat(Text, Places(arg))
         [] arg.kind = "flt" /\ arg.type = "%" ->
              Text # <<>> /\ Text[Len(Text)] = Percent
              /\ SpellsFloat(SubSeq(Text, 1, Len(Text) - 1), Places(arg))

\* The tests of test/sfc/core/fmt.cxx (fmt_flt) read floats with the places
\* they ask for.
FloatsSpelled == arg.kind = "flt" => Spelled

\* Every number but a float whose fraction rounds up to 1 is spelled.
NumbersSpelled == ~RoundsUp(arg) => Spelled

\* What s holds besides the fill character of a field
Held(s) ==
  LET f[i \in 0 .. Len(s)] ==
        IF i = 0 THEN <<>> ELSE IF s[i] = Fill THEN f[i - 1] ELSE Append(f[i - 1], s[i])
  IN f[Len(s)]

\* A field is as wide as its style says or as what it holds, whichever is
\* more; it holds all of it, and nothing between sign and body unless the
\* style says so.  (A prefix is left out when the field has no room for it.)
FieldFilled ==
  phase = "end" =>
    LET sign == IF arg.kind = "text" THEN <<>> ELSE Sign(arg.num.neg)
        body == IF arg.kind = "text" THEN Rep(Letter, arg.letters) ELSE Text
        held == Held(out)
        fills == {i \in DOMAIN out : out[i] = Fill}
    IN IF arg.kind # "text" /\ Prefix # <<>>
       THEN \/ out = sign \o body
            \/ /\ Len(out) = style.width
               /\ \E n \in 1 .. style.width : out = sign \o Prefix \o Rep(Zero, n) \o body
       ELSE /\ held = sign \o body
            /\ Len(out) = IF style.width > Len(held) THEN style.width ELSE Len(held)
            /\ style.align # "=" =>
                 \E i \in 0 .. Len(out) - Len(held) :
                   /\ SubSeq(out, i + 1, i + Len(held)) = held
                   /\ style.align = "<" => i = 0
                   /\ style.align \in {">", "none"} => i = Cardinality(fills)
                   /\ style.align = "^" => Cardinality(fills) - 2 * i \in {0, 1}
            /\ style.align = "=" => fills = Len(sign) + 1 .. Len(out) - Len(body)
=============================================================================
