--------------------------------- MODULE Str ---------------------------------
(***************************************************************************)
(* str::Str (src/sfc/core/str.h, str.cc) over Slice and its iterator, and  *)
(* num::Parser (src/sfc/core/num.cc).  A text is a sequence of characters; *)
(* a pattern is a text, a character, or a predicate, which is the set of   *)
(* the characters it holds for.  A result is an Option, or a panic.        *)
(***************************************************************************)
EXTENDS Integers, Sequences, FiniteSetsExt

None == [tag |-> "none"]
Some(x) == [tag |-> "some", it |-> x]
Panic == [tag |-> "panic"]

(***************************************************************************)
(* Slice, and its iterator                                                 *)
(***************************************************************************)

\* operator[](Range): both ends are cut to the length.
Cut(s, start, end) ==
  LET least(x) == IF x < Len(s) THEN x ELSE Len(s)
  IN SubSeq(s, least(start) + 1, least(end))

SplitAt(s, mid) == <<Cut(s, 0, mid), Cut(s, mid, Len(s))>>

\* Iter::find and rfind: the index of the first, or last, item of a set.
Indices(s, set) == {i \in 0 .. Len(s) - 1 : s[i + 1] \in set}
IterFind(s, set) == IF Indices(s, set) = {} THEN None ELSE Some(Min(Indices(s, set)))

(***************************************************************************)
(* Patterns and their searchers                                            *)
(***************************************************************************)

StrPat(text) == [kind |-> "str", text |-> text]
CharPat(c) == [kind |-> "char", set |-> {c}]
PredPat(set) == [kind |-> "pred", set |-> set]

\* Faulty form of Finger: a place too few.
FingerShort(p, s) ==
  CASE p.kind = "pred" -> Len(s) - 1
    [] p.kind = "char" -> Len(s)
    [] p.kind = "str" -> IF Len(s) > Len(p.text) THEN Len(s) - Len(p.text) ELSE 0

\* Pattern::searcher: where _finger_back is at first.  That of a predicate is
\* one too low: the last character is never looked at, and in an empty text
\* it is the highest number of a usize, and the first look panics.
Finger(p, s) ==
  CASE p.kind = "pred" -> Len(s) - 1
    [] p.kind = "char" -> Len(s)
    [] p.kind = "str" -> IF Len(s) > Len(p.text) THEN Len(s) - Len(p.text) + 1 ELSE 1

\* The pattern is found at i.
Holds(p, s, i) ==
  IF p.kind = "str" THEN Cut(s, i, i + Len(p.text)) = p.text ELSE s[i + 1] \in p.set

Hits(p, s) == {i \in 0 .. Finger(p, s) - 1 : Holds(p, s, i)}

\* next_match answers with the finger, which has passed the match.
Find(s, p) ==
  IF Finger(p, s) < 0 THEN Panic
  ELSE IF Hits(p, s) = {} THEN None ELSE Some(Min(Hits(p, s)) + 1)

Rfind(s, p) ==
  IF Finger(p, s) < 0 THEN Panic
  ELSE IF Hits(p, s) = {} THEN None ELSE Some(Max(Hits(p, s)))

StartsWith(s, p) == Finger(p, s) > 0 /\ Holds(p, s, 0)
EndsWith(s, p) == Finger(p, s) > 0 /\ Holds(p, s, Finger(p, s) - 1)

(***************************************************************************)
(* Trimming                                                                *)
(***************************************************************************)

Blank == {" ", "\t"}

\* A text of blanks alone stays as it is.
TrimStart(s) ==
  LET x == Indices(s, {s[i] : i \in DOMAIN s} \ Blank)
  IN IF x = {} THEN s ELSE Cut(s, Min(x), Len(s))

(***************************************************************************)
(* num::Parser: numbers of a width, with or without a sign                 *)
(***************************************************************************)

Digit == [c \in {"0", "1", "2", "3", "4", "5", "6", "7", "8", "9"} |->
  CHOOSE n \in 0 .. 9 : <<"0", "1", "2", "3", "4", "5", "6", "7", "8", "9">>[n + 1] = c]

\* The code of a character, as far from that of '0': below it are the blanks,
\* signs and punctuation, above the digits the letters and brackets.
FromZero(c) ==
  CASE c \in DOMAIN Digit -> Digit[c]
    [] c = "." -> -2 [] c = "-" -> -3 [] c = "," -> -4 [] c = "+" -> -5
    [] c = "/" -> -1 [] c = "\"" -> -14 [] c = " " -> -16 [] c = "\t" -> -39
    [] OTHER -> 10

\* x, in two's complement of a type that has mod values
Wrapped(x, T) ==
  LET m == x % T.mod IN IF T.signed /\ m >= T.mod \div 2 THEN m - T.mod ELSE m

\* How many characters are read: up to one that is 10 or more above '0'.  In a
\* type with a sign a character below '0' counts as a digit that is less than 0.
Digits(s, T) ==
  Min({i \in 0 .. Len(s) - 1 : Wrapped(FromZero(s[i + 1]), T) >= 10} \cup {Len(s)})

\* Faulty form of Dcm: the digit is added before the number is shifted.
DcmShiftedLate(s, T) ==
  LET n == Digits(s, T)
      res[i \in 0 .. n] == IF i = 0 THEN 0 ELSE Wrapped((res[i - 1] + FromZero(s[i])) * 10, T)
  IN IF s = <<>> THEN None ELSE Some([val |-> res[n], rest |-> Cut(s, n, Len(s))])

\* extract_dcm
Dcm(s, T) ==
  LET n == Digits(s, T)
      res[i \in 0 .. n] == IF i = 0 THEN 0 ELSE Wrapped(res[i - 1] * 10 + FromZero(s[i]), T)
  IN IF s = <<>> THEN None ELSE Some([val |-> res[n], rest |-> Cut(s, n, Len(s))])

\* extract passes a character that is in the set, and answers 0 at all times.
Extract(s, set) == IF s # <<>> /\ Head(s) \in set THEN Tail(s) ELSE s

\* extract_int: a sign is passed, and not heeded.
ExtractInt(s, T) == IF T.signed THEN Dcm(Extract(s, {"+", "-"}), T) ELSE Dcm(s, T)

\* Parser::from_str: blanks are passed, at the start alone.
Unblanked(s) ==
  LET x == {i \in DOMAIN s : s[i] \notin Blank}
  IN IF x = {} THEN <<>> ELSE SubSeq(s, Min(x), Len(s))

\* FromStr of an integer, and of a float, which is its whole part: what extract
\* answers is 0, so that neither a fraction nor an exponent counts.  (Where
\* there is no character left, there is no "inf" or "nan" either.)
ParseInt(s, T) ==
  LET x == ExtractInt(Unblanked(s), T) IN IF x = None THEN None ELSE Some(x.it.val)
ParseFlt(s, T) ==
  LET x == Dcm(Extract(Unblanked(s), {"+", "-"}), [T EXCEPT !.signed = FALSE])
  IN IF x = None THEN None ELSE Some(x.it.val)

\* The text of a number, as IntoStr writes it
DigitsOf(n) ==
  LET f[k \in 0 .. n] ==
        LET d == CHOOSE c \in DOMAIN Digit : Digit[c] = k % 10
        IN IF k < 10 THEN <<d>> ELSE Append(f[k \div 10], d)
  IN f[n]

(***************************************************************************)
(* String::push_str and truncate                                           *)
(***************************************************************************)

PushStr(s, r) == s \o r
Truncate(s, n) == Cut(s, 0, n)
=============================================================================
