------------------------------- MODULE Format -------------------------------
(***************************************************************************)
(* fmt::Formatter (src/sfc/core/fmt.h, fmt.cc): placeholders are read into *)
(* a Style, templates are filled with arguments, and the boxes of lists,   *)
(* tuples, dicts and structs are written.  Numbers in fields are           *)
(* NumberFormat's; an argument here is a text or a box of arguments.       *)
(***************************************************************************)
EXTENDS Str

(***************************************************************************)
(* Style                                                                   *)
(***************************************************************************)

\* The characters by style_kind; all others are types.
AlignChars == {"<", ">", "^", "="}
SignChars == {"+", "-", " "}

NoStyle == [fill |-> "", align |-> "", sign |-> "", prefix |-> "", point |-> "", type |-> "",
            width |-> 0, precision |-> 0]

Kind(c) ==
  CASE c \in AlignChars -> "align"
    [] c \in SignChars -> "sign"
    [] c = "#" -> "prefix"
    [] c = "." -> "point"
    [] c \in DOMAIN Digit -> "number"
    [] c = "{" -> "begin"
    [] c = "}" -> "end"
    [] OTHER -> "type"

\* The code reads through a pointer into the template, whose end is a NUL.
At(s, i) == IF i <= Len(s) THEN s[i] ELSE "\\0"

\* The digits from i on: where they end, and their number in a u8
PastNumber(s, i) == Min({j \in i .. Len(s) + 1 : Kind(At(s, j)) # "number"})
NumberAt(s, i) ==
  LET f[j \in i - 1 .. PastNumber(s, i) - 1] ==
        IF j < i THEN 0 ELSE f[j - 1] * 10 + Digit[s[j]]
  IN f[PastNumber(s, i) - 1] % 256

\* Style::from_str, of what begins at i: [[fill]align][sign][#][width][.precision][type].
\* The character after the first is looked at first, even when that is past
\* the end of the placeholder.
ReadStyle(s, i) ==
  LET filled == Kind(At(s, i + 1)) = "align"
      aligned == ~filled /\ Kind(At(s, i)) = "align"
      a == i + (IF filled THEN 2 ELSE IF aligned THEN 1 ELSE 0)
      signed == Kind(At(s, a)) = "sign"
      b == IF signed THEN a + 1 ELSE a
      prefixed == Kind(At(s, b)) = "prefix"
      c == IF prefixed THEN b + 1 ELSE b
      d == PastNumber(s, c)
      pointed == Kind(At(s, d)) = "point"
      e == IF pointed THEN PastNumber(s, d + 1) ELSE d
  IN [fill |-> IF filled THEN At(s, i) ELSE "",
      align |-> IF filled THEN At(s, i + 1) ELSE IF aligned THEN At(s, i) ELSE "",
      sign |-> IF signed THEN At(s, a) ELSE "",
      prefix |-> IF prefixed THEN "#" ELSE "",
      width |-> NumberAt(s, c),
      point |-> IF pointed THEN "." ELSE "",
      precision |-> IF pointed THEN NumberAt(s, d + 1) ELSE 0,
      type |-> IF Kind(At(s, e)) = "type" THEN At(s, e) ELSE ""]

(***************************************************************************)
(* Fields and boxes                                                        *)
(***************************************************************************)

Times(c, n) == [k \in 1 .. n |-> c]

\* Formatter::pad
Pad(style, s) ==
  LET n == style.width - Len(s)
      fill(k) == Times(IF style.fill = "" THEN " " ELSE style.fill, k)
  IN IF n <= 0 THEN s
     ELSE CASE style.align = "<" -> s \o fill(n)
            [] style.align = "^" -> fill(n \div 2) \o s \o fill((n + 1) \div 2)
            [] OTHER -> fill(n) \o s

Brackets == [tuple |-> <<"(", ")">>, list |-> <<"[", "]">>, dict |-> <<"{", "}">>, struct |-> <<"{", "}">>]

\* What comes before the value of an entry
KeyText(kind, key) ==
  CASE kind = "dict" -> <<"\"">> \o key \o <<"\"", ":", " ">>
    [] kind = "struct" -> key \o <<":", " ">>
    [] OTHER -> <<>>

\* ~Box: a box with entries ends on a line of its own when it is verbose.
CloseBox(verbose, n, depth) ==
  IF n > 0 /\ verbose THEN <<"\n">> \o Times(" ", depth * 2) ELSE <<>>

\* Box::entry, before the i-th entry
OpenEntry(verbose, i, depth) ==
  IF verbose THEN (IF i = 1 THEN <<>> ELSE <<",">>) \o <<"\n">> \o Times(" ", (depth + 1) * 2)
  ELSE IF i = 1 THEN <<>> ELSE <<",", " ">>

\* Formatter::write of an argument, a record of one field: a text, or the
\* entries of a box, which are [key, val].
RECURSIVE Shown(_, _, _)
Shown(arg, style, depth) ==
  LET verbose == style.type = "?"
      kind == CHOOSE k \in DOMAIN arg : TRUE
      entries[i \in 0 .. Len(arg[kind])] ==
        IF i = 0 THEN <<>>
        ELSE entries[i - 1] \o OpenEntry(verbose, i, depth) \o KeyText(kind, arg[kind][i].key)
               \o Shown(arg[kind][i].val, style, depth + 1)
      n == Len(arg[kind])
  IN IF kind = "text" THEN Pad(style, arg.text)
     ELSE <<Brackets[kind][1]>> \o entries[n] \o CloseBox(verbose, n, depth) \o <<Brackets[kind][2]>>

(***************************************************************************)
(* Templates                                                               *)
(***************************************************************************)

\* pad_fmt's find, by index from 0: of two of the character in a row it is the
\* second that counts; the length when there is none.
FindBrace(s, c, from) ==
  LET at == {i \in from .. Len(s) - 1 : s[i + 1] = c}
  IN IF at = {} THEN Len(s)
     ELSE IF Min(at) + 1 < Len(s) /\ s[Min(at) + 2] = c THEN Min(at) + 1 ELSE Min(at)

\* Faulty form of PadFmt: the second brace is sought from the beginning.
PadFmtFromStart(s) ==
  LET n == Len(s) p == FindBrace(s, "{", 0) q == FindBrace(s, "}", 0)
  IN IF q = n THEN [out |-> s, style |-> NoStyle, rest |-> <<>>]
     ELSE [out |-> Cut(s, 0, p), style |-> ReadStyle(s, p + 2), rest |-> Cut(s, q + 1, n)]

\* pad_fmt: the text before the next placeholder, its style, and what is left.
\* Without a placeholder all of it is written.
PadFmt(s) ==
  LET n == Len(s) p == FindBrace(s, "{", 0) q == FindBrace(s, "}", p)
  IN IF q = n THEN [out |-> s, style |-> NoStyle, rest |-> <<>>]
     ELSE [out |-> Cut(s, 0, p), style |-> ReadStyle(s, p + 2), rest |-> Cut(s, q + 1, n)]

\* Args::format: a placeholder for each argument, then what is left, in the
\* style that the Formatter had.
Filled(template, args, style) ==
  LET f[i \in 0 .. Len(args)] ==
        IF i = 0 THEN [out |-> <<>>, rest |-> template]
        ELSE LET x == PadFmt(f[i - 1].rest)
             IN [out |-> f[i - 1].out \o x.out \o Shown(args[i], x.style, 0), rest |-> x.rest]
  IN [out |-> f[Len(args)].out \o f[Len(args)].rest, style |-> style]
=============================================================================
