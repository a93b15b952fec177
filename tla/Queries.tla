------------------------------- MODULE Queries -------------------------------
(***************************************************************************)
(* What a program asks the library of texts, times, tests and lists: texts *)
(* are searched and read as numbers (Str), times are moved (Time), tests   *)
(* are chosen and named (Tests), and nodes are pushed into a list (Lists). *)
(* An input is chosen, and then the call it is for is made; only a list is *)
(* kept, and grows.                                                        *)
(***************************************************************************)
EXTENDS Time, Tests, Lists, SequencesExt

CONSTANTS
  Searches,   \* [text, pattern]
  Numerals,   \* [type, val, before, tail]: a number with what is around it
  Moments,    \* [at, by]: a time, in nanoseconds, and a duration
  Suites,     \* [tests, pats]: tests and the patterns that choose them
  Descs,      \* [before, mod, name, after]: the name of a test, as it is spelled
  Align, ResMod,   \* of the storage of a list
  MaxPush     \* bound: its length

Text == Seq(STRING)

\* A pattern is a text or a character; a predicate does not look at the end of
\* a text (PredPat).
SearchesAssumption ==
  \A x \in Searches :
    /\ x.text \in Text
    /\ x.pattern.kind = "char" \/ (x.pattern.kind = "str" /\ x.pattern.text \in Text)

\* A type has 8 bits or more.  A number has blanks before it and, if its type
\* has a sign, one that is a character.
NumeralsAssumption ==
  \A x \in Numerals :
    /\ x.type.mod \in Nat /\ x.type.mod >= 256 /\ x.type.mod % 2 = 0 /\ x.type.signed \in BOOLEAN
    /\ x.val \in Nat /\ x.before \in Text /\ x.tail \in Text
    /\ LET n == Len(x.before) IN
       \/ \A i \in 1 .. n : x.before[i] \in Blank
       \/ /\ x.type.signed /\ n > 0 /\ x.before[n] \in {"+", "-"}
          /\ \A i \in 1 .. n - 1 : x.before[i] \in Blank

\* Times and durations are numbers of a u64.
MomentsAssumption ==
  \A x \in Moments : x.at \in 0 .. U64 - 1 /\ x.by.secs \in Nat /\ x.by.nanos \in Nat

SuitesAssumption ==
  \A x \in Suites :
    x.tests \in Seq([mod : Text, throws : BOOLEAN]) /\ x.pats \in Seq(Text)

\* The name of a module ends with a colon, that of a test has none; and one that
\* nothing stands before does not begin like what compilers put there.
DescsAssumption ==
  \A x \in Descs :
    /\ x.mod \in Text /\ (x.mod # <<>> => x.mod[Len(x.mod)] = ":")
    /\ x.name \in Text /\ \A i \in 1 .. Len(x.name) : x.name[i] # ":"
    /\ \/ x.before \in {<<"g">>, <<"m">>} /\ x.after = <<"]">>
       \/ x.before = <<>> /\ x.after = <<>> /\ \A s \in {x.mod, x.name} : s # <<>> => s[1] \notin {"g", "m"}

ASSUME QueriesAssumption ==
  /\ TimeAssumption
  /\ {Align, ResMod} \subseteq Nat \ {0}
  /\ SearchesAssumption /\ NumeralsAssumption /\ MomentsAssumption
  /\ SuitesAssumption /\ DescsAssumption

VARIABLES
  input,      \* what is asked, by kind
  answer      \* what the call returned, once it was made

queryVars == <<input, answer>>

Unasked == [tag |-> "unasked"]

Queried ==
  [search : Searches] \cup [number : Numerals] \cup [time : Moments] \cup [suite : Suites] \cup [desc : Descs]
    \cup [list : {Fresh}]

QueriesInit == input \in Queried /\ answer = Unasked

Is(kind) == DOMAIN input = {kind}
Ask(kind) == Is(kind) /\ answer = Unasked /\ UNCHANGED input

\* Str::find, rfind, starts_with, ends_with
Searched(x) ==
  [find |-> Find(x.text, x.pattern), rfind |-> Rfind(x.text, x.pattern),
   starts |-> StartsWith(x.text, x.pattern), ends |-> EndsWith(x.text, x.pattern)]
Search == Ask("search") /\ answer' = Searched(input.search)

\* Str::parse
NumeralText(x) == x.before \o DigitsOf(x.val) \o x.tail
ParseNumber == Ask("number") /\ answer' = ParseInt(NumeralText(input.number), input.number.type)

\* Instant and System, and as_millis_u32
Moved(x) ==
  LET t == FromNanos(x.at)
  IN [plus |-> Plus(t, x.by), minus |-> Minus(t, x.by), system |-> SystemMinus(t, x.by), millis |-> AsMillis(x.by)]
MoveTime == Ask("time") /\ answer' = Moved(input.time)

\* Manager::run
RunSuite == Ask("suite") /\ answer' = Run(input.suite.tests, input.suite.pats)

\* Test::from
DescText(x) == x.before \o x.mod \o x.name \o <<"t">> \o x.after
NameTest == Ask("desc") /\ answer' = From(DescText(input.desc))

\* List::push
PushNode ==
  /\ Is("list") /\ input.list.len < MaxPush
  /\ input' = [input EXCEPT !.list = Stored(@, Align, ResMod)]
  /\ UNCHANGED answer

QueriesNext == Search \/ ParseNumber \/ MoveTime \/ RunSuite \/ NameTest \/ PushNode

QueriesSpec == QueriesInit /\ [][QueriesNext]_queryVars

Answered(kind) == Is(kind) /\ answer # Unasked
-----------------------------------------------------------------------------
\* Where p is found in s: read off the text
Size(p) == IF p.kind = "str" THEN Len(p.text) ELSE 1
Matches(s, p) ==
  {i \in 0 .. Len(s) - Size(p) :
    IF p.kind = "str" THEN SubSeq(s, i + 1, i + Len(p.text)) = p.text ELSE s[i + 1] \in p.set}

\* The fingers of a searcher move over every place where a text or a character
\* can be, and over no other: rfind answers with the last place, find with one
\* after the first, and starts_with and ends_with look at the right ends.
SearchesAgree ==
  Answered("search") =>
    LET s == input.search.text p == input.search.pattern at == Matches(s, p)
    IN /\ answer.rfind = IF at = {} THEN None ELSE Some(Max(at))
       /\ answer.find = IF at = {} THEN None ELSE Some(Min(at) + 1)
       /\ answer.starts <=> 0 \in at
       /\ answer.ends <=> Len(s) - Size(p) \in at

\* Parsing a number is the inverse of writing it, up to the highest of its
\* type, with blanks and a plus before it and with what cannot belong to it
\* behind: for a type with a sign that is nothing whose code is below '0'.
\* (A minus is read over, and what is too large wraps.)
NumbersReadBack ==
  Answered("number") =>
    LET x == input.number
        stops == x.tail = <<>> \/ (x.tail[1] \notin DOMAIN Digit
                                   /\ (x.type.signed => FromZero(x.tail[1]) >= 10))
    IN stops /\ x.val = Wrapped(x.val, x.type) => answer = Some(x.val)

\* A time that is moved by a duration is that duration away, and back where it
\* was when it is moved back, also past the end of a u64; so is a System that
\* was moved on, while operator- moves it on as well.  A duration is rounded to
\* the next millisecond, unless it is too long for a u32 of them, or within
\* half of one from the end of a u64.
TimesAddUp ==
  Answered("time") =>
    LET t == FromNanos(input.time.at) d == input.time.by
        apart == answer.millis * NanosPerMilli - TotalNanos(d)
    IN /\ TotalNanos(DurationSince(answer.plus, t)) = TotalNanos(d)
       /\ TotalNanos(DurationSince(t, answer.minus)) = TotalNanos(d)
       /\ Minus(answer.plus, d) = t /\ Plus(answer.minus, d) = t
       /\ answer.system = answer.plus
       /\ TotalNanos(d) < NanosPerMilli * U32Max /\ TotalNanos(d) + NanosPerMilli \div 2 < U64 =>
            2 * apart <= NanosPerMilli /\ 2 * apart > -NanosPerMilli
       /\ answer.millis <= U32Max

\* A module is chosen by the last of the longest masks it begins with, and by
\* default; a test that fails changes nothing for those after it; and a test
\* has the module and the name it was spelled with.
TestsChosen ==
  /\ Answered("suite") /\ answer # Panic =>
       \A i \in DOMAIN input.suite.tests :
         LET test == input.suite.tests[i] pats == input.suite.pats
             fits == {k \in DOMAIN pats : Head(pats[k]) \in {"+", "-"} /\ IsPrefix(Tail(pats[k]), test.mod)}
             best == {k \in fits : \A j \in fits : Len(pats[j]) <= Len(pats[k])}
         IN answer.it[i] = IF best # {} /\ Head(pats[Max(best)]) = "-" THEN "left out"
                           ELSE IF test.throws THEN "failed" ELSE "ok"
  /\ Answered("desc") => answer = [mod |-> input.desc.mod, name |-> input.desc.name]

\* The vector that push rebuilds of a list has room for the entries there are,
\* and not more room than its block has, however the spare capacity was cut to
\* 16 bits: of the fields of a list, where a push would return.
ListsInMemory ==
  Is("list") => input.list.len <= input.list.real /\ input.list.len + input.list.res <= input.list.real

\* What is read, what is computed, and what a field of a node is cut to, is a
\* number that can be relied on.
NumbersHold == NumbersReadBack /\ TimesAddUp /\ ListsInMemory

\* Texts are found where they are, and so are the tests that a text chooses.
TextsFound == SearchesAgree /\ TestsChosen
=============================================================================
