-------------------------------- MODULE Tests --------------------------------
(***************************************************************************)
(* test::Manager (src/sfc/test/): a test has the name of the module that   *)
(* the compiler spells for it, and runs if the patterns of the command     *)
(* line choose that module.                                                *)
(***************************************************************************)
EXTENDS Str

\* Faulty form of ChosenBy: a longer mask does not count for more.
ChosenByLast(pats, mod) ==
  LET f[i \in 0 .. Len(pats)] ==
        IF i = 0 THEN [len |-> 0, res |-> TRUE]
        ELSE IF Head(pats[i]) \in {"+", "-"} /\ StartsWith(mod, StrPat(Tail(pats[i])))
             THEN [len |-> 0, res |-> Head(pats[i]) = "+"]
             ELSE f[i - 1]
  IN IF \E i \in DOMAIN pats : pats[i] = <<>> THEN Panic ELSE Some(f[Len(pats)].res)

\* Patterns::operator%: a sign and a mask each; a mask that is as long as the
\* longest so far or longer counts.  An empty pattern has no sign to look at.
ChosenBy(pats, mod) ==
  LET f[i \in 0 .. Len(pats)] ==
        IF i = 0 THEN [len |-> 0, res |-> TRUE]
        ELSE LET mask == Tail(pats[i]) IN
             IF Len(mask) >= f[i - 1].len /\ Head(pats[i]) \in {"+", "-"} /\ StartsWith(mod, StrPat(mask))
             THEN [len |-> Len(mask), res |-> Head(pats[i]) = "+"]
             ELSE f[i - 1]
  IN IF \E i \in DOMAIN pats : pats[i] = <<>> THEN Panic ELSE Some(f[Len(pats)].res)

\* Manager::run, in the order of install: a test that throws has failed, and
\* the next one runs.
Run(tests, pats) ==
  IF tests # <<>> /\ ChosenBy(pats, <<>>) = Panic THEN Panic
  ELSE Some([i \in DOMAIN tests |->
    IF ~ChosenBy(pats, tests[i].mod).it THEN "left out" ELSE IF tests[i].throws THEN "failed" ELSE "ok"])

\* Test::from: what the compiler puts around the name of the type goes ("g" and
\* "m" stand for the text that gcc and clang, or msvc, put before it, "]" for
\* the text behind it), then the "_test" (here "t") that sfc_test appended.
From(desc) ==
  LET s == IF StartsWith(desc, StrPat(<<"g">>)) \/ StartsWith(desc, StrPat(<<"m">>))
           THEN Cut(desc, 1, Len(desc) - 1) ELSE desc
      p == IF Rfind(s, CharPat(":")) = None THEN 0 ELSE Rfind(s, CharPat(":")).it + 1
      name == SplitAt(s, p)[2]
  IN [mod |-> SplitAt(s, p)[1], name |-> Cut(name, 0, IF name = <<>> THEN 0 ELSE Len(name) - 1)]
=============================================================================
