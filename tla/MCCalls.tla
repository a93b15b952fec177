------------------------------- MODULE MCCalls -------------------------------
(***************************************************************************)
(* What Calls is asked when TLC checks it.                                 *)
(***************************************************************************)
EXTENDS Calls

\* Texts of blanks and letters, and patterns of every kind
MCTexts == BoundedSeq({"a", "b", " "}, 4)
MCSearches ==
  [text : MCTexts, pattern : {StrPat(t) : t \in BoundedSeq({"a", "b"}, 2)} \cup {CharPat("a"), CharPat("b")}]

\* Types of eight bits, with every number up to beyond their highest
MCNumerals ==
  [type : {[mod |-> 256, signed |-> b] : b \in BOOLEAN}, val : 0 .. 300,
   before : {<<>>, <<" ">>}, tail : {<<>>, <<"]">>, <<"e">>, <<".", "5">>, <<" ">>}]
    \cup [type : {[mod |-> 256, signed |-> TRUE]}, val : 0 .. 127, before : {<<" ", "+">>, <<"+">>}, tail : {<<>>}]

\* Placeholders with each of their parts present and absent
MCStyles ==
  [fill : {"", "*", ">", "7"}, align : {"<", "^"}, sign : {"", "+"}, prefix : {"#"}, width : {0, 7},
   point : {""}, precision : {0}, type : {"", "x"}]
    \cup [fill : {""}, align : {"", ">", "="}, sign : {"", " "}, prefix : {"", "#"}, width : {0, 4, 12},
          point : {"", "."}, precision : {0}, type : {"", "?"}]
    \cup [fill : {""}, align : {""}, sign : {"-"}, prefix : {""}, width : {9}, point : {"."},
          precision : {2, 10}, type : {"f"}]

Word(t) == [is |-> "text", it |-> t]
Hole(style) == [is |-> "style", it |-> style]
Plain == [text |-> <<"k">>]
Long == [text |-> <<"l", "m", "n">>]
Plenty == [fill |-> "", align |-> "", sign |-> "", prefix |-> "", width |-> 0, point |-> "", precision |-> 0, type |-> ""]
MCTemplates ==
  [parts : {<<Word(w), Hole(s), Word(v), Hole(t)>> :
             w \in {<<"a">>, <<"}", "b">>}, s \in MCStyles, v \in {<<"c">>, <<"<", "9">>, <<"=", "x">>},
             t \in {Plenty, [Plenty EXCEPT !.width = 5]}},
   args : {<<Plain>>, <<Plain, Long>>, <<Long, Plain, Plain>>}]
    \cup [parts : {<<Word(<<"a">>)>>, <<Hole(Plenty)>>}, args : {<<Plain>>, <<Long, Plain>>}]

\* Boxes in boxes, empty ones too
Entry(x) == [key |-> <<"k">>, val |-> x]
Boxed(kind, xs) == kind :> [i \in DOMAIN xs |-> Entry(xs[i])]
Flat == {Boxed(k, xs) : k \in {"list", "tuple", "dict"}, xs \in {<<>>, <<Plain>>, <<Plain, Long>>}}
Deep == {Boxed(k, <<x, y>>) : k \in {"list", "struct"}, x \in Flat \cup {Plain}, y \in Flat}
MCBoxes == Flat \cup Deep \cup {Boxed("dict", <<x>>) : x \in Deep}

\* Nodes of every tag that a program can make
MCValues == {Null, Bool(TRUE), Bool(FALSE), Node("Int", 0), Node("Int", 5), Node("Int", 42), Node("Int", -17),
             Node("Float", 12), Node("String", <<>>), Node("String", <<"a", ",">>), Node("String", <<"\"">>),
             EmptyList, EmptyDict}

\* Values with and without parts, each read into the type of each
Plainly(type, val) == type :> val
Simple == {Plainly("bool", TRUE), Plainly("int", 3), Plainly("str", <<"a">>), Plainly("vec", <<>>), Plainly("struct", <<>>)}
Composed == {Plainly("vec", <<x>>) : x \in Simple} \cup {Plainly("struct", <<[key |-> <<"f">>, val |-> x]>>) : x \in Simple}
MCStructs == [from : Simple \cup Composed, into : Simple \cup Composed]

\* What the texts are made of that Json parses
MCLetters == {"null", "\"", "[", "]", "{", ":", ",", "1"}

\* Times near both ends of a u64, and durations of every kind
MCMoments == [at : {0, 1, 7, 19, 20, 333, 510, 511},
            by : {FromNanos(n) : n \in {0, 1, 2, 3, 4, 19, 20, 21, 398, 399, 400, 509, 510, 511}}
                   \cup {FromSecs(s) : s \in {0, 1, 25, 26, 511}} \cup {FromMillis(n) : n \in {1, 5, 9, 130}}]

\* Modules in one another, and patterns for them in every order
Suite == <<[mod |-> <<>>, throws |-> FALSE], [mod |-> <<"a", ":">>, throws |-> TRUE],
           [mod |-> <<"a", ":", "b", ":">>, throws |-> FALSE], [mod |-> <<"b", ":">>, throws |-> TRUE]>>
MCSuites ==
  [tests : {Suite, <<>>},
   pats : BoundedSeq({<<"-">>, <<"+", "a">>, <<"-", "a">>, <<"+", "a", ":", "b">>, <<"-", "a", ":">>,
                      <<"b", ":">>, <<>>}, 3)]
MCDescs ==
  [before : {<<"g">>}, mod : {<<>>, <<"a", ":">>, <<"a", ":", "b", ":">>}, name : {<<"c">>, <<"c", "d">>}, after : {<<"]">>}]
    \cup [before : {<<>>}, mod : {<<>>, <<"a", ":">>}, name : {<<"c">>, <<>>}, after : {<<>>}]
=============================================================================
