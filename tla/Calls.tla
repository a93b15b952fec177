-------------------------------- MODULE Calls --------------------------------
(***************************************************************************)
(* Calls of the library that keep no state: those of Queries, templates    *)
(* that are filled (Format), and nodes that are written and read as JSON   *)
(* (Json), whose texts grow.                                               *)
(***************************************************************************)
EXTENDS Queries, Json

F == INSTANCE Format

CONSTANTS
  Templates,  \* [parts, args]: texts and placeholders, and what fills them
  Boxes,      \* arguments of Format that are boxes
  Values,     \* nodes
  Structs,    \* [from, into]: values of Serde, of which one is read into the type of the other
  Letters,    \* the characters of the texts that are parsed
  MaxText     \* bound: their length

CallsInit ==
  /\ input \in Queried \cup
       [template : Templates] \cup [box : Boxes] \cup [json : Values] \cup [serde : Structs]
         \cup [text : {<<>>}]
  /\ answer = Unasked

\* A placeholder spelled out, in the order of fmt::Style's comment
Spelled(x) ==
  <<"{">> \o (IF x.fill = "" THEN <<>> ELSE <<x.fill>>) \o (IF x.align = "" THEN <<>> ELSE <<x.align>>)
    \o (IF x.sign = "" THEN <<>> ELSE <<x.sign>>) \o (IF x.prefix = "" THEN <<>> ELSE <<"#">>)
    \o (IF x.width = 0 THEN <<>> ELSE DigitsOf(x.width))
    \o (IF x.point = "" THEN <<>> ELSE <<".">> \o DigitsOf(x.precision))
    \o (IF x.type = "" THEN <<>> ELSE <<x.type>>) \o <<"}">>

TemplateText(parts) ==
  LET f[i \in 0 .. Len(parts)] ==
        IF i = 0 THEN <<>>
        ELSE f[i - 1] \o IF parts[i].is = "text" THEN parts[i].it ELSE Spelled(parts[i].it)
  IN f[Len(parts)]

\* Formatter::write of a template and arguments
WriteTemplate ==
  Ask("template") /\ answer' = F!Filled(TemplateText(input.template.parts), input.template.args, F!NoStyle)

\* Formatter::write of a box, with the placeholder "{?}" or "{}"
WriteBox ==
  Ask("box") /\ \E type \in {"?", ""} : answer' = [out |-> F!Shown(input.box, [F!NoStyle EXCEPT !.type = type], 0)]

\* Json::format, and from_str of what was written, at the end of a text or not
WriteJson == Ask("json") /\ \E behind \in {<<>>, <<",">>} : answer' = FromStr(Written(input.json) \o behind)

\* serialize, and deserialize of the node
SerdeTwice ==
  LET node == Serialize(input.serde.from) IN
  Ask("serde") /\ answer' = IF node.tag = "some" THEN Deserialize(node.it, input.serde.into) ELSE node

\* A text grows, and is parsed at every length.
TypeLetter ==
  /\ Is("text") /\ Len(input.text) < MaxText
  /\ \E c \in Letters : input' = [input EXCEPT !.text = Append(@, c)]
  /\ answer' = Parse(input'.text)

CallsNext ==
  QueriesNext \/ WriteTemplate \/ WriteBox \/ WriteJson \/ SerdeTwice \/ TypeLetter
-----------------------------------------------------------------------------
\* The part behind an empty placeholder begins with an align character: its
\* brace is taken for a fill.
Misread(parts) ==
  \E i \in 1 .. Len(parts) - 1 :
    /\ parts[i].is = "style" /\ parts[i].it = F!NoStyle
    /\ parts[i + 1].is = "text" /\ parts[i + 1].it[1] \in F!AlignChars

\* A template is filled with what each argument is in the style that was
\* spelled between its braces, the texts stay as they are, arguments without
\* a placeholder come last, and the Formatter has its style again.
TemplateFilled ==
  Answered("template") /\ ~Misread(input.template.parts) =>
    LET parts == input.template.parts args == input.template.args
        nth(i) == Cardinality({k \in 1 .. i : parts[k].is = "style"})
        piece(i) == IF parts[i].is = "text" THEN parts[i].it
                    ELSE IF nth(i) <= Len(args) THEN F!Shown(args[nth(i)], parts[i].it, 0)
                    ELSE Spelled(parts[i].it)
        spare == SubSeq(args, nth(Len(parts)) + 1, Len(args))
    IN /\ answer.out = FlattenSeq([i \in DOMAIN parts |-> piece(i)])
                         \o FlattenSeq([i \in DOMAIN spare |-> F!Shown(spare[i], F!NoStyle, 0)])
       /\ answer.style = F!NoStyle

\* Every line of a verbose box is indented by two blanks for each box that is
\* open there, one less for the line that closes its box; whatever was open is
\* closed at the end.
BoxIndented ==
  Answered("box") =>
    LET out == answer.out
        opening == {"(", "[", "{"}
        closing == {")", "]", "}"}
        open(i) == Cardinality({k \in 1 .. i : out[k] \in opening})
                     - Cardinality({k \in 1 .. i : out[k] \in closing})
        text(i) == Min({k \in i + 1 .. Len(out) : out[k] # " "})
    IN /\ open(Len(out)) = 0
       /\ \A i \in DOMAIN out : out[i] = "\n" =>
            text(i) - i - 1 = 2 * open(IF out[text(i)] \in closing THEN text(i) ELSE i)

\* The text that a Formatter makes is what was asked for: templates are
\* filled, and boxes are indented.
FormatsAsAsked == TemplateFilled /\ BoxIndented

\* The nodes that a text keeps: false is read as true, a number loses its first
\* character, and no dict is read.
Readable(node) ==
  LET v == Val(node) IN
  CASE Tag(node) \in {"Null", "List"} -> TRUE
    [] Tag(node) = "Bool" -> v
    [] Tag(node) = "String" -> "\"" \notin {v[i] : i \in DOMAIN v}
    [] OTHER -> FALSE

HasSome(v, types) == \E t \in DOMAIN v \cap types : v[t] # <<>>

\* What Json reads of what it wrote is the node that was written, for exactly
\* the readable nodes, also with a comma behind it.  Serde makes of a node the value that it was made of,
\* when it is read into its own type and has no elements and no fields; with
\* them serialize crashes, and so does reading fields that were not written.
NodeReadBack ==
  /\ Answered("json") => (answer = Some(input.json) <=> Readable(input.json)) /\ answer # Crash
  /\ Answered("serde") =>
       LET from == input.serde.from into == input.serde.into IN
       /\ answer.tag = "some" => answer.it = from
       /\ answer.tag = "some" <=>
            ~HasSome(from, {"vec", "struct"}) /\ Type(into) = Type(from) /\ ~HasSome(into, {"struct"})

\* A text that ends before the value does yields no value, and what follows a
\* value, beyond the character that a number needs to end, does not change it;
\* nor can it save a text that has crashed, by the first entry that it has whole.
TextReadWhole ==
  LET start(n) == FromStr(SubSeq(input.text, 1, n))
      used == Len(input.text) - Len(answer.it.rest)
  IN Is("text") => \A n \in 0 .. Len(input.text) - 1 :
       /\ start(n) = Crash => answer = Crash
       /\ answer.tag = "some" =>
            /\ SubSeq(input.text, used + 1, Len(input.text)) = answer.it.rest
            /\ n < used => start(n).tag # "some"
            /\ n > used => start(n) = Some(answer.it.val)

\* Reading is the inverse of writing where it can be, and takes whole values.
NodesHold == NodeReadBack /\ TextReadWhole
=============================================================================
