-------------------------------- MODULE Json --------------------------------
(***************************************************************************)
(* serial::Node with its List and Dict (src/sfc/serial/node.cc), Json,     *)
(* which writes a node and reads one (json.cc), and Serde, which makes     *)
(* nodes of values and values of nodes (serde.h).                          *)
(*                                                                         *)
(* A text is a sequence of characters, of which the words null, true and   *)
(* false are one each.  Integers have the width of IntType; of a float the *)
(* whole part is kept.                                                     *)
(*                                                                         *)
(* No push and no insert of an entry returns (Crash): the lists and dicts  *)
(* of a program are empty ones, and the code below an entry is not reached.*)
(***************************************************************************)
EXTENDS Str, TLC

IntType == [mod |-> 256, signed |-> TRUE]   \* i64 in the code

\* A node is a record of one field, whose name is its tag.
Node(tag, val) == tag :> val
Tag(node) == CHOOSE t \in DOMAIN node : TRUE
Val(node) == node[Tag(node)]

Null == Node("Null", 0)
Bool(b) == Node("Bool", b)
EmptyList == Node("List", <<>>)
EmptyDict == Node("Dict", <<>>)

\* List::push and Dict::insert, of any entry: mem::forget moves their vector
\* into a Hole, which nulls the pointer and leaves the length; the destructor of
\* the vector then runs that of an entry at address 0, which reads its tag there.
Crash == [tag |-> "crash"]
Pushed == Crash
Insert == Crash

\* Dict::operator[] of a dict, which is empty: get finds nothing, and expect,
\* which asserts that there is no value, takes it through a null pointer.
Index == Crash

(***************************************************************************)
(* Json::format                                                            *)
(***************************************************************************)

Quoted(s) == <<"\"">> \o s \o <<"\"">>

IntText(n) == IF n < 0 THEN <<"-">> \o DigitsOf(-n) ELSE DigitsOf(n)

\* A list or a dict is a Box without entries.
Written(node) ==
  LET t == Tag(node) v == Val(node) IN
  CASE t = "Null" -> <<"null">>
    [] t = "Bool" -> IF v THEN <<"true">> ELSE <<"false">>
    [] t = "Int" -> IntText(v)
    [] t = "Float" -> IntText(v) \o <<".", "0">>
    [] t = "String" -> Quoted(v)
    [] t = "List" -> <<"[", "]">>
    [] t = "Dict" -> <<"{", "}">>

(***************************************************************************)
(* json::Parser: what is read, and what is left of the text                *)
(***************************************************************************)

Read(val, rest) == Some([val |-> val, rest |-> rest])

\* Faulty form of ExtractNum: a number may end with the text.
ExtractNumToEnd(s) ==
  LET end == IterFind(Tail(s), {",", "]", "}"})
  IN IF end = None THEN Read(Tail(s), <<>>)
     ELSE Read(SplitAt(Tail(s), end.it)[1], SplitAt(Tail(s), end.it)[2])

\* extract_chr passes blanks, and then looks at a character, which must be there.
ExtractChr(s, c) ==
  LET t == TrimStart(s) IN
  IF t = <<>> THEN Panic ELSE IF Head(t) = c THEN Some(Tail(t)) ELSE None

\* extract_num drops the first character, and needs the one after the number.
ExtractNum(s) ==
  LET end == IterFind(Tail(s), {",", "]", "}"})
  IN IF end = None THEN None
     ELSE Read(SplitAt(Tail(s), end.it)[1], SplitAt(Tail(s), end.it)[2])

\* extract_str drops the first character, whatever it is.
ExtractStr(s) ==
  IF s = <<>> THEN Panic
  ELSE LET end == IterFind(Tail(s), {"\""})
       IN IF end = None THEN None
          ELSE Read(SplitAt(Tail(s), end.it)[1], Tail(SplitAt(Tail(s), end.it)[2]))

ParseStr(s) ==
  LET x == ExtractStr(s) IN IF x.tag # "some" THEN x ELSE Read(Node("String", x.it.val), x.it.rest)

\* A float is told by a dot or an exponent; find panics where no digit is left.
ParseNum(s) ==
  LET x == ExtractNum(s)
      point == Find(x.it.val, PredPat({".", "e", "E"}))
      num == IF point = None THEN ParseInt(x.it.val, IntType) ELSE ParseFlt(x.it.val, IntType)
  IN IF x = None THEN None
     ELSE IF point = Panic THEN Panic
     ELSE IF num = None THEN None
     ELSE Read(Node(IF point = None THEN "Int" ELSE "Float", num.it), x.it.rest)

RECURSIVE Parse(_), ParseVec(_), ParseObj(_)

\* The first entry of a list is read, and pushed.
ParseVec(s) == LET x == Parse(s) IN IF x.tag # "some" THEN x ELSE Pushed

\* The first key and value of a dict are read, and inserted.
ParseObj(s) ==
  LET key == ExtractStr(s)
      colon == ExtractChr(key.it.rest, ":")
      val == Parse(colon.it)
  IN IF key.tag # "some" THEN key
     ELSE IF colon.tag # "some" THEN colon
     ELSE IF val.tag # "some" THEN val
     ELSE Insert

\* parse: the first character says what there is to read.  "false" is read as
\* true, and a dict that is empty is refused.
Parse(s) ==
  IF s = <<>> THEN Panic
  ELSE LET c == Head(s)
           vec == ExtractChr(Tail(s), "]")
           obj == ExtractChr(Tail(s), "}")
       IN CASE c = "null" -> Read(Null, Tail(s))
            [] c \in {"true", "false"} -> Read(Bool(TRUE), Tail(s))
            [] c = "\"" -> ParseStr(s)
            [] c \in {"+", "-"} \cup DOMAIN Digit -> ParseNum(s)
            [] c = "[" -> IF vec.tag = "some" THEN Read(EmptyList, vec.it)
                          ELSE IF vec = Panic THEN Panic ELSE ParseVec(TrimStart(Tail(s)))
            [] c = "{" -> IF obj.tag = "some" THEN None
                          ELSE IF obj = Panic THEN Panic ELSE ParseObj(TrimStart(Tail(s)))
            [] OTHER -> None

\* Json::from_str: what follows the value is not looked at.
FromStr(s) == LET x == Parse(s) IN IF x.tag = "some" THEN Some(x.it.val) ELSE x

(***************************************************************************)
(* Serde: a value is a record of one field, whose name is its type; a      *)
(* struct is a sequence of fields                                          *)
(***************************************************************************)

Type(v) == CHOOSE t \in DOMAIN v : TRUE
TagOfType == [bool |-> "Bool", int |-> "Int", str |-> "String", vec |-> "List", struct |-> "Dict"]

\* A vector or a struct that has elements or fields is pushed and inserted.
Serialize(v) ==
  LET t == Type(v) IN
  IF t = "vec" /\ v.vec # <<>> THEN Pushed
  ELSE IF t = "struct" /\ v.struct # <<>> THEN Insert
  ELSE Some(Node(TagOfType[t], v[t]))

\* deserialize, into the type of v, of which the values are not used: a node
\* of another tag panics; so many fields are looked for as the struct has.
Deserialize(node, v) ==
  LET t == Type(v) IN
  IF Tag(node) # TagOfType[t] THEN Panic
  ELSE IF t = "struct" /\ v.struct # <<>> THEN Index
  ELSE Some(t :> Val(node))
=============================================================================
