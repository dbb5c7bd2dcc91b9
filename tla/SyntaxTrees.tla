------------------------------ MODULE SyntaxTrees -----------------------------
(***************************************************************************)
(* Trees of declarations, statements, expressions and types; how a tree    *)
(* reads as tokens; and which trees can be written without parentheses     *)
(* other than those they hold.  It says what a source means, and knows     *)
(* nothing of how it is parsed.                                            *)
(***************************************************************************)
EXTENDS Integers, SequencesExt, FiniteSetsExt

Node(kind, name, parts) == [kind |-> kind, name |-> name, parts |-> parts]
Leaf(kind, name)        == Node(kind, name, <<>>)
None == Leaf("none", "")

\* A token has a type and a lexeme, of which only names and literals matter.
Token(type, lexeme) == [type |-> type, lexeme |-> lexeme]
T(type)    == <<Token(type, type)>>
Word(name) == <<Token("IDENTIFIER", name)>>

\* Expressions that are written with a type behind them wrap themselves in it.
Annotated(e, type) == Node("annotated", "", <<e, type>>)
Private(d)         == Node("private", "", <<d>>)
Exposed(d)         == IF d.kind = "private" THEN d.parts[1] ELSE d
Block(ds)          == Node("block", "", ds)

-----------------------------------------------------------------------------
(* How trees are written *)

RECURSIVE Written(_)
\* The parts of a sequence with a token between them.
Between(parts, type) ==
  FlattenSeq([i \in DOMAIN parts |-> (IF i = 1 THEN <<>> ELSE T(type)) \o Written(parts[i])])
Enclosed(left, tokens, right) == T(left) \o tokens \o T(right)
\* Of keys and values in turn.
Entries(parts) ==
  [i \in 1 .. Len(parts) \div 2 |-> Node("entry", "", <<parts[2 * i - 1], parts[2 * i]>>)]
\* Each constructor on a line of its own, between bars.
Lines(constructors) ==
  FlattenSeq([i \in DOMAIN constructors |->
    (IF i = 1 THEN <<>> ELSE T("VERTICAL_BAR")) \o Written(constructors[i]) \o T("NEWLINE")])
Body(block) ==
  T("COLON") \o T("NEWLINE") \o Enclosed("INDENT", FlattenSeq([i \in DOMAIN block.parts |->
    Written(Exposed(block.parts[i]))]), "DEDENT")

WrittenType(t) ==
  CASE t.kind = "user" -> Word(t.name) \o (IF t.parts = <<>> THEN <<>>
                            ELSE Enclosed("LEFT_PAREN", Between(t.parts, "COMMA"), "RIGHT_PAREN"))
    [] t.kind = "of namespace" -> Word(t.name) \o T("DOT") \o Written(t.parts[1])
    [] t.kind = "ref type" -> T("REF") \o Written(t.parts[1])
    [] t.kind = "tuple type" -> Enclosed("LEFT_PAREN", Between(t.parts, "COMMA"), "RIGHT_PAREN")
    [] t.kind = "list type" -> Enclosed("LEFT_BRACKET", Written(t.parts[1]), "RIGHT_BRACKET")
    [] t.kind = "map type" -> Enclosed("LEFT_BRACE", Between(t.parts, "COLON"), "RIGHT_BRACE")

WrittenExpression(e) ==
  CASE e.kind = "literal" -> <<Token("INTEGER", e.name)>>
    [] e.kind = "identifier" -> Word(e.name)
    [] e.kind = "underscore" -> T("UNDERSCORE")
    [] e.kind \in {"binary", "match", "assignment"} ->
         Written(e.parts[1]) \o T(e.name) \o Written(e.parts[2])
    [] e.kind \in {"unary", "reference", "dereference"} -> T(e.name) \o Written(e.parts[1])
    [] e.kind = "subscript" ->
         Written(e.parts[1]) \o Enclosed("LEFT_BRACKET", Written(e.parts[2]), "RIGHT_BRACKET")
    [] e.kind = "conditional" ->
         Written(e.parts[1]) \o T("IF") \o Written(e.parts[2]) \o T("ELSE") \o Written(e.parts[3])
    [] e.kind = "cast" -> T("CAST") \o Enclosed("LEFT_PAREN", Written(e.parts[1]), "RIGHT_PAREN")
                          \o T("RETURN_TYPE") \o Written(e.parts[2])
    [] e.kind = "call" -> Word(e.name) \o Enclosed("LEFT_PAREN", Between(e.parts, "COMMA"), "RIGHT_PAREN")
    [] e.kind = "grouped" -> Enclosed("LEFT_PAREN", Written(e.parts[1]), "RIGHT_PAREN")
    [] e.kind = "tuple" ->
         Enclosed("LEFT_PAREN", Between(e.parts, "COMMA")
                  \o (IF Len(e.parts) = 1 THEN T("COMMA") ELSE <<>>), "RIGHT_PAREN")
    [] e.kind = "list" -> Enclosed("LEFT_BRACKET", Between(e.parts, "COMMA"), "RIGHT_BRACKET")
    [] e.kind = "map" -> Enclosed("LEFT_BRACE", Between(Entries(e.parts), "COMMA"), "RIGHT_BRACE")
    [] e.kind = "entry" -> Between(e.parts, "COLON")
    [] e.kind = "named" -> Word(e.name) \o T("EQUAL") \o Written(e.parts[1])
    [] e.kind = "annotated" -> Between(e.parts, "COLON")
    [] e.kind = "returning" -> Between(e.parts, "RETURN_TYPE")

WrittenStatement(s) ==
  CASE s.kind \in {"WHILE", "IF", "ELIF"} ->
         T(s.kind) \o Written(s.parts[1]) \o Body(s.parts[2])
         \o FlattenSeq([i \in 1 .. Len(s.parts) - 2 |-> Written(s.parts[i + 2])])
    [] s.kind = "ELSE" -> T("ELSE") \o Body(s.parts[1])
    [] s.kind \in {"BREAK", "CONTINUE", "PASS"} -> T(s.kind) \o T("NEWLINE")
    [] s.kind = "RETURN" -> T("RETURN") \o Between(s.parts, "COMMA") \o T("NEWLINE")
    [] s.kind = "expression" -> Written(s.parts[1]) \o T("NEWLINE")

\* The name, and the type and the initializer if there are any.
WrittenDefinition(v) ==
  Word(v.name) \o (IF v.parts[1] = None THEN <<>> ELSE T("COLON") \o Written(v.parts[1]))
               \o (IF v.parts[2] = None THEN <<>> ELSE T("EQUAL") \o Written(v.parts[2]))

WrittenDeclaration(d) ==
  CASE d.kind \in {"VAR", "VAL"} -> T(d.kind) \o WrittenDefinition(d) \o T("NEWLINE")
    [] d.kind = "definitions" ->      \* several, the rest of them perhaps on the next line
         T(d.name) \o FlattenSeq([i \in DOMAIN d.parts |-> Written(d.parts[i])]) \o T("NEWLINE")
         \o (IF \E i \in DOMAIN d.parts : d.parts[i].kind = "next line" THEN T("DEDENT") ELSE <<>>)
    [] d.kind = "definition" -> WrittenDefinition(d)
    [] d.kind = "series" -> Word(d.name) \o T("EQUAL") \o Between(d.parts, "EQUAL")
    [] d.kind = "next" -> T("COMMA") \o Written(d.parts[1])
    [] d.kind = "next line" -> T("COMMA") \o T("NEWLINE") \o T("INDENT") \o Written(d.parts[1])
    [] d.kind = "param" -> (IF d.name = "VAR" THEN T("VAR") ELSE <<>>) \o Between(d.parts, "COLON")
    [] d.kind = "function" ->
         T("FUNCTION") \o Word(d.name)
         \o (IF d.parts[1] = <<>> THEN <<>> ELSE T("COLON") \o Between(d.parts[1], "COMMA"))
         \o T("EQUAL") \o Enclosed("LEFT_PAREN", Between(d.parts[2], "COMMA"), "RIGHT_PAREN")
         \o T("RETURN_TYPE") \o Written(d.parts[3]) \o Body(d.parts[4])
    [] d.kind = "type" ->
         T("TYPE") \o Word(d.name)
         \o IF d.parts[2] = <<>> THEN T("NEWLINE")
            ELSE T("EQUAL") \o Enclosed("LEFT_PAREN", Between(d.parts[1], "COMMA"), "RIGHT_PAREN")
                 \o T("COLON") \o T("NEWLINE") \o Enclosed("INDENT", Lines(d.parts[2]), "DEDENT")
    [] d.kind \in {"default", "record"} -> Word(d.name) \o (IF d.parts = <<>> THEN <<>>
         ELSE Enclosed("LEFT_PAREN", Between(d.parts, "COMMA"), "RIGHT_PAREN"))
    [] d.kind = "field" -> Between(<<Leaf("identifier", d.name), d.parts[1]>>, "COLON")
    [] d.kind = "import" -> T("IMPORT") \o Between(d.parts, "DOT") \o T("NEWLINE")
    [] d.kind = "private" -> T("PRIVATE") \o Written(d.parts[1])
    [] d.kind = "namespace" /\ d.name = "*" -> FlattenSeq([i \in DOMAIN d.parts |-> Written(d.parts[i])])
    [] d.kind = "namespace" ->
         T("NAMESPACE") \o (IF d.name = "" THEN <<>> ELSE Word(d.name)) \o T("NS_OPEN") \o T("NEWLINE")
         \o Enclosed("INDENT", FlattenSeq([i \in DOMAIN d.parts |-> Written(d.parts[i])]), "DEDENT")
         \o T("NS_CLOSE") \o T("NEWLINE")

Types == {"user", "of namespace", "ref type", "tuple type", "list type", "map type"}
Statements == {"WHILE", "IF", "ELIF", "ELSE", "BREAK", "CONTINUE", "PASS", "RETURN", "expression"}
Declarations == {"VAR", "VAL", "definitions", "definition", "series", "next", "next line", "param", "function",
                 "type", "default", "record", "field", "import", "private", "namespace"}
Written(n) == CASE n.kind \in Types        -> WrittenType(n)
                [] n.kind \in Statements   -> WrittenStatement(n)
                [] n.kind \in Declarations -> WrittenDeclaration(n)
                [] OTHER                   -> WrittenExpression(n)
Source(declarations) ==
  FlattenSeq([i \in DOMAIN declarations |-> Written(declarations[i])]) \o T("EOF")

-----------------------------------------------------------------------------
(* What is read without parentheses *)

Comparisons == {"IN", "NOT_IN", "NEXT_IN", "PREV_IN", "IS", "IS_NOT", "LESS", "LESS_EQUAL",
                "GREATER", "GREATER_EQUAL", "NOT_EQUAL", "EQUAL_EQUAL"}
\* How tightly each operator binds, from the loosest.
Binding == <<{"LOGICAL_OR"}, {"LOGICAL_AND"}, {"LOGICAL_NOT"}, Comparisons \cup {"MATCH", "NOT_MATCH"},
             {"BITWISE_OR", "VERTICAL_BAR"}, {"BITWISE_XOR"}, {"BITWISE_AND"},
             {"LEFT_SHIFT", "RIGHT_SHIFT"}, {"PLUS", "MINUS"}, {"MUL", "DIV", "MOD", "POW"}>>
Tightness(op) == CHOOSE i \in DOMAIN Binding : op \in Binding[i]

\* Levels: assignments, conditionals, then Binding, then what is before its
\* operand, then dots and subscripts, then everything else.
Level(e) ==
  CASE e.kind = "assignment" -> 1
    [] e.kind = "conditional" -> 2
    [] e.kind = "unary" /\ e.name \in {"PLUS", "MINUS"} -> 16
    [] e.kind = "unary" /\ e.name = "BITWISE_NOT" -> 17
    [] e.kind = "binary" /\ e.name = "DOT" -> 18
    [] e.kind \in {"binary", "match", "unary"} -> 2 + Tightness(e.name)
    [] e.kind = "reference" -> 13
    [] e.kind = "dereference" -> 14
    [] e.kind = "cast" -> 15
    [] e.kind = "subscript" -> 19
    [] OTHER -> 20
\* The least level of each part that is an expression; a part without one
\* may be any expression.
Needed(e) ==
  CASE e.kind = "assignment" -> <<2, 1>>
    [] e.kind = "conditional" -> <<3, 3, 3>>
    [] e.kind = "binary" /\ e.name = "DOT" -> <<19, 18>>
    [] e.kind \in {"binary", "match"} /\ Level(e) = 6 -> <<7, 7>>
    [] e.kind = "binary" -> <<Level(e), Level(e) + 1>>
    [] e.kind = "unary" -> <<Level(e)>>
    [] e.kind = "reference" -> <<14>>
    [] e.kind = "dereference" -> <<15>>
    [] e.kind = "subscript" -> <<19, 20>>
    [] e.kind \in {"annotated", "returning"} -> <<20>>
    [] OTHER -> [i \in DOMAIN e.parts |-> 0]

RECURSIVE Within(_)
Within(e) == {e} \cup UNION {Within(e.parts[i]) : i \in DOMAIN e.parts}
\* A type that a dot behind it would make the name of a namespace.
RECURSIVE EndsInName(_)
EndsInName(t) == \/ t.kind = "user" /\ t.parts = <<>>
                 \/ t.kind = "ref type" /\ EndsInName(t.parts[1])
BeginsWith(e, type) == Written(e)[1].type = type
\* What an element or an argument with a name looks like.
LooksNamed(e) == e.kind = "assignment" /\ e.parts[1].kind = "identifier"

\* Beside the levels of its parts:
ProperHere(e) ==
  CASE e.kind = "map" ->              \* in a key no type is written, and no map
         \A i \in DOMAIN e.parts : i % 2 = 1 =>
           \A p \in Within(e.parts[i]) : p.kind \notin {"annotated", "map"} \/ p = Leaf("map", "")
    [] e.kind = "binary" /\ e.name = "DOT" ->
         e.parts[1].kind \in {"annotated", "returning"} => ~EndsInName(e.parts[1].parts[2])
    [] e.kind = "annotated" -> e.parts[1].kind \in {"identifier", "literal", "call", "tuple", "list", "map"}
    [] e.kind \in {"grouped", "tuple", "call"} ->
         /\ \A i \in DOMAIN e.parts : ~LooksNamed(e.parts[i])
         /\ e.kind = "tuple" => \A i, j \in DOMAIN e.parts :
              e.parts[i].kind = "named" /\ e.parts[j].kind = "named" /\ e.parts[i].name = e.parts[j].name => i = j
    [] OTHER -> TRUE
RECURSIVE Proper(_)
Proper(e) ==
  /\ ProperHere(e)
  /\ \A i \in DOMAIN e.parts : \/ e.parts[i].kind \in Types
                               \/ Level(e.parts[i]) >= Needed(e)[i] /\ Proper(e.parts[i])

-----------------------------------------------------------------------------
(* What is meant by what is written: one declaration for each variable, a  *)
(* series from its end; what a block declares is private; the parentheses  *)
(* of a condition are not part of it.                                      *)

Variables(kind, item) ==
  LET n == Len(item.parts)
      Target(i) == IF i = 1 THEN item.name ELSE item.parts[i - 1].name
  IN  IF item.kind = "definition" THEN <<[item EXCEPT !.kind = kind]>>
      ELSE [i \in 1 .. n |-> Node(kind, Target(n + 1 - i), <<None, item.parts[n + 1 - i]>>)]

RECURSIVE Meaning(_)
Privately(d) == IF d.kind \in Statements THEN d ELSE Private(d)
MeaningOfBlock(b) ==
  LET all == FlattenSeq([i \in DOMAIN b.parts |-> Meaning(b.parts[i])])
  IN  Block([i \in DOMAIN all |-> Privately(all[i])])
MeaningOfCondition(c) == IF c.kind = "grouped" THEN c.parts[1] ELSE c
Meaning(d) ==
  CASE d.kind = "definitions" ->
         FlattenSeq([i \in DOMAIN d.parts |-> Variables(d.name,
           IF d.parts[i].kind \in {"next", "next line"} THEN d.parts[i].parts[1] ELSE d.parts[i])])
    [] d.kind = "private" -> LET all == Meaning(d.parts[1])
                             IN  [i \in DOMAIN all |-> Privately(all[i])]
    [] d.kind = "function" -> <<[d EXCEPT !.parts[4] = MeaningOfBlock(@)]>>
    [] d.kind \in {"WHILE", "IF", "ELIF"} ->
         <<Node(d.kind, "", <<MeaningOfCondition(d.parts[1]), MeaningOfBlock(d.parts[2])>>
              \o FlattenSeq([i \in 1 .. Len(d.parts) - 2 |-> Meaning(d.parts[i + 2])]))>>
    [] d.kind = "ELSE" -> <<Node("ELSE", "", <<MeaningOfBlock(d.parts[1])>>)>>
    [] OTHER -> <<d>>
TopMeaning(d) ==
  CASE d.kind = "import" -> d
    [] d.kind = "namespace" -> Node("namespace", IF d.name = "" THEN "*" ELSE d.name, FlattenSeq([i \in DOMAIN d.parts |-> Meaning(d.parts[i])]))
    [] OTHER -> Node("namespace", "*", Meaning(d))
===============================================================================
