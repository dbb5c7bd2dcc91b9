------------------------------- MODULE MCParser -------------------------------
EXTENDS ParsedPrograms

Id(name) == Leaf("identifier", name)
One1 == Leaf("literal", "1")
User(name) == Leaf("user", name)
A == Id("a")
IntT == User("int")

-----------------------------------------------------------------------------
(* Expressions: every form, and every form within every other.             *)

Infixes == {"LOGICAL_OR", "LOGICAL_AND", "LESS", "BITWISE_OR", "BITWISE_XOR", "BITWISE_AND",
            "LEFT_SHIFT", "PLUS", "MUL", "DOT"}
Unaries == {"LOGICAL_NOT", "MINUS", "BITWISE_NOT"}
\* e is in one place of each form, a in the others.
Around(e) ==
  {Node("binary", op, es) : op \in Infixes, es \in {<<e, A>>, <<A, e>>}}
  \cup {Node(k[1], k[2], es) : k \in {<<"match", "MATCH">>, <<"assignment", "EQUAL">>}, es \in {<<e, A>>, <<A, e>>}}
  \cup {Node("unary", op, <<e>>) : op \in Unaries}
  \cup {Node("reference", "REF", <<e>>), Node("dereference", "DREF", <<e>>), Node("cast", "", <<e, IntT>>),
        Node("grouped", "", <<e>>), Node("annotated", "", <<e, IntT>>), Node("annotated", "", <<e, User("t")>>)}
  \cup {Node("subscript", "", es) : es \in {<<e, A>>, <<A, e>>}}
  \cup {Node("conditional", "", es) : es \in {<<e, A, A>>, <<A, e, A>>, <<A, A, e>>}}
  \cup {Node(k, "", es) : k \in {"list", "tuple"}, es \in {<<e>>, <<e, A>>, <<A, e>>}}
  \cup {Node("tuple", "", <<Node("named", "n", <<e>>), A>>), Node("tuple", "", <<A, Node("named", "n", <<e>>)>>)}
  \cup {Node("map", "", es) : es \in {<<e, A>>, <<A, e>>, <<A, A, e, A>>}}
  \cup {Node("call", "f", es) : es \in {<<e>>, <<A, e>>, <<Node("named", "n", <<e>>)>>}}
  \cup {Node("returning", "", <<Node("call", "f", <<e>>), IntT>>)}
Simple == {A, One1, Leaf("underscore", ""), Leaf("list", ""), Leaf("map", ""), Leaf("tuple", ""), Leaf("call", "f")}
Expressions == {e \in UNION {Around(e) : e \in Simple \cup UNION {Around(e) : e \in {A}}} : Proper(e)}

TypesOf(t) ==
  {t, Node("user", "list", <<t>>), Node("user", "pair", <<IntT, t>>), Node("tuple type", "", <<t>>),
   Node("tuple type", "", <<IntT, t>>), Node("list type", "", <<t>>), Node("map type", "", <<IntT, t>>),
   Node("map type", "", <<t, IntT>>)}
  \cup (IF t.kind = "ref type" THEN {} ELSE {Node("ref type", "", <<t>>)})
  \cup (IF t.kind = "user" THEN {Node("of namespace", "n", <<t>>)} ELSE {})
TypeForms == UNION {TypesOf(t) : t \in TypesOf(IntT) \cup {Leaf("tuple type", "")}}

-----------------------------------------------------------------------------
(* Declarations and statements *)

Val(name, type, e) == Node("VAL", name, <<type, e>>)
Do(e) == Node("expression", "", <<e>>)
Pass == Leaf("PASS", "")
Return(e) == Node("RETURN", "", <<e>>)
Fun(name, constraints, params, ret, body) == Node("function", name, <<constraints, params, ret, Block(body)>>)
Param(kind, name, type) == Node("param", kind, <<Id(name), type>>)
If(c, body, rest) == Node("IF", "", <<c, Block(body)>> \o rest)
Elif(c, body) == Node("ELIF", "", <<c, Block(body)>>)
Else(body) == Node("ELSE", "", <<Block(body)>>)
While(c, body) == Node("WHILE", "", <<c, Block(body)>>)
Definition(name, type, e) == Node("definition", name, <<type, e>>)
Definitions(kind, ds) == Node("definitions", kind, ds)
Next1(d) == Node("next", "", <<d>>)
NextLine(d) == Node("next line", "", <<d>>)
Series1(name, es) == Node("series", name, es)
Type(name, params, constructors) == Node("type", name, <<params, constructors>>)
Default(name, types) == Node("default", name, types)
Record(name, fields) == Node("record", name, fields)
Field(name, type) == Node("field", name, <<type>>)

Call == Node("call", "f", <<A, One1>>)
Sum == Node("binary", "PLUS", <<A, One1>>)
Less == Node("binary", "LESS", <<A, One1>>)
Small == Val("x", None, One1)

Variables1 == {
  Val("x", None, None), Val("x", IntT, None), Small, Val("x", IntT, Sum), Node("VAR", "x", <<None, Call>>),
  Definitions("VAL", <<Definition("x", IntT, One1), Next1(Definition("y", None, A))>>),
  Definitions("VAR", <<Definition("x", None, None), Next1(Definition("y", None, A)), Next1(Definition("z", IntT, None))>>),
  Definitions("VAR", <<Definition("x", None, One1), NextLine(Definition("y", IntT, A))>>),
  Definitions("VAL", <<Series1("x", <<Id("y"), One1>>)>>),
  Definitions("VAL", <<Series1("x", <<Id("y"), Id("z"), Sum>>), Next1(Definition("w", None, One1))>>),
  Definitions("VAR", <<Definition("w", None, A), NextLine(Series1("x", <<Id("y"), Call>>))>>)}
Bodies == {<<Pass>>, <<Small, Do(Call), Return(A)>>, <<Leaf("RETURN", "")>>,
           <<While(Less, <<If(A, <<Leaf("BREAK", "")>>, <<Else(<<Leaf("CONTINUE", "")>>)>>)>>), Pass>>,
           <<If(Less, <<Pass>>, <<>>)>>,
           <<If(Node("grouped", "", <<Less>>), <<Pass>>, <<Elif(A, <<Small>>), Elif(Call, <<Pass>>), Else(<<Do(A)>>)>>)>>,
           <<Definitions("VAL", <<Series1("x", <<Id("y"), One1>>)>>), Do(Node("assignment", "EQUAL", <<A, Sum>>))>>,
           <<Fun("g", <<>>, <<>>, IntT, <<Return(One1)>>), Type("s", <<>>, <<>>)>>,
           <<While(Node("grouped", "", <<A>>), <<While(A, <<Pass>>)>>), Return(Call)>>}
Functions1 ==
  {Fun("f", <<>>, <<>>, IntT, b) : b \in Bodies}
  \cup {Fun("f", <<>>, <<Param("VAL", "p", t)>>, t, <<Pass>>) : t \in TypeForms}
  \cup {Fun("f", cs, ps, IntT, <<Pass>>) : cs \in {<<Id("a")>>, <<Id("a"), Id("b")>>},
        ps \in {<<Param("VAR", "p", User("a"))>>, <<Param("VAL", "p", IntT), Param("VAR", "q", IntT)>>}}
Types1 == {
  Type("t", <<>>, <<>>), Type("t", <<>>, <<Default("C", <<>>)>>),
  Type("t", <<Id("a")>>, <<Default("C", <<User("a")>>), Default("D", <<>>)>>),
  Type("t", <<Id("a"), Id("b")>>, <<Default("C", <<User("a"), Node("list type", "", <<User("b")>>)>>),
                                    Record("R", <<Field("l", IntT), Field("r", User("b"))>>)>>),
  Type("t", <<>>, <<Record("R", <<Field("l", Node("ref type", "", <<IntT>>))>>), Default("E", <<IntT>>)>>)}
Top == {Node("import", "", <<Id("io")>>), Node("import", "", <<Id("a"), Id("b"), Id("c")>>),
        Private(Small), Private(Fun("f", <<>>, <<>>, IntT, <<Pass>>)), Private(Type("t", <<>>, <<>>)),
        Private(Definitions("VAL", <<Series1("x", <<Id("y"), One1>>)>>)),
        Node("namespace", "n", <<Small>>), Node("namespace", "", <<Small, Private(Small)>>),
        Node("namespace", "n", <<Type("t", <<>>, <<Default("C", <<>>)>>), Private(Fun("f", <<>>, <<>>, IntT, <<Pass>>)), Do(A)>>)}
Forms == Variables1 \cup Functions1 \cup Types1 \cup Top
         \cup {If(A, <<Pass>>, <<>>), While(Less, <<Pass>>), Return(A), Leaf("BREAK", "")}
MCPrograms == {<<Do(e)>> : e \in Expressions}
              \cup {<<d, Small>> : d \in Forms} \cup {<<Small, d>> : d \in Forms}
              \cup {<<Fun("f", <<>>, <<>>, IntT, <<Return(e)>>), Small>> : e \in Around(A)}

(* Files in which one token is changed: one of most forms, and a variable. *)
MCDisturbed == {<<d, Small>> : d \in
  {Do(Sum), Do(Call), Do(Node("subscript", "", <<A, One1>>)), Do(Node("assignment", "EQUAL", <<A, Sum>>)),
   Do(Node("conditional", "", <<A, Less, One1>>)), Do(Node("map", "", <<A, One1>>)), Do(Node("tuple", "", <<A, One1>>)),
   Do(Node("cast", "", <<A, IntT>>)), Do(Node("match", "MATCH", <<A, Call>>)), Do(Annotated(A, IntT)),
   Do(Node("tuple", "", <<Node("named", "n", <<A>>), One1>>)), Do(Node("unary", "MINUS", <<A>>)),
   Val("x", Node("map type", "", <<IntT, IntT>>), One1), Val("x", Node("of namespace", "n", <<IntT>>), None),
   If(Less, <<Pass>>, <<Else(<<Do(A)>>)>>), While(A, <<Do(A), Leaf("BREAK", "")>>),
   Fun("f", <<Id("a")>>, <<Param("VAR", "p", IntT)>>, IntT, <<Do(Sum), Return(A)>>),
   Type("t", <<Id("a")>>, <<Default("C", <<IntT>>), Record("R", <<Field("l", IntT)>>)>>),
   Node("import", "", <<Id("a"), Id("b")>>), Node("namespace", "n", <<Do(Sum), Small>>)}}
Plain == {"COMMA", "COLON", "NEWLINE", "INDENT", "DEDENT", "EQUAL", "DOT", "PLUS", "VERTICAL_BAR", "REF", "RETURN_TYPE",
          "IF", "ELSE", "WHILE", "RETURN", "FUNCTION", "TYPE", "VAR", "IMPORT",
          "LEFT_PAREN", "RIGHT_PAREN", "LEFT_BRACE", "RIGHT_BRACKET"}
MCSpares == {Token(type, type) : type \in Plain} \cup {Token("IDENTIFIER", "s"), Token("INTEGER", "2")}
===============================================================================
