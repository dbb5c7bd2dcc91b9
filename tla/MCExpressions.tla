---------------------------- MODULE MCExpressions -----------------------------
EXTENDS ExpressionPrograms
LOCAL P == INSTANCE BuiltinPrograms

MCHashOf(s) == (5 * Len(s) + 3) % 16
MCWords == {"True", "False"}
MCMirror == [w \in MCWords |-> w]
MCParameters == {"a", "b"}
MCNamespaces == {"n"}

(* Functions: those of the builtin programs, and some of a program. *)
P1(name, type) == [name |-> name, type |-> type]
Parameters_(ts) == [i \in DOMAIN ts |-> P1("p" \o ToString(i), Nested(ts[i]))]
BuiltinFunctions ==
  {[name |-> f.name, ns |-> "*", params |-> Parameters_(f.params), ret |-> Nested(f.ret),
    constraints |-> {}, body |-> <<>>, builtin |-> TRUE] : f \in P!Declared}
UserFunction(name, ns, params, ret, constraints, body) ==
  [name |-> name, ns |-> ns, params |-> params, ret |-> ret, constraints |-> constraints,
   body |-> body, builtin |-> FALSE]
A == Parameter("a")
MCFunctions == BuiltinFunctions \cup {
  UserFunction("first", "*", <<P1("fx", A), P1("fy", A)>>, A, {"a"},
    <<Statement("return", "", FALSE, NoType, Id("fx"))>>),
  UserFunction("twice", "*", <<P1("tx", IntType)>>, IntType, {},
    <<Statement("var", "tw", FALSE, NoType, Operator("__add__", <<Id("tx"), Id("tx")>>)),
      Statement("return", "", FALSE, NoType, Id("tw"))>>),
  UserFunction("area", "n", <<P1("ax", Plain("shape"))>>, IntType, {},
    <<Statement("return", "", FALSE, NoType, Integer(1))>>)}

Constructor_(name, ns, record, owner, parameters, params) ==
  [name |-> name, ns |-> ns, record |-> record, owner |-> owner,
   parameters |-> parameters, params |-> params]
MCConstructors == {
  Constructor_("True", "*", FALSE, "bool", <<>>, <<>>), Constructor_("False", "*", FALSE, "bool", <<>>, <<>>),
  Constructor_("Just", "*", FALSE, "maybe", <<"a">>, <<P1("", A)>>), Constructor_("None", "*", FALSE, "maybe", <<"a">>, <<>>),
  Constructor_("Circle", "n", FALSE, "shape", <<>>, <<P1("", IntType)>>), Constructor_("Dot", "n", FALSE, "shape", <<>>, <<>>),
  Constructor_("Both", "*", FALSE, "two", <<>>, <<P1("", IntType), P1("", IntType)>>),
  Constructor_("Pair", "*", TRUE, "pair", <<"a", "b">>, <<P1("l", A), P1("r", Parameter("b"))>>)}

GlobalVariable(type, mutable, init) == [Variable(type, mutable, init) EXCEPT !.global = TRUE]
MCGlobalScope == <<"n", "age">> :> GlobalVariable(IntType, TRUE, Integer(2))
  @@ <<"n", "both">> :> GlobalVariable(Tuple(<<IntType, StringType>>), FALSE,
                          Named(Expr("tuple", "()", <<Integer(1), Characters(<<"s">>)>>), <<"one", "two">>))

Var(name, e) == Statement("var", name, TRUE, NoType, e)
Val(name, e) == Statement("var", name, FALSE, NoType, e)
Do(e) == Statement("expr", "", FALSE, NoType, e)
RefTo(e)  == Expr("reference", "ref", <<e>>)
Dref(e)   == Expr("dereference", "dref", <<e>>)
Assign(l, r) == Expr("assignment", "=", <<l, r>>)
Match(v, p)  == Expr("match", "===", <<v, p>>)
Cond(c, t, e) == Expr("conditional", "if", <<c, t, e>>)
ListOf(es) == Expr("list", "[]", es)
MapOf(es)  == Expr("map", "{}", es)
TupleE(es) == Expr("tuple", "()", es)
Str(c) == Characters(<<c>>)
Add(a, b) == Operator("__add__", <<a, b>>)

\* Declarations on their own ...
Base == <<
  Val("y", Integer(2)), Var("x", Integer(1)),
  Val("l", ListOf(<<Integer(1), Integer(3)>>)),
  Val("m", MapOf(<<Str("k"), Integer(1), Characters(<<"k", "j">>), Integer(2)>>)),
  Val("t", TupleE(<<Integer(1), Str("s")>>)),
  Val("b", Digits("BIT_EXPR", <<"1", "0">>)),
  Val("s", Characters(<<"u", "v">>)),
  Val("j", CallOf("Just", <<Integer(3)>>)),
  Val("o", As(Id("None"), MaybeOf(IntType))),
  Var("c", Within("n", CallOf("Circle", <<Integer(2)>>))),
  Val("d", CallOf("Both", <<Integer(2), Integer(5)>>)), Val("jj", CallOf("Just", <<CallOf("Just", <<Integer(3)>>)>>))>>
\* ... and those that are made of them.
Derived == <<
  Var("r", RefTo(Id("x"))), Val("ry", RefTo(Id("y"))), Var("q", RefTo(Id("y"))),
  Val("rl", RefTo(Id("l"))), Val("rm", RefTo(Id("m"))), Val("rt", RefTo(Id("t"))),
  Val("rb", RefTo(Id("b"))), Val("rs", RefTo(Id("s"))),
  Val("et", RefTo(Element(Id("rt"), Integer(1)))),
  Val("el", RefTo(Element(Id("rl"), Integer(1)))),
  Val("em", RefTo(Element(Id("rm"), Str("k")))),
  Val("eb", RefTo(Element(Id("rb"), Integer(1)))),
  Val("es", RefTo(Element(Id("rs"), Integer(1)))),
  Val("z", Add(Id("x"), Id("y"))), Val("u", Element(Id("l"), Id("x")))>>
Questions == <<
  Assign(Id("x"), Integer(3)), Assign(Id("y"), Integer(3)), Assign(Dref(Id("r")), Integer(3)),
  Assign(Id("r"), RefTo(Id("y"))), Assign(Id("c"), Within("n", Id("Dot"))),
  Assign(Id("x"), Str("s")), Assign(Dref(Id("et")), Str("w")),
  Assign(Within("n", Id("age")), Id("x")), Assign(Within("n", Id("age")), Add(Id("x"), Within("n", Id("age")))),
  Id("x"), Id("z"), Dref(Id("r")), Dref(Id("ry")), Dref(Id("et")), Dref(Id("x")),
  Add(Id("x"), Dref(Id("r"))), Add(Id("x"), Id("s")), Add(Id("x"), Id("j")), Add(Id("x"), Id("o")),
  Element(Id("l"), Id("x")), Element(Id("l"), Integer(-1)), Element(Id("l"), Integer(5)),
  Element(Id("m"), Str("k")), Element(Id("m"), Characters(<<"k", "j">>)), Element(Id("m"), Id("s")),
  Element(Id("m"), Id("x")), Element(Id("t"), Integer(0)), Element(Id("t"), Integer(1)),
  Element(Id("t"), Integer(2)), Element(Id("b"), Integer(0)),
  Match(Id("j"), CallOf("Just", <<As(Id("v"), IntType)>>)), Match(Id("j"), CallOf("Just", <<Integer(3)>>)),
  Match(Id("j"), CallOf("Just", <<Underscore>>)), Match(Id("j"), Underscore), Match(Id("j"), Id("None")),
  Match(Id("o"), Id("None")), Match(Id("o"), CallOf("Just", <<As(Id("w"), IntType)>>)),
  Match(Id("u"), CallOf("Just", <<As(Id("v"), IntType)>>)),
  Match(Id("c"), Within("n", CallOf("Circle", <<Underscore>>))), Match(Id("c"), Within("n", Id("Dot"))),
  Match(Id("c"), Within("n", CallOf("Circle", <<Integer(2)>>))),
  Match(Id("x"), Integer(1)), Match(Id("b"), Digits("BIT_EXPR", <<"1", "0">>)), Match(Id("s"), Str("u")),
  Match(Id("el"), CallOf("Just", <<As(Id("ev"), Ref(IntType))>>)),
  Match(Id("d"), CallOf("Both", <<As(Id("v"), IntType), Integer(5)>>)),
  Match(Id("d"), CallOf("Both", <<As(Id("v"), IntType), Integer(2)>>)),
  Match(Id("d"), CallOf("Both", <<Integer(1), As(Id("v"), IntType)>>)),
  Match(Id("d"), CallOf("Both", <<As(Id("v"), IntType), As(Id("g"), IntType)>>)),
  Match(Id("jj"), CallOf("Just", <<CallOf("Just", <<As(Id("v"), IntType)>>)>>)),
  Match(Id("jj"), CallOf("Just", <<As(Id("jv"), MaybeOf(IntType))>>)),
  Match(Id("jj"), CallOf("Just", <<Id("None")>>)),
  Id("v"), Dref(Id("ev")),
  Cond(Operator("__eq__", <<Id("x"), Id("y")>>), Id("x"), Id("y")),
  Cond(Match(Id("j"), CallOf("Just", <<As(Id("g"), IntType)>>)), Id("g"), Integer(0)),
  CallOf("first", <<Id("x"), Id("y")>>), CallOf("first", <<Id("x"), Id("s")>>),
  CallOf("first", <<Id("s"), Id("s")>>), CallOf("first", <<Id("l"), Id("l")>>),
  CallOf("twice", <<Id("x")>>), CallOf("twice", <<Id("y")>>),
  Within("n", CallOf("area", <<Id("c")>>)),
  Expr("binary", "is", <<Id("r"), RefTo(Id("x"))>>), Expr("binary", "is", <<Id("r"), Id("ry")>>),
  Expr("binary", "is not", <<Id("r"), RefTo(Id("x"))>>),
  CastOf(Id("x"), StringType), CastOf(Id("b"), StringType), Operator("__neg__", <<Id("x")>>),
  Operator("__div__", <<Id("x"), Integer(0)>>), Operator("__eq__", <<Id("b"), Id("b")>>),
  TupleE(<<Id("x"), Id("y")>>), ListOf(<<Id("x"), Id("y")>>), ListOf(<<Id("x"), Id("s")>>),
  MapOf(<<Id("x"), Id("y")>>), Expr("group", "()", <<Id("x")>>),
  Named(CallOf("Pair", <<Id("x"), Id("s")>>), <<"l", "r">>), Named(CallOf("Pair", <<Id("x"), Id("s")>>), <<"r", "l">>),
  Within("n", Expr("binary", ".", <<Id("both"), Id("two")>>)), Within("n", Element(Id("both"), Integer(0)))>>
MCOffered == Base \o Derived \o [i \in DOMAIN Questions |-> Do(Questions[i])]

(* Short programs, each about one thing. *)
X == Var("x", Integer(1))
Y == Val("y", Integer(2))
OfferedCalls     == <<X, Y, Do(CallOf("twice", <<Id("x")>>)), Do(CallOf("twice", <<Id("y")>>)),
                      Do(Add(CallOf("twice", <<Id("x")>>), Id("y")))>>
OfferedOperators == <<X, Val("j", CallOf("Just", <<Integer(3)>>)), Val("s", Str("s")),
                      Do(Add(Id("x"), Id("x"))), Do(Add(Id("x"), Id("s"))), Do(Add(Id("x"), Id("j")))>>
OfferedReassigned == <<Y, X, Var("r", RefTo(Id("x"))), Do(Assign(Id("r"), RefTo(Id("y")))),
                       Do(Assign(Dref(Id("r")), Integer(3)))>>
OfferedElements == <<Val("t", TupleE(<<Integer(1), Str("s")>>)), Var("wt", Id("t")), Var("wr", RefTo(Id("wt"))),
                     Var("we", RefTo(Element(Id("wr"), Integer(1)))), Do(Assign(Dref(Id("we")), Str("w")))>>
===============================================================================
