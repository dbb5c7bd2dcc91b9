------------------------------ MODULE Expressions -----------------------------
(***************************************************************************)
(* The parts of the syntax tree that the checks of expressions and the     *)
(* interpreter ask: type instances, and expressions with the declarations  *)
(* they may name.                                                          *)
(***************************************************************************)
EXTENDS Integers, SequencesExt, FiniteSetsExt

-----------------------------------------------------------------------------
(***************************************************************************)
(* Type instances as the checks of expressions compare them: a type, and   *)
(* the instances it is built from.  A parameter of a type, a constraint of *)
(* a function and the star, which stands for a type not known yet, have no *)
(* type behind them and are called abstract.  Tuples, lists, maps and      *)
(* references are categories of their own.                                 *)
(***************************************************************************)

CONSTANT Parameters   \* the names of parameters of types and of constraints

Instance(name, params) == [name |-> name, params |-> params]

Star          == Instance("*", <<>>)
Parameter(a)  == Instance(a, <<>>)
Plain(name)   == Instance(name, <<>>)
Ref(t)        == Instance("ref", <<t>>)
List(t)       == Instance("[]", <<t>>)
Map(k, v)     == Instance("{}", <<k, v>>)
Tuple(ts)     == Instance("()", ts)
MaybeOf(t)    == Instance("maybe", <<t>>)

IntType    == Plain("int")
StringType == Plain("string")
BoolType   == Plain("bool")

\* The outcome of an inference that ends in an error; no type at all.
Invalid == Instance("invalid", <<>>)
NoType  == Instance("none", <<>>)

\* The type a builtin program writes as the names it is nested in.
RECURSIVE Nested(_)
Nested(names) == IF names = <<"*">> THEN Star
                 ELSE Instance(Head(names), IF Len(names) = 1 THEN <<>>
                                            ELSE <<Nested(Tail(names))>>)
\* ... and back: what the implementation of a builtin sees of a type.
RECURSIVE Names(_)
Names(t) == <<t.name>> \o (IF t.params = <<>> THEN <<>> ELSE Names(t.params[1]))

-----------------------------------------------------------------------------

is_star(t)      == t.name = "*"
is_abstract(t)  == t.name \in Parameters \cup {"*"}
is_reference(t) == t.name = "ref"
\* TUPLE, LIST and MAP; everything else is a USER type, the abstract too.
get_category(t) == IF t.name \in {"()", "[]", "{}"} THEN t.name ELSE "user"
is_quantum(t)   == t.name \in {"qubit", "qubit2", "qubit4", "qubit8"}

RECURSIVE is_complete(_)
is_complete(t) == /\ ~is_abstract(t)
                  /\ t # Invalid
                  /\ \A i \in DOMAIN t.params : is_complete(t.params[i])
is_parametrized(t) == ~is_abstract(t) /\ ~is_complete(t)

RECURSIVE has_reference(_)
has_reference(t) == is_reference(t) \/ \E i \in DOMAIN t.params : has_reference(t.params[i])

RECURSIVE depends_on(_, _)
depends_on(t, constraints) ==
  IF t.params = <<>> THEN t.name \in constraints
  ELSE \E i \in DOMAIN t.params : \/ t.params[i].name \in constraints
                                  \/ depends_on(t.params[i], constraints)

\* Of two instances of one category, neither of which is abstract.
SameType(s, t, Compare(_, _)) ==
  /\ s.name = t.name
  /\ Len(s.params) = Len(t.params)
  /\ \A i \in DOMAIN s.params : Compare(s.params[i], t.params[i])

RECURSIVE strong_compare(_, _)
strong_compare(s, t) ==
  /\ get_category(s) = get_category(t)
  /\ is_reference(s) = is_reference(t)
  /\ IF is_abstract(s) \/ is_abstract(t) THEN is_abstract(s) /\ is_abstract(t)
     ELSE SameType(s, t, strong_compare)

RECURSIVE weak_compare(_, _)
weak_compare(s, t) ==
  /\ get_category(s) = get_category(t)
  /\ is_reference(s) = is_reference(t)
  /\ is_abstract(s) \/ is_abstract(t) \/ SameType(s, t, weak_compare)

RECURSIVE weight(_, _)
weight(s, t) ==
  CASE ~weak_compare(s, t) -> 0
    [] s.params = <<>> /\ t.params = <<>> ->
         IF is_abstract(s) \/ is_abstract(t) THEN 1 ELSE 2
    [] s.params # <<>> /\ t.params # <<>> ->
         FoldLeft(LAMBDA w, i : w + 1 + weight(s.params[i], t.params[i]),
                  0, [i \in DOMAIN s.params |-> i])
    [] OTHER -> 1

-----------------------------------------------------------------------------
(***************************************************************************)
(* Expressions, the declarations they may name, and what the predicates of *)
(* an expression say of it.  Every expression is a record of one shape:    *)
(*   kind   which class of expression it is                                *)
(*   name   the operator, the name called, the form of a literal           *)
(*   args   the expressions inside it, in order (a map: key, value, ...)   *)
(*   names  the names that arguments or elements of a tuple are given      *)
(*   type   the type instance written behind it, NoType if none            *)
(*   ret    the return type asked of a call, the target of a cast          *)
(*   ns     the namespace of a call or of an identifier                    *)
(*   num, text  what a literal says; text names the variable of a reference*)
(* A value is an expression that evaluates to itself.                      *)
(***************************************************************************)

Expr(kind, name, args) ==
  [kind |-> kind, name |-> name, args |-> args, names |-> [i \in DOMAIN args |-> "*"],
   type |-> NoType, ret |-> Star, ns |-> "*", num |-> 0, text |-> <<>>]

Underscore        == Expr("underscore", "_", <<>>)
Id(name)          == Expr("identifier", name, <<>>)
Integer(n)        == [Expr("literal", "INTEGER_EXPR", <<>>) EXCEPT !.num = n]
Characters(chars) == [Expr("literal", "STRING_EXPR", <<>>) EXCEPT !.text = chars]
\* The digits of a bit string or a qubit string, and the number they make.
Digits(form, digits) ==
  [Expr("literal", form, <<>>) EXCEPT
     !.text = digits, !.num = FoldLeft(LAMBDA n, d : 2 * n + (IF d = "1" THEN 1 ELSE 0), 0, digits)]
CallOf(name, args)   == Expr("call", name, args)
Operator(name, args) == Expr(IF Len(args) = 1 THEN "unary" ELSE "binary", name, args)
As(e, type)          == [e EXCEPT !.type = type]
Within(ns, e)        == Expr("binary", ".", <<Id(ns), e>>)
Element(e, index)    == Expr("binary", "[]", <<e, index>>)
Named(e, names)      == [e EXCEPT !.names = names]
CastOf(e, type)      == [Expr("cast", "cast", <<e>>) EXCEPT !.ret = type]

\* What an error message or a comparison calls an expression by.
expr_token(e) == e.name

RECURSIVE has_match_expression(_)
has_match_expression(e) ==
  e.kind = "match" \/ \E i \in DOMAIN e.args : has_match_expression(e.args[i])
\* (asked of calls: tuples and lists inside one are looked into as well)
RECURSIVE has_underscore(_)
has_underscore(e) ==
  e.kind = "underscore" \/ \E i \in DOMAIN e.args : has_underscore(e.args[i])
DependsOnUnderscore(e) == e.kind = "underscore" \/ (e.kind = "call" /\ has_underscore(e))

-----------------------------------------------------------------------------
(* Declarations.  A function is                                            *)
(*   [name, ns, params, ret, constraints, body, builtin]                   *)
(* where params are [name, type]; a constructor is                         *)
(*   [name, ns, record, owner, parameters, params]                         *)
(* where owner is the type it builds and parameters are that type's own.   *)
(* A statement is [kind, name, mutable, type, value], kind being "var",    *)
(* "expr" or "return".                                                     *)

CONSTANTS
  Functions,      \* the functions that can be called
  Constructors,   \* the constructors of the types in scope
  Namespaces      \* the namespaces other than "*"

Statement(kind, name, mutable, type, value) ==
  [kind |-> kind, name |-> name, mutable |-> mutable, type |-> type, value |-> value]

functions(ns, name, arity) ==
  {f \in Functions : f.name = name /\ f.ns = ns /\ Len(f.params) = arity}
function_exists(ns, name, arity) == functions(ns, name, arity) # {}
has_function(ns, name) == \E f \in Functions : f.name = name /\ f.ns = ns
constructors(record, ns, name, arity) ==
  {c \in Constructors : /\ c.name = name /\ c.ns = ns
                        /\ c.record = record /\ Len(c.params) = arity}
default_constructor_exists(ns, name, arity) == constructors(FALSE, ns, name, arity) # {}
record_constructor_exists(ns, name, arity)  == constructors(TRUE, ns, name, arity) # {}
has_namespace(name) == name \in Namespaces
===============================================================================
