--------------------------- MODULE ExpressionChecker --------------------------
(***************************************************************************)
(* Which expressions are accepted (expression_checker.cpp).  A check       *)
(* returns the type of the expression and the scope, to which a match may  *)
(* have added variables; the type is Invalid where the code throws, and    *)
(* Undefined where it casts an expression to a class that it is not of.    *)
(* inside is m_inside_match: the expression is a pattern or within one.    *)
(***************************************************************************)
EXTENDS Inferer

Undefined == Instance("undefined", <<>>)
Failed(t) == t \in {Invalid, Undefined}

Yields(type, scope) == [type |-> type, scope |-> scope]
Throws(scope)       == Yields(Invalid, scope)
\* The first check that failed decides, else what is said now.
After(checked, result) == IF Failed(checked.type) THEN checked ELSE result
Require(condition, scope, result) == IF condition THEN result ELSE Throws(scope)

\* The two questions that are asked of an expression, and of those inside it:
\* whether it is accepted, and of what type it is (inferer::infer_expression).
RECURSIVE Answer(_, _, _, _, _)
check(e, scope, ns, inside) == Answer("check", e, scope, ns, inside)
TypeOf(e, scope, ns) == Answer("infer", e, scope, ns, FALSE).type
TypesOf(es, scope, ns) == [i \in DOMAIN es |-> TypeOf(es[i], scope, ns)]

\* Checks from left to right: the types, the scope and the first failure.
WithChecked(sofar, c) == [type |-> IF Failed(c.type) THEN c.type ELSE Star,
                          types |-> Append(sofar.types, c.type), scope |-> c.scope]
check_all(es, scope, ns, inside) ==
  FoldLeft(LAMBDA sofar, e :
             IF Failed(sofar.type) THEN sofar
             ELSE WithChecked(sofar, check(e, sofar.scope, ns, inside)),
           [type |-> Star, types |-> <<>>, scope |-> scope], es)
\* Then the type is inferred.
Inferred(checked, e, ns) ==
  After(checked, Yields(TypeOf(e, checked.scope, ns), checked.scope))

\* Operands: no underscore, no call with one, no match inside.
Operand(e) == ~DependsOnUnderscore(e)
IntegerLiteral(e) == e.kind = "literal" /\ e.name = "INTEGER_EXPR"

check_underscore(e, scope) == Yields(infer_underscore, scope)

-----------------------------------------------------------------------------
(* References *)

check_reference_variable(e, val, scope, ns) ==
  Require(/\ variable_exists(scope, ns, expr_token(val))
          /\ ~is_reference(get_variable(scope, ns, expr_token(val)).type), scope,
          Yields(Star, scope))

check_reference_subscript_tuple(refers, key) ==
  /\ IntegerLiteral(key) /\ key.num + 1 \in DOMAIN refers.params
  /\ ~has_reference(refers.params[key.num + 1])
check_reference_subscript_list(refers) == ~has_reference(refers)
check_reference_subscript_map(refers)  == ~has_reference(refers.params[2])

Wide(name) == CASE name \in {"bit", "qubit"} -> 1 [] name \in {"bit2", "qubit2"} -> 2
                [] name \in {"bit4", "qubit4"} -> 4 [] name \in {"bit8", "qubit8"} -> 8
                [] OTHER -> 0
check_reference_subscript_custom(refers, e, scope, ns) ==
  LET key == e.args[2]
      got == build_function("__refitem__", TypesOf(e.args, scope, ns), Star, TypeNs(refers))
  IN  /\ Wide(refers.name) > 0 => IntegerLiteral(key) /\ key.num \in 0 .. Wide(refers.name) - 1
      /\ got # Invalid
      /\ is_reference(IF got.name = "maybe" THEN got.params[1] ELSE got)

check_reference_subscript(e, scope, ns) ==
  LET name == expr_token(e.args[1])
      t == get_variable(scope, ns, name).type
      refers == t.params[1]
  IN  /\ variable_exists(scope, ns, name) /\ is_reference(t)
      /\ CASE get_category(refers) = "()" -> check_reference_subscript_tuple(refers, e.args[2])
           [] get_category(refers) = "[]" -> check_reference_subscript_list(refers)
           [] get_category(refers) = "{}" -> check_reference_subscript_map(refers)
           [] OTHER -> check_reference_subscript_custom(refers, e, scope, ns)
\* Attributes cannot be referenced (check_reference_attribute).
check_reference_binary(e, scope, ns, inside) ==
  LET index == check(e.args[2], scope, ns, inside)
  IN  After(index, Require(/\ e.args[1].kind = "identifier" /\ e.name = "[]"
                           /\ check_reference_subscript(e, index.scope, ns),
                           index.scope, Yields(Star, index.scope)))

check_reference(e, scope, ns, inside) ==
  LET val == e.args[1]
      sub == expr_token(val.args[1])
      checked ==
        CASE val.kind = "identifier" -> check_reference_variable(e, val, scope, ns)
          [] val.kind # "binary" -> Throws(scope)
          [] ~has_namespace(sub) -> check_reference_binary(val, scope, ns, inside)
          [] val.args[2].kind = "identifier" -> check_reference_variable(e, val.args[2], scope, sub)
          [] val.args[2].kind = "binary" -> check_reference_binary(val.args[2], scope, ns, inside)
          [] OTHER -> Throws(scope)
  IN  Inferred(checked, e, ns)

\* Only a variable that holds a reference, with or without its namespace.
check_dereference_variable(key, scope) == key \in DOMAIN scope /\ is_reference(scope[key].type)
check_dereference(e, scope, ns) ==
  LET val == e.args[1]
  IN  Require(/\ \/ val.kind = "identifier"
                 \/ /\ val.kind = "binary" /\ has_namespace(expr_token(val.args[1]))
                    /\ val.args[2].kind = "identifier"
              /\ check_dereference_variable(DereferencedIn(e, ns), scope),
              scope, Inferred(Yields(Star, scope), e, ns))

-----------------------------------------------------------------------------
(* Literals, tuples, lists and maps *)

check_literal(e, scope, ns) ==
  Require(e.name \in {"BIT_EXPR", "QUBIT_EXPR"} =>
            ToSet(e.text) \subseteq {"0", "1"} /\ Len(e.text) \in {0, 1, 2, 4, 8},
          scope, Inferred(Yields(Star, scope), e, ns))

check_tuple(e, scope, ns, inside) ==
  Require(~has_match_expression(e), scope,
          Inferred(check_all(e.args, scope, ns, inside), e, ns))

\* Every element is compared with the first, and with no other.
LikeFirst(types, step) ==
  \A i \in DOMAIN types : weak_compare(types[IF i % step = 1 \/ step = 1 THEN 1 ELSE 2], types[i])
CheckElements(e, step, scope, ns, inside) ==
  LET elements == check_all(e.args, scope, ns, inside)
  IN  Require(~has_match_expression(e), scope,
              After(elements, Require(LikeFirst(elements.types, step), elements.scope,
                                      Inferred(elements, e, ns))))
check_list(e, scope, ns, inside) == CheckElements(e, 1, scope, ns, inside)
check_map(e, scope, ns, inside)  == CheckElements(e, 2, scope, ns, inside)

-----------------------------------------------------------------------------
(* Calls *)

check_default_constructor(e, scope, ns, inside) ==
  Require(~has_match_expression(e) /\ ToSet(e.names) \subseteq {"*"}, scope,
          Inferred(check_all(e.args, scope, ns, inside), e, ns))

check_record_constructor(e, scope, ns, inside) ==
  LET c == ConstructorOf(TRUE, e, ns)
  IN  Require(/\ ~has_match_expression(e)
              /\ ToSet(e.names) \subseteq {c.params[i].name : i \in DOMAIN c.params}, scope,
              Inferred(check_all(e.args, scope, ns, inside), e, ns))

Passable(t) == is_complete(t) /\ ~is_quantum(t)
\* The function that a call was resolved to, copied for its arguments.
CalleeOf(e, types, ns) ==
  SpecializationOf(e.name, types, e.ret,
                   FoundIn(LAMBDA n : function_exists(n, e.name, Len(e.args)), e, ns))
NamesFit(e, callee) ==
  IF e.args # <<>> /\ e.names[1] # "*"
  THEN \A i \in DOMAIN e.names : e.names[i] = callee.params[i].name
  ELSE ToSet(e.names) \subseteq {"*"}
check_function_call(e, scope, ns, inside) ==
  Require(~has_underscore(e) /\ ~has_match_expression(e) /\ ~Annotated(e), scope,
    LET args == check_all(e.args, scope, ns, inside)
    IN  After(args, Require(
          /\ \A i \in DOMAIN args.types : Passable(args.types[i])
          /\ \A f \in CalleeOf(e, TypesOf(e.args, args.scope, ns), ns) : NamesFit(e, f),
          args.scope, Inferred(args, e, ns))))

check_call(e, scope, ns, inside) ==
  CASE CallKind(e, ns) = "function" -> check_function_call(e, scope, ns, inside)
    [] CallKind(e, ns) = "record" -> check_record_constructor(e, scope, ns, inside)
    [] CallKind(e, ns) = "default" -> check_default_constructor(e, scope, ns, inside)
    [] OTHER -> Throws(scope)

-----------------------------------------------------------------------------
(* Identifiers *)

\* An identifier with a type, in a pattern, declares the variable it names.
Capture(e, scope) ==
  LET added == [k \in DOMAIN scope \cup {<<"*", e.name>>} |->
                  IF k \in DOMAIN scope THEN scope[k]
                  ELSE Variable(e.type, FALSE, NoInit)]
  IN  Require(/\ e.ns = "*" /\ ~variable_exists(scope, "*", e.name) /\ is_complete(e.type),
              scope, Yields(e.type, added))
check_variable(e, scope, ns, inside) ==
  IF inside
  THEN Require(Annotated(e), scope, Capture(e, scope))
  ELSE Require(~has_match_expression(get_variable(scope, e.ns, e.name).init), scope,
               Yields(TypeOf(e, scope, ns), scope))
check_constructor(e, scope, ns) == Yields(TypeOf(e, scope, ns), scope)
check_identifier(e, scope, ns, inside) ==
  CASE variable_exists(scope, e.ns, e.name) \/ (inside /\ Annotated(e)) ->
         check_variable(e, scope, ns, inside)
    [] \/ default_constructor_exists(e.ns, e.name, 0)
       \/ e.ns = "*" /\ default_constructor_exists(ns, e.name, 0) ->
         check_constructor(e, scope, ns)
    [] OTHER -> Throws(scope)

-----------------------------------------------------------------------------
(* Operators *)

check_grouping(e, scope, ns, inside) ==
  Require(~has_match_expression(e), scope, Inferred(check(e.args[1], scope, ns, inside), e, ns))

\* The operands, then the function that carries the operator out.
CheckOperator(e, scope, ns, inside) ==
  Require(~has_match_expression(e) /\ \A i \in DOMAIN e.args : Operand(e.args[i]), scope,
          Inferred(check_all(e.args, scope, ns, inside), e, ns))
check_cast(e, scope, ns, inside) ==
  Require(is_complete(e.ret), scope, CheckOperator(e, scope, ns, inside))
check_unary(e, scope, ns, inside) == CheckOperator(e, scope, ns, inside)
check_functional_binary(e, scope, ns, inside) == CheckOperator(e, scope, ns, inside)

IsReference(e, t) == e.kind = "reference" \/ (e.kind = "identifier" /\ is_reference(t))
check_is_binary(e, scope, ns, inside) ==
  LET operands == check_all(e.args, scope, ns, inside)
  IN  After(operands, Require(\A i \in {1, 2} : IsReference(e.args[i], operands.types[i]),
                              operands.scope, Yields(infer_is_binary, operands.scope)))

(* Subscripts and attributes of variables *)

check_tuple_subscript(t, key, scope) ==
  Require(IntegerLiteral(key) /\ key.num < Len(t.params), scope,
          Yields(infer_tuple_subscript(t, key), scope))
check_list_subscript(t, key, scope, ns, inside) ==
  LET index == check(key, scope, ns, inside)
  IN  After(index, Require(strong_compare(index.type, IntType), index.scope,
                           Yields(infer_list_subscript(t), index.scope)))
check_map_subscript(t, key, scope, ns, inside) ==
  LET index == check(key, scope, ns, inside)
  IN  After(index, Require(strong_compare(index.type, t.params[1]), index.scope,
                           Yields(infer_map_subscript(t), index.scope)))
check_custom_subscript(of, key, scope, ns, inside) ==
  Inferred(check(key, scope, ns, inside), Element(of, key), ns)
check_variable_subscript(of, key, scope, ns, inside) ==
  LET checked == check(of, scope, ns, inside)
      t == get_variable(scope, of.ns, of.name).type
  IN  After(checked,
        CASE get_category(t) = "()" -> check_tuple_subscript(t, key, scope)
          [] get_category(t) = "[]" -> check_list_subscript(t, key, scope, ns, inside)
          [] get_category(t) = "{}" -> check_map_subscript(t, key, scope, ns, inside)
          [] OTHER -> check_custom_subscript(of, key, scope, ns, inside))
check_subscript_binary(e, scope, ns, inside) ==
  LET of == e.args[1]
  IN  Require(/\ Operand(of) /\ Operand(e.args[2])
              /\ of.kind = "identifier" /\ variable_exists(scope, of.ns, of.name), scope,
              check_variable_subscript(of, e.args[2], scope, ns, inside))

check_tuple_attribute(tuple, name, scope, ns, inside) ==
  LET at == {i \in DOMAIN tuple.names : tuple.names[i] = name}
  IN  Require(at # {}, scope, check(tuple.args[Min(at)], scope, ns, inside))
check_custom_attribute(of, name, scope, ns) ==
  Yields(TypeOf(Expr("binary", ".", <<of, Id(name)>>), scope, ns), scope)
\* A local named tuple has no attributes (yet); one of a parameter neither.
check_variable_attribute(of, name, scope, ns, inside) ==
  LET checked == check(of, scope, ns, inside)
      variable == get_variable(scope, of.ns, of.name)
  IN  After(checked,
        IF variable.init.kind # "tuple" THEN check_custom_attribute(of, name, scope, ns)
        ELSE Require(variable.global, scope,
                     check_tuple_attribute(variable.init, name, scope, ns, inside)))

\* Behind the name of a namespace; a variable there is checked as one.
check_namespace_binary(sub, e, scope, ns, inside) ==
  LET within == [e EXCEPT !.ns = sub]
      of == [e.args[1] EXCEPT !.ns = sub]
  IN  CASE e.kind = "identifier" -> check_identifier(within, scope, ns, inside)
        [] e.kind = "call" -> check_call(within, scope, ns, inside)
        [] \/ e.kind # "binary" \/ e.args[1].kind # "identifier"
           \/ ~variable_exists(scope, sub, expr_token(e.args[1])) -> Throws(scope)
        [] e.name = "." -> check_variable_attribute(of, expr_token(e.args[2]), scope, ns, inside)
        [] e.name = "[]" -> check_variable_subscript(of, e.args[2], scope, ns, inside)
        [] OTHER -> Throws(scope)
check_dot_binary(e, scope, ns, inside) ==
  LET left == e.args[1]
      right == e.args[2]
  IN  CASE ~Operand(left) \/ ~Operand(right) -> Throws(scope)
        [] has_namespace(expr_token(left)) ->
             check_namespace_binary(expr_token(left), right, scope, ns, inside)
        [] variable_exists(scope, ns, expr_token(left)) /\ right.kind = "identifier" ->
             check_variable_attribute(left, expr_token(right), scope, ns, inside)
        [] OTHER -> Throws(scope)
check_binary(e, scope, ns, inside) ==
  CASE has_match_expression(e) -> Throws(scope)
    [] e.name \in {"is", "is not"} -> check_is_binary(e, scope, ns, inside)
    [] e.name = "." -> check_dot_binary(e, scope, ns, inside)
    [] e.name = "[]" -> check_subscript_binary(e, scope, ns, inside)
    [] OTHER -> check_functional_binary(e, scope, ns, inside)

-----------------------------------------------------------------------------
(* Matches, conditionals and assignments *)

\* What may stand on the right: an underscore, a literal, a constructor.
MatchablePattern(p, ns) ==
  LET sub == expr_token(p.args[1])
  IN  CASE p.kind \in {"underscore", "literal"} -> TRUE
        [] p.kind = "identifier" -> default_constructor_exists(ns, p.name, 0)
        [] p.kind = "call" -> ~has_function(ns, p.name)
        [] p.kind = "binary" ->
             /\ p.args[1].kind = "identifier" /\ has_namespace(sub)
             /\ p.args[2].kind = "identifier" => default_constructor_exists(sub, p.args[2].name, 0)
             /\ p.args[2].kind = "call" => ~has_function(sub, p.args[2].name)
        [] OTHER -> FALSE
check_match(e, scope, ns, inside) ==
  LET left == check(e.args[1], scope, ns, inside)
      right == check(e.args[2], left.scope, ns, TRUE)
  IN  Require(MatchablePattern(e.args[2], ns), scope,
              After(left, After(right, Require(weak_compare(left.type, right.type), right.scope,
                                               Inferred(right, e, ns)))))

\* The lengths of two strings, lists or maps are compared: the second is
\* taken to be of the class of the first.
Measured(e) == e.kind \in {"list", "map"} \/ (e.kind = "literal" /\ e.name = "STRING_EXPR")
LengthOf(e) == IF e.kind = "literal" THEN Len(e.text) ELSE Len(e.args)
check_conditional(e, scope, ns, inside) ==
  LET parts == check_all(e.args, scope, ns, inside)
      then == e.args[2]
      else == e.args[3]
  IN  After(parts,
        CASE \/ ~strong_compare(parts.types[1], BoolType)
             \/ ~strong_compare(parts.types[2], parts.types[3]) -> Throws(parts.scope)
          [] Measured(then) /\ then.kind # else.kind -> Yields(Undefined, parts.scope)
          [] Measured(then) /\ LengthOf(then) # LengthOf(else) -> Throws(parts.scope)
          [] OTHER -> Inferred(parts, e, ns))

\* The variable that a reference expression was made of.
ReferencedBy(e, ns) ==
  LET val == e.args[1]
      sub == expr_token(val.args[1])
  IN  CASE val.kind = "identifier" -> <<ns, val.name>>
        [] ~has_namespace(sub) -> <<ns, sub>>
        [] val.args[2].kind = "identifier" -> <<sub, expr_token(val.args[2])>>
        [] OTHER -> <<ns, expr_token(val.args[2].args[1])>>

Mutable(scope, key) == key \in DOMAIN scope /\ scope[key].mutable
\* What may be assigned to; the reference is judged by its initializer.
CheckTarget(e, scope, ns) ==
  LET holder == DereferencedIn(e, ns)
      init == scope[holder].init
  IN  CASE e.kind = "identifier" -> IF Mutable(scope, <<e.ns, e.name>>) THEN Star ELSE Invalid
        [] e.kind = "binary" ->
             IF /\ e.args[1].kind = "identifier" /\ has_namespace(e.args[1].name)
                /\ e.args[2].kind = "identifier" /\ Mutable(scope, <<e.args[1].name, e.args[2].name>>)
             THEN Star ELSE Invalid
        [] e.kind = "reference" -> Invalid
        [] e.kind = "dereference" ->
             CASE check_dereference(e, scope, ns).type = Invalid -> Invalid
               [] ~Mutable(scope, holder) -> Invalid
               [] init.kind # "reference" -> Undefined
               [] Mutable(scope, ReferencedBy(init, "*")) -> Star
               [] OTHER -> Invalid
        [] OTHER -> Star
check_assignment(e, scope, ns, inside) ==
  LET target == CheckTarget(e.args[1], scope, ns)
      sides == check_all(e.args, scope, ns, inside)
  IN  CASE has_match_expression(e) -> Throws(scope)
        [] Failed(target) -> Yields(target, scope)
        [] OTHER -> After(sides, Require(/\ ~is_quantum(sides.types[2])
                                         /\ strong_compare(sides.types[1], sides.types[2]),
                                         sides.scope, Yields(sides.types[1], sides.scope)))

-----------------------------------------------------------------------------
CheckCompound(e, scope, ns, inside) ==
  CASE e.kind = "group" -> check_grouping(e, scope, ns, inside)
    [] e.kind = "cast" -> check_cast(e, scope, ns, inside)
    [] e.kind = "unary" -> check_unary(e, scope, ns, inside)
    [] e.kind = "binary" -> check_binary(e, scope, ns, inside)
    [] e.kind = "match" -> check_match(e, scope, ns, inside)
    [] e.kind = "conditional" -> check_conditional(e, scope, ns, inside)
    [] e.kind = "assignment" -> check_assignment(e, scope, ns, inside)
CheckForm(e, scope, ns, inside) ==
  CASE e.kind = "underscore" -> check_underscore(e, scope)
    [] e.kind = "reference" -> check_reference(e, scope, ns, inside)
    [] e.kind = "dereference" -> check_dereference(e, scope, ns)
    [] e.kind = "literal" -> check_literal(e, scope, ns)
    [] e.kind = "tuple" -> check_tuple(e, scope, ns, inside)
    [] e.kind = "list" -> check_list(e, scope, ns, inside)
    [] e.kind = "map" -> check_map(e, scope, ns, inside)
    [] e.kind = "call" -> check_call(e, scope, ns, inside)
    [] e.kind = "identifier" -> check_identifier(e, scope, ns, inside)
    [] OTHER -> CheckCompound(e, scope, ns, inside)
Answer(question, e, scope, ns, inside) ==
  IF question = "infer" THEN Yields(infer(e, scope, ns), scope) ELSE CheckForm(e, scope, ns, inside)
===============================================================================
