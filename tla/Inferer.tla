------------------------------- MODULE Inferer -------------------------------
(***************************************************************************)
(* The type instance of an expression (inferer.cpp).  An inference that    *)
(* throws yields Invalid.  scope maps each <<namespace, name>> to the      *)
(* variable of that name:                                                  *)
(*   [type, mutable, global, init, interpreted]                            *)
(* where init is its initializer, NoInit for a parameter or a capture, and *)
(* its value when the program runs.                                        *)
(* What is written back into the expressions is left out: the values that  *)
(* builtin functions look at carry the type of their own literal.          *)
(***************************************************************************)
EXTENDS FunctionSearch

NoInit == Expr("none", "", <<>>)
Variable(type, mutable, init) == [type |-> type, mutable |-> mutable, global |-> FALSE,
                                  init |-> init, interpreted |-> FALSE]
variable_exists(scope, ns, name) == <<ns, name>> \in DOMAIN scope
get_variable(scope, ns, name)    == scope[<<ns, name>>]

Annotated(e)  == e.type # NoType
Wrapped(t, w) == IF t = Invalid THEN Invalid ELSE w
\* complex_check: every name in an instance is a type or a known parameter.
RECURSIVE Abstract(_)
Abstract(t) == (IF is_abstract(t) /\ ~is_star(t) THEN {t.name} ELSE {})
               \cup UNION {Abstract(t.params[i]) : i \in DOMAIN t.params}
complex_check(t, standins) == IF Abstract(t) \subseteq standins THEN t ELSE Invalid

OwnerOf(t) == {c \in Constructors : c.owner = t.name}
\* The namespace and the parameters of the type behind an instance.
TypeNs(t) == IF OwnerOf(t) = {} THEN "*" ELSE (CHOOSE c \in OwnerOf(t) : TRUE).ns
OwnParameters(t) ==
  IF OwnerOf(t) = {} THEN {} ELSE ToSet((CHOOSE c \in OwnerOf(t) : TRUE).parameters)

\* Where a name without a namespace was found: here, or in the global one.
FoundIn(Exists(_), e, ns) == IF e.ns = "*" /\ Exists(ns) THEN ns ELSE e.ns
ConstructorOf(record, e, ns) ==
  CHOOSE c \in constructors(record,
                            FoundIn(LAMBDA n : constructors(record, n, e.name, Len(e.args)) # {}, e, ns),
                            e.name, Len(e.args)) : TRUE
\* What a call turns out to be: a function comes before any constructor.
CallKind(e, ns) ==
  LET arity == Len(e.args)
      Here(Exists(_)) == Exists(e.ns) \/ (e.ns = "*" /\ Exists(ns))
      record_syntax == \E i \in DOMAIN e.names : e.names[i] # "*"
  IN  CASE Here(LAMBDA n : function_exists(n, e.name, arity)) -> "function"
        [] record_syntax /\ Here(LAMBDA n : record_constructor_exists(n, e.name, arity)) -> "record"
        [] ~record_syntax /\ Here(LAMBDA n : default_constructor_exists(n, e.name, arity)) -> "default"
        [] OTHER -> "none"

\* The parameter that an argument of a constructor is for.
ParameterAt(c, e, i) ==
  IF c.record THEN c.params[CHOOSE j \in DOMAIN c.params : c.params[j].name = e.names[i]].type
  ELSE c.params[i].type

-----------------------------------------------------------------------------
(* The type written behind an expression completes the one inferred, and   *)
(* those of the expressions inside.                                        *)

RECURSIVE Settable(_, _, _, _)   \* set_type_instance does not throw

replace_instance(c, param, new) ==
  LET at(t) == IF t.name \in ToSet(c.parameters)
               THEN new.params[CHOOSE i \in DOMAIN c.parameters : c.parameters[i] = t.name] ELSE t
  IN  IF is_abstract(param) THEN at(param)
      ELSE Instance(param.name, [i \in DOMAIN param.params |-> at(param.params[i])])

\* Every element is given the types of all the parameters, the first alone.
set_tuple_instance(e, new, scope, ns) ==
  e.args # <<>> => \A i \in DOMAIN new.params : Settable(e.args[1], new.params[i], scope, ns)
set_list_instance(e, new, scope, ns) ==
  \A i \in DOMAIN e.args : Settable(e.args[i], new.params[1], scope, ns)
set_map_instance(e, new, scope, ns) ==
  \A i \in DOMAIN e.args : Settable(e.args[i], new.params[IF i % 2 = 1 THEN 1 ELSE 2], scope, ns)

-----------------------------------------------------------------------------

RECURSIVE infer(_, _, _)

infer_underscore == Star

\* What a constructor's parameter says of the parameters of its type.
ReplacedIn(dest, params) == IF Invalid \in ToSet(params) THEN Invalid ELSE Instance(dest.name, params)
RECURSIVE build_type_instance(_, _, _, _)
build_type_instance(c, dest, cons, expr) ==
  LET Replace(i) == CASE c.parameters[i] # cons.name -> dest.params[i]
                      [] dest.params[i] = cons -> expr
                      [] weak_compare(dest.params[i], expr) -> dest.params[i]
                      [] OTHER -> Invalid
      both == {i \in DOMAIN cons.params : i \in DOMAIN expr.params}
  IN  CASE dest = Invalid \/ expr = Invalid -> Invalid
        [] is_abstract(cons) -> ReplacedIn(dest, [i \in DOMAIN dest.params |-> Replace(i)])
        [] ~weak_compare(cons, expr) -> Invalid
        [] OTHER -> FoldLeft(LAMBDA d, i : build_type_instance(c, d, cons.params[i], expr.params[i]),
                             dest, [i \in 1 .. Cardinality(both) |-> i])

\* Found, copied for these types, and its return type.
SpecializationOf(name, args, ret, ns) ==
  {generate(f, args, ret) : f \in find_function(name, args, ret, ns)}
ReturnOf(found, args, ret) ==
  IF found = {} THEN Invalid ELSE complex_check(Header(CHOOSE f \in found : TRUE, args, ret).ret, {})
build_function(name, args, ret, ns) ==
  IF Invalid \in ToSet(args) THEN Invalid ELSE ReturnOf(find_function(name, args, ret, ns), args, ret)

infer_all(es, scope, ns) == [i \in DOMAIN es |-> infer(es[i], scope, ns)]

\* A type instance that was written is complete and fits the one inferred.
Posted(e, inferred, Set(_, _, _, _), scope, ns) ==
  CASE inferred = Invalid \/ ~Annotated(e) -> inferred
    [] is_complete(e.type) /\ weak_compare(e.type, inferred) ->
         IF Set(e, e.type, scope, ns) THEN e.type ELSE Invalid
    [] OTHER -> Invalid
SetNothing(e, new, scope, ns) == TRUE

(* References and dereferences *)

infer_reference_variable(val, scope, ns) ==
  LET t == get_variable(scope, ns, val.name).type IN Wrapped(t, Ref(t))
infer_reference_subscript_tuple(var_type, key) == Ref(var_type.params[key.num + 1])
infer_reference_subscript_list(var_type) == MaybeOf(Ref(var_type.params[1]))
infer_reference_subscript_map(var_type) == MaybeOf(Ref(var_type.params[2]))
\* (the type of the variable is that of the reference, not of what it refers to)
infer_reference_subscript_custom(var_type, e, scope, ns) ==
  build_function("__refitem__", infer_all(e.args, scope, ns), Star, TypeNs(var_type))
infer_reference_subscript(e, scope, ns) ==
  LET refers == get_variable(scope, ns, expr_token(e.args[1])).type.params[1]
  IN  CASE get_category(refers) = "()" -> infer_reference_subscript_tuple(refers, e.args[2])
        [] get_category(refers) = "[]" -> infer_reference_subscript_list(refers)
        [] get_category(refers) = "{}" -> infer_reference_subscript_map(refers)
        [] OTHER -> infer_reference_subscript_custom(refers, e, scope, ns)
infer_reference(e, scope, ns) ==
  LET val == e.args[1]
  IN  CASE val.kind = "identifier" -> infer_reference_variable(val, scope, ns)
        [] has_namespace(expr_token(val.args[1])) /\ val.args[2].kind # "binary" ->
             infer_reference_variable(val.args[2], scope, expr_token(val.args[1]))
        [] OTHER -> infer_reference_subscript(IF has_namespace(expr_token(val.args[1])) THEN val.args[2] ELSE val,
                                              scope, ns)

DereferencedIn(e, ns) == IF e.args[1].kind = "identifier" THEN <<ns, expr_token(e.args[1])>>
                         ELSE <<expr_token(e.args[1].args[1]), expr_token(e.args[1].args[2])>>
infer_dereference(e, scope, ns) == scope[DereferencedIn(e, ns)].type.params[1]

(* Literals, tuples, lists and maps *)

BitNames   == [n \in {1, 2, 4, 8} |-> CASE n = 1 -> "bit" [] n = 2 -> "bit2"
                                         [] n = 4 -> "bit4" [] n = 8 -> "bit8"]
QubitNames == [n \in {1, 2, 4, 8} |-> CASE n = 1 -> "qubit" [] n = 2 -> "qubit2"
                                         [] n = 4 -> "qubit4" [] n = 8 -> "qubit8"]
LiteralType(e) ==
  CASE e.name = "INTEGER_EXPR" -> IntType
    [] e.name = "FLOATING_POINT_EXPR" -> Plain("float")
    [] e.name = "STRING_EXPR" -> StringType
    [] Len(e.text) \notin DOMAIN BitNames -> Invalid
    [] e.name = "BIT_EXPR" -> Plain(BitNames[Len(e.text)])
    [] OTHER -> Plain(QubitNames[Len(e.text)])
infer_literal(e, scope, ns) == Posted(e, LiteralType(e), SetNothing, scope, ns)

infer_tuple(e, scope, ns) ==
  LET elements == infer_all(e.args, scope, ns)
  IN  IF Invalid \in ToSet(elements) THEN Invalid
      ELSE Posted(e, complex_check(Tuple(elements), {}), set_tuple_instance, scope, ns)

(* A list is of the type of its first element; one that is not complete    *)
(* makes the list incomplete.  An empty one is what is written behind it.  *)
Empty(e, category) == CASE ~Annotated(e) -> Star
                        [] get_category(e.type) = category /\ is_complete(e.type) -> e.type
                        [] OTHER -> Invalid
ListOfElements(e, elements, inferred, scope, ns) ==
  LET open == {i \in DOMAIN elements : ~is_complete(elements[i])}
  IN  IF Annotated(e) \/ open = {} THEN Posted(e, inferred, set_list_instance, scope, ns)
      ELSE Wrapped(inferred, List(elements[CHOOSE i \in open : TRUE]))
InferListOf(e, elements, scope, ns) ==
  IF Invalid \in ToSet(elements) THEN Invalid
  ELSE ListOfElements(e, elements, complex_check(List(elements[1]), OwnParameters(elements[1])), scope, ns)
infer_list(e, scope, ns) ==
  IF e.args = <<>> THEN Empty(e, "[]") ELSE InferListOf(e, infer_all(e.args, scope, ns), scope, ns)

\* The hash of a key and the comparison of two hashes.
Hashed(key) ==
  \A f \in {<<"__hash__", <<key>>, IntType, TypeNs(key)>>, <<"__eq__", <<IntType, IntType>>, BoolType, "*">>} :
    build_function(f[1], f[2], f[3], f[4]) # Invalid
InferMapOf(e, key, value, scope, ns) ==
  IF Invalid \in {key, value} \/ ~Hashed(key) THEN Invalid
  ELSE Posted(e, complex_check(Map(key, value), {}), set_map_instance, scope, ns)
infer_map(e, scope, ns) ==
  IF e.args = <<>> THEN Empty(e, "{}")
  ELSE InferMapOf(e, infer(e.args[1], scope, ns), infer(e.args[2], scope, ns), scope, ns)

(* Calls *)

SetArgument(e, final, scope, ns) == weak_compare(infer(e, scope, ns), final) /\ Settable(e, final, scope, ns)
SetArguments(c, e, new, scope, ns) ==
  \A i \in DOMAIN e.args : SetArgument(e.args[i], replace_instance(c, ParameterAt(c, e, i), new), scope, ns)
set_call_instance(e, new, scope, ns) ==
  SetArguments(ConstructorOf(CallKind(e, ns) = "record", e, ns), e, new, scope, ns)

\* A constructor, default or record, called or standing alone.
OpenInstance(c) == Instance(c.owner, [i \in DOMAIN c.parameters |-> Parameter(c.parameters[i])])
ConstructedBy(c, e, Set(_, _, _, _), scope, ns) ==
  Posted(e, complex_check(FoldLeft(LAMBDA d, i : build_type_instance(c, d, ParameterAt(c, e, i),
                                                                     infer(e.args[i], scope, ns)),
                                   OpenInstance(c), [i \in DOMAIN e.args |-> i]),
                          ToSet(c.parameters)), Set, scope, ns)
InferConstruction(record, e, Set(_, _, _, _), scope, ns) ==
  ConstructedBy(ConstructorOf(record, e, ns), e, Set, scope, ns)
infer_default_constructor(e, scope, ns) ==
  InferConstruction(FALSE, e, set_call_instance, scope, ns)
infer_record_constructor(e, scope, ns) ==
  InferConstruction(TRUE, e, set_call_instance, scope, ns)
infer_constructor(e, scope, ns) == InferConstruction(FALSE, e, SetNothing, scope, ns)

infer_function_call(e, scope, ns) ==
  build_function(e.name, infer_all(e.args, scope, ns), e.ret,
                 FoundIn(LAMBDA n : function_exists(n, e.name, Len(e.args)), e, ns))
infer_call(e, scope, ns) ==
  CASE CallKind(e, ns) = "default" -> infer_default_constructor(e, scope, ns)
    [] CallKind(e, ns) = "record" -> infer_record_constructor(e, scope, ns)
    [] OTHER -> infer_function_call(e, scope, ns)

(* Identifiers, groups, casts, operators *)

\* (one without a type is being declared)
infer_variable(e, scope, ns) ==
  IF variable_exists(scope, e.ns, e.name) /\ get_variable(scope, e.ns, e.name).type # NoType
  THEN Posted(e, get_variable(scope, e.ns, e.name).type, SetNothing, scope, ns) ELSE Invalid
infer_identifier(e, scope, ns) ==
  IF variable_exists(scope, e.ns, e.name) THEN infer_variable(e, scope, ns)
  ELSE infer_constructor(e, scope, ns)

infer_grouping(e, scope, ns) == infer(e.args[1], scope, ns)
InferOperator(name, e, Ret(_), scope, ns) ==
  LET operands == infer_all(e.args, scope, ns)
  IN  build_function(name, operands, Ret(operands[1]), TypeNs(operands[1]))
infer_cast(e, scope, ns) == InferOperator("__cast__", e, LAMBDA t : e.ret, scope, ns)
\* A unary operator returns what it is applied to, a binary one anything.
infer_unary(e, scope, ns) == InferOperator(e.name, e, LAMBDA t : t, scope, ns)
infer_functional_binary(e, scope, ns) == InferOperator(e.name, e, LAMBDA t : Star, scope, ns)
infer_is_binary == BoolType

(* Attributes and subscripts *)

infer_tuple_attribute(tuple, name, scope, ns) ==
  LET at == {i \in DOMAIN tuple.names : tuple.names[i] = name}
  IN  IF at = {} THEN Invalid ELSE infer(tuple.args[Min(at)], scope, ns)
\* The function whose name the attribute or the index is a part of.
InferAccess(function, of, scope, ns) ==
  LET t == infer(of, scope, ns) IN build_function(function, <<t>>, Star, TypeNs(t))
infer_custom_attribute(of, name, scope, ns) ==
  InferAccess("__getattr_" \o name \o "__", of, scope, ns)
infer_variable_attribute(of, name, scope, ns) ==
  LET init == get_variable(scope, of.ns, of.name).init
  IN  IF init.kind = "tuple" THEN infer_tuple_attribute(init, name, scope, ns)
      ELSE infer_custom_attribute(of, name, scope, ns)

infer_tuple_subscript(var_type, key) ==
  IF key.num + 1 \in DOMAIN var_type.params THEN var_type.params[key.num + 1] ELSE Invalid
infer_list_subscript(var_type) == MaybeOf(var_type.params[1])
infer_map_subscript(var_type)  == MaybeOf(var_type.params[2])
infer_custom_subscript(of, key, scope, ns) ==
  InferAccess("__getitem_" \o ToString(key.num) \o "__", of, scope, ns)
infer_variable_subscript(of, key, scope, ns) ==
  LET t == get_variable(scope, of.ns, of.name).type
  IN  CASE get_category(t) = "()" -> infer_tuple_subscript(t, key)
        [] get_category(t) = "[]" -> infer_list_subscript(t)
        [] get_category(t) = "{}" -> infer_map_subscript(t)
        [] OTHER -> infer_custom_subscript(of, key, scope, ns)

\* What is behind the name of a namespace belongs to that namespace.
infer_namespace_binary(sub, e, scope, ns) ==
  LET of == [e.args[1] EXCEPT !.ns = sub]
  IN  CASE e.kind \in {"identifier", "call"} -> infer([e EXCEPT !.ns = sub], scope, ns)
        [] e.kind # "binary" -> Invalid
        [] e.name = "." -> infer_variable_attribute(of, expr_token(e.args[2]), scope, ns)
        [] e.name = "[]" -> infer([e EXCEPT !.args[1] = of], scope, ns)
        [] OTHER -> Invalid
infer_dot_binary(e, scope, ns) ==
  IF has_namespace(expr_token(e.args[1]))
  THEN infer_namespace_binary(expr_token(e.args[1]), e.args[2], scope, ns)
  ELSE infer_variable_attribute(e.args[1], expr_token(e.args[2]), scope, ns)
infer_binary(e, scope, ns) ==
  CASE e.name \in {"is", "is not"} -> infer_is_binary
    [] e.name = "." -> infer_dot_binary(e, scope, ns)
    [] e.name = "[]" -> infer_variable_subscript(e.args[1], e.args[2], scope, ns)
    [] OTHER -> infer_functional_binary(e, scope, ns)

infer_match == BoolType
infer_conditional(e, scope, ns) == infer(e.args[2], scope, ns)
infer_assignment(e, scope, ns)  == infer(e.args[1], scope, ns)

-----------------------------------------------------------------------------
InferOperation(e, scope, ns) ==
  CASE e.kind = "group" -> infer_grouping(e, scope, ns)
    [] e.kind = "cast" -> infer_cast(e, scope, ns)
    [] e.kind = "unary" -> infer_unary(e, scope, ns)
    [] e.kind = "binary" -> infer_binary(e, scope, ns)
    [] e.kind = "match" -> infer_match
    [] e.kind = "conditional" -> infer_conditional(e, scope, ns)
    [] e.kind = "assignment" -> infer_assignment(e, scope, ns)
infer(e, scope, ns) ==
  CASE e.kind = "underscore" -> infer_underscore
    [] e.kind = "reference" -> infer_reference(e, scope, ns)
    [] e.kind = "dereference" -> infer_dereference(e, scope, ns)
    [] e.kind = "literal" -> infer_literal(e, scope, ns)
    [] e.kind = "tuple" -> infer_tuple(e, scope, ns)
    [] e.kind = "list" -> infer_list(e, scope, ns)
    [] e.kind = "map" -> infer_map(e, scope, ns)
    [] e.kind = "call" -> infer_call(e, scope, ns)
    [] e.kind = "identifier" -> infer_identifier(e, scope, ns)
    [] OTHER -> InferOperation(e, scope, ns)

Settable(e, new, scope, ns) ==
  CASE e.kind \in {"underscore", "literal", "cast", "unary"} -> TRUE
    [] e.kind = "call" /\ CallKind(e, ns) = "function" -> TRUE
    [] e.kind = "identifier" /\ variable_exists(scope, e.ns, e.name) -> TRUE
    [] ~is_complete(new) -> FALSE
    [] e.kind = "tuple" -> set_tuple_instance(e, new, scope, ns)
    [] e.kind = "list" -> set_list_instance(e, new, scope, ns)
    [] e.kind = "map" -> set_map_instance(e, new, scope, ns)
    [] e.kind = "call" -> set_call_instance(e, new, scope, ns)
    [] e.kind \in {"group", "reference", "dereference"} -> Settable(e.args[1], new, scope, ns)
    [] e.kind = "conditional" -> /\ Settable(e.args[2], new, scope, ns)
                                 /\ Settable(e.args[3], new, scope, ns)
    [] e.kind = "identifier" -> TRUE
    [] OTHER -> FALSE
===============================================================================
