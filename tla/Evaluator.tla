------------------------------- MODULE Evaluator ------------------------------
(***************************************************************************)
(* What the interpreter makes of an expression (interpreter.cpp).  The     *)
(* scope holds the values of the variables: an evaluation returns a value  *)
(* and the scope it leaves behind.  A value is an expression; a failure is *)
(* one too, and ends the program.                                          *)
(*                                                                         *)
(* A reference keeps in text the variable that it was made of and in num   *)
(* the index of the element it means.  The code keeps both in the          *)
(* expression of the program itself, here every evaluation has its own.    *)
(***************************************************************************)
EXTENDS StatementChecker

CONSTANTS IntBits, SingleBits, DoubleBits, MaxFloat, HashOf(_), Words, Mirror
LOCAL B == INSTANCE Builtins

Fails(why) == Expr("failure", why, <<>>)
IsFailure(v) == v.kind = "failure"
Returns(v, scope) == [value |-> v, scope |-> scope]
\* A failure ends the evaluation.
Then(r, Next(_, _)) == IF IsFailure(r.value) THEN r ELSE Next(r.value, r.scope)

(* std::bad_cast does not happen: an expression of another class than the  *)
(* one expected is read as one all the same.                               *)
Misread == Fails("misread")
Unexpected == Fails("interpretation_error")
\* A null pointer is followed: the variable of a pattern that never matched.
Crash == Fails("crash")

True(v) == v.kind = "identifier" /\ v.name = "True"
Truth(b) == As(Id(IF b THEN "True" ELSE "False"), BoolType)
JustOf(v) == CallOf("Just", <<v>>)
Nothing == Id("None")

-----------------------------------------------------------------------------
(* Builtin functions see the values of their own representation.           *)

RECURSIVE Binary(_, _)
Binary(n, width) == IF width = 0 THEN <<>>
                    ELSE Append(Binary(n \div 2, width - 1), IF n % 2 = 1 THEN "1" ELSE "0")

Passed(v) ==
  CASE v.kind = "literal" -> B!Value("literal", Names(LiteralType(v)), v.name, v.num,
                                     IF v.name = "STRING_EXPR" THEN v.text ELSE <<>>)
    [] v.kind = "identifier" -> B!Constructor(IF v.type = NoType THEN <<"*">> ELSE Names(v.type), v.name)
    [] OTHER -> B!Value(v.kind, <<"*">>, v.name, v.num, <<>>)

LiteralOf(type, form, num, text) ==
  CASE form = "INTEGER_EXPR" -> Integer(num)
    [] form = "STRING_EXPR" -> Characters(text)
    [] form = "BIT_EXPR" -> Digits(form, Binary(num, Wide(type[1])))
    [] form = "CONSTRUCTOR_EXPR" -> As(Id(text[1]), Nested(type))
    [] OTHER -> [Expr("literal", form, <<>>) EXCEPT !.num = num]
\* (the call __refitem__ returns contains a reference with an index alone)
Got(v) ==
  CASE v \in B!Failures -> Fails(v.kind)
    [] v.kind = "literal" -> LiteralOf(v.type, v.form, v.num, v.text)
    [] v.kind = "identifier" -> IF v.type = <<>> THEN Id(v.text[1]) ELSE As(Id(v.text[1]), Nested(v.type))
    [] v.kind = "reference" -> [Expr("reference", "REF_CUSTOM_EXPR", <<>>) EXCEPT !.num = v.num]
    [] Len(v.text) = 1 /\ v.text[1] = "None" -> CallOf("None", <<>>)
    [] v.type = <<>> -> JustOf([Expr("reference", "REF_CUSTOM_EXPR", <<>>) EXCEPT !.num = v.num])
    [] OTHER -> JustOf(LiteralOf(Tail(v.type), v.form, v.num, Tail(v.text)))
\* (no line is read and no qubit measured here)
interpret_builtin_function(f, args) ==
  Got(B!run(f.name, [i \in DOMAIN args |-> Passed(args[i])], Names(f.ret), [line |-> <<>>, bit |-> 0]))

-----------------------------------------------------------------------------
(* What an expression is worth, of which type it is, what a statement does *)
(* and what a function returns for its arguments, each in terms of the     *)
(* others.                                                                 *)
RECURSIVE Evaluation(_, _, _, _)
interpret_expression(e, scope, ns) == Evaluation(<<"interpret">>, e, scope, ns)
OperandTypes(es, scope, ns) == [i \in DOMAIN es |-> Evaluation(<<"infer">>, es[i], scope, ns).value]
interpret_statement(s, scope, ns) == Evaluation(<<"perform">>, s, scope, ns)
Passing(args) == [Expr("arguments", "", <<>>) EXCEPT !.args = args]
interpret_function(f, args, scope) == Evaluation(<<"apply", f>>, Passing(args), scope, f.ns)

Set(scope, key, value) == [scope EXCEPT ![key].init = value]
Apart(e) == e.kind = "reference" /\ e.text # <<>>

\* From left to right; the values are in args of the result.
Arguments(es, scope, ns) ==
  FoldLeft(LAMBDA sofar, e :
             Then(sofar, LAMBDA all, s :
               Then(interpret_expression(e, s, ns), LAMBDA v, t :
                 Returns([all EXCEPT !.args = Append(@, v)], t))),
           Returns(Passing(<<>>), scope), es)
WithArguments(es, scope, ns, Next(_, _)) ==
  Then(Arguments(es, scope, ns), LAMBDA all, s : Next(all.args, s))

(* The parameters are set, and the body runs on the variables it has: they *)
(* are those of the call before.                                           *)
Declarations(body) == {i \in DOMAIN body : body[i].kind = "var"}
Frame(f, args, scope) ==
  LET params == {<<"*", f.params[i].name>> : i \in DOMAIN f.params}
      Position(k) == CHOOSE i \in DOMAIN f.params : f.params[i].name = k[2]
      new == {<<"*", f.body[i].name>> : i \in Declarations(f.body)} \ DOMAIN scope
      Declared(k) == f.body[CHOOSE i \in Declarations(f.body) : f.body[i].name = k[2]]
  IN  [k \in DOMAIN scope \cup params \cup new |->
         CASE k \in params -> Variable(f.params[Position(k)].type, FALSE, args[Position(k)])
           [] k \in new -> Variable(NoType, Declared(k).mutable, Declared(k).value)
           [] OTHER -> scope[k]]
\* The value of the return, which is the last statement here.
interpret_block(body, scope, ns) ==
  FoldLeft(LAMBDA sofar, s : Then(sofar, LAMBDA v, t : interpret_statement(s, t, ns)),
           Returns(Id("void"), scope), body)
interpret_user_function(f, args, scope) == interpret_block(f.body, Frame(f, args, scope), f.ns)
InterpretFunction(f, args, scope) ==
  IF f.builtin THEN Returns(interpret_builtin_function(f, args), scope)
  ELSE interpret_user_function(f, args, scope)

\* The function that the checks settled on, with these types of arguments.
Called(name, types, ret, ns) ==
  CHOOSE f \in SpecializationOf(name, types, ret, ns) : TRUE

(* Variables and references *)

(* A variable that was not interpreted is, at every use; one whose value   *)
(* is asked for by its own initializer never is.                           *)
Value(key, scope, ns) ==
  CASE scope[key].interpreted -> Returns(scope[key].init, scope)
    [] scope[key].init = NoInit -> Returns(Crash, scope)
    [] OTHER ->
         Then(interpret_expression(scope[key].init, Set(scope, key, Fails("endless")), ns), LAMBDA v, s :
           Returns(v, Set(s, key, scope[key].init)))
interpret_identifier(e, scope, ns) ==
  IF variable_exists(scope, e.ns, e.name) THEN Value(<<e.ns, e.name>>, scope, ns)
  ELSE Returns(e, scope)

\* The variable behind the variable of a reference to an element.
Inner(ref, scope) == scope[scope[ref.text].init.text].init
RefForm(e, scope, ns) ==
  LET key == ReferencedBy(e, ns)
      refers == scope[key].type.params[1]
      variable == \/ e.args[1].kind = "identifier"
                  \/ has_namespace(expr_token(e.args[1].args[1])) /\ e.args[1].args[2].kind = "identifier"
  IN  CASE variable -> "REF_VAR_EXPR"
        [] get_category(refers) = "()" -> "REF_TUPLE_EXPR"
        [] get_category(refers) = "[]" -> "REF_LIST_EXPR"
        [] get_category(refers) = "{}" -> "REF_MAP_EXPR"
        [] OTHER -> "REF_CUSTOM_EXPR"
Resolved(e, scope, ns) ==
  IF e.text # <<>> THEN e
  ELSE [e EXCEPT !.text = ReferencedBy(e, ns), !.name = RefForm(e, scope, ns)]
IndexOf(e) == IF has_namespace(expr_token(e.args[1].args[1]))
              THEN e.args[1].args[2].args[2] ELSE e.args[1].args[2]
At(ref, n) == [ref EXCEPT !.num = n]

\* The first key whose hash is that of the key asked for; 0 if there is none.
NoScope == [k \in {} |-> NoType]
HashOfKey(k) == interpret_function(
  CHOOSE f \in find_function("__hash__", <<LiteralType(k)>>, IntType, "*") : TRUE, <<k>>, NoScope).value
FirstIn(at) == IF at = {} THEN 0 ELSE Min(at)
FoundAt(map, hash) == FirstIn({i \in 1 .. Len(map.args) \div 2 : HashOfKey(map.args[2 * i - 1]).num = hash.num})
\* What comes of the place at which the key is; of a key without a hash, its failure.
Lookup(map, hash, Found(_)) == IF IsFailure(hash) THEN hash ELSE Found(FoundAt(map, hash))

interpret_reference_tuple(ref) == At(ref, IndexOf(ref).num)
interpret_reference_list(ref, index, scope) ==
  CASE index.kind # "literal" \/ index.name # "INTEGER_EXPR" \/ index.num < 0 -> Unexpected
    [] index.num < Len(Inner(ref, scope).args) -> JustOf(At(ref, index.num))
    [] OTHER -> Nothing
(* Fault: the entries of the map are counted from one. *)
interpret_reference_mapNext(ref, index, scope) ==
  Lookup(Inner(ref, scope), HashOfKey(index), LAMBDA at : IF at > 0 THEN JustOf(At(ref, at)) ELSE Nothing)
interpret_reference_map(ref, index, scope) ==
  IF Inner(ref, scope).args = <<>> THEN Nothing
  ELSE Lookup(Inner(ref, scope), HashOfKey(index), LAMBDA at : IF at > 0 THEN JustOf(At(ref, at - 1)) ELSE Nothing)
RefItem == [name |-> "__refitem__", ns |-> "*", ret |-> Star, builtin |-> TRUE]
ReferenceFrom(got, ref) ==
  CASE IsFailure(got) -> got
    [] got.kind = "identifier" -> Nothing
    [] got.kind = "call" -> JustOf(At(ref, got.args[1].num))
    [] OTHER -> At(ref, got.num)
interpret_reference_custom(ref, index, scope) ==
  ReferenceFrom(interpret_function(RefItem, <<Inner(ref, scope), index>>, scope).value, ref)
interpret_reference(e, scope, ns) ==
  LET ref == Resolved(e, scope, ns)
  IN  CASE ref.name = "REF_VAR_EXPR" -> Returns(ref, scope)
        [] ref.name = "REF_TUPLE_EXPR" -> Returns(interpret_reference_tuple(ref), scope)
        [] OTHER -> Then(interpret_expression(IndexOf(ref), scope, ns), LAMBDA index, s :
             Returns(CASE ref.name = "REF_LIST_EXPR" -> interpret_reference_list(ref, index, s)
                       [] ref.name = "REF_MAP_EXPR" -> interpret_reference_map(ref, index, s)
                       [] OTHER -> interpret_reference_custom(ref, index, s), s))

\* The digits of bits are counted from the right.
interpret_dereference_custom(ref, of) ==
  CASE of.kind = "literal" /\ of.name = "BIT_EXPR" ->
         Digits("BIT_EXPR", <<of.text[Len(of.text) - ref.num]>>)
    [] of.kind = "literal" /\ of.name = "STRING_EXPR" -> Characters(<<of.text[ref.num + 1]>>)
    [] of.kind = "call" -> of.args[ref.num + 1]
    [] OTHER -> Unexpected
\* What the variable referred to has, be it a value yet or not.
Dereferenced(ref, scope, ns) ==
  CASE ref = NoInit -> Crash
    [] ref.kind # "reference" -> Misread
    [] Resolved(ref, scope, ns).name = "REF_VAR_EXPR" -> scope[Resolved(ref, scope, ns).text].init
    [] ref.name \in {"REF_TUPLE_EXPR", "REF_LIST_EXPR"} -> Inner(ref, scope).args[ref.num + 1]
    [] ref.name = "REF_MAP_EXPR" -> Inner(ref, scope).args[2 * ref.num + 2]
    [] OTHER -> interpret_dereference_custom(ref, Inner(ref, scope))
interpret_dereference(e, scope, ns) == Dereferenced(scope[DereferencedIn(e, ns)].init, scope, ns)

(* Tuples, lists, maps, calls and operators *)

interpret_elements(e, scope, ns) ==
  WithArguments(e.args, scope, ns, LAMBDA args, s : Returns([e EXCEPT !.args = args], s))
interpret_tuple(e, scope, ns) == interpret_elements(e, scope, ns)
interpret_list(e, scope, ns)  == interpret_elements(e, scope, ns)
interpret_map(e, scope, ns)   == interpret_elements(e, scope, ns)

Applied(f, es, scope, ns) ==
  WithArguments(es, scope, ns, LAMBDA args, s : interpret_function(f, args, s))
interpret_call(e, scope, ns) ==
  IF CallKind(e, ns) # "function" THEN interpret_elements(e, scope, ns)
  ELSE Applied(CHOOSE g \in CalleeOf(e, OperandTypes(e.args, scope, ns), ns) : TRUE, e.args, scope, ns)

interpret_grouped(e, scope, ns) == interpret_expression(e.args[1], scope, ns)
\* The function is that of the types of the operands as they were checked.
CalledFor(name, types, Ret(_)) == Called(name, types, Ret(types[1]), TypeNs(types[1]))
InterpretOperator(name, es, Ret(_), scope, ns) ==
  Applied(CalledFor(name, OperandTypes(es, scope, ns), Ret), es, scope, ns)
interpret_cast(e, scope, ns)  == InterpretOperator("__cast__", e.args, LAMBDA t : e.ret, scope, ns)
interpret_unary(e, scope, ns) == InterpretOperator(e.name, e.args, LAMBDA t : t, scope, ns)
interpret_functional_binary(e, scope, ns) == InterpretOperator(e.name, e.args, LAMBDA t : Star, scope, ns)

(* A reference expression is not evaluated here: one to an element is at   *)
(* index 0 whatever its index says.                                        *)
Referred(e, scope, ns) ==
  IF e.kind = "reference" THEN Returns(Resolved(e, scope, ns), scope)
  ELSE interpret_identifier(e, scope, ns)
SamePlace(r, s) == r.text = s.text /\ r.num = s.num /\ r.name = s.name
interpret_is_binary(e, scope, ns) ==
  Then(Referred(e.args[1], scope, ns), LAMBDA l, s :
    Then(Referred(e.args[2], s, ns), LAMBDA r, t :
      Returns(Truth(SamePlace(l, r) = (e.name = "is")), t)))

(* Attributes and subscripts *)

interpret_tuple_attribute(tuple, name, scope, ns) ==
  interpret_expression(tuple.args[Min({i \in DOMAIN tuple.names : tuple.names[i] = name})], scope, ns)
interpret_custom_access(function, of, scope, ns) ==
  InterpretOperator(function, <<of>>, LAMBDA t : Star, scope, ns)
interpret_variable_attribute(of, name, scope, ns) ==
  LET variable == get_variable(scope, of.ns, of.name)
  IN  IF variable.global /\ variable.init.kind = "tuple"
      THEN interpret_tuple_attribute(variable.init, name, scope, ns)
      ELSE interpret_custom_access("__getattr_" \o name \o "__", of, scope, ns)

interpret_tuple_subscript(tuple, key, scope, ns) ==
  interpret_expression(tuple.args[key.num + 1], scope, ns)
(* Fault: an index outside the list is an error. *)
interpret_list_subscriptStrict(list, key, scope, ns) ==
  IF key.num + 1 \notin DOMAIN list.args THEN Returns(Unexpected, scope)
  ELSE Then(interpret_expression(list.args[key.num + 1], scope, ns), LAMBDA v, s : Returns(JustOf(v), s))
\* Whatever is not within the list is nothing, a negative index as well.
interpret_list_subscript(list, key, scope, ns) ==
  CASE key.kind # "literal" \/ key.name # "INTEGER_EXPR" -> Returns(Unexpected, scope)
    [] key.num + 1 \in DOMAIN list.args ->
         Then(interpret_expression(list.args[key.num + 1], scope, ns), LAMBDA v, s : Returns(JustOf(v), s))
    [] OTHER -> Returns(Nothing, scope)
(* Fault: the key that was found, and not its value. *)
interpret_map_subscriptKey(map, key, scope, ns) ==
  Returns(Lookup(map, HashOfKey(key), LAMBDA at : IF at = 0 THEN Nothing ELSE JustOf(map.args[2 * at - 1])), scope)
interpret_map_subscript(map, key, scope, ns) ==
  Then(Returns(Lookup(map, HashOfKey(key), LAMBDA at : IF at = 0 THEN Nothing ELSE map.args[2 * at]), scope),
       LAMBDA found, s : IF found = Nothing THEN Returns(Nothing, s)
                         ELSE Then(interpret_expression(found, s, ns), LAMBDA v, t : Returns(JustOf(v), t)))
interpret_custom_subscript(of, key, scope, ns) ==
  interpret_custom_access("__getitem_" \o ToString(key.num) \o "__", of, scope, ns)
interpret_variable_subscript(of, key, scope, ns) ==
  LET category == get_category(get_variable(scope, of.ns, of.name).type)
      Of(Next(_, _, _, _)) ==
        Then(Value(<<of.ns, of.name>>, scope, ns), LAMBDA v, s :
          IF category = "()" \/ (category = "{}" /\ v.args = <<>>) THEN Next(v, key, s, ns)
          ELSE Then(interpret_expression(key, s, ns), LAMBDA k, t : Next(v, k, t, ns)))
  IN  CASE category = "()" -> Of(interpret_tuple_subscript)
        [] category = "[]" -> Of(interpret_list_subscript)
        [] category = "{}" -> Of(interpret_map_subscript)
        [] OTHER -> interpret_custom_subscript(of, key, scope, ns)

interpret_namespace_binary(sub, e, scope, ns) ==
  LET of == [e.args[1] EXCEPT !.ns = sub]
  IN  CASE e.kind = "identifier" -> interpret_identifier([e EXCEPT !.ns = sub], scope, ns)
        [] e.kind = "call" -> interpret_call([e EXCEPT !.ns = sub], scope, ns)
        [] e.name = "." -> interpret_variable_attribute(of, expr_token(e.args[2]), scope, ns)
        [] OTHER -> interpret_variable_subscript(of, e.args[2], scope, ns)
interpret_dot_binary(e, scope, ns) ==
  IF has_namespace(expr_token(e.args[1]))
  THEN interpret_namespace_binary(expr_token(e.args[1]), e.args[2], scope, ns)
  ELSE interpret_variable_attribute(e.args[1], expr_token(e.args[2]), scope, ns)
interpret_binary(e, scope, ns) ==
  CASE e.name \in {"is", "is not"} -> interpret_is_binary(e, scope, ns)
    [] e.name = "." -> interpret_dot_binary(e, scope, ns)
    [] e.name = "[]" -> interpret_variable_subscript(e.args[1], e.args[2], scope, ns)
    [] OTHER -> interpret_functional_binary(e, scope, ns)

-----------------------------------------------------------------------------
(* Matches *)

\* Texts are compared by their characters, floats as doubles; bits have no
\* text to read.
interpret_literal_match(v, p) ==
  CASE p.kind # "literal" -> Truth(FALSE)
    [] v.kind # "literal" -> Misread
    [] v.name # p.name -> Truth(FALSE)
    [] v.name \in {"BIT_EXPR", "QUBIT_EXPR"} -> Fails("value_error")
    [] v.name = "FLOATING_POINT_EXPR" ->
         IF B!FloatReadable(v) /\ B!FloatReadable(p)
         THEN Truth(v.num # B!NaN /\ B!get_float_value(v) = B!get_float_value(p))
         ELSE Fails("out_of_range")
    [] OTHER -> Truth(v.num = p.num /\ v.text = p.text)
(* Neither class is told from the other.  Where an identifier has its name,*)
(* a call has its token, whose bytes make no name; where a call has its    *)
(* name, an identifier has its namespace.                                  *)
interpret_identifier_match(v, p) ==
  CASE p.kind # "identifier" -> Truth(FALSE)
    [] v.kind \notin {"identifier", "call"} -> Misread
    [] OTHER -> Truth(v.kind = "identifier" /\ v.name = p.name)

\* What an identifier in a pattern is: a variable, if it has a type.
Captures(p) == p.kind = "identifier" /\ Annotated(p)
Captured(v, p, scope, ns) ==
  LET key == <<"*", p.name>>
  IN  IF v.kind = "reference" THEN Returns(Truth(TRUE), Set(scope, key, v))
      ELSE Then(interpret_expression(v, scope, ns), LAMBDA w, s :
             Returns(Truth(TRUE), Set(s, key, w)))

RECURSIVE interpret_call_match(_, _, _, _)
\* One argument against its pattern.
MatchArgument(v, p, scope, ns) ==
  CASE p.kind = "literal" -> Returns(interpret_literal_match(v, p), scope)
    [] Captures(p) -> Captured(v, p, scope, ns)
    [] p.kind = "identifier" -> Returns(interpret_identifier_match(v, p), scope)
    [] p.kind = "call" -> interpret_call_match(v, p, scope, ns)
    [] p.kind = "binary" /\ v.kind # "binary" -> Returns(Truth(FALSE), scope)
    [] OTHER -> Returns(Truth(TRUE), scope)
(* Fault: the last argument decides. *)
interpret_call_matchLast(v, p, scope, ns) ==
  IF p.kind # "call" \/ v.kind # "call" \/ v.name # p.name \/ Len(v.args) # Len(p.args)
  THEN Returns(Truth(FALSE), scope)
  ELSE FoldLeft(LAMBDA sofar, i : MatchArgument(v.args[i], p.args[i], sofar.scope, ns),
                Returns(Truth(TRUE), scope), [i \in DOMAIN p.args |-> i])
\* The first argument that does not match ends it; what was bound stays so.
interpret_call_match(v, p, scope, ns) ==
  CASE p.kind # "call" -> Returns(Truth(FALSE), scope)
    [] v.kind = "identifier" ->
         Returns(IF v.ns = p.name THEN Misread ELSE Truth(FALSE), scope)
    [] v.kind \notin {"call", "identifier"} -> Returns(Misread, scope)
    [] v.name # p.name \/ Len(v.args) # Len(p.args) -> Returns(Truth(FALSE), scope)
    [] OTHER ->
         FoldLeft(LAMBDA sofar, i : IF True(sofar.value)
                                    THEN MatchArgument(v.args[i], p.args[i], sofar.scope, ns)
                                    ELSE sofar,
                  Returns(Truth(TRUE), scope), [i \in DOMAIN p.args |-> i])

(* Whether a match or its negation is asked makes no difference.           *)
interpret_match(e, scope, ns) ==
  LET pattern == e.args[2]
  IN  Then(interpret_expression(e.args[1], scope, ns), LAMBDA v, s :
        CASE v.kind = "literal" -> Returns(interpret_literal_match(v, pattern), s)
          [] v.kind = "identifier" -> Returns(interpret_identifier_match(v, pattern), s)
          [] v.kind = "call" -> interpret_call_match(v, pattern, s, ns)
          [] OTHER -> Returns(Unexpected, s))

(* Conditionals and assignments *)

interpret_conditional(e, scope, ns) ==
  Then(interpret_expression(e.args[1], scope, ns), LAMBDA c, s :
    interpret_expression(e.args[IF True(c) THEN 2 ELSE 3], s, ns))

(* Fault: the variable that holds the reference is assigned to. *)
AssignedThroughHolder(e, scope, ns) == DereferencedIn(e, ns)
\* The variable that a dereference stands for: that of the reference.
AssignedThrough(e, scope, ns) == Resolved(scope[DereferencedIn(e, ns)].init, scope, ns).text
AssignedKey(e, scope, ns) ==
  CASE e.kind = "identifier" -> <<e.ns, e.name>>
    [] e.kind = "binary" -> <<e.args[1].name, e.args[2].name>>
    [] OTHER -> AssignedThrough(e, scope, ns)
interpret_assignment(e, scope, ns) ==
  LET target == e.args[1]
  IN  Then(interpret_expression(e.args[2], scope, ns), LAMBDA v, s :
        CASE target.kind \notin {"identifier", "binary", "dereference"} -> Returns(Unexpected, s)
          [] target.kind = "dereference" /\ s[DereferencedIn(target, ns)].init.kind # "reference" ->
               Returns(Misread, s)
          [] OTHER -> Returns(v, Set(s, AssignedKey(target, s, ns), v)))

-----------------------------------------------------------------------------
InterpretOperation(e, scope, ns) ==
  CASE e.kind = "group" -> interpret_grouped(e, scope, ns)
    [] e.kind = "cast" -> interpret_cast(e, scope, ns)
    [] e.kind = "unary" -> interpret_unary(e, scope, ns)
    [] e.kind = "binary" -> interpret_binary(e, scope, ns)
    [] e.kind = "match" -> interpret_match(e, scope, ns)
    [] e.kind = "conditional" -> interpret_conditional(e, scope, ns)
    [] e.kind = "assignment" -> interpret_assignment(e, scope, ns)
InterpretForm(e, scope, ns) ==
  CASE e.kind \in {"underscore", "literal", "failure"} -> Returns(e, scope)
    [] e.kind = "reference" -> interpret_reference(e, scope, ns)
    [] e.kind = "dereference" -> Returns(interpret_dereference(e, scope, ns), scope)
    [] e.kind = "tuple" -> interpret_tuple(e, scope, ns)
    [] e.kind = "list" -> interpret_list(e, scope, ns)
    [] e.kind = "map" -> interpret_map(e, scope, ns)
    [] e.kind = "call" -> interpret_call(e, scope, ns)
    [] e.kind = "identifier" -> interpret_identifier(e, scope, ns)
    [] OTHER -> InterpretOperation(e, scope, ns)
\* The value takes the place of the initializer.  (The variable of a function
\* has the type that the check of the function found, that of its initializer.)
interpret_variable(s, scope, ns) ==
  LET key == <<"*", s.name>>
      Type(t) == IF t = NoType THEN OperandTypes(<<scope[key].init>>, scope, ns)[1] ELSE t
  IN  Then(interpret_expression(scope[key].init, Set(scope, key, Fails("endless")), ns), LAMBDA v, t :
        Returns(v, [Set(t, key, v) EXCEPT ![key].interpreted = TRUE, ![key].type = Type(@)]))
InterpretStatement(s, scope, ns) ==
  IF s.kind = "var" THEN interpret_variable(s, scope, ns)
  ELSE interpret_expression(s.value, scope, ns)

Evaluation(question, e, scope, ns) ==
  CASE question[1] = "infer" -> Returns(infer(e, scope, ns), scope)
    [] question[1] = "interpret" -> InterpretForm(e, scope, ns)
    [] question[1] = "perform" -> InterpretStatement(e, scope, ns)
    [] question[1] = "apply" -> InterpretFunction(question[2], e.args, scope)
===============================================================================
