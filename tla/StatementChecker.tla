--------------------------- MODULE StatementChecker ---------------------------
(***************************************************************************)
(* Which declarations and statements of a block are accepted, one by one   *)
(* (variable_checker.cpp, block_checker.cpp).  A check returns the type of *)
(* the expression in the statement, and the scope that comes after it.     *)
(***************************************************************************)
EXTENDS ExpressionChecker

\* Built-in strings, qubits, tuples, lists and maps cannot be mutable.
Immutable(e) == \/ e.kind \in {"tuple", "list", "map"}
                \/ e.kind = "literal" /\ e.name \in {"STRING_EXPR", "QUBIT_EXPR"}

(* A variable that holds a reference: the initializer is taken to be a     *)
(* reference expression, and the variable in it is asked.                  *)
CheckReferenceVariable(s, type, scope, result) ==
  CASE ~is_reference(type) -> result
    [] s.value.kind # "reference" -> Yields(Undefined, scope)
    [] s.mutable /\ ~Mutable(scope, ReferencedBy(s.value, "*")) -> Throws(scope)
    [] OTHER -> result

CheckInitializer(s, checked, scope) ==
  LET value == s.value
      type == checked.type
      added == [checked.scope EXCEPT ![<<"*", s.name>>].type = type]
  IN  CASE value.kind = "underscore" \/ (value.kind = "call" /\ has_underscore(value)) ->
             Throws(scope)
        [] Failed(type) -> checked
        [] \/ ~is_complete(type)
           \/ s.type # NoType /\ ~strong_compare(s.type, type)
           \/ is_quantum(type) /\ value.kind # "literal"
           \/ s.mutable /\ Immutable(value) -> Throws(scope)
        [] OTHER -> CheckReferenceVariable(s, type, added, Yields(type, added))

\* The variable is in scope when its own initializer is checked.
Before(s, scope) ==
  IF s.kind # "var" \/ <<"*", s.name>> \in DOMAIN scope THEN scope
  ELSE <<"*", s.name>> :> Variable(s.type, s.mutable, s.value) @@ scope
\* checked is what the check of the initializer or of the expression said.
check_variable_declaration(s, checked, scope) ==
  Require(~variable_exists(scope, "*", s.name), scope, CheckInitializer(s, checked, scope))
check_return(checked, ret) ==
  After(checked, Require(strong_compare(checked.type, ret) /\ ~has_reference(checked.type),
                         checked.scope, checked))
check_expression(checked) == checked

CheckStatement(s, checked, scope, ret) ==
  CASE s.kind = "var" -> check_variable_declaration(s, checked, scope)
    [] s.kind = "return" -> check_return(checked, ret)
    [] s.kind = "expr" -> check_expression(checked)
check_statement(s, scope, ns, ret) ==
  CheckStatement(s, check(s.value, Before(s, scope), IF s.kind = "var" THEN "*" ELSE ns, FALSE), scope, ret)

-----------------------------------------------------------------------------
(* The functions that an expression calls: the copies made for it are      *)
(* checked before it is accepted.  (In the code each is checked as soon as *)
(* it is made; what a function calls is checked with its body.)            *)

Globals(scope) == {k \in DOMAIN scope : scope[k].global}
Entered(f, scope) ==
  LET params == {<<"*", f.params[i].name>> : i \in DOMAIN f.params}
      Type(k) == f.params[CHOOSE i \in DOMAIN f.params : f.params[i].name = k[2]].type
  IN  [k \in Globals(scope) \cup params |->
         IF k \in params THEN Variable(Type(k), FALSE, NoInit) ELSE scope[k]]

RECURSIVE check_block(_, _, _, _)

\* header, body and termination of the copy (function_checker::check)
BodyAccepted(f, scope) ==
  f.builtin \/ /\ ~Failed(check_block(f.body, Entered(f, scope), f.ns, f.ret).type)
               /\ \E i \in DOMAIN f.body : f.body[i].kind = "return"
RECURSIVE CallsAccepted(_, _, _)
CallsAccepted(e, scope, ns) ==
  /\ e.kind # "match" => \A i \in DOMAIN e.args : CallsAccepted(e.args[i], scope, ns)
  /\ e.kind = "match" => CallsAccepted(e.args[1], scope, ns)
  /\ e.kind = "call" /\ CallKind(e, ns) = "function" =>
       \A f \in CalleeOf(e, infer_all(e.args, scope, ns), ns) : BodyAccepted(f, scope)

WithCalls(s, checked, scope, ns) ==
  After(checked, Require(CallsAccepted(s.value, checked.scope, ns), scope, checked))
\* The first statement that is refused ends the check of its block.
check_block(body, scope, ns, ret) ==
  FoldLeft(LAMBDA sofar, s : IF Failed(sofar.type) THEN sofar
                             ELSE WithCalls(s, check_statement(s, sofar.scope, ns, ret), sofar.scope, ns),
           Yields(Star, scope), body)
Accepted(s, scope, ns, ret) == check_block(<<s>>, scope, ns, ret)
===============================================================================
