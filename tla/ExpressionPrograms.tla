--------------------------- MODULE ExpressionPrograms -------------------------
(***************************************************************************)
(* A main function whose body is a sequence of declarations and expression *)
(* statements.  Every statement is checked, in the scope that the ones     *)
(* before it leave; a program whose statements were all accepted is then   *)
(* interpreted, statement by statement.                                    *)
(***************************************************************************)
EXTENDS Evaluator

CONSTANTS
  Offered,        \* the statements that programs are made of, in an order
  GlobalScope,    \* the variables outside the function
  MaxStatements,  \* longest program
  MaxFree         \* most statements that mention none before them

VARIABLES
  program,   \* the statements accepted so far, by their place in Offered
  types,     \* the type that the check found in each
  verdict,   \* "checking", "running", or how the program ended
  scope,     \* the variables: their initializers, then their values
  done,      \* how many statements were interpreted
  result      \* the value of the last of them

vars == <<program, types, verdict, scope, done, result>>

Statements(p) == [i \in DOMAIN p |-> Offered[p[i]]]
Declares(s) == s.kind = "var"

RECURSIVE Parts(_)
Parts(e) == {e} \cup UNION {Parts(e.args[i]) : i \in DOMAIN e.args}
\* The variables of the programs that an expression names.
OwnNames == {Offered[i].name : i \in DOMAIN Offered} \cup {"v", "ev", "g"}
Mentioned(e) == {p.name : p \in {q \in Parts(e) : q.kind = "identifier" /\ ~Annotated(q)}} \cap OwnNames
Free(s) == Mentioned(s.value) = {}

(* To have programs of statements that belong together, each but the free  *)
(* ones shares a variable with the one before it, and uses it if that one  *)
(* declares it; those that mention nothing come first, in their order.     *)
Touches(s) == Mentioned(s.value) \cup {p.name : p \in {q \in Parts(s.value) : Captures(q)}}
Follows(i) ==
  LET s == Offered[i]
      before == Offered[Last(program)]
  IN  \/ Free(s) /\ Len(program) < MaxFree /\ \A j \in DOMAIN program : program[j] < i /\ Free(Offered[program[j]])
      \/ /\ ~Free(s) /\ Mentioned(s.value) \subseteq {k[2] : k \in DOMAIN scope}
         /\ IF Declares(before) THEN before.name \in Mentioned(s.value)
            ELSE Mentioned(s.value) \cap Touches(before) # {}

-----------------------------------------------------------------------------

Init == /\ program = <<>> /\ types = <<>>
        /\ verdict = "checking"
        /\ scope = GlobalScope
        /\ done = 0 /\ result = Star

Judged(checked) ==
  /\ verdict' = IF Failed(checked.type) THEN "refused" ELSE "checking"
  /\ types' = Append(types, checked.type)
  /\ scope' = checked.scope
Check ==
  /\ verdict = "checking" /\ Len(program) < MaxStatements
  /\ \E i \in {j \in DOMAIN Offered : Follows(j)} :
       /\ program' = Append(program, i)
       /\ Judged(Accepted(Offered[i], scope, "*", Star))
  /\ UNCHANGED <<done, result>>

Start == /\ verdict = "checking" /\ program # <<>>
         /\ verdict' = "running"
         /\ UNCHANGED <<program, types, scope, done, result>>

Evaluated(r) ==
  /\ result' = r.value
  /\ scope' = r.scope
  /\ verdict' = IF IsFailure(r.value) THEN "failed" ELSE "running"
Interpret ==
  /\ verdict = "running" /\ done < Len(program)
  /\ Evaluated(interpret_statement(Offered[program[done + 1]], scope, "*"))
  /\ done' = done + 1
  /\ UNCHANGED <<program, types>>

Next == Check \/ Start \/ Interpret
Spec == Init /\ [][Next]_vars
-----------------------------------------------------------------------------
(* What a value of a type looks like *)

ConstructorsOf(t, name, arity) ==
  {c \in Constructors : c.owner = t.name /\ c.name = name /\ Len(c.params) = arity}
\* The type of the i-th argument of v: that of the field of its name, or
\* the i-th parameter's; a parameter of the owner stands for what t has there.
TypeOfArgument(v, i, c, t) ==
  LET field == CHOOSE j \in DOMAIN c.params : c.params[j].name = v.names[i]
      type  == c.params[IF c.record THEN field ELSE i].type
  IN  IF type.name \in ToSet(c.parameters)
      THEN t.params[CHOOSE j \in DOMAIN c.parameters : c.parameters[j] = type.name] ELSE type

RECURSIVE Fits(_, _)
Fits(v, t) ==
  CASE v.kind = "reference" -> is_reference(t) /\ Fits(Dereferenced(v, scope, "*"), t.params[1])
    [] v.kind = "literal" -> LiteralType(v) = t
    [] v.kind \in {"call", "identifier"} ->
         \E c \in ConstructorsOf(t, v.name, Len(v.args)) :
           \A i \in DOMAIN v.args : Fits(v.args[i], TypeOfArgument(v, i, c, t))
    [] v.kind = "tuple" -> /\ t.name = "()" /\ Len(t.params) = Len(v.args)
                           /\ \A i \in DOMAIN v.args : Fits(v.args[i], t.params[i])
    [] v.kind = "list" -> t.name = "[]" /\ \A i \in DOMAIN v.args : Fits(v.args[i], t.params[1])
    [] v.kind = "map" -> /\ t.name = "{}"
                         /\ \A i \in DOMAIN v.args : Fits(v.args[i], t.params[IF i % 2 = 1 THEN 1 ELSE 2])
    [] OTHER -> FALSE

Interpreted == verdict \in {"running", "failed"} /\ done > 0
Latest == Offered[program[done]]

(* The checks let a statement pass with a type, and every variable has one: *)
(* what the interpreter computes, and what it leaves in the variables, is  *)
(* of these types.  (the types of expression_checker::check and of the     *)
(* inferer against interpreter::interpret_expression, every kind)          *)
TypesKept ==
  Interpreted /\ verdict # "failed" =>
    /\ Fits(result, types[done])
    /\ \A k \in DOMAIN scope : scope[k].interpreted => Fits(scope[k].init, scope[k].type)

-----------------------------------------------------------------------------
(* Which programs that were accepted fail *)

\* The functions that an operator or a cast comes down to.
Carried(e) ==
  LET types_ == infer_all(e.args, scope, "*")
      name == IF e.kind = "cast" THEN "__cast__" ELSE e.name
  IN  IF e.kind \in {"unary", "cast"} \/ (e.kind = "binary" /\ has_function("*", e.name))
      THEN SpecializationOf(name, types_, IF e.kind = "cast" THEN e.ret ELSE Star, "*") ELSE {}
Misfits(f, e) == \E i \in DOMAIN e.args :
                   ~weak_compare(f.params[i].type, infer(e.args[i], scope, "*"))
\* Declared for two bits and carried out by nothing.
Missing(f) == f.name \in {"__eq__", "__ne__", "__cast__"} /\ f.params[1].type = Plain("bit2")
BitsMatched(e) == e.kind = "match" /\ e.args[2].name = "BIT_EXPR"

(* A program that was accepted fails for four reasons alone: an operator   *)
(* was given to a function of other types, its function is declared and    *)
(* not implemented, bits were matched, or a variable of a pattern that did *)
(* not match was used.  (internal_find_function, avalon_function::run,     *)
(* interpret_literal_match, interpret_call_match)                          *)
FailsExplained ==
  verdict = "failed" =>
    \/ BitsMatched(Latest.value)
    \/ result = Crash /\ \E v \in Mentioned(Latest.value) : scope[<<"*", v>>].init = NoInit
    \/ \E f \in Carried(Latest.value) : Misfits(f, Latest.value) \/ Missing(f)

(* The function found for an operator takes operands of their types.       *)
(* ("given a function name, parameters' type instances and possibly a      *)
(* return type, get the function that matches all", function_checker.cpp)  *)
FunctionFits ==
  Interpreted => \A f \in Carried(Latest.value) : ~Misfits(f, Latest.value)

-----------------------------------------------------------------------------
(* Matches *)

\* A variable in a pattern stands for anything or, if bound, for its value.
RECURSIVE Covers(_, _, _)
Covers(p, v, bound) ==
  CASE p.kind = "underscore" -> TRUE
    [] Captures(p) -> bound => scope[<<"*", p.name>>].init = v
    [] p.kind = "literal" -> v.kind = "literal" /\ <<p.name, p.num, p.text>> = <<v.name, v.num, v.text>>
    [] OTHER -> /\ v.kind \in {"identifier", "call"} /\ p.name = v.name /\ Len(p.args) = Len(v.args)
                /\ \A i \in DOMAIN p.args : Covers(p.args[i], v.args[i], bound)

(* A match is true exactly when its pattern covers the value, and then the *)
(* variables of the pattern hold the parts of the value that they stand    *)
(* for.  Not so for patterns behind the name of a namespace, which match   *)
(* nothing.  (interpret_match, literal, identifier and call)               *)
MatchDecides ==
  Interpreted /\ Latest.kind = "expr" /\ Latest.value.kind = "match" /\ ~IsFailure(result) =>
    LET pattern == Latest.value.args[2]
        value == scope[<<"*", Latest.value.args[1].name>>].init
    IN  pattern.kind \notin {"binary", "underscore"} =>
          /\ True(result) <=> Covers(pattern, value, FALSE)
          /\ True(result) => Covers(pattern, value, TRUE)

-----------------------------------------------------------------------------
(* References *)

\* The references to elements that variables hold.
Elements == {r \in UNION {Parts(scope[k].init) : k \in DOMAIN scope} :
               r.name \in {"REF_TUPLE_EXPR", "REF_LIST_EXPR", "REF_MAP_EXPR"} /\ r.text # <<>>}

(* A reference to an element leads to the one at the index that was        *)
(* written, of the value that the variable referred to has now: for a map  *)
(* that of the very key, whatever the hashes of the others.                *)
(* (interpret_reference and interpret_dereference, tuple, list and map)    *)
ElementOf(v, index) ==
  IF v.kind = "map" THEN v.args[2 * (CHOOSE i \in 1 .. Len(v.args) \div 2 : v.args[2 * i - 1] = index)]
  ELSE v.args[index.num + 1]
ElementsAgree ==
  Interpreted =>
    \A ref \in Elements : Dereferenced(ref, scope, "*") = ElementOf(Inner(ref, scope), IndexOf(ref))

-----------------------------------------------------------------------------
(* What a statement changes *)

\* The parameters and the variables of the functions that are called.
LocalsOf(f) == {<<"*", f.params[i].name>> : i \in DOMAIN f.params}
               \cup {<<"*", f.body[i].name>> : i \in Declarations(f.body)}
Locals(e) == UNION {LocalsOf(f) : f \in {g \in Functions : \E p \in Parts(e) : p.kind = "call" /\ p.name = g.name}}
Bound(e) == {<<"*", p.name>> : p \in {q \in Parts(e) : Captures(q)}}
Assigned(e) ==
  CASE e.kind # "assignment" -> {}
    [] e.args[1].kind = "dereference" -> {scope[DereferencedIn(e.args[1], "*")].init.text}
    [] e.args[1].kind = "binary" -> {<<e.args[1].args[1].name, e.args[1].args[2].name>>}
    [] OTHER -> {<<"*", e.args[1].name>>}
Written(s) == Locals(s.value) \cup Bound(s.value) \cup Assigned(s.value)
              \cup (IF Declares(s) THEN {<<"*", s.name>>} ELSE {})

(* A statement changes the variable that it declares or assigns to, that   *)
(* its reference refers to, those its patterns bind and those of functions *)
(* that it calls; no other.  (interpret_assignment, interpret_variable)    *)
OthersKept ==
  [][\A k \in DOMAIN scope : done' > done /\ scope'[k] # scope[k] => k \in Written(Latest')]_vars

(* A variable that was declared with val has one value from then on.       *)
(* ("Cannot reassign an immutable variable through a dereference.",        *)
(* expression_checker.cpp)                                                 *)
ImmutableKept ==
  [][\A i \in DOMAIN program :
       LET k == <<"*", Offered[program[i]].name>>
       IN  done' > done /\ Declares(Offered[program[i]]) /\ ~scope[k].mutable /\ scope[k].interpreted
             => scope'[k].init = scope[k].init]_vars

(* A call of a function is the same as a first one: the initializer of a   *)
(* variable in it is evaluated every time.  ("given a variable             *)
(* declaration, interpret the initializer expression and assign it the     *)
(* resulting value", interpreter.cpp)                                      *)
CallsFresh ==
  Interpreted /\ Latest.value.kind = "call" =>
    LET others == [k \in DOMAIN scope \ Locals(Latest.value) |-> scope[k]]
    IN  result = interpret_expression(Latest.value, others, "*").value
===============================================================================
