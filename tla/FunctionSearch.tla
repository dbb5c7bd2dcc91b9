----------------------------- MODULE FunctionSearch ---------------------------
(***************************************************************************)
(* Which function a call means, and the copy of it that is made for the    *)
(* types of the arguments (function_checker.cpp, function_generator.cpp).  *)
(* The search returns the set of the functions found, empty if it throws.  *)
(***************************************************************************)
EXTENDS Expressions

\* Those of the candidates that weigh most.
fill_duplicates(candidates, Weight(_)) ==
  {c \in candidates : \A d \in candidates : Weight(d) <= Weight(c)}

(* A candidate is judged by the sum of the weights of its parameters: one  *)
(* that does not fit at all is made up for by another that does.           *)
TotalWeight(f, args) ==
  FoldLeft(LAMBDA w, i : w + weight(f.params[i].type, args[i]), 0, [i \in DOMAIN args |-> i])

ByTotal(candidates, args) == fill_duplicates(candidates, LAMBDA f : TotalWeight(f, args))
ByReturn(ret, found) ==
  IF is_star(ret) THEN found
  ELSE fill_duplicates({f \in found : weak_compare(ret, f.ret)}, LAMBDA f : weight(ret, f.ret))
Unique(found) == IF Cardinality(found) = 1 THEN found ELSE {}
find_function(name, args, ret, ns) ==
  Unique(ByReturn(ret, IF args = <<>> THEN functions(ns, name, 0)
                       ELSE ByTotal({f \in functions(ns, name, Len(args)) : TotalWeight(f, args) > 0}, args)))

-----------------------------------------------------------------------------
(* The generator.  bound maps each constraint that is known to its type; a *)
(* step that fails leaves the type Invalid behind.                         *)

NothingBound == [c \in {} |-> Star]
Bind(bound, c, type) ==
  [d \in DOMAIN bound \cup {c} |-> IF d = c THEN type ELSE bound[d]]
Built(type, bound) == [type |-> IF is_complete(type) THEN type ELSE Invalid, bound |-> bound]

BuildAbstract(dest, orig, bound) ==
  IF dest.name \in DOMAIN bound
  THEN IF is_abstract(orig) \/ strong_compare(bound[dest.name], orig)
       THEN Built(bound[dest.name], bound) ELSE Built(Invalid, bound)
  ELSE IF is_complete(orig) THEN Built(orig, Bind(bound, dest.name, orig))
                            ELSE Built(Invalid, bound)

(* An instance that depends on a constraint is followed down next to the   *)
(* one that was passed, as far as both have parameters.                    *)
ParamOf(orig, i) == IF is_star(orig) THEN orig ELSE orig.params[i]
WithParam(sofar, built) == [params |-> Append(sofar.params, built.type), bound |-> built.bound]
BuildParametrized(dest, all) == Built(Instance(dest.name, all.params), all.bound)
RECURSIVE build_instance(_, _, _)
build_instance(dest, orig, bound) ==
  IF is_abstract(dest) /\ ~is_star(dest) THEN BuildAbstract(dest, orig, bound)
  ELSE IF ~is_parametrized(dest) THEN Built(dest, bound)
  ELSE BuildParametrized(dest, FoldLeft(LAMBDA sofar, i :
         WithParam(sofar, IF is_star(orig) \/ i \in DOMAIN orig.params
                          THEN build_instance(dest.params[i], ParamOf(orig, i), sofar.bound)
                          ELSE [type |-> dest.params[i], bound |-> sofar.bound]),
         [params |-> <<>>, bound |-> bound], [i \in DOMAIN dest.params |-> i]))

\* Only the parameters that depend on a constraint are looked at.
generate_params(f, args) ==
  FoldLeft(LAMBDA sofar, i :
             WithParam(sofar, IF depends_on(f.params[i].type, f.constraints)
                              THEN build_instance(f.params[i].type, args[i], sofar.bound)
                              ELSE [type |-> f.params[i].type, bound |-> sofar.bound]),
           [params |-> <<>>, bound |-> NothingBound], [i \in DOMAIN args |-> i])
generate_return(f, ret, bound) ==
  IF depends_on(f.ret, f.constraints) THEN build_instance(f.ret, ret, bound)
  ELSE [type |-> f.ret, bound |-> bound]

\* The types written in the body, replaced where they depend on constraints.
Replaced(type, bound) == IF depends_on(type, DOMAIN bound)
                         THEN build_instance(type, Star, bound).type ELSE type

generate_annotated(e, bound) == [e EXCEPT !.type = Replaced(@, bound), !.ret = Replaced(@, bound)]

\* The keys of a map and what is referenced or dereferenced are left alone.
RECURSIVE generate_expression(_, _)
generate_inside(e, bound) ==
  [e EXCEPT !.args = [i \in DOMAIN @ |-> IF e.kind = "map" /\ i % 2 = 1 THEN @[i]
                                         ELSE generate_expression(@[i], bound)]]
generate_expression(e, bound) ==
  CASE e.kind \in {"underscore", "literal", "reference", "dereference"} -> e
    [] e.kind \in {"tuple", "list", "map", "call", "identifier", "cast"} ->
         generate_annotated(generate_inside(e, bound), bound)
    [] OTHER -> generate_inside(e, bound)

generate_variable(s, bound) ==
  [s EXCEPT !.type = Replaced(@, bound), !.value = generate_expression(@, bound)]
generate_statement(s, bound) == [s EXCEPT !.value = generate_expression(@, bound)]
generate_block(body, bound) ==
  [i \in DOMAIN body |-> IF body[i].kind = "var" THEN generate_variable(body[i], bound)
                         ELSE generate_statement(body[i], bound)]

\* (a body is only generated when every constraint has its type)
generate_body(f, bound) ==
  IF f.constraints \subseteq DOMAIN bound THEN generate_block(f.body, bound) ELSE <<>>

\* The types of the parameters, the return type, and what was bound on the way.
WithReturn(f, types, return) ==
  [types |-> types, bound |-> return.bound,
   ret |-> IF Invalid \in ToSet(types) \/ ~(f.constraints \subseteq DOMAIN return.bound)
           THEN Invalid ELSE return.type]
HeaderFor(f, params, ret) == WithReturn(f, params.params, generate_return(f, ret, params.bound))
Header(f, args, ret) == HeaderFor(f, generate_params(f, args), ret)
WithHeader(f, header) ==
  [f EXCEPT !.params = [i \in DOMAIN f.params |-> [@[i] EXCEPT !.type = header.types[i]]],
            !.ret = header.ret, !.body = generate_body(f, header.bound)]
generate(f, args, ret) == WithHeader(f, Header(f, args, ret))
===============================================================================
