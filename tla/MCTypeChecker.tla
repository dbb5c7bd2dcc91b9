--------------------------- MODULE MCTypeChecker ----------------------------
(* Programs of three types, a and c in the global namespace and b in n, of *)
(* which c has a parameter. They are declared in lib; main imports it.     *)
EXTENDS TypeChecker

MCImports == [f \in {"lib", "main", "lang"} |->
                CASE f = "lib" -> {"lang"} [] f = "main" -> {"lib", "lang"} [] OTHER -> {}]

User(name, args) == [kind |-> "user", name |-> name, ns |-> Global, args |-> args]
In(ns, i) == [i EXCEPT !.ns = ns]
List(i) == [kind |-> "composite", name |-> "list", ns |-> Global, args |-> <<i>>]
Ref(i) == [kind |-> "ref", name |-> "ref", ns |-> Global, args |-> <<i>>]

A == User("a", <<>>)
B == User("b", <<>>)
C(i) == User("c", <<i>>)
T == User("t", <<>>)
IntType == User("int", <<>>)
QubitType == User("qubit", <<>>)

Declare(name, ns, params, deps, public) ==
  [name |-> name, ns |-> ns, file |-> "lib", params |-> params, deps |-> deps,
   public |-> public, quantum |-> FALSE]

Builtin(name, quantum) ==
  [name |-> name, ns |-> Global, file |-> "lang", params |-> <<>>, deps |-> <<>>,
   public |-> TRUE, quantum |-> quantum]

Program(a, b, c) ==
  [t \in {"a", "b", "c", "int", "qubit"} |->
     CASE t = "a" -> a [] t = "b" -> b [] t = "c" -> c
       [] t = "int" -> Builtin("int", FALSE) [] t = "qubit" -> Builtin("qubit", TRUE)]

UpTo(n, S) == UNION {[1..k -> S] : k \in 0..n}
Pairs(S, R) == {<<x, y>> : x \in S, y \in R} \cup {<<x>> : x \in S} \cup {<<>>}

(* Nothing is nested but builtin types and the parameter, and no type      *)
(* shadows another.                                                        *)
MCPrograms ==
  {Program(Declare("a", Global, <<>>, x, pa), Declare("b", "n", <<>>, y, pb),
           Declare("c", Global, <<"t">>, z, TRUE)) :
     x \in Pairs({In("n", B), C(IntType), Ref(A)}, {B, C(QubitType), List(IntType)}),
     y \in UpTo(1, {A, T, C(IntType), In("n", A)}),
     z \in UpTo(1, {T, In("n", B), C(T), User("c", <<>>)}),
     pa \in BOOLEAN, pb \in BOOLEAN}

MCUses ==
  {[file |-> "lib", ns |-> "n", instance |-> A], [file |-> "main", ns |-> "n", instance |-> B],
   [file |-> "lib", ns |-> Global, instance |-> C(IntType)],
   [file |-> "main", ns |-> Global, instance |-> A]}

(* An ill-formed type as the element of a list.                            *)
NestedPrograms ==
  {Program(Declare("a", Global, <<>>, x, TRUE), Declare("b", "n", <<>>, <<>>, TRUE),
           Declare("c", Global, <<"t">>, <<>>, TRUE)) : x \in UpTo(2, {A, T, List(A), IntType, QubitType, List(IntType), Ref(IntType)})}

NestedUses ==
  {[file |-> "lib", ns |-> Global, instance |-> i] : i \in {A, List(A)}}

(* A local type as the argument of a global one.                           *)
LocalPrograms ==
  {Program(Declare("a", Global, <<>>, x, TRUE), Declare("b", "n", <<>>, y, TRUE),
           Declare("c", Global, <<"t">>, z, TRUE)) :
     x \in UpTo(1, {IntType, A, List(A)}), y \in UpTo(1, {IntType, A}), z \in UpTo(1, {T, List(T)})}

LocalUses ==
  {[file |-> "lib", ns |-> "n", instance |-> i] : i \in {A, B, C(A), C(B)}}
=============================================================================
