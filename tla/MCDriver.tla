------------------------------- MODULE MCDriver -------------------------------
(* Three files: main, with __main__ and at most one more declaration, and  *)
(* what it imports: lib, with up to three, and then also, with up to two if*)
(* the others have few.                                                    *)
EXTENDS Driver

MCOrder == <<"lib", "also", "main">>
MCImportsOf == [p \in {"lib", "also", "main"} |-> IF p = "main" THEN <<"lib", "also">> ELSE <<>>]

Identifier(ns, name) == [kind |-> "identifier", ns |-> ns, name |-> <<name>>]
Call(ns, name, arg) == [kind |-> "call", ns |-> ns, name |-> <<name>>, arg |-> arg]

Type(ns, name, cons, public) ==
  [kind |-> "type", ns |-> ns, name |-> <<name>>, cons |-> <<cons>>, public |-> public]
Variable(ns, name, public) ==
  [kind |-> "variable", ns |-> ns, name |-> <<name>>, public |-> public]
Function(ns, name, param, ret, public, body) ==
  [kind |-> "function", ns |-> ns, name |-> <<name>>, param |-> param, ret |-> ret,
   public |-> public, body |-> body]
Statement == [kind |-> "statement", ns |-> "*", public |-> TRUE]

LibPool ==
  {Type("*", "t", "C", TRUE), Type("*", "t", "C", FALSE), Type("*", "u", "C", TRUE),
   Variable("*", "t", TRUE), Variable("*", "x", TRUE), Variable("*", "x", FALSE),
   Variable("*", "n", TRUE), Variable("n", "x", TRUE), Variable("*", "C", TRUE),
   Function("*", "f", "a", "a", TRUE, <<>>),
   Function("*", "f", "int", "int", FALSE, <<>>),
   Function("*", "f", "str", "str", TRUE, <<Identifier("*", "C"), Identifier("*", "x")>>),
   Function("n", "f", "a", "int", TRUE, <<Call("*", "g", "a")>>),
   Function("*", "g", "a", "int", TRUE, <<Call("*", "f", "int"), Call("*", "f", "a")>>),
   Function("*", "__main__", "int", "int", FALSE, <<>>),
   Function("*", "__main__", "list", "void", TRUE, <<Identifier("*", "x")>>),
   Statement}

MainPool ==
  {<<>>, <<Type("*", "t", "D", TRUE)>>, <<Type("*", "t", "C", FALSE)>>,
   <<Variable("*", "x", FALSE)>>, <<Variable("*", "f", FALSE)>>,
   <<Function("*", "f", "int", "int", TRUE, <<>>)>>,
   <<Function("n", "f", "int", "int", TRUE, <<Identifier("*", "D")>>)>>,
   <<Statement>>}

Bodies ==
  {<<>>, <<Identifier("*", "x"), Identifier("*", "D")>>, <<Identifier("*", "C")>>,
   <<Call("*", "f", "int"), Call("*", "f", "str")>>, <<Call("*", "g", "int"), Call("*", "f", "int")>>,
   <<Call("*", "f", "str"), Identifier("*", "D")>>, <<Call("n", "f", "int")>>, <<Identifier("n", "x")>>}

MainBody(body) == Function("*", "__main__", "list", "void", FALSE, body)

(* Three declarations of lib, of which g calls the others.                 *)
Related ==
  {d \in LibPool : d.kind = "function" /\ d.name # <<"__main__">>}
    \cup {Type("*", "t", "C", FALSE), Variable("*", "x", FALSE)}

Distinct(S, n) == {s \in [1..n -> S] : \A i, j \in 1..n : s[i] = s[j] => i = j}
Alone == {d \in LibPool : d.kind = "statement" \/ (IsMain(d) /\ d.param = "int")}
Libs == Distinct(LibPool, 0) \cup Distinct(LibPool, 1) \cup Distinct(LibPool \ Alone, 2)
CallingLibs == {s \in Distinct(Related, 3) : \E i \in 1..3 : s[i].name = <<"g">>}

(* A file without __main__ may import one. A variable comes behind         *)
(* __main__, anything else before.                                         *)
WithMain(own, body) ==
  IF own # <<>> /\ own[1].kind = "variable" THEN <<MainBody(body)>> \o own ELSE Append(own, MainBody(body))

Mains ==
  MainPool \cup {WithMain(own, body) : own \in MainPool \ {<<Statement>>}, body \in Bodies}
    \cup {WithMain(<<Statement>>, <<>>)}
CallingMains ==
  {WithMain(own, body) : own \in MainPool \ {<<Statement>>},
                         body \in {b \in Bodies : \E i \in DOMAIN b : b[i].kind = "call"}}

Placed(p, declarations) ==
  [i \in DOMAIN declarations |-> declarations[i] @@ [id |-> <<p, i>>]]

(* What bars a copy of a declaration of lib only the second time.          *)
Alsos ==
  {<<Variable("n", "y", TRUE)>>, <<Variable("*", "t", TRUE)>>,
   <<Function("*", "f", "int", "int", TRUE, <<>>)>>,
   <<Type("*", "t", "C", FALSE), Function("*", "h", "int", "int", TRUE, <<Identifier("*", "C")>>)>>}
FewLibs ==
  UNION {Distinct(LibPool, n) : n \in 0..1}
    \cup {<<Type("*", "t", "C", FALSE), Function("*", "f", "str", "str", TRUE, <<Identifier("*", "C")>>)>>,
          <<Variable("*", "__main__", TRUE), Variable("*", "x", TRUE)>>}
AlsoBodies ==
  {<<>>, <<Identifier("*", "x")>>, <<Call("*", "f", "str")>>, <<Call("*", "f", "int")>>,
   <<Call("*", "f", "str"), Call("*", "h", "int")>>}

AlsoMains == {WithMain(own, body) : own \in MainPool, body \in AlsoBodies}

MCPrograms ==
  {[p \in {"lib", "also", "main"} |->
      Placed(p, CASE p = "lib" -> s[1] [] p = "also" -> s[2] [] p = "main" -> s[3])] :
     s \in (Libs \X {<<>>} \X Mains) \cup (CallingLibs \X {<<>>} \X CallingMains)
          \cup (FewLibs \X Alsos \X AlsoMains)}
=============================================================================
