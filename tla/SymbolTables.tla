----------------------------- MODULE SymbolTables -----------------------------
(***************************************************************************)
(* The symbol tables of a program (representer/symtable: scope, dtable,    *)
(* ctable). A scope holds the namespaces it knows, the declarations in it  *)
(* and, for every name, the kind of declaration recorded for it. Every     *)
(* function takes one parameter and every type has one constructor,        *)
(* without parameters; "a" is a constraint, that is, any type.             *)
(***************************************************************************)
EXTENDS Naturals, Sequences, FiniteSets, SequencesExt

EmptyScope == [namespaces |-> {}, entries |-> {}, recorded |-> {}]

Entries(s, kind, ns, name) ==
  {e \in s.entries : e.kind = kind /\ e.ns = ns /\ e.name = name}
Exists(s, kind, d) == Entries(s, kind, d.ns, d.name) # {}

(* An insertion hands on the scope as it leaves it, and what it throws:    *)
(* "already" for symbol_already_declared, "collide" for symbol_can_collide.*)
Inserted(s) == [scope |-> s, thrown |-> "none"]
Throws(s, exception) == [scope |-> s, thrown |-> exception]

(* emplace: what is recorded for a name first stays.                       *)
Recorded(s, d) == {r \in s.recorded : r.ns = d.ns /\ r.name = d.name}
Put(s, d, kind) ==
  Inserted([s EXCEPT
    !.entries = @ \cup {d},
    !.recorded = IF Recorded(s, d) # {} THEN @
                 ELSE @ \cup {[ns |-> d.ns, name |-> d.name, kind |-> kind]}])

RecordedAs(s, d, kinds) == \E r \in Recorded(s, d) : r.kind \in kinds

insert_type(s, d) ==
  IF RecordedAs(s, d, {"variable"}) THEN Throws(s, "collide")
  ELSE IF Exists(s, "type", d) THEN Throws(s, "already")
  ELSE Put(s, d, "type")

weak_compare(p, q) == p = q \/ ("a" \in {p, q} /\ "list" \notin {p, q})

collides_with(f, g) == weak_compare(f.param, g.param) /\ f.ret = g.ret

insert_function(s, d) ==
  IF RecordedAs(s, d, {"variable"}) THEN Throws(s, "already")
  ELSE IF \E f \in Entries(s, "function", d.ns, d.name) : collides_with(d, f) THEN Throws(s, "collide")
  ELSE Put(s, d, "function")

(* Fault: a variable is recorded as the variable it is.                    *)
insert_variable_recorded(s, d) ==
  IF RecordedAs(s, d, {"type", "function"}) THEN Throws(s, "collide")
  ELSE IF Exists(s, "variable", d) THEN Throws(s, "already")
  ELSE Put(s, d, "variable")

(* A variable is recorded as a function.                                   *)
insert_variable(s, d) ==
  IF RecordedAs(s, d, {"type", "function"}) THEN Throws(s, "collide")
  ELSE IF Exists(s, "variable", d) THEN Throws(s, "already")
  ELSE Put(s, d, "function")

-----------------------------------------------------------------------------
ConstructorOf(d) == [kind |-> "constructor", ns |-> d.ns, name |-> d.cons, type |-> d.id]

IsNamespace(s, d) == \E n \in s.namespaces : d.name = <<n>>

add_constructor(s, c) ==
  IF IsNamespace(s, c) \/ Exists(s, "function", c) \/ Exists(s, "variable", c) THEN Throws(s, "collide")
  ELSE IF Exists(s, "constructor", c) THEN Throws(s, "already")
  ELSE Inserted([s EXCEPT !.entries = @ \cup {c}])

(* A constructor that is refused leaves its type in the scope.             *)
add_type(s, d) ==
  LET inserted == insert_type(s, d)
  IN IF inserted.thrown = "none" THEN add_constructor(inserted.scope, ConstructorOf(d)) ELSE inserted

add_function(s, d) ==
  IF IsNamespace(s, d) \/ Exists(s, "constructor", d) THEN Throws(s, "collide")
  ELSE insert_function(s, d)

add_variable(s, d) ==
  IF IsNamespace(s, d) \/ Exists(s, "constructor", d) THEN Throws(s, "collide")
  ELSE insert_variable(s, d)

Add(s, d) ==
  CASE d.kind = "type" -> add_type(s, d)
    [] d.kind = "function" -> add_function(s, d)
    [] d.kind = "variable" -> add_variable(s, d)
    [] d.kind = "statement" -> Inserted(s)

add_namespaces(s, names) == [s EXCEPT !.namespaces = @ \cup names]

-----------------------------------------------------------------------------
(* A function for an argument: the search looks at the functions of one    *)
(* name in one namespace, and keeps those that weigh most; to be found, one*)
(* has to be left.                                                         *)
weight(p, q) == IF ~weak_compare(p, q) THEN 0 ELSE IF "a" \in {p, q} THEN 1 ELSE 2

fill_duplicates(candidates, arg) ==
  {f \in candidates : /\ weight(f.param, arg) > 0
                      /\ \A g \in candidates : weight(g.param, arg) <= weight(f.param, arg)}

ByReturn(found, ret) ==
  {f \in found : /\ weight(f.ret, ret) > 0
                 /\ \A g \in found : weight(g.ret, ret) <= weight(f.ret, ret)}

Unique(found) == IF Cardinality(found) = 1 THEN found ELSE {}

find_function(s, ns, name, arg) == Unique(fill_duplicates(Entries(s, "function", ns, name), arg))

find_function_returning(s, ns, name, arg, ret) ==
  Unique(ByReturn(fill_duplicates(Entries(s, "function", ns, name), arg), ret))

get_function(s, ns, name) == Unique(Entries(s, "function", ns, name))
=============================================================================
