----------------------------- MODULE TypeDecls ------------------------------
(***************************************************************************)
(* Type declarations, instances of types and what both promise: an         *)
(* instance is well formed if a well-formed type builds it, a type if all  *)
(* that its constructors depend on is. Types may depend on one another, so *)
(* the well-formed ones are the largest set that satisfies this.           *)
(*                                                                         *)
(* decls maps each type to                                                 *)
(*   [name, ns, file, params, deps, public, quantum]                       *)
(* where deps are the parameters of its constructors, one after the other. *)
(* An instance is [kind, name, ns, args]: kind "user" names a type,        *)
(* "composite" is a list, map or tuple, "ref" a reference. The namespace   *)
(* "*" is the global one, and that of an instance that states none.        *)
(***************************************************************************)
EXTENDS Naturals, FiniteSets, SequencesExt

CONSTANTS
  Lang,      \* the builtin types' own file
  Imports,   \* Imports[f]: the files whose public types are in the scope of f
  Programs   \* the declarations of types a program may consist of

Global == "*"

(* The types in the scope of file f: its own and what it imported.         *)
InScope(decls, f, t) ==
  decls[t].file = f \/ (decls[t].public /\ decls[t].file \in Imports[f])

(* scope::get_type: name and arity are the key, within one namespace.      *)
Lookup(decls, f, ns, i) ==
  {t \in DOMAIN decls : /\ decls[t].name = i.name
                        /\ decls[t].ns = ns
                        /\ Len(decls[t].params) = Len(i.args)
                        /\ InScope(decls, f, t)}

(* Two parameters alike, or one named like a type without parameters.      *)
BadParams(decls, f, params) ==
  \/ Cardinality(ToSet(params)) # Len(params)
  \/ \E t \in DOMAIN decls : /\ decls[t].name \in ToSet(params)
                             /\ decls[t].params = <<>>
                             /\ InScope(decls, f, t)

-----------------------------------------------------------------------------
(* What well-formed means. The type an instance names is looked for in the *)
(* namespace it states, or else in that of its holder and the global one.  *)

Spaces(i, ns) == IF i.ns = Global THEN {ns, Global} ELSE {i.ns}
Candidates(decls, f, ns, i) == UNION {Lookup(decls, f, s, i) : s \in Spaces(i, ns)}

Abstract(decls, f, ns, i, standins) ==
  /\ i.kind = "user" /\ i.ns = Global /\ i.args = <<>> /\ i.name \in standins
  /\ Candidates(decls, f, ns, i) = {}

RECURSIVE Mentions(_, _, _, _, _)
Mentions(decls, f, ns, i, standins) ==
  \/ Abstract(decls, f, ns, i, standins)
  \/ \E k \in DOMAIN i.args : Mentions(decls, f, ns, i.args[k], standins)

Quantum(decls, f, ns, i) ==
  i.kind = "user" /\ \E t \in Candidates(decls, f, ns, i) : decls[t].quantum

Hidden(decls, f, ns, i) ==
  i.kind = "user" /\ \E t \in Candidates(decls, f, ns, i) : ~decls[t].public

(* Instance i is well formed in file f if the types in good are.           *)
RECURSIVE InstanceOK(_, _, _, _, _, _)
InstanceOK(decls, good, f, ns, i, standins) ==
  \/ Abstract(decls, f, ns, i, standins)
  \/ /\ \A k \in DOMAIN i.args : InstanceOK(decls, good, f, ns, i.args[k], standins)
     /\ i.kind = "user" =>
          /\ Candidates(decls, f, ns, i) \cap good # {}
          /\ \A k \in DOMAIN i.args :
               ~Mentions(decls, f, ns, i.args[k], standins) => ~Quantum(decls, f, ns, i.args[k])

DeclarationOK(decls, good, t) ==
  LET d == decls[t] IN
  /\ ~BadParams(decls, d.file, d.params)
  /\ \A k \in DOMAIN d.deps :
       /\ InstanceOK(decls, good, d.file, d.ns, d.deps[k], ToSet(d.params))
       /\ ~Quantum(decls, d.file, d.ns, d.deps[k])
       /\ d.public => ~Hidden(decls, d.file, d.ns, d.deps[k])

(* Each round drops the types that depend on a dropped one.                *)
RECURSIVE Shrunk(_, _)
Shrunk(decls, good) ==
  LET left == {t \in good : DeclarationOK(decls, good, t)}
  IN IF left = good THEN good ELSE Shrunk(decls, left)

WellFormed(decls) == Shrunk(decls, DOMAIN decls)
=============================================================================
