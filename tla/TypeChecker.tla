---------------------------- MODULE TypeChecker -----------------------------
(***************************************************************************)
(* The checks of types (checker/decl/type/type_checker.cpp). Nothing calls *)
(* them for a declaration: a type is checked when an instance of it is     *)
(* first met, in the scope of the file that uses it, and marked; the marks *)
(* outlive the check. Every operator takes the marks and hands them on in  *)
(* its result, also when it ends in an exception.                          *)
(*                                                                         *)
(* Types are never marked INVALID, and the tests for that mark are left    *)
(* out. So is the star instance, which no program can write.               *)
(***************************************************************************)
EXTENDS TypeDecls

CONSTANT Uses   \* the instances met: [file, ns, instance]

VARIABLES
  decls,    \* the program's types
  valid,    \* m_is_valid of each: "UNKNOWN", "VALIDATING" or "VALID"
  verdict   \* history: how the check of each instance met so far ended,
            \* "nothing" (was thrown), "invalid_type" or "invalid_constructor"

vars == <<decls, valid, verdict>>

-----------------------------------------------------------------------------
(* Results: what was thrown, if anything; whether the instance is abstract *)
(* or depends on one that is; and what is asked of the type that builds it.*)

Built(marks, t) ==
  [thrown |-> "nothing", abstract |-> FALSE, depends |-> FALSE, marks |-> marks,
   quantum |-> decls[t].quantum, public |-> decls[t].public]

(* Lists, maps, tuples and references have a type made on the spot.        *)
BuiltIn(marks) ==
  [thrown |-> "nothing", abstract |-> FALSE, depends |-> FALSE, marks |-> marks,
   quantum |-> FALSE, public |-> TRUE]

StandIn(marks) == [BuiltIn(marks) EXCEPT !.abstract = TRUE]
Thrown(exception, marks) == [BuiltIn(marks) EXCEPT !.thrown = exception]
Fine(r) == r.thrown = "nothing"

(* Fault: the mark made at the start of the check stays.                   *)
ValidatedNever(marks, t) == marks
Validated(marks, t) == [marks EXCEPT ![t] = "VALID"]

(* Fault: the parameters of the type are not handed to the check of its    *)
(* constructors.                                                           *)
StandinsNone(d) == {}
Standins(d) == ToSet(d.params)

(* is_builtby. Fault: the arity is not compared.                           *)
BuiltByName(i, d) == i.kind = "user" /\ i.name = d.name
BuiltBy(i, d) == i.kind = "user" /\ i.name = d.name /\ Len(i.args) = Len(d.params)

RECURSIVE ComplexCheck(_, _, _, _, _)
RECURSIVE CheckType(_, _, _, _)

(* The parameters of an instance; those of a type must not be quantum. The *)
(* result r of the instance learns what its parameters depend on.          *)
CheckArgs(r, i, f, ns, standins) ==
  FoldLeft(LAMBDA soFar, arg :
             IF ~Fine(soFar) THEN soFar ELSE
             LET a == ComplexCheck(arg, f, ns, standins, soFar.marks) IN
             IF ~Fine(a) THEN a
             ELSE IF a.abstract \/ a.depends
             THEN [soFar EXCEPT !.marks = a.marks, !.depends = TRUE]
             ELSE IF i.kind = "user" /\ a.quantum THEN Thrown("invalid_type", a.marks)
             ELSE [soFar EXCEPT !.marks = a.marks],
           r, i.args)

(* simple_check: instance i in one namespace. A type that is being checked *)
(* (VALIDATING) passes for one that was.                                   *)
SimpleCheck(i, f, ns, standins, marks) ==
  CASE i.kind = "ref" ->
         LET r == ComplexCheck(i.args[1], f, ns, standins, marks)
         IN IF Fine(r) THEN [r EXCEPT !.quantum = FALSE, !.public = TRUE] ELSE r
    [] i.kind = "composite" -> CheckArgs(BuiltIn(marks), i, f, ns, standins)
    [] i.kind = "user" /\ Lookup(decls, f, ns, i) = {} ->
         IF i.args = <<>> /\ i.name \in standins
         THEN StandIn(marks) ELSE Thrown("invalid_type", marks)
    [] OTHER ->
         LET t == CHOOSE u \in Lookup(decls, f, ns, i) : TRUE
             r == IF marks[t] = "UNKNOWN" THEN CheckType(t, f, ns, marks) ELSE Built(marks, t)
         IN IF Fine(r) THEN CheckArgs(r, i, f, ns, standins) ELSE r

(* complex_check: the namespaces in which an instance may be found. What   *)
(* the second attempt throws is not caught here.                           *)
ComplexCheck(i, f, ns, standins, marks) ==
  LET first == SimpleCheck(i, f, IF i.ns = Global THEN ns ELSE i.ns, standins, marks)
  IN CASE first.thrown = "invalid_constructor" -> Thrown("invalid_type", first.marks)
       [] first.thrown = "invalid_type" /\ i.ns = Global ->
            SimpleCheck(i, f, Global, standins, first.marks)
       [] Fine(first) /\ first.abstract /\ i.ns # Global -> Thrown("invalid_type", first.marks)
       [] OTHER -> first

(* constructor_checker::check for one parameter of a constructor of d. An  *)
(* instance that is refused may still be the type under construction.      *)
CheckDependency(i, d, f, ns, marks) ==
  LET r == ComplexCheck(i, f, ns, Standins(d), marks) IN
  CASE r.thrown = "invalid_type" ->
         IF BuiltBy(i, d) THEN BuiltIn(r.marks) ELSE Thrown("invalid_constructor", r.marks)
    [] Fine(r) /\ ~r.abstract /\ (r.quantum \/ (d.public /\ ~r.public)) ->
         Thrown("invalid_constructor", r.marks)
    [] OTHER -> r

(* type_checker::check. *)
CheckType(t, f, ns, marks) ==
  LET d == decls[t]
      validating == [marks EXCEPT ![t] = "VALIDATING"]
      constructors ==
        FoldLeft(LAMBDA r, i : IF Fine(r) THEN CheckDependency(i, d, f, ns, r.marks) ELSE r,
                 BuiltIn(validating), d.deps)
  IN CASE BadParams(decls, f, d.params) -> Thrown("invalid_type", validating)
       [] ~Fine(constructors) -> constructors
       [] OTHER -> Built(Validated(constructors.marks, t), t)

-----------------------------------------------------------------------------
Checking == \A u \in DOMAIN verdict : verdict[u] = "nothing"

(* The checks of headers, made when a function is imported or called, and  *)
(* of variables meet an instance. They catch invalid_type and report it;   *)
(* none of them catches invalid_constructor.                               *)
Meet(u) ==
  /\ Checking
  /\ u \notin DOMAIN verdict
  /\ LET r == ComplexCheck(u.instance, u.file, u.ns, {}, valid) IN
     /\ valid' = r.marks
     /\ verdict' = [w \in DOMAIN verdict \cup {u} |-> IF w = u THEN r.thrown ELSE verdict[w]]
  /\ UNCHANGED decls

Init ==
  /\ decls \in Programs
  /\ valid = [t \in DOMAIN decls |-> IF decls[t].file = Lang THEN "VALID" ELSE "UNKNOWN"]
  /\ verdict = <<>>

Next == \E u \in Uses : Meet(u)

Spec == Init /\ [][Next]_vars

-----------------------------------------------------------------------------
(* The use of an instance is right if it is well formed where it is made. *)
Rightly(u, good) == InstanceOK(decls, good, u.file, u.ns, u.instance, {})

(* ":253 a constructor is judged to be valid if all the types it depends   *)
(* on are valid": an instance is accepted only if it is well formed, also  *)
(* where types depend on one another and whatever was checked before it.   *)
AcceptedWellFormed ==
  LET good == WellFormed(decls)
  IN \A u \in DOMAIN verdict : verdict[u] = "nothing" => Rightly(u, good)

(* And none that is well formed is refused: with AcceptedWellFormed, the   *)
(* verdict does not depend on the order in which instances are met (:191,  *)
(* the namespaces an instance may be found in; :288, a type that depends   *)
(* on itself).                                                             *)
RefusedIllFormed ==
  LET good == WellFormed(decls)
  IN \A u \in DOMAIN verdict : verdict[u] # "nothing" => ~Rightly(u, good)

(* While nothing was refused, no type is left half checked between two     *)
(* instances, and a type that is marked VALID is well formed: a check that *)
(* relied on one still VALIDATING relied on it rightly (:357, :398).       *)
MarksSettled ==
  LET good == WellFormed(decls)
  IN Checking => \A t \in DOMAIN decls :
       /\ valid[t] # "VALIDATING"
       /\ valid[t] = "VALID" => t \in good
=============================================================================
