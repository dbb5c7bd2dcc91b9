------------------------------ MODULE Imports ------------------------------
(***************************************************************************)
(* Programs, what they import and what they declare. Names stand for the   *)
(* declarations that collide with one another; a file that cannot be read  *)
(* or tokenised is not in Files.                                           *)
(***************************************************************************)
EXTENDS Naturals, Sequences

CONSTANTS
  Files,     \* the programs that can be parsed
  Main,      \* the program given on the command line
  Graphs,    \* the import declarations: functions from Files to sequences
  BadHeaders,\* sets of files with a function whose header is refused in them
  Public,    \* Public[p]: the names p declares publicly
  Private    \* Private[p]: the names p keeps to itself

(* The builtin programs in the order add_builtin_programs queues them. *)
BuiltinOrder ==
  <<"string", "maybe", "void", "bool", "float", "gate", "cgate", "trig", "int",
    "bit", "bit2", "bit4", "bit8", "qubit", "qubit2", "qubit4", "qubit8", "io">>

Elements(s) == {s[i] : i \in DOMAIN s}

Builtins == Elements(BuiltinOrder)
All == Files \cup Builtins

(* No file has the name of a builtin program, and programs are named by    *)
(* strings.                                                                *)
ASSUME ImportsAssumption ==
  /\ Main \in Files
  /\ Files \cap Builtins = {}
  /\ \A g \in Graphs : g \in [Files -> Seq(STRING)]
  /\ \A b \in BadHeaders : b \subseteq Files

(* The import declarations the builtin programs are made with. *)
BuiltinImports(p) ==
  CASE p \in {"bool", "float"} -> <<"string">>
    [] p \in {"gate", "trig"}  -> <<"float">>
    [] p = "cgate"  -> <<"gate">>
    [] p = "int"    -> <<"string", "bool", "float", "maybe">>
    [] p = "bit"    -> <<"string", "bool", "int">>
    [] p \in {"bit2", "bit4", "bit8"} -> <<"string", "bool", "int", "bit">>
    [] p = "qubit"  -> <<"gate", "cgate", "void", "bit">>
    [] p = "qubit2" -> <<"gate", "void", "bit2">>
    [] p = "qubit4" -> <<"gate", "void", "bit4">>
    [] p = "qubit8" -> <<"gate", "void", "bit8">>
    [] p = "io"     -> <<"int", "string">>
    [] OTHER        -> <<>>

(* run_builtin_imports: what every user program imports besides. *)
ImplicitImports ==
  <<"maybe", "qubit", "qubit2", "qubit4", "qubit8", "gate", "cgate", "trig", "void",
    "bit8", "bit4", "bit2", "bit", "bool", "float", "io", "int", "string">>

ImportsOf(imports, p) ==
  IF p \in Builtins THEN BuiltinImports(p) ELSE imports[p] \o ImplicitImports

(* The declarations of a builtin program go by its name; a file that is    *)
(* missing offers nothing.                                                 *)
PublicOf(p) ==
  IF p \in Builtins THEN {p} ELSE IF p \in Files THEN Public[p] ELSE {}

(* The sets of names run_imports_util puts into the scope of p. *)
Sources(imports, p) ==
  LET imported == [i \in DOMAIN ImportsOf(imports, p) |-> PublicOf(ImportsOf(imports, p)[i])]
  IN IF p \in Builtins THEN imported ELSE Append(imported, Public[p] \cup Private[p])

(* The names in scope before anything is imported: a builtin program is    *)
(* constructed with its type there, string with those of four others that  *)
(* it uses and cannot import without a cycle; trig and io have no type.    *)
BuiltScope ==
  [p \in All |->
     CASE p = "string" -> {"string", "bool", "int", "float", "maybe"}
       [] p \in Builtins \ {"string", "trig", "io"} -> {p}
       [] OTHER -> {}]

(* add_type, add_function and add_variable refuse a name that is there.    *)
Clash(imports, p) ==
  LET s == Sources(imports, p)
  IN \E i, j \in DOMAIN s : i < j /\ s[i] \cap s[j] # {}

(* What p imports, directly or through others, files that cannot be read   *)
(* included: the least set that holds the imports of p and of its members. *)
Named(imports) == Files \cup UNION {Elements(imports[q]) : q \in Files}
Closed(imports, S) == \A q \in S \cap Files : Elements(imports[q]) \subseteq S

BehindOf(imports, p) ==
  {r \in Named(imports) : \A S \in SUBSET Named(imports) :
     Elements(imports[p]) \subseteq S /\ Closed(imports, S) => r \in S}

Reachable(imports, p) == {p} \cup BehindOf(imports, p)
=============================================================================
