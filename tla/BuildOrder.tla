----------------------------- MODULE BuildOrder -----------------------------
(***************************************************************************)
(* What importing a program promises: every program reached is completed   *)
(* exactly once, after everything it imports, with its own declarations    *)
(* and the public ones of what it imports and nothing else; and it fails   *)
(* only where a file is missing, imports form a cycle, names collide or a  *)
(* header is refused.                                                      *)
(***************************************************************************)
EXTENDS Imports

VARIABLES imports, bad, scope, built, outcome

vars == <<imports, bad, scope, built, outcome>>

Init ==
  /\ imports \in Graphs
  /\ bad \in BadHeaders
  /\ scope = BuiltScope
  /\ built = {}
  /\ outcome = "running"

Own(p) == IF p \in Builtins THEN BuiltScope[p] ELSE Public[p] \cup Private[p]
Imported(p) == Elements(ImportsOf(imports, p))

Build(p) ==
  /\ outcome = "running"
  /\ p \notin built \cup bad
  /\ Imported(p) \subseteq built
  /\ ~Clash(imports, p)
  /\ built' = built \cup {p}
  /\ scope' = [scope EXCEPT ![p] = Own(p) \cup UNION {PublicOf(q) : q \in Imported(p)}]
  /\ UNCHANGED <<imports, bad, outcome>>

Reached == Reachable(imports, Main)

Justified(why) ==
  \/ why = "missing" /\ ~(Reached \subseteq Files)
  \/ why = "cycle" /\ \E p \in Reached \cap Files : p \in BehindOf(imports, p)
  \/ why = "clash" /\ \E p \in Reached \cap Files : Clash(imports, p)
  \/ why = "header" /\ Reached \cap bad # {}
  \/ why = "done" /\ built = Reached \cup Builtins

Finish(why) ==
  /\ outcome = "running"
  /\ Justified(why)
  /\ outcome' = why
  /\ UNCHANGED <<imports, bad, scope, built>>

Next ==
  \/ \E p \in All : Build(p)
  \/ \E why \in {"missing", "cycle", "clash", "header", "done"} : Finish(why)

Spec == Init /\ [][Next]_vars
=============================================================================
