---------------------------- MODULE BodyChecker ----------------------------
(***************************************************************************)
(* The checks a function body passes before it may be interpreted:         *)
(* block_checker (checker/stmt/block_checker.cpp) walks it with a count of *)
(* declarations and an "inside a loop" flag, termination_checker           *)
(* (checker/decl/function/termination_checker.cpp) looks for a return. An  *)
(* expression that calls a function has that function checked on the spot  *)
(* (inferer/inferer.cpp, build_function). Types are abstracted away.       *)
(***************************************************************************)
EXTENDS Statements, Naturals, Sequences, SequencesExt

CONSTANT Void   \* the functions declared to return void

-----------------------------------------------------------------------------
(* termination_checker. A declaration carries three marks.                 *)

Mark(reachable, terminates, passes) ==
  [reachable |-> reachable, terminates |-> terminates, passes |-> passes]

(* is_reachable(previous), the first declaration having no previous one. *)
ReachableAfter(marks) ==
  marks = <<>> \/ LET previous == Last(marks)
                  IN ~previous.terminates /\ previous.passes /\ previous.reachable

RECURSIVE AnalyzeBlock(_)

(* Fault: an "if" never counts as the end of a function. *)
AnalyzeIfNever(s) == FALSE

(* analyze_if: the body of the if itself is not analysed, and the last of  *)
(* the other branches decides.                                             *)
AnalyzeIf(s) ==
  IF Len(s.blocks) = 1 THEN TRUE ELSE AnalyzeBlock(Last(s.blocks))

(* Fault: an expression ends a function, as a return does. *)
AnalyzeStatementAny(marks, s) ==
  LET reachable == ReachableAfter(marks)
  IN  Mark(reachable, s.kind \in {"return", "expression", "variable"}, s.kind # "return")

(* analyze_declaration and analyze_statement: the marks of s after those   *)
(* of the declarations before it.                                          *)
AnalyzeStatement(marks, s) ==
  LET reachable == ReachableAfter(marks) IN
  CASE s.kind = "while"  -> Mark(reachable, AnalyzeBlock(s.blocks[1]), TRUE)
    [] s.kind = "if"     -> Mark(reachable, AnalyzeIf(s), TRUE)
    [] s.kind = "return" -> Mark(reachable, reachable, FALSE)
    [] s.kind \in {"break", "continue"} -> Mark(reachable, FALSE, FALSE)
    [] s.kind = "pass"   -> Mark(TRUE, FALSE, TRUE)
    [] OTHER             -> Mark(reachable, FALSE, TRUE)

Marks(block) ==
  FoldLeft(LAMBDA marks, s : Append(marks, AnalyzeStatement(marks, s)), <<>>, block)

(* A block terminates if any of its declarations does. *)
AnalyzeBlock(block) == \E i \in DOMAIN block : Marks(block)[i].terminates

(* check_termination: only a function that returns a value needs a return. *)
Terminates(name, body) == AnalyzeBlock(body) \/ name \in Void

-----------------------------------------------------------------------------
(* block_checker. It keeps m_decls_count and m_inside_loop from one block  *)
(* to the next; ok is FALSE once a check threw.                            *)

RECURSIVE CheckBlock(_, _, _)
RECURSIVE Accepted(_, _)

(* Fault: the flag is never cleared. *)
LeaveLoopNever(insideBefore, st) == st

(* check_while clears the flag only where no loop is around it. *)
LeaveLoop(insideBefore, st) ==
  IF insideBefore THEN st ELSE [st EXCEPT !.inside = FALSE]

CheckStatement(p, st, s) ==
  IF ~st.ok THEN st ELSE
  CASE s.kind = "while" ->
         LeaveLoop(st.inside, CheckBlock(p, [st EXCEPT !.inside = TRUE], s.blocks[1]))
    [] s.kind = "if" ->
         FoldLeft(LAMBDA st1, branch : CheckBlock(p, st1, branch), st, s.blocks)
    [] s.kind \in {"break", "continue"} -> [st EXCEPT !.ok = st.inside]
    [] s.kind = "pass" -> [st EXCEPT !.ok = st.count <= 1]
    [] s.kind = "expression" /\ s.callee # NoCall ->
         [st EXCEPT !.ok = Accepted(p, s.callee)]
    [] OTHER -> st

(* check: the count is taken once, before the statements are checked. *)
CheckBlock(p, st, block) ==
  IF ~st.ok THEN st
  ELSE FoldLeft(LAMBDA st1, s : CheckStatement(p, st1, s),
                [st EXCEPT !.count = Len(block)], block)

CheckBody(p, body) ==
  CheckBlock(p, [count |-> 0, inside |-> FALSE, ok |-> TRUE], body).ok

(* function_checker::check of the function called name of program p. *)
Accepted(p, name) == CheckBody(p, p[name]) /\ Terminates(name, p[name])
=============================================================================
