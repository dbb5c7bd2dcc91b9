--------------------------- MODULE CheckedProgram ---------------------------
(***************************************************************************)
(* A program is checked and, if its __main__ was accepted, interpreted:    *)
(* only then is __main__ added as a specialisation, the only form in which *)
(* the cleaner hands functions to the interpreter.                         *)
(***************************************************************************)
EXTENDS ControlFlow, BodyChecker

VARIABLE phase   \* "checking", "running" or "refused"

allVars == <<vars, phase>>

CheckedInit == Init /\ phase = "checking"

Check ==
  /\ phase = "checking"
  /\ phase' = IF Accepted(program, Main) THEN "running" ELSE "refused"
  /\ UNCHANGED vars

Interpret == phase = "running" /\ Next /\ UNCHANGED phase

CheckedNext == Check \/ Interpret

CheckedSpec == CheckedInit /\ [][CheckedNext]_allVars

-----------------------------------------------------------------------------
(* Properties.                                                             *)

(* block_checker.cpp refuses break and continue that are not in a loop. An *)
(* accepted program has every jump where the interpreter's flags find the  *)
(* loop it is for, in __main__ and in all that it calls.                   *)
RECURSIVE Placed(_, _)
Placed(code, place) ==
  {<<place, code>>} \cup
  (IF code = <<>> THEN {}
   ELSE LET s == Head(code)
            inner == IF place = "outside" THEN "outside" ELSE "within"
        IN Placed(Tail(code), place) \cup
           CASE s.kind = "while" -> Placed(s.blocks[1], "body")
             [] s.kind = "if" -> UNION {Placed(s.blocks[i], inner) : i \in DOMAIN s.blocks}
             [] OTHER -> {})

AcceptedInPlace ==
  phase = "running" =>
    LET checked == {name \in DOMAIN program : Accepted(program, name)}
        placed == UNION {Placed(program[name], "outside") : name \in checked}
        Blocks(place) == {b[2] : b \in {c \in placed : c[1] = place}}
    IN InPlace(program, Blocks("outside"), Blocks("within"), Blocks("body"), {"continue"})

(* How control may leave a block, from the meaning of the statements.      *)
RECURSIVE Exits(_)
ExitsOf(s) ==
  CASE s.kind = "while" ->
         {"fall"} \cup (Exits(s.blocks[1]) \cap {"return"})
    [] s.kind = "if" ->
         UNION {Exits(s.blocks[i]) : i \in DOMAIN s.blocks}
           \cup (IF s.hasElse THEN {} ELSE {"fall"})
    [] s.kind \in {"break", "continue", "return"} -> {s.kind}
    [] OTHER -> {"fall"}
Exits(block) ==
  IF block = <<>> THEN {"fall"}
  ELSE LET first == ExitsOf(Head(block)) IN
       IF "fall" \in first THEN (first \ {"fall"}) \cup Exits(Tail(block)) ELSE first

(* "This function's body is missing a <return> statement."                 *)
(* (termination_checker.cpp): an accepted function that returns a value    *)
(* comes to its end without a return only behind a loop or a conditional   *)
(* that was counted as the end of the function though control falls out of *)
(* it: the body of an if without elif and else is never looked at, of      *)
(* several branches only the last one is, and a loop counts as its body.   *)
Overrated(s) == s.kind \in {"while", "if"} /\ AnalyzeBlock(<<s>>) /\ "fall" \in ExitsOf(s)
EndsExplained ==
  pc = "after" /\ Depth > 1 /\ Top.kind = "call" /\ ~res =>
    \E name \in DOMAIN program \ Void : \E i \in DOMAIN program[name] : Overrated(program[name][i])

(* A function whose body is in order and that is refused for want of a     *)
(* return can really come to its end without one: the termination checker  *)
(* refuses no function that always returns.                                *)
RefusalsJustified ==
  \A name \in DOMAIN program :
    CheckBody(program, program[name]) /\ ~Terminates(name, program[name])
      => "fall" \in Exits(program[name])
=============================================================================
