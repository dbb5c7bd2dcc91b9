---------------------------- MODULE ControlFlow ----------------------------
(***************************************************************************)
(* How the interpreter executes statements (interpreter/interpreter.cpp,   *)
(* interpret_block, interpret_while, interpret_if and their siblings). The *)
(* C++ functions call one another; "frames" is their stack. A statement    *)
(* that leaves a block only sets a flag of the interpreter or returns a    *)
(* pair whose first half is true, and every function on the stack looks at *)
(* both when the one it called comes back.                                 *)
(*                                                                         *)
(* Conditions are abstracted to a free choice, and a call is made only by  *)
(* an expression statement.                                                *)
(***************************************************************************)
EXTENDS Statements, Naturals, Sequences

VARIABLES
  program,    \* the program that runs
  frames,     \* the functions of the interpreter that did not return yet
  pc,         \* "next": take the next declaration; "after": a call returned
  res,        \* the first half of the pair it returned
  breakLoop,     \* m_break_loop
  continueLoop   \* m_continue_loop

flags == <<breakLoop, continueLoop>>
vars == <<program, frames, pc, res, flags>>

Block(code) == [kind |-> "block", code |-> code]   \* interpret_block
Loop(body) == [kind |-> "loop", code |-> body]     \* interpret_while
Call == [kind |-> "call", code |-> <<>>]           \* interpret_user_function

Depth == Len(frames)
Top == frames[Depth]
Pop == SubSeq(frames, 1, Depth - 1)

(* The frames once interpret_block took the next declaration. *)
Advanced == Append(Pop, Block(Tail(Top.code)))

At(kind) ==
  /\ pc = "next"
  /\ Depth > 0 /\ Top.kind = "block" /\ Top.code # <<>>
  /\ Head(Top.code).kind = kind

(* Control comes back to the innermost of the frames left, with r. *)
Back(left, r) ==
  /\ frames' = left
  /\ pc' = "after"
  /\ res' = r

Enter(with) ==
  /\ frames' = with
  /\ pc' = "next"
  /\ UNCHANGED res

-----------------------------------------------------------------------------
(* The statements.                                                         *)

(* interpret_variable returns nothing and interpret_block looks at nothing. *)
Variable ==
  /\ At("variable")
  /\ Enter(Advanced)
  /\ UNCHANGED flags

Pass ==
  /\ At("pass")
  /\ Back(Advanced, FALSE)
  /\ UNCHANGED flags

Expression ==
  /\ At("expression")
  /\ LET callee == Head(Top.code).callee IN
     IF callee = NoCall
     THEN Back(Advanced, FALSE)
     ELSE Enter(Advanced \o <<Call, Block(program[callee])>>)
  /\ UNCHANGED flags

Break ==
  /\ At("break")
  /\ breakLoop' = TRUE
  /\ Back(Advanced, FALSE)
  /\ UNCHANGED continueLoop

Continue ==
  /\ At("continue")
  /\ continueLoop' = TRUE
  /\ Back(Advanced, FALSE)
  /\ UNCHANGED breakLoop

Return ==
  /\ At("return")
  /\ Back(Advanced, TRUE)
  /\ UNCHANGED flags

(* The branches are the if, the elifs and the else; their conditions are   *)
(* tried in order, so each of them may be the one that is taken.           *)
If ==
  /\ At("if")
  /\ \/ \E i \in DOMAIN Head(Top.code).blocks :
          Enter(Append(Advanced, Block(Head(Top.code).blocks[i])))
     \/ ~Head(Top.code).hasElse /\ Back(Advanced, FALSE)
  /\ UNCHANGED flags

While ==
  /\ At("while")
  /\ LET body == Head(Top.code).blocks[1] IN
     \/ Enter(Advanced \o <<Loop(body), Block(body)>>)
     \/ Back(Advanced, FALSE)
  /\ UNCHANGED flags

-----------------------------------------------------------------------------
(* What the functions on the stack do when a call comes back.              *)

(* The end of the declarations of a block. *)
EndBlock ==
  /\ pc = "next" /\ Depth > 0 /\ Top = Block(<<>>)
  /\ Back(Pop, FALSE)
  /\ UNCHANGED flags

Returned(kind) == pc = "after" /\ Depth > 0 /\ Top.kind = kind

(* interpret_block: a return goes on to the caller, continue ends this     *)
(* block and is forgotten, break ends this block and is kept.              *)
BlockAfter ==
  /\ Returned("block")
  /\ IF res THEN Back(Pop, TRUE) /\ UNCHANGED continueLoop
     ELSE IF continueLoop THEN continueLoop' = FALSE /\ Back(Pop, FALSE)
     ELSE /\ IF breakLoop THEN Back(Pop, FALSE) ELSE Enter(frames)
          /\ UNCHANGED continueLoop
  /\ UNCHANGED breakLoop

(* Fault: the loop ends on break without clearing the flag. *)
LoopAfterKeepsBreak ==
  /\ Returned("loop")
  /\ IF res \/ breakLoop THEN Back(Pop, res)
     ELSE Enter(Append(frames, Block(Top.code))) \/ Back(Pop, FALSE)
  /\ UNCHANGED flags

(* interpret_while after its body: return, break, or the condition again.  *)
LoopAfter ==
  /\ Returned("loop")
  /\ IF res THEN Back(Pop, TRUE) /\ UNCHANGED breakLoop
     ELSE IF breakLoop THEN breakLoop' = FALSE /\ Back(Pop, FALSE)
     ELSE /\ Enter(Append(frames, Block(Top.code))) \/ Back(Pop, FALSE)
          /\ UNCHANGED breakLoop
  /\ UNCHANGED continueLoop

(* interpret_user_function hands the value over; the expression statement  *)
(* that made the call returns false.                                       *)
CallAfter ==
  /\ Returned("call")
  /\ Back(Pop, FALSE)
  /\ UNCHANGED flags

-----------------------------------------------------------------------------
Init ==
  /\ program \in Programs
  /\ frames = <<Call, Block(program[Main])>>
  /\ pc = "next"
  /\ res = FALSE
  /\ breakLoop = FALSE
  /\ continueLoop = FALSE

Step ==
  \/ Variable \/ Pass \/ Expression \/ Break \/ Continue \/ Return \/ If \/ While
  \/ EndBlock \/ BlockAfter \/ LoopAfter \/ CallAfter

Next == Step /\ UNCHANGED program

Spec == Init /\ [][Next]_vars

-----------------------------------------------------------------------------
(* Properties.                                                             *)

TypeOK ==
  /\ program \in Programs
  /\ \A i \in 1..Depth : frames[i].kind \in {"block", "loop", "call"}
  /\ pc \in {"next", "after"}
  /\ res \in BOOLEAN
  /\ breakLoop \in BOOLEAN
  /\ continueLoop \in BOOLEAN

(* The flags are members of the interpreter and outlive every block: when  *)
(* a declaration is taken, a condition evaluated or a call ended, no break *)
(* or continue of an earlier loop may still be set, or it would end a loop *)
(* or a function that has nothing to do with it.                           *)
FlagsSpent ==
  /\ pc = "next" => ~breakLoop /\ ~continueLoop
  /\ pc = "after" /\ Depth > 0 /\ Top.kind = "loop" => ~continueLoop
  /\ pc = "after" /\ Depth > 0 /\ Top.kind = "call" => ~breakLoop /\ ~continueLoop
  /\ Depth = 0 => ~breakLoop /\ ~continueLoop

(* Where a break or a continue may stand: blocks that are in no loop, those*)
(* that are the body of a loop and those nested in one. Each of these sets *)
(* of blocks is closed under what its statements lead to; far are the      *)
(* jumps that a conditional may lie around within the loop, besides break. *)
ClosedUnder(p, here, jumps, nested, bodies, outside) ==
  \A code \in here \ {<<>>} :
    LET s == Head(code) IN
    /\ Tail(code) \in here
    /\ s.kind \in {"variable", "pass", "expression", "return", "if", "while"} \cup jumps
    /\ s.kind # "expression" => s.callee = NoCall
    /\ s.callee # NoCall => p[s.callee] \in outside
    /\ s.kind = "while" => s.blocks[1] \in bodies
    /\ s.kind = "if" => \A i \in DOMAIN s.blocks : s.blocks[i] \in nested

InPlace(p, outside, within, bodies, far) ==
  /\ p[Main] \in outside
  /\ ClosedUnder(p, outside, {}, outside, bodies, outside)
  /\ ClosedUnder(p, within, {"break"} \cup far, within, bodies, outside)
  /\ ClosedUnder(p, bodies, {"break", "continue"}, within, bodies, outside)

(* The frames that stay once the flags and the result were obeyed. *)
InnermostOf(kind) ==
  CHOOSE i \in 0..Depth :
    /\ i = 0 \/ frames[i].kind = kind
    /\ \A j \in i+1..Depth : frames[j].kind # kind
Settled ==
  IF pc = "next" \/ Depth = 0 THEN frames
  ELSE IF res THEN SubSeq(frames, 1, InnermostOf("call"))
  ELSE IF continueLoop THEN SubSeq(frames, 1, InnermostOf("loop"))
  ELSE IF breakLoop THEN SubSeq(frames, 1, InnermostOf("loop") - 1)
  ELSE frames

Structured == INSTANCE StructuredFlow WITH frames <- Settled

(* The flags and the returned pairs together do what the statements        *)
(* promise: break leaves the innermost loop, continue goes back to its     *)
(* condition, return ends the call.                                        *)
ImplementsStructured == Structured!Spec
=============================================================================
