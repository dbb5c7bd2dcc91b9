--------------------------- MODULE StructuredFlow ---------------------------
(***************************************************************************)
(* What the statements of avalon promise: break leaves the innermost loop, *)
(* continue goes back to the condition of the innermost loop, return ends  *)
(* the call, each in one step and whatever blocks lie in between.          *)
(***************************************************************************)
EXTENDS Statements, Naturals, Sequences

VARIABLES
  program,  \* the program that runs
  frames    \* the blocks, loops and calls entered and not yet left

vars == <<program, frames>>

Block(code) == [kind |-> "block", code |-> code]
Loop(body) == [kind |-> "loop", code |-> body]
Call == [kind |-> "call", code |-> <<>>]

Depth == Len(frames)
Top == frames[Depth]

(* The frames from the innermost one of the given kind outwards. *)
Innermost(kind) ==
  CHOOSE i \in 0..Depth :
    /\ i = 0 \/ frames[i].kind = kind
    /\ \A j \in i+1..Depth : frames[j].kind # kind
From(kind) == SubSeq(frames, 1, Innermost(kind))
Beyond(kind) == SubSeq(frames, 1, Innermost(kind) - 1)

Pop == SubSeq(frames, 1, Depth - 1)

(* The frames with the next statement of the innermost block begun. *)
Advanced == Append(Pop, Block(Tail(Top.code)))

At(kind) == Depth > 0 /\ Top.kind = "block" /\ Top.code # <<>> /\ Head(Top.code).kind = kind

Init ==
  /\ program \in Programs
  /\ frames = <<Call, Block(program[Main])>>

Simple ==
  /\ \E kind \in {"variable", "pass", "expression"} : At(kind)
  /\ Head(Top.code).callee = NoCall
  /\ frames' = Advanced

Invoke ==
  /\ At("expression")
  /\ Head(Top.code).callee # NoCall
  /\ frames' = Advanced \o <<Call, Block(program[Head(Top.code).callee])>>

Break == At("break") /\ frames' = Beyond("loop")
Continue == At("continue") /\ frames' = From("loop")
Return == At("return") /\ frames' = From("call")

(* One of the branches, or none where there is no else.                    *)
If ==
  /\ At("if")
  /\ \/ \E i \in DOMAIN Head(Top.code).blocks :
          frames' = Append(Advanced, Block(Head(Top.code).blocks[i]))
     \/ ~Head(Top.code).hasElse /\ frames' = Advanced

While ==
  /\ At("while")
  /\ LET body == Head(Top.code).blocks[1] IN
     \/ frames' = Advanced \o <<Loop(body), Block(body)>>
     \/ frames' = Advanced

EndBlock == Depth > 0 /\ Top = Block(<<>>) /\ frames' = Pop

Again ==
  /\ Depth > 0 /\ Top.kind = "loop"
  /\ frames' \in {Append(frames, Block(Top.code)), Pop}

EndCall == Depth > 0 /\ Top = Call /\ frames' = Pop

Next ==
  /\ UNCHANGED program
  /\ \/ Simple \/ Invoke \/ Break \/ Continue \/ Return \/ If \/ While
     \/ EndBlock \/ Again \/ EndCall

Spec == Init /\ [][Next]_vars
=============================================================================
