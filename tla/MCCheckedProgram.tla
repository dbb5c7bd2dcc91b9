-------------------------- MODULE MCCheckedProgram --------------------------
(***************************************************************************)
(* All programs of two functions up to a size: __main__ returns void and   *)
(* may call f, f returns a value and calls nothing (a function that calls  *)
(* itself cannot be checked at all, see the README).                       *)
(***************************************************************************)
EXTENDS CheckedProgram

Stmt(kind, blocks, hasElse, callee) ==
  [kind |-> kind, blocks |-> blocks, hasElse |-> hasElse, callee |-> callee]

Plain(kind) == Stmt(kind, <<>>, FALSE, NoCall)
CallF == Stmt("expression", <<>>, FALSE, "f")

Seqs(S, n) == UNION {[1..k -> S] : k \in 1..n}

Whiles(Bodies) == {Stmt("while", <<b>>, FALSE, NoCall) : b \in Bodies}
Ifs(Bodies) == {Stmt("if", <<b>>, FALSE, NoCall) : b \in Bodies}
IfElses(Bodies) == {Stmt("if", <<b1, b2>>, TRUE, NoCall) : b1, b2 \in Bodies}

Work == Plain("variable")
Jumps == {Plain("break"), Plain("return")}

(* Blocks of one statement, then with loops and conditionals around them.  *)
Small == Seqs(Jumps \cup {Work}, 1)
SmallOrPass == Small \cup {<<Plain("pass")>>}
Inner == Jumps \cup {Work} \cup Whiles(SmallOrPass) \cup Ifs(SmallOrPass) \cup IfElses(Small)
Bodies == Seqs(Inner, 2)

(* Bodies in which continue stands in the loop it continues, and bodies in *)
(* which it stands in a conditional of the loop.                           *)
DirectContinue ==
  {<<Stmt("while", <<b>>, FALSE, NoCall)>> \o after :
     b \in {<<Plain("continue")>>, <<Plain("continue"), Work>>}
           \cup {<<s, Plain("continue")>> : s \in Inner \cup {CallF}},
     after \in {<<>>, <<CallF>>}}
NestedContinue ==
  {<<Stmt("while", <<<<s, Plain("expression")>>>>, FALSE, NoCall)>> :
     s \in Ifs({<<Plain("continue")>>})}

(* f may be any of the bodies; __main__ calls it from within a loop.       *)
Caller ==
  <<Stmt("while", <<<<CallF, Plain("expression")>>>>, FALSE, NoCall)>>

Program(main, f) == ("__main__" :> main) @@ ("f" :> f)
OnlyReturn == <<Plain("return")>>

MCPrograms ==
  {Program(Caller, f) : f \in Bodies}
    \cup {Program(main, OnlyReturn) : main \in DirectContinue \cup Bodies}
    \cup {Program(<<s>>, OnlyReturn) : s \in Whiles(Bodies)}
MCNested == {Program(main, OnlyReturn) : main \in NestedContinue}
=============================================================================
