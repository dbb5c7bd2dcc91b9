----------------------------- MODULE Statements -----------------------------
(***************************************************************************)
(* The function bodies the checker and the interpreter walk. A declaration *)
(* of a body is [kind, blocks, hasElse, callee]: the blocks of a "while"   *)
(* are its one body, those of an "if" the bodies of the if, of its elifs   *)
(* and of its else, in that order; only an "expression" has a callee.      *)
(***************************************************************************)
CONSTANTS
  Programs,  \* the programs: functions from names to bodies
  Main,      \* the name of __main__
  NoCall     \* the callee of an expression that calls nothing
=============================================================================
