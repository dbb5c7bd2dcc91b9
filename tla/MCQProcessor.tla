---------------------------- MODULE MCQProcessor ----------------------------
(***************************************************************************)
(* Small programs for the quantum processor.                               *)
(***************************************************************************)
EXTENDS QProcessor

CONSTANTS a, b, c, wide

(* Three single qubits around a literal of two qubits. *)
MCLocals == {a, b, c, wide}
MCWidth == [l \in Lit |-> IF l = wide THEN 2 ELSE 1]
=============================================================================
