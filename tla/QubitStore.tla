----------------------------- MODULE QubitStore -----------------------------
(***************************************************************************)
(* What the quantum runtime of avalon promises to a program, without       *)
(* registers or indices: every execution of a declaration of a quantum     *)
(* variable gives the variable qubits of its own, every gate and every     *)
(* measurement acts on exactly the qubits of the variables it names, and a *)
(* variable refuses further operations once it was measured.               *)
(***************************************************************************)
EXTENDS Naturals, Sequences

CONSTANTS
  Lit,    \* the quantum variables of the program, one literal each
  Width   \* Width[l]: the number of qubits in the literal of l, 1 or more

VARIABLES
  run,       \* run[l]: how often the declaration of l was executed
  measured,  \* measured[l]: the qubits of the current l are gone
  acted,     \* the last operation and the qubits it acted on, in order
  outcome    \* "running", or how the interpretation ended

vars == <<run, measured, acted, outcome>>

Op(name, qubits) == [op |-> name, on |-> qubits]

(* The qubits execution r of the declaration of l creates. *)
Owned(l, r) == [k \in 1..Width[l] |-> <<l, r, k>>]

Live(l) == run[l] > 0 /\ ~measured[l]

Init ==
  /\ run = [l \in Lit |-> 0]
  /\ measured = [l \in Lit |-> FALSE]
  /\ acted = Op("none", <<>>)
  /\ outcome = "running"

Declare(l) ==
  /\ outcome = "running"
  /\ run' = [run EXCEPT ![l] = @ + 1]
  /\ measured' = [measured EXCEPT ![l] = FALSE]
  /\ acted' = Op("declare", Owned(l, run'[l]))
  /\ UNCHANGED outcome

(* Only single qubits have gates. *)
Apply(l) ==
  /\ outcome = "running" /\ Live(l) /\ Width[l] = 1
  /\ acted' = Op("apply", Owned(l, run[l]))
  /\ UNCHANGED <<run, measured, outcome>>

Control(c, t) ==
  /\ outcome = "running" /\ c # t
  /\ \A l \in {c, t} : Live(l) /\ Width[l] = 1
  /\ acted' = Op("capply", <<Owned(c, run[c])[1], Owned(t, run[t])[1]>>)
  /\ UNCHANGED <<run, measured, outcome>>

Measure(l) ==
  /\ outcome = "running" /\ Live(l) /\ Width[l] = 1
  /\ measured' = [measured EXCEPT ![l] = TRUE]
  /\ acted' = Op("measure", Owned(l, run[l]))
  /\ UNCHANGED <<run, outcome>>

(* A call the store turns down ends the interpretation; "acted" then holds *)
(* the call and the variables it named.                                    *)
End(name, args, how) ==
  /\ outcome = "running"
  /\ outcome' = how
  /\ acted' = Op(name, args)
  /\ UNCHANGED <<run, measured>>

(* An operation on a measured variable, or on several qubits, is reported. *)
Refuse(l) ==
  /\ run[l] > 0
  /\ measured[l] \/ Width[l] # 1
  /\ \E name \in {"apply", "measure"} : End(name, <<l>>, "error")

RefuseControl(c, t) ==
  /\ run[c] > 0 /\ run[t] > 0
  /\ measured[c] \/ measured[t]
  /\ End("capply", <<c, t>>, "error")

(* A gate controlled by its own target is no operation at all.             *)
SelfControl(l) ==
  /\ Live(l) /\ Width[l] = 1
  /\ End("capply", <<l, l>>, "abort")

Next ==
  \/ \E l \in Lit : Declare(l) \/ Apply(l) \/ Measure(l) \/ Refuse(l) \/ SelfControl(l)
  \/ \E c, t \in Lit : Control(c, t) \/ RefuseControl(c, t)

Spec == Init /\ [][Next]_vars
=============================================================================
