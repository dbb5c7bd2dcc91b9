----------------------------- MODULE QProcessor -----------------------------
(***************************************************************************)
(* The quantum processor of the interpreter (interpreter/qprocessor.cpp)   *)
(* with the two places that drive it: the declaration of a quantum         *)
(* variable (interpreter::interpret_variable) and the builtins apply,      *)
(* controlled apply and measure (interpreter/builtins/lang/avalon_qubit).  *)
(*                                                                         *)
(* All qubits live in one super ket; a quantum literal knows its qubits    *)
(* only by two indices into it. A measurement takes a qubit out of the     *)
(* ket, so every literal behind it has to be renumbered. The amplitudes    *)
(* are abstracted away: the ket is the sequence of the qubits it is the    *)
(* tensor product of, a qubit named by the literal, the execution of its   *)
(* declaration and its place in it.                                        *)
(***************************************************************************)
EXTENDS Naturals, Sequences

CONSTANTS
  Locals,   \* quantum variables declared in function bodies
  Globals,  \* quantum variables declared in the global scope
  Width,    \* Width[l]: the number of qubits in the literal of l
  MaxRuns,  \* how often a declaration may be executed (loops, repeated calls)
  Junk      \* what the uninitialised m_length may hold

Lit == Locals \cup Globals

ASSUME LitAssumption == Locals \cap Globals = {}
ASSUME WidthAssumption == Width \in [Lit -> Nat \ {0}]
ASSUME MaxRunsAssumption == MaxRuns \in Nat
ASSUME JunkAssumption == Junk # {} /\ Junk \subseteq Nat

VARIABLES
  ket,          \* m_ket, as the sequence of its qubits
  empty,        \* m_ket.size() = 0: no ket was ever added
  length,       \* m_length
  registered,   \* registered[l]: how many entries of m_literals are l
  startIndex,   \* m_start_index of the literal of l, counted from 0
  endIndex,     \* m_end_index of the literal of l
  wasMeasured,  \* m_was_measured of the literal of l
  runs,         \* how often the declaration of l was executed
  acted,        \* history: the last operation and the qubits it acted on
  outcome       \* "running", "error" (reported), "abort" (qpp exception)

register == <<ket, empty, length, registered>>
literals == <<startIndex, endIndex, wasMeasured>>
vars == <<register, literals, runs, acted, outcome>>

Op(name, qubits) == [op |-> name, on |-> qubits]

(* The fresh qubits of execution r of the declaration of l. *)
Fresh(l, r) == [k \in 1..Width[l] |-> <<l, r, k>>]

(* The qubits of the ket that the indices of l point at. *)
Denoted(l) ==
  [k \in 1..(endIndex[l] + 1 - startIndex[l]) |-> ket[startIndex[l] + k]]

(* The checker finds a controlled apply for single qubits only; apply and *)
(* measure are declared for wide literals too, and refused at run time.   *)
Single == {l \in Lit : Width[l] = 1}

(* A program can name a local variable once its declaration was executed, *)
(* and a global one always.                                               *)
InScope(l) == l \in Globals \/ runs[l] > 0

-----------------------------------------------------------------------------
(* Declarations.                                                           *)

(* kron(m_ket, l_ket): the new qubits come behind all others. *)
Kron(k, new) ==
  [i \in 1..(Len(k) + Len(new)) |-> IF i <= Len(k) THEN k[i] ELSE new[i - Len(k)]]

(* Fault: the first ket is added onto the uninitialised m_length. *)
AddKetUninitialised(l) ==
  /\ registered' = [registered EXCEPT ![l] = @ + 1]
  /\ ket' = Kron(ket, Fresh(l, runs[l] + 1))
  /\ empty' = FALSE
  /\ length' = length + Width[l]
  /\ startIndex' = [startIndex EXCEPT ![l] = length]
  /\ endIndex' = [endIndex EXCEPT ![l] = length + Width[l] - 1]

(* add_ket for the literal of l: the first ket ever fixes m_length. *)
AddKet(l) ==
  LET oldLength == IF empty THEN 0 ELSE length IN
  /\ registered' = [registered EXCEPT ![l] = @ + 1]
  /\ ket' = Kron(ket, Fresh(l, runs[l] + 1))
  /\ empty' = FALSE
  /\ length' = oldLength + Width[l]
  /\ startIndex' = [startIndex EXCEPT ![l] = oldLength]
  /\ endIndex' = [endIndex EXCEPT ![l] = oldLength + Width[l] - 1]

(* interpret_variable: the initialiser is the literal object of the source *)
(* program, so a second execution adds the same literal again. Only blocks *)
(* execute declarations: a global quantum variable is never added.         *)
Declare(l) ==
  /\ outcome = "running"
  /\ runs[l] < MaxRuns
  /\ AddKet(l)
  /\ runs' = [runs EXCEPT ![l] = @ + 1]
  /\ acted' = Op("declare", Fresh(l, runs[l] + 1))
  /\ UNCHANGED <<wasMeasured, outcome>>

-----------------------------------------------------------------------------
(* Gates and measurements.                                                 *)

(* qpp throws for an index outside the ket. *)
Outside(l) == endIndex[l] >= Len(ket)

(* Fault: nothing looks at m_was_measured. *)
RefusedByWidth(l) == Width[l] # 1

(* The checks of the builtins and of the processor, in their order. The    *)
(* exceptions of avalon are reported, those of qpp are caught nowhere.     *)
Refused(l) == Width[l] # 1 \/ wasMeasured[l]

ApplyVerdict(l) ==
  IF Refused(l) THEN "error" ELSE IF Outside(l) THEN "abort" ELSE "running"

CApplyVerdict(c, t) ==
  IF wasMeasured[c] \/ wasMeasured[t] THEN "error"
  ELSE IF startIndex[c] >= Len(ket) \/ Outside(t) \/ startIndex[c] = endIndex[t]
       THEN "abort" ELSE "running"

MeasureVerdict(l) ==
  IF Refused(l) \/ endIndex[l] > length THEN "error"
  ELSE IF Outside(l) THEN "abort" ELSE "running"

Apply(l) ==
  /\ outcome = "running" /\ InScope(l)
  /\ ApplyVerdict(l) = "running"
  /\ acted' = Op("apply", Denoted(l))
  /\ UNCHANGED <<register, literals, runs, outcome>>

CApply(c, t) ==
  /\ outcome = "running" /\ InScope(c) /\ InScope(t)
  /\ CApplyVerdict(c, t) = "running"
  /\ acted' = Op("capply", <<ket[startIndex[c] + 1], ket[endIndex[t] + 1]>>)
  /\ UNCHANGED <<register, literals, runs, outcome>>

(* Fault: the last qubits are traced out instead of the measured ones. *)
MeasureSeqLast(k, s, w) == SubSeq(k, 1, Len(k) - w)

(* measure_seq traces the w qubits from index s on out of the ket. *)
MeasureSeq(k, s, w) ==
  [i \in 1..(Len(k) - w) |-> IF i <= s THEN k[i] ELSE k[i + w]]

(* Faults: no literal is renumbered; every literal is. *)
ShiftsNone(l, e, w) == 0
ShiftsAll(l, e, w) == IF wasMeasured[l] THEN 0 ELSE registered[l]

(* How often the loop over m_literals moves l after w qubits ending at     *)
(* index e were measured: once per entry of l, as long as l is unmeasured  *)
(* and begins behind e. (A literal with the measured indices begins at or  *)
(* before e, so the test for it changes nothing.)                          *)
Shifts(l, e, w) ==
  IF wasMeasured[l] \/ startIndex[l] <= e THEN 0
  ELSE LET most == (startIndex[l] - e - 1) \div w + 1
       IN IF registered[l] < most THEN registered[l] ELSE most

Measure(l) ==
  LET s == startIndex[l]
      e == endIndex[l]
      w == e + 1 - s
  IN
  /\ outcome = "running" /\ InScope(l)
  /\ MeasureVerdict(l) = "running"
  /\ ket' = MeasureSeq(ket, s, w)
  /\ length' = length - w
  /\ startIndex' = [m \in Lit |-> startIndex[m] - w * Shifts(m, e, w)]
  /\ endIndex' = [m \in Lit |-> endIndex[m] - w * Shifts(m, e, w)]
  /\ wasMeasured' = [wasMeasured EXCEPT ![l] = TRUE]
  /\ acted' = Op("measure", Denoted(l))
  /\ UNCHANGED <<empty, registered, runs, outcome>>

(* A call one of the checks refuses ends the interpretation; "acted" then  *)
(* holds the call and the variables it named.                              *)
Fail(verdict, name, args) ==
  /\ outcome = "running"
  /\ verdict # "running"
  /\ outcome' = verdict
  /\ acted' = Op(name, args)
  /\ UNCHANGED <<register, literals, runs>>

-----------------------------------------------------------------------------
Init ==
  /\ ket = <<>>
  /\ empty = TRUE
  /\ length \in Junk
  /\ registered = [l \in Lit |-> 0]
  /\ startIndex = [l \in Lit |-> 0]
  /\ endIndex = [l \in Lit |-> 0]
  /\ wasMeasured = [l \in Lit |-> FALSE]
  /\ runs = [l \in Lit |-> 0]
  /\ acted = Op("none", <<>>)
  /\ outcome = "running"

Next ==
  \/ \E l \in Locals : Declare(l)
  \/ \E l \in Lit : Apply(l)
  \/ \E l \in Lit : InScope(l) /\ Fail(ApplyVerdict(l), "apply", <<l>>)
  \/ \E c, t \in Single : CApply(c, t)
  \/ \E c, t \in Single :
       InScope(c) /\ InScope(t) /\ Fail(CApplyVerdict(c, t), "capply", <<c, t>>)
  \/ \E l \in Lit : Measure(l)
  \/ \E l \in Lit : InScope(l) /\ Fail(MeasureVerdict(l), "measure", <<l>>)

Spec == Init /\ [][Next]_vars

-----------------------------------------------------------------------------
(* Properties.                                                             *)

Qubit == Lit \X Nat \X Nat

(* Every index and length stays a natural number: the size_t subtractions  *)
(* of measure never wrap, whatever the program does.                       *)
TypeOK ==
  /\ ket \in Seq(Qubit)
  /\ empty \in BOOLEAN
  /\ length \in Nat
  /\ registered \in [Lit -> Nat]
  /\ startIndex \in [Lit -> Nat]
  /\ endIndex \in [Lit -> Nat]
  /\ wasMeasured \in [Lit -> BOOLEAN]
  /\ runs \in [Lit -> 0..MaxRuns]
  /\ acted.op \in {"none", "declare", "apply", "capply", "measure"}
  /\ outcome \in {"running", "error", "abort"}

Live(l) == runs[l] > 0 /\ ~wasMeasured[l]

(* m_length counts the qubits of m_ket (qprocessor.cpp: "the length of the *)
(* ket - not the size of the corresponding vector") once there is a ket.   *)
LengthIsKet == IF empty THEN ket = <<>> ELSE length = Len(ket)

(* The indices of an unmeasured literal delimit exactly its own qubits, in *)
(* order, whatever was declared and measured around it.                    *)
OwnQubits ==
  \A l \in Lit : Live(l) =>
    /\ endIndex[l] + 1 = startIndex[l] + Width[l]
    /\ endIndex[l] < Len(ket)
    /\ \A k \in 1..Width[l] : ket[startIndex[l] + k] = <<l, runs[l], k>>

(* Every qubit of the super ket belongs to an unmeasured literal, which    *)
(* finds it at its index: measure leaves no qubit behind that no variable  *)
(* names any more.                                                         *)
NoOrphans ==
  \A i \in 1..Len(ket) :
    LET l == ket[i][1] IN
    /\ Live(l)
    /\ ket[i][2] = runs[l]
    /\ ket[i][3] \in 1..Width[l]
    /\ startIndex[l] + ket[i][3] = i

(* The processor implements the promise of QubitStore: each gate and each  *)
(* measurement acts on the qubits of the variables it names and no others, *)
(* and fails only where the promise says so.                               *)
Store == INSTANCE QubitStore WITH run <- runs, measured <- wasMeasured

ImplementsStore == Store!Spec
=============================================================================
