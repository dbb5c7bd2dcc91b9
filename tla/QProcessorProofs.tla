-------------------------- MODULE QProcessorProofs --------------------------
(***************************************************************************)
(* Proofs about the quantum processor, for any number of literals of any   *)
(* widths.                                                                 *)
(***************************************************************************)
EXTENDS QProcessor, TLAPS

(* For every program: single qubits have one index, indices do not cross,  *)
(* so a shift of the measured width never goes below zero.                 *)
IndexInv ==
  /\ TypeOK
  /\ LengthIsKet
  /\ \A l \in Lit : startIndex[l] <= endIndex[l]
  /\ \A l \in Lit : Width[l] = 1 => startIndex[l] = endIndex[l]

LEMMA KronType ==
  ASSUME NEW S, NEW k \in Seq(S), NEW m \in Seq(S)
  PROVE  /\ Kron(k, m) \in Seq(S)
         /\ Len(Kron(k, m)) = Len(k) + Len(m)
  BY DEF Kron

LEMMA FreshType ==
  ASSUME NEW l \in Lit, NEW r \in Nat
  PROVE  /\ Fresh(l, r) \in Seq(Qubit)
         /\ Len(Fresh(l, r)) = Width[l]
         /\ \A k \in 1..Width[l] : Fresh(l, r)[k] = <<l, r, k>>
  BY WidthAssumption DEF Fresh, Qubit

LEMMA MeasureSeqType ==
  ASSUME NEW S, NEW k \in Seq(S), NEW s \in Nat, s < Len(k)
  PROVE  /\ MeasureSeq(k, s, 1) \in Seq(S)
         /\ Len(MeasureSeq(k, s, 1)) = Len(k) - 1
  BY DEF MeasureSeq

(* What the loop over m_literals subtracts never exceeds what an index has:*)
(* a literal is only moved while it begins behind the measured index.      *)
LEMMA ShiftBound ==
  ASSUME TypeOK, NEW l \in Lit, NEW e \in Nat, startIndex[l] <= endIndex[l]
  PROVE  /\ Shifts(l, e, 1) \in Nat
         /\ Shifts(l, e, 1) <= startIndex[l]
  BY DEF TypeOK, Shifts

(* A measurement that passes the checks is of one qubit of the ket. *)
LEMMA MeasuredIsSingle ==
  ASSUME IndexInv, NEW l \in Lit, MeasureVerdict(l) = "running"
  PROVE  /\ Width[l] = 1
         /\ endIndex[l] = startIndex[l]
         /\ startIndex[l] \in Nat
         /\ startIndex[l] < Len(ket)
         /\ endIndex[l] + 1 - startIndex[l] = 1
         /\ ~wasMeasured[l]
  <1>1. Width[l] = 1 /\ ~wasMeasured[l] /\ endIndex[l] < Len(ket)
    BY DEF MeasureVerdict, Refused, Outside, IndexInv, TypeOK
  <1>2. QED
    BY <1>1 DEF IndexInv, TypeOK

LEMMA IndexInvInit == Init => IndexInv
  BY JunkAssumption, MaxRunsAssumption
     DEF Init, IndexInv, TypeOK, LengthIsKet, Op

LEMMA IndexInvDeclare ==
  ASSUME IndexInv, NEW l \in Locals, Declare(l)
  PROVE  IndexInv'
  <1> l \in Lit
    BY DEF Lit
  <1> Width[l] \in Nat \ {0}
    BY WidthAssumption
  <1> runs[l] \in 0..MaxRuns
    BY DEF IndexInv, TypeOK
  <1> runs[l] \in Nat /\ runs[l] + 1 \in Nat /\ runs[l] + 1 \in 0..MaxRuns
    BY MaxRunsAssumption DEF Declare
  <1> DEFINE new == Fresh(l, runs[l] + 1)
             old == IF empty THEN 0 ELSE length
  <1>1. new \in Seq(Qubit) /\ Len(new) = Width[l]
    BY FreshType
  <1>2. ket' = Kron(ket, new) /\ ket' \in Seq(Qubit) /\ Len(ket') = Len(ket) + Width[l]
    <2>1. ket' = Kron(ket, new)
      BY DEF Declare, AddKet
    <2>2. ket \in Seq(Qubit)
      BY DEF IndexInv, TypeOK
    <2> HIDE DEF new
    <2>3. QED
      BY <1>1, <2>1, <2>2, KronType
  <1>3. old \in Nat /\ old = Len(ket)
    BY DEF IndexInv, TypeOK, LengthIsKet
  <1>4. TypeOK'
    <2>1. old + Width[l] - 1 \in Nat /\ length' \in Nat
      BY <1>3 DEF Declare, AddKet
    <2>2. startIndex' \in [Lit -> Nat] /\ endIndex' \in [Lit -> Nat]
      BY <1>3, <2>1 DEF Declare, AddKet, IndexInv, TypeOK
    <2>3. registered' \in [Lit -> Nat] /\ runs' \in [Lit -> 0..MaxRuns]
      BY DEF Declare, AddKet, IndexInv, TypeOK
    <2>4. acted'.op = "declare" /\ empty' \in BOOLEAN
      BY DEF Declare, AddKet, Op
    <2>5. wasMeasured' \in [Lit -> BOOLEAN] /\ outcome' \in {"running", "error", "abort"}
      BY DEF Declare, IndexInv, TypeOK
    <2>6. QED
      BY <1>2, <2>1, <2>2, <2>3, <2>4, <2>5 DEF TypeOK
  <1>5. LengthIsKet'
    BY <1>2, <1>3 DEF Declare, AddKet, LengthIsKet
  <1>6. \A m \in Lit : startIndex'[m] <= endIndex'[m]
    BY <1>3 DEF Declare, AddKet, IndexInv, TypeOK
  <1>7. \A m \in Lit : Width[m] = 1 => startIndex'[m] = endIndex'[m]
    BY <1>3 DEF Declare, AddKet, IndexInv, TypeOK
  <1>8. QED
    BY <1>4, <1>5, <1>6, <1>7 DEF IndexInv

LEMMA IndexInvMeasure ==
  ASSUME IndexInv, NEW l \in Lit, Measure(l)
  PROVE  IndexInv'
  <1> DEFINE s == startIndex[l]
             e == endIndex[l]
             n(m) == Shifts(m, e, 1)
  <1>1. s \in Nat /\ e = s /\ s < Len(ket) /\ e + 1 - s = 1
    BY MeasuredIsSingle DEF Measure
  <1>2. ~empty /\ length = Len(ket) /\ ket \in Seq(Qubit)
    BY <1>1 DEF IndexInv, LengthIsKet, TypeOK
  <1>3. /\ ket' = MeasureSeq(ket, s, 1)
        /\ length' = length - 1
        /\ startIndex' = [m \in Lit |-> startIndex[m] - 1 * n(m)]
        /\ endIndex' = [m \in Lit |-> endIndex[m] - 1 * n(m)]
    BY <1>1 DEF Measure
  <1>4. ket' \in Seq(Qubit) /\ Len(ket') = Len(ket) - 1
    BY <1>1, <1>2, <1>3, MeasureSeqType
  <1>5. \A m \in Lit : n(m) \in Nat /\ n(m) <= startIndex[m]
    BY <1>1, ShiftBound DEF IndexInv
  <1>6. \A m \in Lit : /\ startIndex'[m] = startIndex[m] - n(m)
                       /\ endIndex'[m] = endIndex[m] - n(m)
                       /\ startIndex'[m] \in Nat /\ endIndex'[m] \in Nat
    BY <1>3, <1>5 DEF IndexInv, TypeOK
  <1>7. startIndex' \in [Lit -> Nat] /\ endIndex' \in [Lit -> Nat]
    BY <1>3, <1>6
  <1>8. TypeOK'
    BY <1>1, <1>2, <1>3, <1>4, <1>7 DEF Measure, IndexInv, TypeOK, Op
  <1>9. LengthIsKet'
    BY <1>1, <1>2, <1>3, <1>4 DEF Measure, LengthIsKet
  <1>10. \A m \in Lit : /\ startIndex'[m] <= endIndex'[m]
                        /\ Width[m] = 1 => startIndex'[m] = endIndex'[m]
    BY <1>5, <1>6 DEF IndexInv, TypeOK
  <1>11. QED
    BY <1>8, <1>9, <1>10 DEF IndexInv

LEMMA IndexInvNext == IndexInv /\ [Next]_vars => IndexInv'
  <1> SUFFICES ASSUME IndexInv, [Next]_vars PROVE IndexInv'
    OBVIOUS
  <1>1. ASSUME NEW l \in Locals, Declare(l) PROVE IndexInv'
    BY <1>1, IndexInvDeclare
  <1>2. ASSUME NEW l \in Lit, Apply(l) PROVE IndexInv'
    BY <1>2 DEF Apply, register, literals, IndexInv, TypeOK, LengthIsKet, Op
  <1>3. ASSUME NEW c \in Single, NEW t \in Single, CApply(c, t) PROVE IndexInv'
    BY <1>3 DEF CApply, register, literals, IndexInv, TypeOK, LengthIsKet, Op
  <1>4. ASSUME NEW l \in Lit, Measure(l) PROVE IndexInv'
    BY <1>4, IndexInvMeasure
  <1>5. ASSUME NEW v \in {"error", "abort", "running"},
               NEW name \in {"apply", "capply", "measure"}, NEW args,
               Fail(v, name, args)
        PROVE  IndexInv'
    BY <1>5 DEF Fail, register, literals, IndexInv, TypeOK, LengthIsKet, Op
  <1>6. CASE UNCHANGED vars
    BY <1>6 DEF vars, register, literals, IndexInv, TypeOK, LengthIsKet
  <1>7. \A l \in Lit : /\ ApplyVerdict(l) \in {"error", "abort", "running"}
                       /\ MeasureVerdict(l) \in {"error", "abort", "running"}
    BY DEF ApplyVerdict, MeasureVerdict
  <1>8. \A c, t \in Lit : CApplyVerdict(c, t) \in {"error", "abort", "running"}
    BY DEF CApplyVerdict
  <1>9. QED
    BY <1>1, <1>2, <1>3, <1>4, <1>5, <1>6, <1>7, <1>8 DEF Next, Single

(* For every program: no index ever leaves the natural numbers.            *)
THEOREM TypeCorrect == Spec => []TypeOK
  <1>1. IndexInv => TypeOK
    BY DEF IndexInv
  <1>2. QED
    BY <1>1, IndexInvInit, IndexInvNext, PTL DEF Spec

(* For every program: m_length is the number of qubits of the super ket.   *)
THEOREM LengthCorrect == Spec => []LengthIsKet
  <1>1. IndexInv => LengthIsKet
    BY DEF IndexInv
  <1>2. QED
    BY <1>1, IndexInvInit, IndexInvNext, PTL DEF Spec

-----------------------------------------------------------------------------
(* Programs that execute each quantum declaration at most once and have no *)
(* global quantum variable.                                                *)
OncePrograms == Globals = {} /\ MaxRuns = 1

(* Then every declared literal is entered into m_literals once, so it is   *)
(* renumbered exactly once per measurement before it.                      *)
OwnInv ==
  /\ IndexInv
  /\ OwnQubits
  /\ NoOrphans
  /\ \A l \in Lit : registered[l] = runs[l]
  /\ \A l \in Lit : wasMeasured[l] => runs[l] = 1

LEMMA KronAt ==
  ASSUME NEW S, NEW k \in Seq(S), NEW m \in Seq(S)
  PROVE  /\ \A i \in 1..Len(k) : Kron(k, m)[i] = k[i]
         /\ \A i \in 1..Len(m) : Kron(k, m)[Len(k) + i] = m[i]
         /\ \A i \in (Len(k) + 1)..(Len(k) + Len(m)) : Kron(k, m)[i] = m[i - Len(k)]
  BY DEF Kron

LEMMA MeasureSeqAt ==
  ASSUME NEW S, NEW k \in Seq(S), NEW s \in Nat, s < Len(k)
  PROVE  /\ \A i \in 1..s : MeasureSeq(k, s, 1)[i] = k[i]
         /\ \A i \in (s + 1)..(Len(k) - 1) : MeasureSeq(k, s, 1)[i] = k[i + 1]
  BY DEF MeasureSeq

LEMMA OwnInvInit == Init => OwnInv
  <1>1. Init => OwnQubits /\ NoOrphans
    BY DEF Init, OwnQubits, NoOrphans, Live
  <1>2. QED
    BY <1>1, IndexInvInit DEF Init, OwnInv

LEMMA OwnInvDeclare ==
  ASSUME OncePrograms, OwnInv, NEW l \in Locals, Declare(l)
  PROVE  OwnInv'
  <1> l \in Lit /\ IndexInv
    BY DEF Lit, OwnInv
  <1> Width[l] \in Nat \ {0}
    BY WidthAssumption
  <1> DEFINE new == Fresh(l, 1)
             n == Len(ket)
  <1>1. runs[l] = 0 /\ ~wasMeasured[l] /\ registered[l] = 0
    BY DEF Declare, OncePrograms, OwnInv, IndexInv, TypeOK
  <1>2. /\ new \in Seq(Qubit) /\ Len(new) = Width[l]
        /\ \A k \in 1..Width[l] : new[k] = <<l, 1, k>>
    BY FreshType
  <1>3. ket \in Seq(Qubit) /\ n \in Nat /\ (IF empty THEN 0 ELSE length) = n
    BY DEF IndexInv, TypeOK, LengthIsKet
  <1>4. /\ ket' = Kron(ket, new)
        /\ runs' = [runs EXCEPT ![l] = 1]
        /\ registered' = [registered EXCEPT ![l] = 1]
        /\ startIndex' = [startIndex EXCEPT ![l] = n]
        /\ endIndex' = [endIndex EXCEPT ![l] = n + Width[l] - 1]
        /\ wasMeasured' = wasMeasured
    <2>1. runs[l] + 1 = 1 /\ registered[l] + 1 = 1
      BY <1>1
    <2>2. ket' = Kron(ket, new) /\ runs' = [runs EXCEPT ![l] = 1] /\ wasMeasured' = wasMeasured
      BY <2>1 DEF Declare, AddKet
    <2>3. registered' = [registered EXCEPT ![l] = 1]
      BY <2>1 DEF Declare, AddKet
    <2>4. /\ startIndex' = [startIndex EXCEPT ![l] = n]
          /\ endIndex' = [endIndex EXCEPT ![l] = n + Width[l] - 1]
      BY <1>3 DEF Declare, AddKet
    <2>5. QED
      BY <2>2, <2>3, <2>4
  <1> HIDE DEF new
  <1>5. /\ Len(ket') = n + Width[l]
        /\ \A i \in 1..n : ket'[i] = ket[i]
        /\ \A i \in (n + 1)..(n + Width[l]) : ket'[i] = <<l, 1, i - n>>
    <2>1. Len(ket') = n + Width[l]
      BY <1>2, <1>3, <1>4, KronType
    <2>2. \A i \in 1..n : ket'[i] = ket[i]
      BY <1>2, <1>3, <1>4, KronAt
    <2>3. \A i \in (n + 1)..(n + Width[l]) : ket'[i] = new[i - n] /\ i - n \in 1..Width[l]
      BY <1>2, <1>3, <1>4, KronAt
    <2>4. QED
      BY <1>2, <2>1, <2>2, <2>3
  <1> n \in Nat
    BY <1>3
  <1>a. /\ startIndex'[l] = n /\ endIndex'[l] = n + Width[l] - 1 /\ runs'[l] = 1
        /\ Live(l)' /\ ~Live(l)
        /\ \A m \in Lit \ {l} : /\ startIndex'[m] = startIndex[m]
                                /\ endIndex'[m] = endIndex[m]
                                /\ runs'[m] = runs[m]
                                /\ Live(m)' = Live(m)
    BY <1>1, <1>4 DEF Live, IndexInv, TypeOK
  <1> HIDE DEF n
  <1>6. OwnQubits'
    <2> SUFFICES ASSUME NEW m \in Lit, Live(m)'
                 PROVE  /\ endIndex'[m] + 1 = startIndex'[m] + Width[m]
                        /\ endIndex'[m] < Len(ket')
                        /\ \A k \in 1..Width[m] : ket'[startIndex'[m] + k] = <<m, runs'[m], k>>
      BY DEF OwnQubits
    <2> Width[m] \in Nat \ {0} /\ startIndex[m] \in Nat /\ endIndex[m] \in Nat
      BY WidthAssumption DEF IndexInv, TypeOK
    <2>1. CASE m = l
      <3>1. \A k \in 1..Width[l] : n + k \in (n + 1)..(n + Width[l]) /\ (n + k) - n = k
        OBVIOUS
      <3>2. \A k \in 1..Width[l] : ket'[n + k] = <<l, 1, k>>
        BY <1>5, <3>1
      <3>3. \A k \in 1..Width[l] : ket'[startIndex'[l] + k] = <<l, runs'[l], k>>
        BY <1>a, <3>2
      <3>4. endIndex'[l] + 1 = startIndex'[l] + Width[l] /\ endIndex'[l] < Len(ket')
        BY <1>a, <1>5
      <3>5. QED
        BY <2>1, <3>3, <3>4
    <2>2. CASE m # l
      <3>1. /\ endIndex[m] + 1 = startIndex[m] + Width[m]
            /\ endIndex[m] < n
            /\ \A k \in 1..Width[m] : ket[startIndex[m] + k] = <<m, runs[m], k>>
        BY <1>a, <2>2 DEF OwnInv, OwnQubits, n
      <3>2. \A k \in 1..Width[m] : startIndex[m] + k \in 1..n
        BY <3>1
      <3>3. \A k \in 1..Width[m] : ket'[startIndex[m] + k] = <<m, runs[m], k>>
        BY <1>5, <3>1, <3>2
      <3>4. /\ startIndex'[m] = startIndex[m] /\ endIndex'[m] = endIndex[m]
            /\ runs'[m] = runs[m]
        BY <1>a, <2>2
      <3>5. endIndex[m] < Len(ket')
        BY <1>5, <3>1
      <3>6. \A k \in 1..Width[m] : ket'[startIndex'[m] + k] = <<m, runs'[m], k>>
        BY <3>3, <3>4
      <3>7. QED
        BY <3>1, <3>4, <3>5, <3>6
    <2>3. QED
      BY <2>1, <2>2
  <1>7. NoOrphans'
    <2> SUFFICES ASSUME NEW i \in 1..Len(ket'), NEW q, q = ket'[i]
                 PROVE  /\ Live(q[1])' /\ q[2] = runs'[q[1]]
                        /\ q[3] \in 1..Width[q[1]]
                        /\ startIndex'[q[1]] + q[3] = i
      BY DEF NoOrphans
    <2>1. CASE i \in 1..n
      <3>1. q = ket[i]
        BY <1>5, <2>1
      <3>2. q[1] \in Lit
        BY <1>3, <2>1, <3>1 DEF Qubit, n
      <3>3. /\ Live(q[1]) /\ q[2] = runs[q[1]] /\ q[3] \in 1..Width[q[1]]
            /\ startIndex[q[1]] + q[3] = i
        BY <2>1, <3>1 DEF OwnInv, NoOrphans, n
      <3>4. q[1] # l
        BY <1>a, <3>3
      <3>5. QED
        BY <1>a, <3>2, <3>3, <3>4
    <2>2. CASE i \in (n + 1)..(n + Width[l])
      <3>1. q = <<l, 1, i - n>> /\ i - n \in 1..Width[l] /\ n + (i - n) = i
        BY <1>5, <2>2
      <3>2. QED
        BY <1>a, <3>1
    <2>3. QED
      BY <1>5, <2>1, <2>2
  <1>8. \A m \in Lit : registered'[m] = runs'[m] /\ (wasMeasured'[m] => runs'[m] = 1)
    BY <1>4 DEF OwnInv, IndexInv, TypeOK
  <1>9. IndexInv'
    BY IndexInvDeclare
  <1>10. QED
    BY <1>6, <1>7, <1>8, <1>9 DEF OwnInv

(* A measurement takes one qubit out; the literals behind it begin one     *)
(* position further left, and no block of a literal spans the gap.         *)
LEMMA OwnInvMeasure ==
  ASSUME OncePrograms, OwnInv, NEW l \in Lit, Measure(l)
  PROVE  OwnInv'
  <1> IndexInv
    BY DEF OwnInv
  <1> DEFINE s == startIndex[l]
             n == Len(ket)
  <1>1. /\ Width[l] = 1 /\ endIndex[l] = s /\ s \in Nat /\ s < n
        /\ endIndex[l] + 1 - s = 1 /\ ~wasMeasured[l]
    BY MeasuredIsSingle DEF Measure
  <1>2. runs[l] = 1 /\ Live(l)
    <2>1. runs[l] > 0 /\ runs[l] \in 0..1
      BY DEF Measure, InScope, OncePrograms, IndexInv, TypeOK
    <2>2. QED
      BY <1>1, <2>1 DEF Live
  <1>3. ket \in Seq(Qubit) /\ n \in Nat
    BY DEF IndexInv, TypeOK
  <1>4. ket[s + 1] = <<l, 1, 1>>
    BY <1>1, <1>2 DEF OwnInv, OwnQubits
  <1>5. /\ ket' = MeasureSeq(ket, s, 1)
        /\ startIndex' = [m \in Lit |-> startIndex[m] - 1 * Shifts(m, s, 1)]
        /\ endIndex' = [m \in Lit |-> endIndex[m] - 1 * Shifts(m, s, 1)]
        /\ wasMeasured' = [wasMeasured EXCEPT ![l] = TRUE]
        /\ registered' = registered /\ runs' = runs
    BY <1>1 DEF Measure, register
  <1>6. /\ Len(ket') = n - 1
        /\ \A i \in 1..s : ket'[i] = ket[i]
        /\ \A i \in (s + 1)..(n - 1) : ket'[i] = ket[i + 1]
    <2>1. Len(ket') = n - 1
      BY <1>1, <1>3, <1>5, MeasureSeqType
    <2>2. QED
      BY <1>1, <1>3, <1>5, <2>1, MeasureSeqAt
  <1>7. /\ ~Live(l)'
        /\ \A m \in Lit \ {l} : Live(m)' = Live(m)
    BY <1>5 DEF Live, IndexInv, TypeOK
  <1>8. \A m \in Lit : startIndex[m] \in Nat /\ endIndex[m] \in Nat /\ Width[m] \in Nat \ {0}
    BY WidthAssumption DEF IndexInv, TypeOK
  <1>9. ASSUME NEW m \in Lit, m # l, Live(m)
        PROVE  /\ startIndex[m] > s \/ endIndex[m] < s
               /\ startIndex'[m] = IF startIndex[m] > s THEN startIndex[m] - 1 ELSE startIndex[m]
               /\ endIndex'[m] = IF startIndex[m] > s THEN endIndex[m] - 1 ELSE endIndex[m]
    <2>1. /\ endIndex[m] + 1 = startIndex[m] + Width[m]
          /\ \A k \in 1..Width[m] : ket[startIndex[m] + k] = <<m, runs[m], k>>
      BY <1>9 DEF OwnInv, OwnQubits
    <2> startIndex[m] \in Nat /\ endIndex[m] \in Nat /\ Width[m] \in Nat \ {0}
      BY <1>8
    <2>2. startIndex[m] > s \/ endIndex[m] < s
      <3> SUFFICES ASSUME startIndex[m] <= s, s <= endIndex[m] PROVE FALSE
        BY <1>1, <1>8
      <3> DEFINE k == s + 1 - startIndex[m]
      <3>1. k \in 1..Width[m] /\ startIndex[m] + k = s + 1
        <4> s \in Nat
          BY <1>1
        <4> HIDE DEF s
        <4>1. QED
          BY <2>1
      <3>2. ket[s + 1] = <<m, runs[m], k>>
        BY <2>1, <3>1
      <3>3. QED
        BY <1>4, <1>9, <3>2
    <2>3. registered[m] = 1 /\ ~wasMeasured[m]
      BY <1>9, MaxRunsAssumption DEF Live, OwnInv, OncePrograms, IndexInv, TypeOK
    <2>4. Shifts(m, s, 1) = IF startIndex[m] > s THEN 1 ELSE 0
      BY <1>1, <1>8, <2>3 DEF Shifts
    <2>5. QED
      BY <1>5, <1>8, <2>2, <2>4
  <1> HIDE DEF s, n
  <1>10. OwnQubits'
    <2> SUFFICES ASSUME NEW m \in Lit, Live(m)'
                 PROVE  /\ endIndex'[m] + 1 = startIndex'[m] + Width[m]
                        /\ endIndex'[m] < Len(ket')
                        /\ \A k \in 1..Width[m] : ket'[startIndex'[m] + k] = <<m, runs'[m], k>>
      BY DEF OwnQubits
    <2>1. m # l /\ Live(m)
      BY <1>7
    <2> startIndex[m] \in Nat /\ endIndex[m] \in Nat /\ Width[m] \in Nat \ {0}
      BY <1>8
    <2> s \in Nat /\ n \in Nat
      BY <1>1, <1>3
    <2>2. /\ endIndex[m] + 1 = startIndex[m] + Width[m] /\ endIndex[m] < n
          /\ \A k \in 1..Width[m] : ket[startIndex[m] + k] = <<m, runs[m], k>>
      BY <2>1 DEF OwnInv, OwnQubits, n
    <2>3. CASE startIndex[m] > s
      <3>1. startIndex'[m] = startIndex[m] - 1 /\ endIndex'[m] = endIndex[m] - 1
        BY <1>9, <2>1, <2>3
      <3>2. \A k \in 1..Width[m] : /\ startIndex[m] - 1 + k \in (s + 1)..(n - 1)
                                 /\ (startIndex[m] - 1 + k) + 1 = startIndex[m] + k
        BY <2>2, <2>3
      <3>3. \A k \in 1..Width[m] : ket'[startIndex[m] - 1 + k] = <<m, runs[m], k>>
        BY <1>6, <2>2, <3>2
      <3>4. endIndex[m] - 1 < n - 1 /\ (endIndex[m] - 1) + 1 = (startIndex[m] - 1) + Width[m]
        BY <2>2
      <3>5. QED
        BY <1>5, <1>6, <3>1, <3>3, <3>4
    <2>4. CASE endIndex[m] < s
      <3>1. ~(startIndex[m] > s)
        BY <1>1, <1>8, <2>2, <2>4
      <3>2. startIndex'[m] = startIndex[m] /\ endIndex'[m] = endIndex[m]
        BY <1>9, <2>1, <3>1
      <3>3. \A k \in 1..Width[m] : startIndex[m] + k \in 1..s
        BY <1>1, <1>8, <2>2, <2>4
      <3>4. \A k \in 1..Width[m] : ket'[startIndex[m] + k] = <<m, runs[m], k>>
        BY <1>6, <2>2, <3>3
      <3>5. endIndex[m] < n - 1
        BY <1>1, <1>3, <1>8, <2>4 DEF n
      <3>6. QED
        BY <1>5, <1>6, <2>2, <3>2, <3>4, <3>5
    <2>5. QED
      BY <1>9, <2>1, <2>3, <2>4
  <1>11. NoOrphans'
    <2> SUFFICES ASSUME NEW i \in 1..Len(ket'), NEW q, q = ket'[i]
                 PROVE  /\ Live(q[1])' /\ q[2] = runs'[q[1]]
                        /\ q[3] \in 1..Width[q[1]]
                        /\ startIndex'[q[1]] + q[3] = i
      BY DEF NoOrphans
    <2> i \in Nat /\ i >= 1 /\ i <= n - 1 /\ s \in Nat
      BY <1>1, <1>3, <1>6
    <2> DEFINE j == IF i <= s THEN i ELSE i + 1
    <2>1. q = ket[j] /\ j \in 1..n /\ j # s + 1
      BY <1>3, <1>6
    <2>2. q[1] \in Lit /\ q[3] \in Nat
      BY <1>3, <2>1 DEF Qubit, n
    <2>3. /\ Live(q[1]) /\ q[2] = runs[q[1]] /\ q[3] \in 1..Width[q[1]]
          /\ startIndex[q[1]] + q[3] = j
      BY <2>1 DEF OwnInv, NoOrphans, n
    <2>4. q[1] # l
      <3> SUFFICES ASSUME q[1] = l PROVE FALSE
        OBVIOUS
      <3>1. q[3] = 1 /\ startIndex[l] + 1 = j
        BY <1>1, <2>2, <2>3
      <3>2. QED
        BY <2>1, <3>1 DEF s
    <2> DEFINE m == q[1]
    <2>5. /\ startIndex[m] > s \/ endIndex[m] < s
          /\ startIndex'[m] = IF startIndex[m] > s THEN startIndex[m] - 1 ELSE startIndex[m]
      BY <1>9, <2>2, <2>3, <2>4
    <2>6. endIndex[m] + 1 = startIndex[m] + Width[m]
      BY <2>2, <2>3 DEF OwnInv, OwnQubits
    <2>7. startIndex[m] > s <=> j > s
      <3>1. startIndex[m] \in Nat /\ endIndex[m] \in Nat /\ Width[m] \in Nat
        BY <1>8, <2>2
      <3> HIDE DEF j, m
      <3>2. startIndex[m] + q[3] = j /\ q[3] \in 1..Width[m] /\ q[3] \in Nat
        BY <2>2, <2>3 DEF m
      <3>3. QED
        BY <2>5, <2>6, <3>1, <3>2
    <2>8. startIndex'[m] + q[3] = i
      BY <1>8, <2>1, <2>2, <2>3, <2>5, <2>7
    <2>9. QED
      BY <1>5, <1>7, <2>2, <2>3, <2>4, <2>8
  <1>12. \A m \in Lit : registered'[m] = runs'[m] /\ (wasMeasured'[m] => runs'[m] = 1)
    BY <1>2, <1>5 DEF OwnInv, IndexInv, TypeOK
  <1>13. IndexInv'
    BY IndexInvMeasure
  <1>14. QED
    BY <1>10, <1>11, <1>12, <1>13 DEF OwnInv

LEMMA OwnInvNext == OncePrograms /\ OwnInv /\ [Next]_vars => OwnInv'
  <1> SUFFICES ASSUME OncePrograms, OwnInv, [Next]_vars PROVE OwnInv'
    OBVIOUS
  <1>1. ASSUME NEW l \in Locals, Declare(l) PROVE OwnInv'
    BY <1>1, OwnInvDeclare
  <1>2. ASSUME NEW l \in Lit, Measure(l) PROVE OwnInv'
    BY <1>2, OwnInvMeasure
  <1>3. ASSUME UNCHANGED <<register, literals, runs>> PROVE OwnInv'
    <2>1. IndexInv'
      BY IndexInvNext DEF OwnInv
    <2>2. OwnQubits' /\ NoOrphans'
      BY <1>3 DEF register, literals, OwnInv, OwnQubits, NoOrphans, Live
    <2>3. QED
      BY <1>3, <2>1, <2>2 DEF register, literals, OwnInv
  <1>4. QED
    BY <1>1, <1>2, <1>3 DEF Next, Apply, CApply, Fail, vars

(* If no quantum declaration is executed twice and none is global, the     *)
(* indices of every unmeasured literal delimit exactly its own qubits.     *)
THEOREM OwnQubitsCorrect == OncePrograms /\ Spec => []OwnQubits
  <1> SUFFICES ASSUME OncePrograms PROVE Spec => []OwnQubits
    OBVIOUS
  <1>1. OwnInv => OwnQubits
    BY DEF OwnInv
  <1>2. OwnInv /\ [Next]_vars => OwnInv'
    BY OwnInvNext
  <1>3. QED
    BY <1>1, <1>2, OwnInvInit, PTL DEF Spec

(* In those programs no qubit of the super ket is without a literal.       *)
THEOREM NoOrphansCorrect == OncePrograms /\ Spec => []NoOrphans
  <1> SUFFICES ASSUME OncePrograms PROVE Spec => []NoOrphans
    OBVIOUS
  <1>1. OwnInv => NoOrphans
    BY DEF OwnInv
  <1>2. OwnInv /\ [Next]_vars => OwnInv'
    BY OwnInvNext
  <1>3. QED
    BY <1>1, <1>2, OwnInvInit, PTL DEF Spec

-----------------------------------------------------------------------------
(* The refinement of QubitStore.                                           *)

LEMMA DenotedIsOwned ==
  ASSUME OwnInv, NEW l \in Lit, Live(l)
  PROVE  /\ Denoted(l) = Store!Owned(l, runs[l])
         /\ ~Outside(l) /\ endIndex[l] < length
  <1> /\ startIndex[l] \in Nat /\ endIndex[l] \in Nat /\ Width[l] \in Nat \ {0}
      /\ ket \in Seq(Qubit) /\ Len(ket) \in Nat
    BY WidthAssumption DEF OwnInv, IndexInv, TypeOK
  <1>1. /\ endIndex[l] + 1 = startIndex[l] + Width[l] /\ endIndex[l] < Len(ket)
        /\ \A k \in 1..Width[l] : ket[startIndex[l] + k] = <<l, runs[l], k>>
    BY DEF OwnInv, OwnQubits
  <1>2. endIndex[l] + 1 - startIndex[l] = Width[l]
    BY <1>1
  <1>3. Denoted(l) = [k \in 1..Width[l] |-> <<l, runs[l], k>>]
    BY <1>1, <1>2 DEF Denoted
  <1>4. ~empty /\ length = Len(ket)
    BY <1>1 DEF OwnInv, IndexInv, LengthIsKet
  <1>5. QED
    BY <1>1, <1>3, <1>4 DEF Store!Owned, Outside

LEMMA LiveIfNamed ==
  ASSUME OncePrograms, NEW l \in Lit, InScope(l)
  PROVE  /\ runs[l] > 0
         /\ Live(l) \/ wasMeasured[l]
  BY DEF InScope, OncePrograms, Live

LEMMA StoreDeclare ==
  ASSUME OncePrograms, OwnInv, NEW l \in Locals, Declare(l)
  PROVE  Store!Declare(l)
  <1> l \in Lit
    BY DEF Lit
  <1>1. runs[l] = 0 /\ ~wasMeasured[l] /\ runs'[l] = 1 /\ runs[l] + 1 = 1
    BY DEF Declare, OncePrograms, OwnInv, IndexInv, TypeOK
  <1>2. wasMeasured' = [wasMeasured EXCEPT ![l] = FALSE]
    BY <1>1 DEF Declare, OwnInv, IndexInv, TypeOK
  <1>3. acted' = Op("declare", Fresh(l, 1)) /\ runs' = [runs EXCEPT ![l] = @ + 1]
    BY <1>1 DEF Declare
  <1>4. acted' = Store!Op("declare", Store!Owned(l, runs'[l]))
    BY <1>1, <1>3 DEF Op, Fresh, Store!Op, Store!Owned
  <1>5. QED
    BY <1>2, <1>3, <1>4 DEF Store!Declare, Declare

LEMMA StoreCApply ==
  ASSUME OncePrograms, OwnInv, NEW c \in Single, NEW t \in Single, CApply(c, t)
  PROVE  Store!Control(c, t)
  <1> c \in Lit /\ t \in Lit /\ Width[c] = 1 /\ Width[t] = 1
    BY DEF Single
  <1>1. ~wasMeasured[c] /\ ~wasMeasured[t] /\ startIndex[c] # endIndex[t]
    BY DEF CApply, CApplyVerdict
  <1>2. Live(c) /\ Live(t)
    BY <1>1, LiveIfNamed DEF CApply
  <1>3. c # t
    BY <1>1 DEF OwnInv, IndexInv
  <1>4. /\ ket[startIndex[c] + 1] = <<c, runs[c], 1>>
        /\ ket[startIndex[t] + 1] = <<t, runs[t], 1>>
        /\ endIndex[t] = startIndex[t]
    BY <1>2 DEF OwnInv, IndexInv, OwnQubits
  <1>5. Store!Owned(c, runs[c])[1] = <<c, runs[c], 1>> /\ Store!Owned(t, runs[t])[1] = <<t, runs[t], 1>>
    BY DEF Store!Owned
  <1>6. QED
    BY <1>2, <1>3, <1>4, <1>5
       DEF CApply, register, literals, Op, Live, Store!Control, Store!Live, Store!Op

LEMMA StoreMeasure ==
  ASSUME OncePrograms, OwnInv, NEW l \in Lit, Measure(l)
  PROVE  Store!Measure(l)
  <1>1. Width[l] = 1 /\ ~wasMeasured[l]
    BY MeasuredIsSingle DEF Measure, OwnInv
  <1>2. Live(l)
    BY <1>1, LiveIfNamed DEF Measure
  <1>3. QED
    BY <1>1, <1>2, DenotedIsOwned
       DEF Measure, Op, Live, Store!Measure, Store!Live, Store!Op

LEMMA StoreApply ==
  ASSUME OncePrograms, OwnInv, NEW l \in Lit, Apply(l)
  PROVE  Store!Apply(l)
  <1>1. Width[l] = 1 /\ ~wasMeasured[l]
    BY DEF Apply, ApplyVerdict, Refused
  <1>2. Live(l)
    BY <1>1, LiveIfNamed DEF Apply
  <1>3. QED
    BY <1>1, <1>2, DenotedIsOwned
       DEF Apply, register, literals, Op, Live, Store!Apply, Store!Live, Store!Op

(* The checks refuse exactly what QubitStore refuses: the tests for an     *)
(* index beyond the register never fire.                                   *)
LEMMA StoreFail ==
  ASSUME OncePrograms, OwnInv, NEW l \in Lit, InScope(l),
         Fail(ApplyVerdict(l), "apply", <<l>>) \/ Fail(MeasureVerdict(l), "measure", <<l>>)
  PROVE  Store!Refuse(l)
  <1>1. Refused(l)
    <2> SUFFICES ASSUME ~Refused(l) PROVE FALSE
      OBVIOUS
    <2>1. Live(l)
      BY LiveIfNamed DEF Refused
    <2>2. ~Outside(l) /\ endIndex[l] < length
      BY <2>1, DenotedIsOwned
    <2>3. ~(endIndex[l] > length)
      BY <2>2 DEF OwnInv, IndexInv, TypeOK
    <2>4. QED
      BY <2>2, <2>3 DEF Fail, ApplyVerdict, MeasureVerdict
  <1>2. ApplyVerdict(l) = "error" /\ MeasureVerdict(l) = "error"
    BY <1>1 DEF ApplyVerdict, MeasureVerdict
  <1>3. PICK name \in {"apply", "measure"} : Fail("error", name, <<l>>)
    BY <1>2
  <1>4. Store!End(name, <<l>>, "error")
    BY <1>3 DEF Fail, register, literals, Op, Store!End, Store!Op
  <1>5. runs[l] > 0
    BY LiveIfNamed
  <1>6. QED
    BY <1>1, <1>4, <1>5 DEF Refused, Store!Refuse

LEMMA StoreCFail ==
  ASSUME OncePrograms, OwnInv, NEW c \in Single, NEW t \in Single,
         InScope(c), InScope(t), Fail(CApplyVerdict(c, t), "capply", <<c, t>>)
  PROVE  Store!RefuseControl(c, t) \/ Store!SelfControl(c)
  <1> c \in Lit /\ t \in Lit /\ Width[c] = 1 /\ Width[t] = 1
    BY DEF Single
  <1>1. runs[c] > 0 /\ runs[t] > 0
    BY LiveIfNamed
  <1>2. Store!End("capply", <<c, t>>, CApplyVerdict(c, t))
    BY DEF Fail, register, literals, Op, Store!End, Store!Op
  <1>3. CASE wasMeasured[c] \/ wasMeasured[t]
    BY <1>1, <1>2, <1>3 DEF CApplyVerdict, Store!RefuseControl
  <1>4. CASE ~wasMeasured[c] /\ ~wasMeasured[t]
    <2>1. Live(c) /\ Live(t)
      BY <1>1, <1>4 DEF Live
    <2>2. ~Outside(c) /\ ~Outside(t)
      BY <2>1, DenotedIsOwned
    <2>3. /\ startIndex[c] = endIndex[c] /\ startIndex[t] = endIndex[t]
          /\ startIndex[c] \in Nat
      BY DEF OwnInv, IndexInv, TypeOK
    <2>4. CApplyVerdict(c, t) = "abort" /\ startIndex[c] = endIndex[t]
      BY <1>4, <2>2, <2>3 DEF Fail, CApplyVerdict, Outside
    <2>5. /\ ket[startIndex[c] + 1] = <<c, runs[c], 1>>
          /\ ket[startIndex[t] + 1] = <<t, runs[t], 1>>
      BY <2>1 DEF OwnInv, OwnQubits
    <2>6. c = t
      BY <2>3, <2>4, <2>5
    <2>7. QED
      BY <1>2, <2>1, <2>4, <2>6 DEF Live, Store!SelfControl, Store!Live
  <1>5. QED
    BY <1>3, <1>4

LEMMA StoreNext == OncePrograms /\ OwnInv /\ [Next]_vars => [Store!Next]_(Store!vars)
  <1> SUFFICES ASSUME OncePrograms, OwnInv, [Next]_vars
               PROVE  Store!Next \/ UNCHANGED Store!vars
    OBVIOUS
  <1> Locals \subseteq Lit /\ Single \subseteq Lit
    BY DEF Lit, Single
  <1>1. ASSUME NEW l \in Locals, Declare(l) PROVE Store!Next
    BY <1>1, StoreDeclare DEF Store!Next
  <1>2. ASSUME NEW l \in Lit, Apply(l) PROVE Store!Next
    BY <1>2, StoreApply DEF Store!Next
  <1>3. ASSUME NEW c \in Single, NEW t \in Single, CApply(c, t) PROVE Store!Next
    BY <1>3, StoreCApply DEF Store!Next
  <1>4. ASSUME NEW l \in Lit, Measure(l) PROVE Store!Next
    BY <1>4, StoreMeasure DEF Store!Next
  <1>5. ASSUME NEW l \in Lit, InScope(l), Fail(ApplyVerdict(l), "apply", <<l>>) \/ Fail(MeasureVerdict(l), "measure", <<l>>)
        PROVE  Store!Next
    BY <1>5, StoreFail DEF Store!Next
  <1>6. ASSUME NEW c \in Single, NEW t \in Single, InScope(c), InScope(t),
               Fail(CApplyVerdict(c, t), "capply", <<c, t>>)
        PROVE  Store!Next
    BY <1>6, StoreCFail DEF Store!Next
  <1>7. CASE UNCHANGED vars
    BY <1>7 DEF vars, literals, Store!vars
  <1>8. QED
    BY <1>1, <1>2, <1>3, <1>4, <1>5, <1>6, <1>7 DEF Next

(* In those programs every gate and every measurement acts on exactly the  *)
(* qubits of the variables it names, and the interpretation only fails for *)
(* a measured or wide variable or a gate controlled by its own target.     *)
THEOREM ImplementsStoreCorrect == OncePrograms /\ Spec => ImplementsStore
  <1> SUFFICES ASSUME OncePrograms PROVE Spec => Store!Spec
    BY DEF ImplementsStore
  <1>1. Init => Store!Init
    BY DEF Init, Op, Store!Init, Store!Op
  <1>2. OwnInv /\ [Next]_vars => [Store!Next]_(Store!vars)
    BY StoreNext
  <1>3. OwnInv /\ [Next]_vars => OwnInv'
    BY OwnInvNext
  <1>4. QED
    BY <1>1, <1>2, <1>3, OwnInvInit, PTL DEF Spec, Store!Spec
=============================================================================
