--------------------------- MODULE ImporterProofs ---------------------------
(***************************************************************************)
(* Proofs about the importer, for any files and any import declarations.   *)
(***************************************************************************)
EXTENDS Importer, TLAPS

(* While imports are collected: the table holds files only, and what a     *)
(* program in it imports is among its edges or is still to be met by the   *)
(* call that reads it.                                                     *)
GenerateInv ==
  phase = "generate" =>
    /\ gtable \subseteq Files
    /\ sortedDeps = <<>>
    /\ imported = {}
    /\ \A p \in Files : depState[p] = "not_visited"
    /\ \A p \in gtable : \A k \in DOMAIN imports[p] :
         \/ imports[p][k] \in Elements(deps[p])
         \/ \E i \in DOMAIN calls : calls[i].prog = p /\ k >= calls[i].next

(* While they are sorted: every import is an edge, a visited program is in *)
(* the queue, and the dependencies a call has got past are visited, except *)
(* the one it is waiting for.                                              *)
SortInv ==
  phase = "sort" =>
    /\ imported = {}
    /\ Builtins \subseteq Elements(sortedDeps)
    /\ \A p \in gtable \cap Files : Elements(imports[p]) \subseteq Elements(deps[p])
    /\ \A p \in Files : depState[p] = "visited" => p \in Elements(sortedDeps)
    /\ \A i \in DOMAIN calls : \A k \in DOMAIN deps[calls[i].prog] :
         k < calls[i].next =>
           \/ depState[deps[calls[i].prog][k]] = "visited"
           \/ i < Len(calls) /\ deps[calls[i].prog][k] = calls[i + 1].prog

Inv == TypeOK /\ RecursionBounded /\ QueueSorted /\ GenerateInv /\ SortInv

-----------------------------------------------------------------------------
(* The queue the sort begins with is in order itself.                      *)
LEMMA ImplicitAreBuiltins == Elements(ImplicitImports) \subseteq Builtins
  BY DEF Elements, ImplicitImports, Builtins, BuiltinOrder

LEMMA BuiltinsSorted ==
  \A i \in DOMAIN BuiltinOrder :
    Elements(BuiltinImports(BuiltinOrder[i])) \subseteq {BuiltinOrder[j] : j \in 1..(i - 1)}
  <1> DEFINE Earlier(i) == {BuiltinOrder[j] : j \in 1..(i - 1)}
             Sorted(i) == Elements(BuiltinImports(BuiltinOrder[i])) \subseteq Earlier(i)
  <1>1. DOMAIN BuiltinOrder = 1..18
    BY DEF BuiltinOrder
  <1>2. /\ BuiltinOrder[1] = "string" /\ BuiltinOrder[2] = "maybe" /\ BuiltinOrder[3] = "void"
        /\ BuiltinOrder[4] = "bool" /\ BuiltinOrder[5] = "float" /\ BuiltinOrder[6] = "gate"
        /\ BuiltinOrder[7] = "cgate" /\ BuiltinOrder[8] = "trig" /\ BuiltinOrder[9] = "int"
        /\ BuiltinOrder[10] = "bit" /\ BuiltinOrder[11] = "bit2" /\ BuiltinOrder[12] = "bit4"
        /\ BuiltinOrder[13] = "bit8" /\ BuiltinOrder[14] = "qubit" /\ BuiltinOrder[15] = "qubit2"
        /\ BuiltinOrder[16] = "qubit4" /\ BuiltinOrder[17] = "qubit8" /\ BuiltinOrder[18] = "io"
    BY DEF BuiltinOrder
  <1>3. Sorted(1) /\ Sorted(2) /\ Sorted(3) /\ Sorted(4) /\ Sorted(5)
    BY <1>2 DEF BuiltinImports, Elements
  <1>4. Sorted(6) /\ Sorted(7) /\ Sorted(8) /\ Sorted(9)
    BY <1>2 DEF BuiltinImports, Elements
  <1>5. Sorted(10) /\ Sorted(11) /\ Sorted(12) /\ Sorted(13)
    BY <1>2 DEF BuiltinImports, Elements
  <1>6. Sorted(14) /\ Sorted(15) /\ Sorted(16) /\ Sorted(17) /\ Sorted(18)
    BY <1>2 DEF BuiltinImports, Elements
  <1> HIDE DEF Sorted
  <1>7. \A i \in 1..18 : Sorted(i)
    BY <1>3, <1>4, <1>5, <1>6
  <1> QED
    BY <1>1, <1>7 DEF Sorted

-----------------------------------------------------------------------------
(* Sequences, and the stack of calls.                                      *)
LEMMA ElementsAppend ==
  ASSUME NEW S, NEW s \in Seq(S), NEW x \in S
  PROVE  Elements(Append(s, x)) = Elements(s) \cup {x}
  <1>1. \A i \in DOMAIN s : Append(s, x)[i] = s[i] /\ i \in DOMAIN Append(s, x)
    OBVIOUS
  <1>2. /\ Append(s, x)[Len(s) + 1] = x
        /\ Len(s) + 1 \in DOMAIN Append(s, x)
        /\ DOMAIN Append(s, x) = DOMAIN s \cup {Len(s) + 1}
    OBVIOUS
  <1> QED
    BY <1>1, <1>2 DEF Elements

LEMMA LargerSeq ==
  ASSUME NEW S, NEW T, S \subseteq T, NEW s \in Seq(S)
  PROVE  s \in Seq(T)
  OBVIOUS

LEMMA ElementsConcat ==
  ASSUME NEW S, NEW s \in Seq(S), NEW t \in Seq(S)
  PROVE  Elements(s \o t) \subseteq Elements(s) \cup Elements(t)
  <1>1. /\ DOMAIN (s \o t) = 1..(Len(s) + Len(t))
        /\ Len(s) \in Nat /\ Len(t) \in Nat /\ DOMAIN s = 1..Len(s) /\ DOMAIN t = 1..Len(t)
        /\ \A i \in 1..Len(s) : (s \o t)[i] = s[i] /\ i \in DOMAIN (s \o t)
        /\ \A i \in 1..Len(t) : (s \o t)[Len(s) + i] = t[i] /\ Len(s) + i \in DOMAIN (s \o t)
    OBVIOUS
  <1>2. \A i \in DOMAIN (s \o t) : i \in 1..Len(s) \/ \E j \in 1..Len(t) : i = Len(s) + j
    <2> SUFFICES ASSUME NEW i \in DOMAIN (s \o t), i \notin 1..Len(s)
                 PROVE  i - Len(s) \in 1..Len(t) /\ i = Len(s) + (i - Len(s))
      OBVIOUS
    <2> QED
      BY <1>1
  <1>3. ASSUME NEW i \in DOMAIN (s \o t)
        PROVE  (s \o t)[i] \in Elements(s) \/ (s \o t)[i] \in Elements(t)
    <2>1. CASE i \in 1..Len(s)
      BY <1>1, <2>1 DEF Elements
    <2>2. CASE \E j \in 1..Len(t) : i = Len(s) + j
      BY <1>1, <2>2 DEF Elements
    <2> QED
      BY <1>2, <2>1, <2>2
  <1> QED
    BY <1>3 DEF Elements

LEMMA ImplicitType == ImplicitImports \in Seq(Builtins)
  BY DEF ImplicitImports, Builtins, Elements, BuiltinOrder

Calls == [prog : gtable \cap Files, next : Nat \ {0}]

LEMMA TopType ==
  ASSUME TypeOK, calls # <<>>
  PROVE  /\ calls \in Seq(Calls) /\ Len(calls) \in Nat \ {0}
         /\ Top \in Calls
         /\ Top.prog \in gtable /\ Top.prog \in Files /\ Top.next \in Nat \ {0}
  <1>1. calls \in Seq(Calls)
    BY DEF TypeOK, Calls
  <1>2. Len(calls) \in Nat \ {0} /\ Top \in Calls
    BY <1>1 DEF Top
  <1> QED
    BY <1>1, <1>2 DEF Calls

LEMMA AdvancedIs ==
  ASSUME TypeOK, calls # <<>>
  PROVE  /\ Advanced \in Seq(Calls) /\ Len(Advanced) = Len(calls)
         /\ \A i \in DOMAIN calls : /\ Advanced[i].prog = calls[i].prog
                                    /\ i # Len(calls) => Advanced[i] = calls[i]
         /\ Advanced[Len(calls)].next = Top.next + 1
  BY TopType DEF Advanced, Top, Calls

LEMMA FrontIs ==
  ASSUME NEW S, NEW s \in Seq(S), NEW n \in Nat, n <= Len(s)
  PROVE  /\ SubSeq(s, 1, n) \in Seq(S)
         /\ Len(SubSeq(s, 1, n)) = n
         /\ \A i \in 1..n : SubSeq(s, 1, n)[i] = s[i]
  <1>1. SubSeq(s, 1, n) \in Seq(S)
    OBVIOUS
  <1>2. Len(SubSeq(s, 1, n)) = n
    OBVIOUS
  <1>3. \A i \in 1..n : SubSeq(s, 1, n)[i] = s[i]
    OBVIOUS
  <1> QED
    BY <1>1, <1>2, <1>3

LEMMA PopIs ==
  ASSUME TypeOK, calls # <<>>
  PROVE  /\ Pop \in Seq(Calls) /\ Len(Pop) = Len(calls) - 1
         /\ DOMAIN Pop = 1..(Len(calls) - 1) /\ DOMAIN calls = 1..Len(calls)
         /\ \A i \in DOMAIN Pop : i \in DOMAIN calls /\ i < Len(calls) /\ Pop[i] = calls[i]
  <1>1. calls \in Seq(Calls) /\ Len(calls) \in Nat \ {0}
    BY TopType
  <1>2. /\ Pop \in Seq(Calls) /\ Len(Pop) = Len(calls) - 1
        /\ \A i \in 1..(Len(calls) - 1) : Pop[i] = calls[i]
    <2>1. Len(calls) - 1 \in Nat /\ Len(calls) - 1 <= Len(calls)
      BY <1>1
    <2> QED
      BY <1>1, <2>1, FrontIs DEF Pop
  <1> QED
    BY <1>1, <1>2

(* What is thrown ends the run and changes nothing else. *)
LEMMA InvThrow ==
  ASSUME Inv, FileMissing \/ FoundCycle \/ NameClash \/ HeaderRefused \/ ImportsDone
  PROVE  Inv'
  <1>1. /\ UNCHANGED <<source, graph, sortedDeps, calls, scope, imported, phase>>
        /\ outcome' \in {"running", "missing", "cycle", "clash", "header", "done"}
    BY DEF FileMissing, FoundCycle, NameClash, HeaderRefused, ImportsDone, Throw
  <1> QED
    BY <1>1 DEF Inv, TypeOK, RecursionBounded, QueueSorted, GenerateInv, SortInv, source, graph

LEMMA InvInit == Init => Inv
  <1> SUFFICES ASSUME Init
               PROVE  Inv
    OBVIOUS
  <1>1. TypeOK
    <2>1. scope \in [All -> SUBSET (Builtins \cup UNION {Public[p] \cup Private[p] : p \in Files})]
      <3>1. {"string", "bool", "int", "float", "maybe"} \subseteq Builtins
        BY DEF Builtins, Elements, BuiltinOrder
      <3> QED
        BY <3>1 DEF Init, BuiltScope
    <2> QED
      BY <2>1, ImportsAssumption DEF Init, TypeOK, All, Frame
  <1>2. RecursionBounded /\ QueueSorted /\ SortInv
    BY DEF Init, RecursionBounded, QueueSorted, SortInv
  <1>3. GenerateInv
    <2>1. \A k \in DOMAIN imports[Main] : k >= 1
      BY ImportsAssumption DEF Init
    <2> QED
      BY <2>1, ImportsAssumption DEF Init, GenerateInv, Frame
  <1> QED
    BY <1>1, <1>2, <1>3 DEF Inv

-----------------------------------------------------------------------------
(* generate_deps.                                                          *)
LEMMA ImportsType ==
  ASSUME TypeOK, NEW p \in Files
  PROVE  /\ imports[p] \in Seq(STRING) /\ deps[p] \in Seq(gtable \cap Files)
         /\ Len(imports[p]) \in Nat /\ Len(deps[p]) \in Nat
         /\ DOMAIN imports[p] = 1..Len(imports[p]) /\ DOMAIN deps[p] = 1..Len(deps[p])
  BY ImportsAssumption DEF TypeOK

(* Both ways of meeting an import add an edge and go on behind it. *)
LEMMA EdgeAdded ==
  ASSUME Inv, Generating, HasImport, Importee \in Files
  PROVE  /\ TypeOK /\ Top.prog \in gtable \cap Files
         /\ gtable \subseteq Files /\ sortedDeps = <<>> /\ imported = {}
         /\ AddEdge \in [Files -> Seq(gtable \cup {Importee})]
         /\ \A p \in gtable : \A k \in DOMAIN imports[p] :
              \/ imports[p][k] \in Elements(AddEdge[p])
              \/ \E i \in DOMAIN calls : calls[i].prog = p /\ k >= Advanced[i].next
  <1> DEFINE top == Top.prog
             new == gtable \cup {Importee}
  <1>1. phase = "generate" /\ calls # <<>> /\ TypeOK
    BY DEF Generating, Inv
  <1>2. /\ gtable \subseteq Files /\ sortedDeps = <<>> /\ imported = {}
        /\ \A p \in gtable : \A k \in DOMAIN imports[p] :
             \/ imports[p][k] \in Elements(deps[p])
             \/ \E i \in DOMAIN calls : calls[i].prog = p /\ k >= calls[i].next
    BY <1>1 DEF Inv, GenerateInv
  <1>3. top \in gtable /\ top \in Files /\ Top.next \in Nat \ {0} /\ Len(calls) \in DOMAIN calls
    BY <1>1, TopType
  <1>4. Importee = imports[top][Top.next]
    BY DEF Importee
  <1>5. \A p \in Files : deps[p] \in Seq(new)
    BY <1>1 DEF TypeOK
  <1>6. AddEdge = [deps EXCEPT ![top] = Append(deps[top], Importee)] /\ DOMAIN deps = Files
    BY <1>1 DEF AddEdge, TypeOK
  <1> HIDE DEF top, new
  <1>7. /\ AddEdge \in [Files -> Seq(new)]
        /\ Elements(AddEdge[top]) = Elements(deps[top]) \cup {Importee}
        /\ \A p \in Files \ {top} : AddEdge[p] = deps[p]
    <2>1. Importee \in new
      BY DEF new
    <2>2. Append(deps[top], Importee) \in Seq(new)
      BY <1>3, <1>5, <2>1
    <2>3. Elements(Append(deps[top], Importee)) = Elements(deps[top]) \cup {Importee}
      BY <1>3, <1>5, <2>1, ElementsAppend
    <2> QED
      BY <1>3, <1>5, <1>6, <2>2, <2>3
  <1>8. ASSUME NEW p \in gtable, NEW k \in DOMAIN imports[p]
        PROVE  \/ imports[p][k] \in Elements(AddEdge[p])
               \/ \E i \in DOMAIN calls : calls[i].prog = p /\ k >= Advanced[i].next
    <2>1. CASE imports[p][k] \in Elements(deps[p])
      BY <1>2, <1>7, <2>1
    <2>2. CASE p = top /\ k = Top.next
      BY <1>4, <1>7, <2>2
    <2>3. ASSUME NEW i \in DOMAIN calls, calls[i].prog = p, k >= calls[i].next,
                 ~(p = top /\ k = Top.next)
          PROVE  k >= Advanced[i].next
      <3>1. CASE i # Len(calls)
        BY <1>1, <2>3, <3>1, AdvancedIs
      <3>2. CASE i = Len(calls)
        <4>1. k \in Nat /\ k # Top.next /\ k >= Top.next
          BY <1>1, <1>2, <2>3, <3>2, ImportsType DEF Top, top
        <4> QED
          BY <1>1, <1>3, <3>2, <4>1, AdvancedIs
      <3> QED
        BY <3>1, <3>2
    <2> QED
      BY <1>2, <2>1, <2>2, <2>3
  <1> QED
    BY <1>1, <1>2, <1>3, <1>7, <1>8 DEF top, new

LEMMA InvImportKnown ==
  ASSUME Inv, ImportKnown
  PROVE  Inv'
  <1>1. /\ phase = "generate" /\ calls # <<>> /\ TypeOK /\ Generating /\ HasImport
        /\ deps' = AddEdge
        /\ calls' = Advanced
        /\ UNCHANGED <<imports, bad, gtable, depState, sortedDeps, scope, imported, phase, outcome>>
    BY DEF ImportKnown, Generating, source, Inv
  <1>2. /\ gtable \subseteq Files /\ sortedDeps = <<>> /\ imported = {}
        /\ \A p \in Files : depState[p] = "not_visited"
    BY <1>1 DEF Inv, GenerateInv
  <1>3. Importee \in gtable /\ Importee \in Files /\ gtable \cup {Importee} = gtable \cap Files
    BY <1>2 DEF ImportKnown
  <1>4. /\ calls' \in Seq(Calls) /\ DOMAIN calls' = DOMAIN calls
        /\ \A i \in DOMAIN calls : calls'[i].prog = calls[i].prog
    BY <1>1, AdvancedIs, TopType
  <1>5. TypeOK'
    <2>1. deps' \in [Files -> Seq(gtable \cap Files)]
      BY <1>1, <1>3, EdgeAdded
    <2> QED
      BY <1>1, <1>4, <2>1 DEF TypeOK, Calls
  <1>6. RecursionBounded'
    BY <1>1, <1>4 DEF Inv, RecursionBounded
  <1>7. GenerateInv'
    BY <1>1, <1>2, <1>3, <1>4, EdgeAdded DEF GenerateInv
  <1>8. QueueSorted' /\ SortInv'
    BY <1>1, <1>2 DEF QueueSorted, SortInv
  <1> QED
    BY <1>5, <1>6, <1>7, <1>8 DEF Inv

LEMMA InvImportNew ==
  ASSUME Inv, ImportNew
  PROVE  Inv'
  <1>1. /\ phase = "generate" /\ calls # <<>> /\ TypeOK /\ Generating /\ HasImport
        /\ gtable' = gtable \cup {Importee}
        /\ deps' = [AddEdge EXCEPT ![Importee] = <<>>]
        /\ depState' = [depState EXCEPT ![Importee] = "not_visited"]
        /\ calls' = Append(Advanced, Frame(Importee))
        /\ UNCHANGED <<imports, bad, sortedDeps, scope, imported, phase, outcome>>
    BY DEF ImportNew, Enter, Generating, source, Inv
  <1>2. /\ gtable \subseteq Files /\ sortedDeps = <<>> /\ imported = {}
        /\ \A p \in Files : depState[p] = "not_visited"
    BY <1>1 DEF Inv, GenerateInv
  <1>3. Importee \in Files /\ Importee \notin gtable
    BY DEF ImportNew
  <1>4. /\ Frame(Importee) \in [prog : gtable' \cap Files, next : Nat \ {0}]
        /\ Frame(Importee).prog = Importee /\ Frame(Importee).next = 1
    BY <1>1, <1>3 DEF Frame
  <1>5. /\ Advanced \in Seq([prog : gtable' \cap Files, next : Nat \ {0}])
        /\ Len(Advanced) = Len(calls) /\ Len(calls) \in Nat
        /\ DOMAIN calls = 1..Len(calls)
        /\ \A i \in DOMAIN calls : Advanced[i].prog = calls[i].prog /\ calls[i].prog \in gtable
    <2>1. Advanced \in Seq(Calls) /\ calls \in Seq(Calls)
      BY <1>1, AdvancedIs, TopType
    <2>2. Calls \subseteq [prog : gtable' \cap Files, next : Nat \ {0}]
      BY <1>1 DEF Calls
    <2>3. Advanced \in Seq([prog : gtable' \cap Files, next : Nat \ {0}])
      BY <2>1, <2>2, LargerSeq
    <2>4. \A i \in DOMAIN calls : calls[i].prog \in gtable
      <3>1. \A c \in Calls : c.prog \in gtable
        BY DEF Calls
      <3> QED
        BY <2>1, <3>1
    <2> QED
      BY <1>1, <2>1, <2>3, <2>4, AdvancedIs
  <1>6. /\ calls' \in Seq([prog : gtable' \cap Files, next : Nat \ {0}])
        /\ DOMAIN calls' = DOMAIN calls \cup {Len(calls) + 1}
        /\ \A i \in DOMAIN calls : calls'[i] = Advanced[i]
        /\ calls'[Len(calls) + 1] = Frame(Importee)
        /\ \A i \in DOMAIN calls' : i \in DOMAIN calls \/ i = Len(calls) + 1
    BY <1>1, <1>4, <1>5
  <1>7. TypeOK'
    <2>1. deps' \in [Files -> Seq(gtable' \cap Files)]
      <3>1. AddEdge \in [Files -> Seq(gtable')] /\ gtable' \cap Files = gtable'
        BY <1>1, <1>2, <1>3, EdgeAdded
      <3> QED
        BY <1>1, <3>1
    <2>2. depState' \in [Files -> {"not_visited", "visiting", "visited"}]
      BY <1>1 DEF TypeOK
    <2>3. sortedDeps' \in Seq(gtable') /\ imported' \subseteq gtable' /\ gtable' \subseteq All
      BY <1>1, <1>2, <1>3 DEF All
    <2> QED
      BY <1>1, <1>6, <2>1, <2>2, <2>3 DEF TypeOK
  <1>8. RecursionBounded'
    <2>1. \A i \in DOMAIN calls : calls'[i].prog = calls[i].prog /\ calls'[i].prog # Importee
      BY <1>3, <1>5, <1>6
    <2>2. \A i, j \in DOMAIN calls' : calls'[i].prog = calls'[j].prog => i = j
      BY <1>4, <1>6, <2>1 DEF Inv, RecursionBounded
    <2> QED
      BY <1>1, <2>2 DEF RecursionBounded
  <1>9. GenerateInv'
    <2>1. ASSUME NEW p \in gtable, NEW k \in DOMAIN imports[p]
          PROVE  \/ imports[p][k] \in Elements(deps'[p])
                 \/ \E i \in DOMAIN calls' : calls'[i].prog = p /\ k >= calls'[i].next
      <3>1. deps'[p] = AddEdge[p]
        BY <1>1, <1>2, <1>3, EdgeAdded
      <3>2. \/ imports[p][k] \in Elements(AddEdge[p])
            \/ \E i \in DOMAIN calls : calls[i].prog = p /\ k >= Advanced[i].next
        BY <1>1, <1>3, EdgeAdded
      <3> QED
        BY <1>5, <1>6, <3>1, <3>2
    <2>2. ASSUME NEW k \in DOMAIN imports[Importee]
          PROVE  calls'[Len(calls) + 1].prog = Importee /\ k >= calls'[Len(calls) + 1].next
      BY <1>1, <1>3, <1>4, <1>6, ImportsType
    <2>3. \A p \in Files : depState'[p] = "not_visited"
      BY <1>1, <1>2 DEF TypeOK
    <2>4. ASSUME NEW p \in gtable', NEW k \in DOMAIN imports[p]
          PROVE  \/ imports[p][k] \in Elements(deps'[p])
                 \/ \E i \in DOMAIN calls' : calls'[i].prog = p /\ k >= calls'[i].next
      BY <1>1, <1>6, <2>1, <2>2
    <2> QED
      BY <1>1, <1>2, <1>3, <2>3, <2>4 DEF GenerateInv
  <1>10. QueueSorted' /\ SortInv'
    BY <1>1, <1>2 DEF QueueSorted, SortInv
  <1> QED
    BY <1>7, <1>8, <1>9, <1>10 DEF Inv

LEMMA InvGenerateReturns ==
  ASSUME Inv, GenerateReturns
  PROVE  Inv'
  <1>1. /\ phase = "generate" /\ calls # <<>> /\ TypeOK /\ ~HasImport
        /\ calls' = Pop
        /\ UNCHANGED <<imports, bad, gtable, deps, depState, sortedDeps, scope, imported, phase,
                       outcome>>
    BY DEF GenerateReturns, Generating, source, graph, Inv
  <1>2. /\ calls' \in Seq(Calls) /\ DOMAIN calls' = 1..(Len(calls) - 1)
        /\ \A i \in DOMAIN calls' : i \in DOMAIN calls /\ calls'[i] = calls[i]
    BY <1>1, PopIs
  <1>3. TypeOK'
    BY <1>1, <1>2 DEF TypeOK, Calls
  <1>4. RecursionBounded' /\ QueueSorted' /\ SortInv'
    BY <1>1, <1>2 DEF Inv, RecursionBounded, QueueSorted, GenerateInv, SortInv
  <1>5. GenerateInv'
    <2> SUFFICES ASSUME NEW p \in gtable, NEW k \in DOMAIN imports[p],
                        imports[p][k] \notin Elements(deps[p])
                 PROVE  \E i \in DOMAIN calls' : calls'[i].prog = p /\ k >= calls'[i].next
      BY <1>1 DEF Inv, GenerateInv
    <2>1. PICK i \in DOMAIN calls : calls[i].prog = p /\ k >= calls[i].next
      BY <1>1 DEF Inv, GenerateInv
    <2>2. p \in Files /\ k \in Nat /\ k <= Len(imports[p]) /\ Len(imports[p]) \in Nat
      BY <1>1, ImportsType DEF Inv, GenerateInv
    <2>3. i # Len(calls)
      BY <1>1, <2>1, <2>2, TopType DEF HasImport, Top
    <2>4. i \in DOMAIN calls'
      BY <1>1, <1>2, <2>3, TopType
    <2> QED
      BY <1>2, <2>1, <2>4
  <1> QED
    BY <1>3, <1>4, <1>5 DEF Inv

-----------------------------------------------------------------------------
(* sort_deps.                                                              *)
LEMMA BuiltinOrderType == BuiltinOrder \in Seq(Builtins) /\ Elements(BuiltinOrder) = Builtins
  BY DEF BuiltinOrder, Builtins, Elements

LEMMA InvStartSort ==
  ASSUME Inv, StartSort
  PROVE  Inv'
  <1>1. /\ phase = "generate" /\ phase' = "sort" /\ calls = <<>> /\ TypeOK
        /\ gtable' = gtable \cup Builtins
        /\ sortedDeps' = BuiltinOrder
        /\ UNCHANGED <<imports, bad, deps, depState, calls, scope, imported, outcome>>
    BY DEF StartSort, source, Inv
  <1>2. /\ gtable \subseteq Files /\ imported = {}
        /\ \A p \in Files : depState[p] = "not_visited"
        /\ \A p \in gtable : \A k \in DOMAIN imports[p] : imports[p][k] \in Elements(deps[p])
    BY <1>1 DEF Inv, GenerateInv
  <1>3. gtable' \cap Files = gtable /\ gtable \cap Files = gtable
    BY <1>1, <1>2, ImportsAssumption
  <1>4. TypeOK'
    <2>1. deps' \in [Files -> Seq(gtable' \cap Files)]
      BY <1>1, <1>3 DEF TypeOK
    <2>2. sortedDeps' \in Seq(gtable')
      <3>1. Builtins \subseteq gtable'
        BY <1>1
      <3> QED
        BY <1>1, <3>1, BuiltinOrderType, LargerSeq
    <2>3. calls' \in Seq([prog : gtable' \cap Files, next : Nat \ {0}])
      BY <1>1
    <2> QED
      BY <1>1, <1>2, <2>1, <2>2, <2>3 DEF TypeOK, All
  <1>5. RecursionBounded'
    BY <1>1, <1>2 DEF RecursionBounded
  <1>6. QueueSorted'
    <2> SUFFICES ASSUME NEW i \in DOMAIN BuiltinOrder
                 PROVE  Elements(ImportsOf(imports, BuiltinOrder[i]))
                          \subseteq {BuiltinOrder[j] : j \in 1..(i - 1)}
      BY <1>1 DEF QueueSorted
    <2>1. BuiltinOrder[i] \in Builtins
      BY BuiltinOrderType
    <2> QED
      BY <2>1, BuiltinsSorted DEF ImportsOf
  <1>7. SortInv'
    <2>1. \A p \in gtable : Elements(imports[p]) \subseteq Elements(deps[p])
      BY <1>2 DEF Elements
    <2> QED
      BY <1>1, <1>2, <1>3, <2>1, BuiltinOrderType DEF SortInv
  <1>8. GenerateInv'
    BY <1>1 DEF GenerateInv
  <1> QED
    BY <1>4, <1>5, <1>6, <1>7, <1>8 DEF Inv

(* A call of sort_deps_util, from the loop over the programs or for a      *)
(* dependency: the call it comes from waits for it.                        *)
LEMMA InvVisit ==
  ASSUME Inv, Sorting,
         NEW p \in gtable \cap Files, depState[p] = "not_visited",
         NEW stack \in Seq(Calls), Len(stack) = Len(calls),
         \A i \in DOMAIN stack : stack[i].prog = calls[i].prog,
         \A i \in DOMAIN stack : \A k \in DOMAIN deps[stack[i].prog] :
           k < stack[i].next =>
             \/ depState[deps[stack[i].prog][k]] = "visited"
             \/ i < Len(stack) /\ deps[stack[i].prog][k] = stack[i + 1].prog
             \/ i = Len(stack) /\ deps[stack[i].prog][k] = p,
         Visit(p, stack)
  PROVE  Inv'
  <1>1. /\ phase = "sort" /\ TypeOK /\ RecursionBounded
        /\ depState' = [depState EXCEPT ![p] = "visiting"]
        /\ calls' = Append(stack, Frame(p))
        /\ UNCHANGED <<imports, bad, gtable, deps, sortedDeps, scope, imported, phase, outcome>>
    BY DEF Visit, Sorting, source, Inv
  <1> DEFINE n == Len(stack)
  <1>2. Frame(p) \in Calls /\ Frame(p).prog = p /\ Frame(p).next = 1
    BY DEF Frame, Calls
  <1>3. /\ calls \in Seq(Calls) /\ n \in Nat
        /\ DOMAIN calls = 1..n /\ DOMAIN stack = 1..n
    BY <1>1 DEF TypeOK, Calls
  <1>4. /\ calls' \in Seq(Calls) /\ DOMAIN calls' = 1..(n + 1) /\ Len(calls') = n + 1
        /\ \A i \in 1..n : calls'[i] = stack[i]
        /\ calls'[n + 1] = Frame(p)
    BY <1>1, <1>2, <1>3
  <1>5. depState' \in [Files -> {"not_visited", "visiting", "visited"}]
    BY <1>1 DEF TypeOK
  <1> HIDE DEF n
  <1>6. TypeOK'
    BY <1>1, <1>4, <1>5 DEF TypeOK, Calls
  <1>7. \A i \in 1..n : calls[i].prog \in Files /\ calls[i].prog # p
    <2>1. \A c \in Calls : c.prog \in Files
      BY DEF Calls
    <2>2. \A i \in 1..n : calls[i].prog \in Files
      BY <1>3, <2>1
    <2>3. \A i \in 1..n : depState[calls[i].prog] = "visiting"
      BY <1>1, <1>3, <2>2 DEF RecursionBounded
    <2> QED
      BY <2>2, <2>3
  <1>8. RecursionBounded'
    <2>1. \A i \in DOMAIN calls' : i \in 1..n \/ i = n + 1
      BY <1>3, <1>4
    <2>2. \A i \in 1..n : calls'[i].prog = calls[i].prog
      BY <1>3, <1>4
    <2>3. \A i, j \in DOMAIN calls' : calls'[i].prog = calls'[j].prog => i = j
      BY <1>1, <1>2, <1>3, <1>4, <1>7, <2>1, <2>2 DEF RecursionBounded
    <2>4. \A q \in Files : depState'[q] = "visiting"
                             <=> \E i \in DOMAIN calls' : calls'[i].prog = q
      <3> SUFFICES ASSUME NEW q \in Files
                   PROVE  depState'[q] = "visiting" <=> \E i \in DOMAIN calls' : calls'[i].prog = q
        OBVIOUS
      <3>1. CASE q = p
        <4>1. depState'[q] = "visiting"
          BY <1>1, <3>1 DEF TypeOK
        <4>2. n + 1 \in DOMAIN calls' /\ calls'[n + 1].prog = q
          BY <1>2, <1>3, <1>4, <3>1
        <4> QED
          BY <4>1, <4>2
      <3>2. CASE q # p
        <4>1. depState'[q] = depState[q]
          BY <1>1, <3>2 DEF TypeOK
        <4>2. depState[q] = "visiting" <=> \E i \in 1..n : calls[i].prog = q
          BY <1>1, <1>3 DEF RecursionBounded
        <4>3. (\E i \in 1..n : calls[i].prog = q) <=> (\E i \in DOMAIN calls' : calls'[i].prog = q)
          <5>1. \A i \in 1..n : i \in DOMAIN calls'
            BY <1>3, <1>4
          <5>2. calls'[n + 1].prog # q
            BY <1>2, <1>4, <3>2
          <5> QED
            BY <2>1, <2>2, <5>1, <5>2
        <4> QED
          BY <4>1, <4>2, <4>3
      <3> QED
        BY <3>1, <3>2
    <2> QED
      BY <2>3, <2>4 DEF RecursionBounded
  <1>9. QueueSorted' /\ GenerateInv'
    BY <1>1 DEF Inv, QueueSorted, GenerateInv
  <1>10. SortInv'
    <2>1. \A q \in Files : depState[q] = "visited" <=> depState'[q] = "visited"
      BY <1>1 DEF TypeOK
    <2>2. ASSUME NEW i \in DOMAIN calls', NEW k \in DOMAIN deps[calls'[i].prog],
                 k < calls'[i].next
          PROVE  \/ depState'[deps[calls'[i].prog][k]] = "visited"
                 \/ i < Len(calls') /\ deps[calls'[i].prog][k] = calls'[i + 1].prog
      <3>1. CASE i = n + 1
        <4>1. k \in Nat \ {0}
          BY <1>1, <1>2, <1>4, <3>1, ImportsType
        <4> QED
          BY <1>2, <1>4, <2>2, <3>1, <4>1
      <3>2. CASE i \in 1..n
        <4>1. calls'[i] = stack[i] /\ stack[i].prog \in Files
          BY <1>3, <1>4, <1>7, <3>2
        <4>2. deps[stack[i].prog][k] \in Files
          BY <1>1, <2>2, <4>1, ImportsType
        <4>3. \/ depState[deps[stack[i].prog][k]] = "visited"
              \/ i < n /\ deps[stack[i].prog][k] = stack[i + 1].prog
              \/ i = n /\ deps[stack[i].prog][k] = p
          BY <1>3, <2>2, <3>2, <4>1 DEF n
        <4>4. CASE i < n
          BY <1>3, <1>4, <2>1, <3>2, <4>1, <4>2, <4>3, <4>4
        <4>5. CASE i = n
          BY <1>2, <1>3, <1>4, <2>1, <3>2, <4>1, <4>2, <4>3, <4>5
        <4> QED
          BY <1>3, <3>2, <4>4, <4>5
      <3> QED
        BY <1>3, <1>4, <3>1, <3>2
    <2>3. /\ imported = {} /\ Builtins \subseteq Elements(sortedDeps)
          /\ \A q \in gtable \cap Files : Elements(imports[q]) \subseteq Elements(deps[q])
          /\ \A q \in Files : depState[q] = "visited" => q \in Elements(sortedDeps)
      BY <1>1 DEF Inv, SortInv
    <2>4. \A q \in Files : depState'[q] = "visited" => q \in Elements(sortedDeps)
      BY <2>1, <2>3
    <2>5. UNCHANGED <<imports, gtable, deps, sortedDeps, imported>>
      BY <1>1
    <2> QED
      BY <2>2, <2>3, <2>4, <2>5 DEF SortInv
  <1> QED
    BY <1>6, <1>8, <1>9, <1>10 DEF Inv

LEMMA InvSortRoot ==
  ASSUME Inv, NEW p \in Files, SortRoot(p)
  PROVE  Inv'
  <1>1. /\ Sorting /\ calls = <<>> /\ p \in gtable \cap Files /\ depState[p] = "not_visited"
        /\ Visit(p, calls)
    BY DEF SortRoot, Found
  <1>2. calls \in Seq(Calls)
    BY DEF Inv, TypeOK, Calls
  <1>3. DOMAIN calls = {}
    BY <1>1
  <1> QED
    BY <1>1, <1>2, <1>3, InvVisit

(* What a call has got past is still visited or waited for when it goes on *)
(* behind a dependency that is either.                                     *)
LEMMA PassedKept ==
  ASSUME Inv, phase = "sort", calls # <<>>,
         NEW i \in DOMAIN calls, NEW k \in DOMAIN deps[calls[i].prog], k < Advanced[i].next
  PROVE  \/ depState[deps[calls[i].prog][k]] = "visited"
         \/ i < Len(calls) /\ deps[calls[i].prog][k] = calls[i + 1].prog
         \/ i = Len(calls) /\ deps[calls[i].prog][k] = SubDep
  <1>1. TypeOK
    BY DEF Inv
  <1>2. CASE k < calls[i].next
    BY <1>2 DEF Inv, SortInv
  <1>3. CASE ~(k < calls[i].next)
    <2>1. i = Len(calls)
      BY <1>1, <1>3, AdvancedIs
    <2>2. Top.next \in Nat /\ Top.prog \in Files /\ Advanced[i].next = Top.next + 1
      BY <1>1, <2>1, AdvancedIs, TopType
    <2>3. k \in Nat /\ ~(k < Top.next)
      BY <1>1, <1>3, <2>1, <2>2, ImportsType DEF Top
    <2>4. k = Top.next
      BY <2>2, <2>3
    <2> QED
      BY <2>1, <2>4 DEF SubDep, Top
  <1> QED
    BY <1>2, <1>3

LEMMA InvSortSubDep ==
  ASSUME Inv, SortSubDep
  PROVE  Inv'
  <1>1. /\ phase = "sort" /\ Sorting /\ calls # <<>> /\ TypeOK
        /\ Top.next <= Len(deps[Top.prog])
        /\ depState[SubDep] = "not_visited"
        /\ Visit(SubDep, Advanced)
    BY DEF SortSubDep, HasSubDep, Sorting, Inv
  <1>2. SubDep \in gtable \cap Files
    BY <1>1, TopType, ImportsType DEF SubDep
  <1>3. /\ Advanced \in Seq(Calls) /\ Len(Advanced) = Len(calls)
        /\ DOMAIN Advanced = DOMAIN calls /\ DOMAIN calls = 1..Len(calls) /\ Len(calls) \in Nat
        /\ \A i \in DOMAIN calls : Advanced[i].prog = calls[i].prog
    BY <1>1, AdvancedIs, TopType
  <1>4. ASSUME NEW i \in DOMAIN Advanced, NEW k \in DOMAIN deps[Advanced[i].prog],
               k < Advanced[i].next
        PROVE  \/ depState[deps[Advanced[i].prog][k]] = "visited"
               \/ i < Len(Advanced) /\ deps[Advanced[i].prog][k] = Advanced[i + 1].prog
               \/ i = Len(Advanced) /\ deps[Advanced[i].prog][k] = SubDep
    <2>1. \/ depState[deps[calls[i].prog][k]] = "visited"
          \/ i < Len(calls) /\ deps[calls[i].prog][k] = calls[i + 1].prog
          \/ i = Len(calls) /\ deps[calls[i].prog][k] = SubDep
      BY <1>1, <1>3, <1>4, PassedKept
    <2>2. i < Len(calls) => i + 1 \in DOMAIN calls
      BY <1>3
    <2> QED
      BY <1>3, <2>1, <2>2
  <1> QED
    BY <1>1, <1>2, <1>3, <1>4, InvVisit

LEMMA InvSkipSubDep ==
  ASSUME Inv, SkipSubDep
  PROVE  Inv'
  <1>1. /\ phase = "sort" /\ calls # <<>> /\ TypeOK
        /\ depState[SubDep] = "visited"
        /\ calls' = Advanced
        /\ UNCHANGED <<imports, bad, gtable, deps, depState, sortedDeps, scope, imported, phase,
                       outcome>>
    BY DEF SkipSubDep, HasSubDep, Sorting, source, graph, Inv
  <1>2. /\ calls' \in Seq(Calls) /\ Len(calls') = Len(calls)
        /\ DOMAIN calls' = DOMAIN calls /\ DOMAIN calls = 1..Len(calls) /\ Len(calls) \in Nat
        /\ \A i \in DOMAIN calls : calls'[i].prog = calls[i].prog
    BY <1>1, AdvancedIs, TopType
  <1>3. TypeOK'
    BY <1>1, <1>2 DEF TypeOK, Calls
  <1>4. RecursionBounded' /\ QueueSorted' /\ GenerateInv'
    BY <1>1, <1>2 DEF Inv, RecursionBounded, QueueSorted, GenerateInv
  <1>5. SortInv'
    <2>1. ASSUME NEW i \in DOMAIN calls', NEW k \in DOMAIN deps[calls'[i].prog],
                 k < calls'[i].next
          PROVE  \/ depState[deps[calls'[i].prog][k]] = "visited"
                 \/ i < Len(calls') /\ deps[calls'[i].prog][k] = calls'[i + 1].prog
      <3>1. \/ depState[deps[calls[i].prog][k]] = "visited"
            \/ i < Len(calls) /\ deps[calls[i].prog][k] = calls[i + 1].prog
        BY <1>1, <1>2, <2>1, PassedKept
      <3>2. i < Len(calls) => i + 1 \in DOMAIN calls
        BY <1>2
      <3> QED
        BY <1>2, <3>1, <3>2
    <2> QED
      BY <1>1, <2>1 DEF Inv, SortInv
  <1> QED
    BY <1>3, <1>4, <1>5 DEF Inv

(* A program is queued when its last dependency was: its dependencies are  *)
(* visited, so they are in the queue, and the rest are builtin programs.   *)
LEMMA InvSortReturns ==
  ASSUME Inv, SortReturns
  PROVE  Inv'
  <1> DEFINE top == Top.prog
             n == Len(calls)
             last == Len(sortedDeps) + 1
  <1>1. /\ phase = "sort" /\ calls # <<>> /\ TypeOK
        /\ Top.next > Len(deps[top])
        /\ sortedDeps' = Append(sortedDeps, top)
        /\ depState' = [depState EXCEPT ![top] = "visited"]
        /\ calls' = Pop
        /\ UNCHANGED <<imports, bad, gtable, deps, scope, imported, phase, outcome>>
    BY DEF SortReturns, Sorting, source, Inv
  <1>2. /\ top \in gtable /\ top \in Files /\ n \in Nat \ {0} /\ n \in DOMAIN calls
        /\ calls[n].prog = top /\ calls[n].next = Top.next /\ Top.next \in Nat
    BY <1>1, TopType DEF Top
  <1>3. sortedDeps \in Seq(gtable) /\ depState \in [Files -> {"not_visited", "visiting", "visited"}]
    BY <1>1 DEF TypeOK
  <1>4. /\ calls' \in Seq(Calls) /\ DOMAIN calls' = 1..(n - 1) /\ Len(calls') = n - 1
        /\ DOMAIN calls = 1..n
        /\ \A i \in 1..(n - 1) : calls'[i] = calls[i]
    BY <1>1, PopIs
  <1> HIDE DEF top, n
  <1>5. /\ sortedDeps' \in Seq(gtable)
        /\ Elements(sortedDeps') = Elements(sortedDeps) \cup {top}
        /\ last \in Nat \ {0} /\ DOMAIN sortedDeps = 1..(last - 1)
        /\ DOMAIN sortedDeps' = 1..last
        /\ \A i \in 1..(last - 1) : sortedDeps'[i] = sortedDeps[i]
        /\ sortedDeps'[last] = top
    BY <1>1, <1>2, <1>3, ElementsAppend
  <1> HIDE DEF last
  <1>6. TypeOK'
    <2>1. depState' \in [Files -> {"not_visited", "visiting", "visited"}]
      BY <1>1, <1>3
    <2> QED
      BY <1>1, <1>4, <1>5, <2>1 DEF TypeOK, Calls
  <1>7. RecursionBounded'
    <2>1. \A i, j \in DOMAIN calls' : calls'[i].prog = calls'[j].prog => i = j
      BY <1>2, <1>4 DEF Inv, RecursionBounded
    <2>2. \A i \in 1..(n - 1) : calls[i].prog # top
      BY <1>2, <1>4 DEF Inv, RecursionBounded
    <2>3. ASSUME NEW q \in Files
          PROVE  depState'[q] = "visiting" <=> \E i \in DOMAIN calls' : calls'[i].prog = q
      <3>1. CASE q = top
        <4>1. depState'[q] = "visited"
          BY <1>1, <1>3, <3>1
        <4> QED
          BY <1>4, <2>2, <3>1, <4>1
      <3>2. CASE q # top
        <4>1. depState'[q] = depState[q]
          BY <1>1, <1>3, <3>2
        <4>2. depState[q] = "visiting" <=> \E i \in DOMAIN calls : calls[i].prog = q
          BY <1>1 DEF Inv, RecursionBounded
        <4>3. \A i \in DOMAIN calls : i \in 1..(n - 1) \/ i = n
          BY <1>2, <1>4
        <4>4. \A i \in 1..(n - 1) : i \in DOMAIN calls
          BY <1>2, <1>4
        <4> QED
          BY <1>2, <1>4, <3>2, <4>1, <4>2, <4>3, <4>4
      <3> QED
        BY <3>1, <3>2
    <2> QED
      BY <2>1, <2>3 DEF RecursionBounded
  <1>8. Elements(ImportsOf(imports, top)) \subseteq Elements(sortedDeps)
    <2>1. \A k \in DOMAIN deps[top] : depState[deps[top][k]] = "visited"
      <3> SUFFICES ASSUME NEW k \in DOMAIN deps[top]
                   PROVE  depState[deps[top][k]] = "visited"
        OBVIOUS
      <3>1. k < Top.next
        BY <1>1, <1>2, ImportsType
      <3> QED
        BY <1>1, <1>2, <3>1 DEF Inv, SortInv, n
    <2>2. \A k \in DOMAIN deps[top] : deps[top][k] \in Files
      BY <1>1, <1>2, ImportsType
    <2>3. Elements(deps[top]) \subseteq Elements(sortedDeps)
      BY <1>1, <2>1, <2>2 DEF Inv, SortInv, Elements
    <2>4. Elements(imports[top]) \subseteq Elements(sortedDeps)
      BY <1>1, <1>2, <2>3 DEF Inv, SortInv
    <2>5. ImportsOf(imports, top) = imports[top] \o ImplicitImports
      BY <1>2, ImportsAssumption DEF ImportsOf
    <2>6. Elements(imports[top] \o ImplicitImports)
            \subseteq Elements(imports[top]) \cup Elements(ImplicitImports)
      <3>1. imports[top] \in Seq(STRING \cup Builtins)
        BY <1>1, <1>2, ImportsType, LargerSeq
      <3>2. ImplicitImports \in Seq(STRING \cup Builtins)
        BY ImplicitType, LargerSeq
      <3> QED
        BY <3>1, <3>2, ElementsConcat
    <2>7. Builtins \subseteq Elements(sortedDeps)
      BY <1>1 DEF Inv, SortInv
    <2> QED
      BY <2>4, <2>5, <2>6, <2>7, ImplicitAreBuiltins
  <1>9. QueueSorted'
    <2> SUFFICES ASSUME NEW i \in DOMAIN sortedDeps'
                 PROVE  Elements(ImportsOf(imports, sortedDeps'[i]))
                          \subseteq imported \cup {sortedDeps'[j] : j \in 1..(i - 1)}
      BY <1>1 DEF QueueSorted
    <2>1. CASE i = last
      <3>1. Elements(sortedDeps) = {sortedDeps'[j] : j \in 1..(last - 1)}
        BY <1>5 DEF Elements
      <3> QED
        BY <1>5, <1>8, <2>1, <3>1
    <2>2. CASE i \in 1..(last - 1)
      <3>1. Elements(ImportsOf(imports, sortedDeps[i]))
              \subseteq imported \cup {sortedDeps[j] : j \in 1..(i - 1)}
        BY <1>5, <2>2 DEF Inv, QueueSorted
      <3>2. \A j \in 1..(i - 1) : sortedDeps'[j] = sortedDeps[j]
        BY <1>5, <2>2
      <3> QED
        BY <1>5, <2>2, <3>1, <3>2
    <2> QED
      BY <1>5, <2>1, <2>2
  <1>10. SortInv'
    <2>1. \A q \in Files : depState'[q] = "visited" => q \in Elements(sortedDeps')
      BY <1>1, <1>2, <1>3, <1>5 DEF Inv, SortInv
    <2>2. ASSUME NEW i \in DOMAIN calls', NEW k \in DOMAIN deps[calls'[i].prog],
                 k < calls'[i].next
          PROVE  \/ depState'[deps[calls'[i].prog][k]] = "visited"
                 \/ i < Len(calls') /\ deps[calls'[i].prog][k] = calls'[i + 1].prog
      <3>1. i \in 1..(n - 1) /\ i \in DOMAIN calls /\ calls'[i] = calls[i] /\ i < n /\ i \in Nat
        BY <1>2, <1>4
      <3>2. calls[i].prog \in Files
        <4>1. calls'[i] \in Calls
          BY <1>4
        <4> QED
          BY <3>1, <4>1 DEF Calls
      <3>3. deps[calls[i].prog][k] \in Files
        BY <1>1, <2>2, <3>1, <3>2, ImportsType
      <3>4. \/ depState[deps[calls[i].prog][k]] = "visited"
            \/ deps[calls[i].prog][k] = calls[i + 1].prog
        BY <1>1, <2>2, <3>1 DEF Inv, SortInv
      <3>5. CASE depState[deps[calls[i].prog][k]] = "visited"
        BY <1>1, <1>3, <3>1, <3>3, <3>5
      <3>6. CASE i + 1 = n /\ deps[calls[i].prog][k] = calls[i + 1].prog
        BY <1>1, <1>2, <1>3, <3>1, <3>3, <3>6
      <3>7. CASE i + 1 # n /\ deps[calls[i].prog][k] = calls[i + 1].prog
        <4>1. i + 1 \in 1..(n - 1) /\ i < n - 1
          BY <1>2, <3>1, <3>7
        <4> QED
          BY <1>4, <3>1, <3>7, <4>1
      <3> QED
        BY <3>4, <3>5, <3>6, <3>7
    <2>3. UNCHANGED <<imports, gtable, deps, imported>>
      BY <1>1
    <2>4. /\ imported = {} /\ Builtins \subseteq Elements(sortedDeps')
          /\ \A q \in gtable \cap Files : Elements(imports[q]) \subseteq Elements(deps[q])
      BY <1>1, <1>5 DEF Inv, SortInv
    <2> QED
      BY <2>1, <2>2, <2>3, <2>4 DEF SortInv
  <1>11. GenerateInv'
    BY <1>1 DEF GenerateInv
  <1> QED
    BY <1>6, <1>7, <1>9, <1>10, <1>11 DEF Inv

LEMMA InvStartImports ==
  ASSUME Inv, StartImports
  PROVE  Inv'
  <1>1. /\ phase' = "import" /\ calls = <<>>
        /\ UNCHANGED <<imports, bad, gtable, deps, depState, sortedDeps, calls, scope, imported,
                       outcome>>
    BY DEF StartImports, source, graph
  <1> QED
    BY <1>1 DEF Inv, TypeOK, RecursionBounded, QueueSorted, GenerateInv, SortInv

-----------------------------------------------------------------------------
(* run_imports.                                                            *)
Names == Builtins \cup UNION {Public[p] \cup Private[p] : p \in Files}

LEMMA OfferedNames == \A q : PublicOf(q) \subseteq Names
  BY DEF PublicOf, Names

(* All that run_imports_util adds to a scope: what the imports offer, and, *)
(* for a file, its own declarations.                                       *)
Offered(p) == UNION {PublicOf(q) : q \in Elements(ImportsOf(imports, p))}

LEMMA SourcesUnion ==
  ASSUME TypeOK, NEW p \in All
  PROVE  UNION Elements(Sources(imports, p))
           = Offered(p) \cup (IF p \in Builtins THEN {} ELSE Public[p] \cup Private[p])
  <1> DEFINE of == ImportsOf(imports, p)
             offers == [i \in DOMAIN of |-> PublicOf(of[i])]
             own == Public[p] \cup Private[p]
             Offer == SUBSET (Names \cup own)
  <1>1. UNION Elements(offers) = Offered(p)
    BY DEF Elements, Offered
  <1>2. CASE p \in Builtins
    BY <1>1, <1>2 DEF Sources
  <1>3. CASE p \notin Builtins
    <2>1. p \in Files
      BY <1>3 DEF All
    <2>2. of \in Seq(STRING \cup Builtins)
      <3>1. imports[p] \in Seq(STRING \cup Builtins)
        BY <2>1, ImportsType, LargerSeq
      <3>2. ImplicitImports \in Seq(STRING \cup Builtins)
        BY ImplicitType, LargerSeq
      <3> QED
        BY <1>3, <3>1, <3>2 DEF ImportsOf
    <2>3. offers \in Seq(Offer)
      <3>1. \A i \in DOMAIN of : PublicOf(of[i]) \in Offer
        BY OfferedNames
      <3>2. DOMAIN of = 1..Len(of) /\ Len(of) \in Nat
        BY <2>2
      <3> QED
        BY <3>1, <3>2
    <2>4. own \in Offer
      OBVIOUS
    <2>5. Sources(imports, p) = Append(offers, own)
      BY <1>3 DEF Sources
    <2> HIDE DEF offers, own, Offer
    <2>6. Elements(Append(offers, own)) = Elements(offers) \cup {own}
      BY <2>3, <2>4, ElementsAppend
    <2>7. UNION Elements(Sources(imports, p)) = Offered(p) \cup own
      BY <1>1, <2>5, <2>6
    <2> QED
      BY <1>3, <2>7 DEF own
  <1> QED
    BY <1>2, <1>3

LEMMA SourcesNames ==
  ASSUME TypeOK, NEW p \in All
  PROVE  UNION Elements(Sources(imports, p)) \subseteq Names
  <1>1. Offered(p) \subseteq Names
    BY OfferedNames DEF Offered
  <1>2. p \notin Builtins => Public[p] \cup Private[p] \subseteq Names
    BY DEF All, Names
  <1> QED
    BY <1>1, <1>2, SourcesUnion

LEMMA InvRunImports ==
  ASSUME Inv, RunImports
  PROVE  Inv'
  <1> DEFINE p == Head(sortedDeps)
  <1>1. /\ phase = "import" /\ sortedDeps # <<>> /\ TypeOK
        /\ scope' = [scope EXCEPT ![p] = @ \cup UNION Elements(Sources(imports, p))]
        /\ imported' = imported \cup {p}
        /\ sortedDeps' = Tail(sortedDeps)
        /\ UNCHANGED <<imports, bad, gtable, deps, depState, calls, phase, outcome>>
    BY DEF RunImports, Importing, source, graph, Inv
  <1>2. sortedDeps \in Seq(gtable) /\ gtable \subseteq All
    BY <1>1 DEF TypeOK
  <1>3. /\ p = sortedDeps[1] /\ p \in gtable
        /\ sortedDeps' \in Seq(gtable)
        /\ Len(sortedDeps) \in Nat \ {0} /\ DOMAIN sortedDeps = 1..Len(sortedDeps)
        /\ DOMAIN sortedDeps' = 1..(Len(sortedDeps) - 1)
        /\ \A i \in 1..(Len(sortedDeps) - 1) : sortedDeps'[i] = sortedDeps[i + 1]
    BY <1>1, <1>2
  <1> HIDE DEF p
  <1>4. TypeOK'
    <2>1. scope \in [All -> SUBSET Names]
      BY <1>1 DEF TypeOK, Names
    <2>2. scope' \in [All -> SUBSET Names]
      <3>1. UNION Elements(Sources(imports, p)) \subseteq Names /\ p \in All
        BY <1>1, <1>2, <1>3, SourcesNames
      <3> QED
        BY <1>1, <2>1, <3>1
    <2> QED
      BY <1>1, <1>3, <2>2 DEF TypeOK, Names
  <1>5. QueueSorted'
    <2> SUFFICES ASSUME NEW i \in 1..(Len(sortedDeps) - 1)
                 PROVE  Elements(ImportsOf(imports, sortedDeps[i + 1]))
                          \subseteq imported' \cup {sortedDeps'[j] : j \in 1..(i - 1)}
      BY <1>1, <1>3 DEF QueueSorted
    <2>1. Elements(ImportsOf(imports, sortedDeps[i + 1]))
            \subseteq imported \cup {sortedDeps[j] : j \in 1..i}
      <3>1. i + 1 \in DOMAIN sortedDeps /\ (i + 1) - 1 = i
        BY <1>3
      <3> QED
        BY <3>1 DEF Inv, QueueSorted
    <2>2. ASSUME NEW j \in 1..i
          PROVE  sortedDeps[j] = p \/ sortedDeps[j] \in {sortedDeps'[k] : k \in 1..(i - 1)}
      <3>1. CASE j = 1
        BY <1>3, <3>1
      <3>2. CASE j # 1
        <4>1. j - 1 \in 1..(i - 1) /\ j - 1 \in 1..(Len(sortedDeps) - 1) /\ (j - 1) + 1 = j
          BY <1>3, <3>2
        <4>2. sortedDeps'[j - 1] = sortedDeps[j]
          BY <1>3, <4>1
        <4> QED
          BY <4>1, <4>2
      <3> QED
        BY <3>1, <3>2
    <2> QED
      BY <1>1, <2>1, <2>2
  <1>6. RecursionBounded' /\ GenerateInv' /\ SortInv'
    BY <1>1 DEF Inv, RecursionBounded, GenerateInv, SortInv
  <1> QED
    BY <1>4, <1>5, <1>6 DEF Inv

-----------------------------------------------------------------------------
LEMMA InvNext == Inv /\ [Next]_vars => Inv'
  <1> SUFFICES ASSUME Inv, [Next]_vars
               PROVE  Inv'
    OBVIOUS
  <1>1. CASE UNCHANGED vars
    BY <1>1 DEF Inv, TypeOK, RecursionBounded, QueueSorted, GenerateInv, SortInv, vars, source, graph
  <1>2. CASE Next
    BY <1>2, InvThrow, InvImportKnown, InvImportNew, InvGenerateReturns, InvStartSort,
       InvSortRoot, InvSortSubDep, InvSkipSubDep, InvSortReturns, InvStartImports, InvRunImports
       DEF Next
  <1> QED
    BY <1>1, <1>2

LEMMA InvAlways == Spec => []Inv
  BY InvInit, InvNext, PTL DEF Spec

(* The tables that importer.hpp declares: edges and the queue never name a *)
(* program that is not in the global table, so that get_program finds it,  *)
(* and a scope holds declared names only, for every import graph.          *)
THEOREM TypeCorrect == Spec => []TypeOK
  <1>1. Inv => TypeOK
    BY DEF Inv
  <1> QED
    BY <1>1, InvAlways, PTL

(* Neither search is inside one program twice (:341, :357), so neither     *)
(* calls itself deeper than there are files, whatever they import.         *)
THEOREM RecursionCorrect == Spec => []RecursionBounded
  <1>1. Inv => RecursionBounded
    BY DEF Inv
  <1> QED
    BY <1>1, InvAlways, PTL

(* importer.hpp:232: what a queued program imports is queued before it or  *)
(* completed, for every import graph and every order of the hash tables.   *)
THEOREM QueueCorrect == Spec => []QueueSorted
  <1>1. Inv => QueueSorted
    BY DEF Inv
  <1> QED
    BY <1>1, InvAlways, PTL
=============================================================================
