------------------------- MODULE ImporterRefinement -------------------------
(***************************************************************************)
(* The importer implements BuildOrder, for any files and imports.          *)
(***************************************************************************)
EXTENDS ImporterProofs

(* BuildOrder speaks of the same data.                                     *)
LEMMA SameImports == \A p : Build!ImportsOf(imports, p) = ImportsOf(imports, p)
  BY DEF Build!ImportsOf, ImportsOf, Build!Builtins, Builtins, Build!BuiltinOrder, BuiltinOrder,
         Build!Elements, Elements, Build!BuiltinImports, BuiltinImports,
         Build!ImplicitImports, ImplicitImports

LEMMA SameOffers == \A p : Build!PublicOf(p) = PublicOf(p)
  BY DEF Build!PublicOf, PublicOf, Build!Builtins, Builtins, Build!BuiltinOrder, BuiltinOrder,
         Build!Elements, Elements

LEMMA SameClash == \A p : Build!Clash(imports, p) <=> Clash(imports, p)
  BY DEF Build!Clash, Clash, Build!Sources, Sources, Build!ImportsOf, ImportsOf,
         Build!PublicOf, PublicOf, Build!Builtins, Builtins, Build!BuiltinOrder, BuiltinOrder,
         Build!Elements, Elements, Build!BuiltinImports, BuiltinImports,
         Build!ImplicitImports, ImplicitImports

LEMMA SameScope == Build!BuiltScope = BuiltScope /\ Build!All = All /\ Build!Builtins = Builtins
  BY DEF Build!BuiltScope, BuiltScope, Build!All, All, Build!Builtins, Builtins,
         Build!BuiltinOrder, BuiltinOrder, Build!Elements, Elements

LEMMA SameBehind ==
  /\ \A p : Build!BehindOf(imports, p) = BehindOf(imports, p)
  /\ Build!Reachable(imports, Main) = Reachable(imports, Main)
  BY DEF Build!BehindOf, BehindOf, Build!Named, Named, Build!Closed, Closed,
         Build!Elements, Elements, Build!Reachable, Reachable

-----------------------------------------------------------------------------
(* What is behind a program.                                               *)
LEMMA BehindDirect ==
  ASSUME NEW p \in Files
  PROVE  Elements(imports[p]) \subseteq BehindOf(imports, p)
  BY DEF BehindOf, Named

LEMMA BehindFurther ==
  ASSUME NEW p, NEW q \in Files, q \in BehindOf(imports, p)
  PROVE  Elements(imports[q]) \subseteq BehindOf(imports, p)
  BY DEF BehindOf, Named, Closed

LEMMA BehindLeast ==
  ASSUME NEW p, NEW S, S \subseteq Named(imports),
         Elements(imports[p]) \subseteq S, Closed(imports, S)
  PROVE  BehindOf(imports, p) \subseteq S
  BY DEF BehindOf

Reached == Reachable(imports, Main)

LEMMA ReachedFurther ==
  ASSUME NEW q \in Files, q \in Reached
  PROVE  Elements(imports[q]) \subseteq Reached
  BY BehindDirect, BehindFurther DEF Reached, Reachable

(* Builtin programs do not clash: none imports a program twice.            *)
LEMMA BuiltinImportsBuiltin ==
  \A b \in Builtins : Elements(BuiltinImports(b)) \subseteq Builtins
  <1> SUFFICES ASSUME NEW b \in Builtins
               PROVE  Elements(BuiltinImports(b)) \subseteq Builtins
    OBVIOUS
  <1>1. PICK i \in DOMAIN BuiltinOrder : b = BuiltinOrder[i]
    BY DEF Builtins, Elements
  <1>2. Elements(BuiltinImports(b)) \subseteq {BuiltinOrder[j] : j \in 1..(i - 1)}
    BY <1>1, BuiltinsSorted
  <1>3. DOMAIN BuiltinOrder = 1..Len(BuiltinOrder) /\ Len(BuiltinOrder) \in Nat
    BY BuiltinOrderType
  <1>4. \A j \in 1..(i - 1) : BuiltinOrder[j] \in Builtins
    BY <1>1, <1>3, BuiltinOrderType
  <1> QED
    BY <1>2, <1>4

LEMMA BuiltinImportsOnce ==
  ASSUME NEW b, NEW i \in DOMAIN BuiltinImports(b), NEW j \in DOMAIN BuiltinImports(b), i < j
  PROVE  BuiltinImports(b)[i] # BuiltinImports(b)[j]
  BY DEF BuiltinImports

LEMMA BuiltinsFit == \A b \in Builtins : ~Clash(imports, b)
  <1> SUFFICES ASSUME NEW b \in Builtins
               PROVE  ~Clash(imports, b)
    OBVIOUS
  <1> DEFINE of == BuiltinImports(b)
  <1>1. Sources(imports, b) = [i \in DOMAIN of |-> PublicOf(of[i])]
    BY DEF Sources, ImportsOf
  <1>2. \A i \in DOMAIN of : of[i] \in Builtins /\ PublicOf(of[i]) = {of[i]}
    BY BuiltinImportsBuiltin DEF Elements, PublicOf
  <1>3. \A i, j \in DOMAIN of : i < j => of[i] # of[j]
    BY BuiltinImportsOnce
  <1> HIDE DEF of
  <1> QED
    BY <1>1, <1>2, <1>3 DEF Clash

-----------------------------------------------------------------------------
(* The table holds what is reached and nothing else; a call of the sort is *)
(* behind every call it is within; the queue holds a program once and none *)
(* that is completed; a scope is as it was built until it is filled.       *)
ReachInv ==
  /\ Main \in gtable
  /\ gtable \subseteq Reached \cup Builtins
  /\ phase # "generate" => Reached \cup Builtins \subseteq gtable
  /\ \A p \in Files : Elements(deps[p]) \subseteq Elements(imports[p])

PathInv ==
  phase = "sort" =>
    \A i, j \in DOMAIN calls : i < j => calls[j].prog \in BehindOf(imports, calls[i].prog)

QueueInv ==
  /\ \A i, j \in DOMAIN sortedDeps : sortedDeps[i] = sortedDeps[j] => i = j
  /\ \A i \in DOMAIN sortedDeps : sortedDeps[i] \notin imported
  /\ phase = "sort" =>
       \A p \in Files : p \in Elements(sortedDeps) => depState[p] = "visited"
  /\ phase = "import" => gtable = imported \cup Elements(sortedDeps)

ScopeInv == \A p \in All \ imported : scope[p] = BuiltScope[p]

BuildInv == Inv /\ ReachInv /\ PathInv /\ QueueInv /\ ScopeInv

LEMMA BuildInvInit == Init => BuildInv
  <1> SUFFICES ASSUME Init
               PROVE  BuildInv
    OBVIOUS
  <1>1. Inv
    BY InvInit
  <1>2. ReachInv
    BY DEF Init, ReachInv, Reached, Reachable, Elements
  <1>3. PathInv /\ QueueInv /\ ScopeInv
    BY DEF Init, PathInv, QueueInv, ScopeInv, Elements
  <1> QED
    BY <1>1, <1>2, <1>3 DEF BuildInv

(* One step for each action; most of them leave three of the parts alone.  *)
LEMMA BuildInvThrow ==
  ASSUME BuildInv, FileMissing \/ FoundCycle \/ NameClash \/ HeaderRefused \/ ImportsDone
  PROVE  BuildInv'
  <1>1. UNCHANGED <<source, graph, sortedDeps, calls, scope, imported, phase>>
    BY DEF FileMissing, FoundCycle, NameClash, HeaderRefused, ImportsDone, Throw
  <1>2. Inv'
    BY InvThrow DEF BuildInv
  <1> QED
    BY <1>1, <1>2 DEF BuildInv, ReachInv, PathInv, QueueInv, ScopeInv, Reached, source, graph

LEMMA EdgesAreImports ==
  ASSUME BuildInv, Generating, HasImport, Importee \in Files
  PROVE  /\ Importee \in Reached
         /\ \A p \in Files : Elements(AddEdge[p]) \subseteq Elements(imports[p])
  <1> DEFINE top == Top.prog
  <1>1. TypeOK /\ calls # <<>> /\ ReachInv /\ phase = "generate"
    BY DEF BuildInv, Inv, Generating
  <1>2. top \in gtable /\ top \in Files /\ Top.next \in Nat \ {0}
    BY <1>1, TopType
  <1>3. Importee \in Elements(imports[top])
    <2>1. Top.next \in DOMAIN imports[top]
      BY <1>1, <1>2, ImportsType DEF HasImport
    <2> QED
      BY <2>1 DEF Importee, Elements
  <1>4. Importee \in Reached
    <2>1. top \in Reached
      BY <1>1, <1>2, ImportsAssumption DEF ReachInv
    <2> QED
      BY <1>2, <1>3, <2>1, ReachedFurther
  <1>5. /\ AddEdge = [deps EXCEPT ![top] = Append(deps[top], Importee)]
        /\ deps \in [Files -> Seq(gtable \cap Files)]
    BY <1>1 DEF AddEdge, TypeOK
  <1> HIDE DEF top
  <1>6. Elements(Append(deps[top], Importee)) = Elements(deps[top]) \cup {Importee}
    <2>1. deps[top] \in Seq(gtable \cup {Importee})
      <3>1. deps[top] \in Seq(gtable \cap Files)
        BY <1>2, <1>5
      <3> QED
        BY <3>1, LargerSeq
    <2> QED
      BY <2>1, ElementsAppend
  <1>7. \A p \in Files : Elements(AddEdge[p]) \subseteq Elements(imports[p])
    <2>1. \A p \in Files : p # top => AddEdge[p] = deps[p]
      BY <1>5
    <2>2. AddEdge[top] = Append(deps[top], Importee)
      BY <1>2, <1>5
    <2>3. \A p \in Files : Elements(deps[p]) \subseteq Elements(imports[p])
      BY <1>1 DEF ReachInv
    <2>4. Elements(AddEdge[top]) \subseteq Elements(imports[top])
      BY <1>2, <1>3, <1>6, <2>2, <2>3
    <2> QED
      BY <2>1, <2>3, <2>4
  <1> QED
    BY <1>4, <1>7

LEMMA BuildInvImportKnown ==
  ASSUME BuildInv, ImportKnown
  PROVE  BuildInv'
  <1>1. /\ phase = "generate" /\ Generating /\ HasImport /\ gtable \subseteq Files
        /\ deps' = AddEdge
        /\ UNCHANGED <<imports, gtable, sortedDeps, scope, imported, phase>>
    BY DEF ImportKnown, Generating, source, BuildInv, Inv, GenerateInv
  <1>2. Inv'
    BY InvImportKnown DEF BuildInv
  <1>3. Importee \in Files
    BY <1>1 DEF ImportKnown
  <1> QED
    BY <1>1, <1>2, <1>3, EdgesAreImports
       DEF BuildInv, ReachInv, PathInv, QueueInv, ScopeInv, Reached

LEMMA BuildInvImportNew ==
  ASSUME BuildInv, ImportNew
  PROVE  BuildInv'
  <1>1. /\ phase = "generate" /\ Generating /\ HasImport /\ Importee \in Files
        /\ gtable' = gtable \cup {Importee}
        /\ deps' = [AddEdge EXCEPT ![Importee] = <<>>]
        /\ UNCHANGED <<imports, sortedDeps, scope, imported, phase>>
    BY DEF ImportNew, Enter, Generating, source
  <1>2. Inv'
    BY InvImportNew DEF BuildInv
  <1>3. /\ Importee \in Reached
        /\ \A p \in Files : Elements(AddEdge[p]) \subseteq Elements(imports[p])
    BY <1>1, EdgesAreImports
  <1>4. \A p \in Files : Elements(deps'[p]) \subseteq Elements(imports[p])
    <2>1. AddEdge \in [Files -> Seq(gtable \cup {Importee})]
      BY <1>1, EdgeAdded DEF BuildInv
    <2>2. Elements(<<>>) = {}
      BY DEF Elements
    <2> QED
      BY <1>1, <1>3, <2>1, <2>2
  <1> QED
    BY <1>1, <1>2, <1>3, <1>4 DEF BuildInv, ReachInv, PathInv, QueueInv, ScopeInv, Reached

LEMMA BuildInvGenerateReturns ==
  ASSUME BuildInv, GenerateReturns
  PROVE  BuildInv'
  <1>1. /\ phase = "generate"
        /\ UNCHANGED <<imports, gtable, deps, sortedDeps, scope, imported, phase>>
    BY DEF GenerateReturns, Generating, source, graph
  <1>2. Inv'
    BY InvGenerateReturns DEF BuildInv
  <1> QED
    BY <1>1, <1>2 DEF BuildInv, ReachInv, PathInv, QueueInv, ScopeInv, Reached

LEMMA BuildInvStartSort ==
  ASSUME BuildInv, StartSort
  PROVE  BuildInv'
  <1>1. /\ phase = "generate" /\ phase' = "sort" /\ calls = <<>> /\ TypeOK
        /\ gtable' = gtable \cup Builtins
        /\ sortedDeps' = BuiltinOrder
        /\ UNCHANGED <<imports, deps, depState, calls, scope, imported>>
    BY DEF StartSort, source, BuildInv, Inv
  <1>2. Inv'
    BY InvStartSort DEF BuildInv
  <1>3. ReachInv'
    <2>1. Reached \subseteq gtable
      <3>1. gtable \subseteq Files /\ gtable \subseteq Named(imports) /\ Main \in gtable
        BY <1>1 DEF BuildInv, Inv, GenerateInv, ReachInv, Named
      <3>2. \A p \in gtable : Elements(imports[p]) \subseteq Elements(deps[p])
        BY <1>1 DEF BuildInv, Inv, GenerateInv, Elements
      <3>3. \A p \in gtable : Elements(deps[p]) \subseteq gtable
        BY <1>1, <3>1, ImportsType DEF Elements
      <3>4. BehindOf(imports, Main) \subseteq gtable
        BY <3>1, <3>2, <3>3, BehindLeast DEF Closed
      <3> QED
        BY <3>1, <3>4 DEF Reached, Reachable
    <2> QED
      BY <1>1, <2>1 DEF BuildInv, ReachInv, Reached
  <1>4. QueueInv'
    <2>1. \A i, j \in DOMAIN BuiltinOrder : BuiltinOrder[i] = BuiltinOrder[j] => i = j
      BY DEF BuiltinOrder
    <2>2. imported' = {}
      BY <1>1 DEF BuildInv, Inv, GenerateInv
    <2>3. \A p \in Files : p \notin Elements(BuiltinOrder)
      BY BuiltinOrderType, ImportsAssumption
    <2> QED
      BY <1>1, <2>1, <2>2, <2>3 DEF QueueInv
  <1>5. PathInv' /\ ScopeInv'
    BY <1>1 DEF BuildInv, PathInv, ScopeInv
  <1> QED
    BY <1>2, <1>3, <1>4, <1>5 DEF BuildInv

LEMMA BuildInvSortRoot ==
  ASSUME BuildInv, NEW p \in Files, SortRoot(p)
  PROVE  BuildInv'
  <1>1. /\ phase = "sort" /\ calls = <<>> /\ TypeOK
        /\ depState[p] = "not_visited"
        /\ depState' = [depState EXCEPT ![p] = "visiting"]
        /\ calls' = Append(calls, Frame(p))
        /\ UNCHANGED <<imports, gtable, deps, sortedDeps, scope, imported, phase>>
    BY DEF SortRoot, Sorting, Visit, source, BuildInv, Inv
  <1>2. Inv'
    BY InvSortRoot DEF BuildInv
  <1>3. DOMAIN calls' = {1}
    BY <1>1
  <1>4. PathInv'
    BY <1>3 DEF PathInv
  <1>5. QueueInv'
    BY <1>1 DEF BuildInv, QueueInv, TypeOK
  <1>6. ReachInv' /\ ScopeInv'
    BY <1>1 DEF BuildInv, ReachInv, ScopeInv, Reached
  <1> QED
    BY <1>2, <1>4, <1>5, <1>6 DEF BuildInv

(* The program that sort_deps_util comes to is behind all it is within.    *)
LEMMA SubDepBehind ==
  ASSUME BuildInv, HasSubDep
  PROVE  /\ SubDep \in gtable \cap Files
         /\ \A i \in DOMAIN calls : SubDep \in BehindOf(imports, calls[i].prog)
  <1> DEFINE top == Top.prog
             n == Len(calls)
  <1>1. phase = "sort" /\ calls # <<>> /\ TypeOK /\ Top.next <= Len(deps[top])
    BY DEF HasSubDep, Sorting, BuildInv, Inv
  <1>2. /\ top \in Files /\ Top.next \in Nat \ {0} /\ n \in Nat \ {0}
        /\ DOMAIN calls = 1..n /\ calls[n].prog = top
    BY <1>1, TopType DEF Top
  <1>3. SubDep \in gtable \cap Files /\ SubDep \in Elements(imports[top])
    <2>1. Top.next \in DOMAIN deps[top]
      BY <1>1, <1>2, ImportsType
    <2>2. SubDep \in Elements(deps[top])
      BY <2>1 DEF SubDep, Elements
    <2>3. SubDep \in gtable \cap Files
      BY <1>1, <1>2, <2>1, ImportsType DEF SubDep
    <2> QED
      BY <1>2, <2>2, <2>3 DEF BuildInv, ReachInv
  <1> HIDE DEF top, n
  <1>4. ASSUME NEW i \in DOMAIN calls
        PROVE  SubDep \in BehindOf(imports, calls[i].prog)
    <2>1. CASE i = n
      BY <1>2, <1>3, <2>1, BehindDirect
    <2>2. CASE i # n
      <3>1. i < n /\ n \in DOMAIN calls
        BY <1>2, <2>2
      <3>2. top \in BehindOf(imports, calls[i].prog)
        BY <1>1, <1>2, <3>1 DEF BuildInv, PathInv
      <3> QED
        BY <1>2, <1>3, <3>2, BehindFurther
    <2> QED
      BY <2>1, <2>2
  <1> QED
    BY <1>3, <1>4

LEMMA BuildInvSortSubDep ==
  ASSUME BuildInv, SortSubDep
  PROVE  BuildInv'
  <1>1. /\ phase = "sort" /\ calls # <<>> /\ TypeOK /\ HasSubDep
        /\ depState[SubDep] = "not_visited"
        /\ depState' = [depState EXCEPT ![SubDep] = "visiting"]
        /\ calls' = Append(Advanced, Frame(SubDep))
        /\ UNCHANGED <<imports, gtable, deps, sortedDeps, scope, imported, phase>>
    BY DEF SortSubDep, HasSubDep, Sorting, Visit, source, BuildInv, Inv
  <1>2. Inv'
    BY InvSortSubDep DEF BuildInv
  <1>3. /\ SubDep \in Files
        /\ \A i \in DOMAIN calls : SubDep \in BehindOf(imports, calls[i].prog)
    BY <1>1, SubDepBehind
  <1>4. /\ Len(calls) \in Nat /\ DOMAIN calls = 1..Len(calls)
        /\ DOMAIN calls' = 1..(Len(calls) + 1)
        /\ \A i \in 1..Len(calls) : calls'[i].prog = calls[i].prog
        /\ calls'[Len(calls) + 1].prog = SubDep
    BY <1>1, AdvancedIs, TopType DEF Frame
  <1>5. PathInv'
    <2> SUFFICES ASSUME NEW i \in DOMAIN calls', NEW j \in DOMAIN calls', i < j
                 PROVE  calls'[j].prog \in BehindOf(imports, calls'[i].prog)
      BY <1>1 DEF PathInv
    <2>1. CASE j = Len(calls) + 1
      <3>1. i \in 1..Len(calls)
        BY <1>4, <2>1
      <3> QED
        BY <1>3, <1>4, <2>1, <3>1
    <2>2. CASE j # Len(calls) + 1
      <3>1. i \in 1..Len(calls) /\ j \in 1..Len(calls)
        BY <1>4, <2>2
      <3> QED
        BY <1>1, <1>4, <3>1 DEF BuildInv, PathInv
    <2> QED
      BY <2>1, <2>2
  <1>6. QueueInv'
    BY <1>1, <1>3 DEF BuildInv, QueueInv, TypeOK
  <1>7. ReachInv' /\ ScopeInv'
    BY <1>1 DEF BuildInv, ReachInv, ScopeInv, Reached
  <1> QED
    BY <1>2, <1>5, <1>6, <1>7 DEF BuildInv

LEMMA BuildInvSkipSubDep ==
  ASSUME BuildInv, SkipSubDep
  PROVE  BuildInv'
  <1>1. /\ phase = "sort" /\ calls # <<>> /\ TypeOK
        /\ calls' = Advanced
        /\ UNCHANGED <<imports, gtable, deps, depState, sortedDeps, scope, imported, phase>>
    BY DEF SkipSubDep, HasSubDep, Sorting, source, graph, BuildInv, Inv
  <1>2. Inv'
    BY InvSkipSubDep DEF BuildInv
  <1>3. DOMAIN calls' = DOMAIN calls /\ \A i \in DOMAIN calls : calls'[i].prog = calls[i].prog
    BY <1>1, AdvancedIs, TopType
  <1>4. PathInv'
    BY <1>1, <1>3 DEF BuildInv, PathInv
  <1>5. ReachInv' /\ QueueInv' /\ ScopeInv'
    BY <1>1 DEF BuildInv, ReachInv, QueueInv, ScopeInv, Reached
  <1> QED
    BY <1>2, <1>4, <1>5 DEF BuildInv

LEMMA BuildInvSortReturns ==
  ASSUME BuildInv, SortReturns
  PROVE  BuildInv'
  <1> DEFINE top == Top.prog
             last == Len(sortedDeps) + 1
  <1>1. /\ phase = "sort" /\ calls # <<>> /\ TypeOK
        /\ sortedDeps' = Append(sortedDeps, top)
        /\ depState' = [depState EXCEPT ![top] = "visited"]
        /\ calls' = Pop
        /\ UNCHANGED <<imports, gtable, deps, scope, imported, phase>>
    BY DEF SortReturns, Sorting, source, BuildInv, Inv
  <1>2. Inv'
    BY InvSortReturns DEF BuildInv
  <1>3. top \in gtable /\ top \in Files /\ depState[top] = "visiting" /\ imported = {}
    <2>1. Len(calls) \in DOMAIN calls
      BY <1>1, TopType
    <2> QED
      BY <1>1, <2>1, TopType DEF BuildInv, Inv, RecursionBounded, SortInv, Top
  <1>4. \A i \in DOMAIN calls' : i \in DOMAIN calls /\ calls'[i] = calls[i]
    BY <1>1, PopIs
  <1>5. sortedDeps \in Seq(gtable)
    BY <1>1 DEF TypeOK
  <1> HIDE DEF top
  <1>6. /\ last \in Nat \ {0} /\ DOMAIN sortedDeps = 1..(last - 1)
        /\ DOMAIN sortedDeps' = 1..last
        /\ \A i \in 1..(last - 1) : sortedDeps'[i] = sortedDeps[i]
        /\ sortedDeps'[last] = top
        /\ Elements(sortedDeps') = Elements(sortedDeps) \cup {top}
    BY <1>1, <1>3, <1>5, ElementsAppend
  <1> HIDE DEF last
  <1>7. QueueInv'
    <2>1. top \notin Elements(sortedDeps)
      BY <1>1, <1>3 DEF BuildInv, QueueInv
    <2>2. \A i \in 1..(last - 1) : sortedDeps[i] # top
      BY <1>6, <2>1 DEF Elements
    <2>3. \A i, j \in DOMAIN sortedDeps' : sortedDeps'[i] = sortedDeps'[j] => i = j
      <3> SUFFICES ASSUME NEW i \in DOMAIN sortedDeps', NEW j \in DOMAIN sortedDeps',
                          sortedDeps'[i] = sortedDeps'[j]
                   PROVE  i = j
        OBVIOUS
      <3>1. (i = last \/ i \in 1..(last - 1)) /\ (j = last \/ j \in 1..(last - 1))
        BY <1>6
      <3> QED
        BY <1>6, <2>2, <3>1 DEF BuildInv, QueueInv
    <2>4. \A p \in Files : p \in Elements(sortedDeps') => depState'[p] = "visited"
      BY <1>1, <1>3, <1>6 DEF BuildInv, QueueInv, TypeOK
    <2> QED
      BY <1>1, <1>3, <2>3, <2>4 DEF QueueInv
  <1>8. PathInv'
    BY <1>1, <1>4 DEF BuildInv, PathInv
  <1>9. ReachInv' /\ ScopeInv'
    BY <1>1 DEF BuildInv, ReachInv, ScopeInv, Reached
  <1> QED
    BY <1>2, <1>7, <1>8, <1>9 DEF BuildInv

LEMMA BuildInvStartImports ==
  ASSUME BuildInv, StartImports
  PROVE  BuildInv'
  <1>1. /\ phase = "sort" /\ phase' = "import" /\ calls = <<>> /\ TypeOK
        /\ \A p \in gtable \ Builtins : depState[p] # "not_visited"
        /\ UNCHANGED <<imports, gtable, deps, depState, sortedDeps, calls, scope, imported>>
    BY DEF StartImports, Sorting, Found, source, graph, BuildInv, Inv
  <1>2. Inv'
    BY InvStartImports DEF BuildInv
  <1>3. gtable = imported \cup Elements(sortedDeps)
    <2>1. \A p \in gtable : p \in Builtins \/ depState[p] = "visited"
      <3> SUFFICES ASSUME NEW p \in gtable, p \notin Builtins
                   PROVE  depState[p] = "visited"
        OBVIOUS
      <3>1. p \in Files /\ depState[p] \in {"not_visited", "visiting", "visited"}
        BY <1>1 DEF TypeOK, All
      <3>2. depState[p] # "visiting"
        BY <1>1, <3>1 DEF BuildInv, Inv, RecursionBounded
      <3> QED
        BY <1>1, <3>1, <3>2
    <2>2. \A p \in gtable : p \in Elements(sortedDeps)
      BY <1>1, <2>1 DEF BuildInv, Inv, SortInv, TypeOK, All
    <2>3. Elements(sortedDeps) \subseteq gtable /\ imported \subseteq gtable
      BY <1>1 DEF TypeOK, Elements
    <2> QED
      BY <2>2, <2>3
  <1>4. QueueInv'
    BY <1>1, <1>3 DEF BuildInv, QueueInv
  <1>5. ReachInv' /\ PathInv' /\ ScopeInv'
    BY <1>1 DEF BuildInv, ReachInv, PathInv, ScopeInv, Reached
  <1> QED
    BY <1>2, <1>4, <1>5 DEF BuildInv

LEMMA BuildInvRunImports ==
  ASSUME BuildInv, RunImports
  PROVE  BuildInv'
  <1> DEFINE p == Head(sortedDeps)
             n == Len(sortedDeps)
  <1>1. /\ phase = "import" /\ sortedDeps # <<>> /\ TypeOK
        /\ scope' = [scope EXCEPT ![p] = @ \cup UNION Elements(Sources(imports, p))]
        /\ imported' = imported \cup {p}
        /\ sortedDeps' = Tail(sortedDeps)
        /\ UNCHANGED <<imports, gtable, deps, calls, phase>>
    BY DEF RunImports, Importing, source, graph, BuildInv, Inv
  <1>2. Inv'
    BY InvRunImports DEF BuildInv
  <1>3. sortedDeps \in Seq(gtable)
    BY <1>1 DEF TypeOK
  <1>4. /\ p = sortedDeps[1] /\ n \in Nat \ {0} /\ DOMAIN sortedDeps = 1..n
        /\ DOMAIN sortedDeps' = 1..(n - 1)
        /\ \A i \in 1..(n - 1) : sortedDeps'[i] = sortedDeps[i + 1]
    BY <1>1, <1>3
  <1> HIDE DEF p, n
  <1>5. \A i \in 1..(n - 1) : i + 1 \in DOMAIN sortedDeps /\ i + 1 # 1
    BY <1>4
  <1>6. QueueInv'
    <2>1. \A i, j \in DOMAIN sortedDeps' : sortedDeps'[i] = sortedDeps'[j] => i = j
      BY <1>4, <1>5 DEF BuildInv, QueueInv
    <2>2. \A i \in DOMAIN sortedDeps' : sortedDeps'[i] \notin imported /\ sortedDeps'[i] # p
      BY <1>4, <1>5 DEF BuildInv, QueueInv
    <2>3. Elements(sortedDeps) = {p} \cup Elements(sortedDeps')
      <3>1. \A i \in DOMAIN sortedDeps : i = 1 \/ (i - 1 \in 1..(n - 1) /\ (i - 1) + 1 = i)
        BY <1>4
      <3>2. \A i \in DOMAIN sortedDeps : i = 1 \/ sortedDeps[i] = sortedDeps'[i - 1]
        BY <1>4, <3>1
      <3>3. 1 \in DOMAIN sortedDeps
        BY <1>4
      <3> QED
        BY <1>4, <1>5, <3>1, <3>2, <3>3 DEF Elements
    <2> QED
      BY <1>1, <2>1, <2>2, <2>3 DEF BuildInv, QueueInv
  <1>7. ScopeInv'
    BY <1>1 DEF BuildInv, ScopeInv, TypeOK
  <1>8. ReachInv' /\ PathInv'
    BY <1>1 DEF BuildInv, ReachInv, PathInv, Reached
  <1> QED
    BY <1>2, <1>6, <1>7, <1>8 DEF BuildInv

LEMMA BuildInvNext == BuildInv /\ [Next]_vars => BuildInv'
  <1> SUFFICES ASSUME BuildInv, [Next]_vars
               PROVE  BuildInv'
    OBVIOUS
  <1>1. CASE UNCHANGED vars
    <2>1. Inv'
      BY <1>1, InvNext DEF BuildInv
    <2> QED
      BY <1>1, <2>1 DEF BuildInv, ReachInv, PathInv, QueueInv, ScopeInv, Reached, vars, source, graph
  <1>2. CASE Next
    BY <1>2, BuildInvThrow, BuildInvImportKnown, BuildInvImportNew, BuildInvGenerateReturns,
       BuildInvStartSort, BuildInvSortRoot, BuildInvSortSubDep, BuildInvSkipSubDep,
       BuildInvSortReturns, BuildInvStartImports, BuildInvRunImports
       DEF Next
  <1> QED
    BY <1>1, <1>2

-----------------------------------------------------------------------------
(* Every step is one of BuildOrder.                                        *)
LEMMA RefinesInit == Init => Build!Init
  BY SameScope DEF Init, Build!Init

LEMMA RefinesRunImports ==
  ASSUME BuildInv, RunImports
  PROVE  Build!Next
  <1> DEFINE p == Head(sortedDeps)
             of == ImportsOf(imports, p)
             offered == UNION {PublicOf(q) : q \in Elements(of)}
  <1>1. /\ phase = "import" /\ outcome = "running" /\ sortedDeps # <<>> /\ TypeOK
        /\ ~Clash(imports, p) /\ p \notin bad
        /\ scope' = [scope EXCEPT ![p] = @ \cup UNION Elements(Sources(imports, p))]
        /\ imported' = imported \cup {p}
        /\ UNCHANGED <<imports, bad, outcome>>
    BY DEF RunImports, Importing, source, graph, BuildInv, Inv
  <1>2. p = sortedDeps[1] /\ 1 \in DOMAIN sortedDeps /\ p \in gtable /\ p \in All
    BY <1>1 DEF TypeOK
  <1> HIDE DEF p
  <1>3. p \notin imported /\ Elements(of) \subseteq imported
    BY <1>2 DEF BuildInv, Inv, QueueInv, QueueSorted
  <1>4. scope[p] = BuiltScope[p]
    BY <1>2, <1>3 DEF BuildInv, ScopeInv
  <1>5. UNION Elements(Sources(imports, p))
          = offered \cup (IF p \in Builtins THEN {} ELSE Public[p] \cup Private[p])
    BY <1>1, <1>2, SourcesUnion DEF Offered
  <1>6. Build!Own(p) = IF p \in Builtins THEN BuiltScope[p] ELSE Public[p] \cup Private[p]
    BY SameScope DEF Build!Own
  <1>7. p \notin Builtins => BuiltScope[p] = {}
    <2>1. {"string", "maybe", "void", "bool", "float", "gate", "cgate", "trig", "int"}
            \subseteq Builtins
      BY DEF Builtins, Elements, BuiltinOrder
    <2> QED
      BY <1>2, <2>1 DEF BuiltScope
  <1>8. Build!Imported(p) = Elements(of)
    BY SameImports DEF Build!Imported, Build!Elements, Elements
  <1>9. UNION {Build!PublicOf(q) : q \in Build!Imported(p)} = offered
    BY <1>8, SameOffers
  <1> HIDE DEF offered, of
  <1>10. scope' = [scope EXCEPT ![p] = Build!Own(p)
                     \cup UNION {Build!PublicOf(q) : q \in Build!Imported(p)}]
    <2>1. scope[p] \cup UNION Elements(Sources(imports, p)) = Build!Own(p) \cup offered
      BY <1>4, <1>5, <1>6, <1>7
    <2> QED
      BY <1>1, <1>9, <2>1
  <1>11. Build!Build(p)
    BY <1>1, <1>3, <1>8, <1>10, SameClash DEF Build!Build
  <1> QED
    BY <1>2, <1>11, SameScope DEF Build!Next

(* The five ways to end, each with its reason.                             *)
LEMMA SameReached == Build!Reached = Reached
  BY SameBehind DEF Build!Reached, Reached

LEMMA RefinesFileMissing ==
  ASSUME BuildInv, FileMissing
  PROVE  Build!Next
  <1>1. /\ phase = "generate" /\ calls # <<>> /\ outcome = "running" /\ TypeOK
        /\ outcome' = "missing" /\ UNCHANGED <<imports, bad, scope, imported>>
    BY DEF FileMissing, Generating, Throw, source, BuildInv, Inv
  <1>2. Top.prog \in Reached /\ Top.prog \in Files /\ Top.next \in DOMAIN imports[Top.prog]
    <2>1. Top.prog \in gtable /\ Top.prog \in Files /\ Top.next \in Nat \ {0}
      BY <1>1, TopType
    <2> QED
      BY <1>1, <2>1, ImportsType, ImportsAssumption
         DEF FileMissing, HasImport, BuildInv, ReachInv
  <1>3. Importee \in Reached /\ Importee \notin Files
    BY <1>2, ReachedFurther DEF FileMissing, Importee, Elements
  <1> QED
    BY <1>1, <1>3, SameReached DEF Build!Next, Build!Finish, Build!Justified

LEMMA RefinesFoundCycle ==
  ASSUME BuildInv, FoundCycle
  PROVE  Build!Next
  <1>1. /\ phase = "sort" /\ outcome = "running" /\ HasSubDep
        /\ depState[SubDep] = "visiting"
        /\ outcome' = "cycle" /\ UNCHANGED <<imports, bad, scope, imported>>
    BY DEF FoundCycle, HasSubDep, Sorting, Throw, source
  <1>2. /\ SubDep \in gtable \cap Files
        /\ \A i \in DOMAIN calls : SubDep \in BehindOf(imports, calls[i].prog)
    BY <1>1, SubDepBehind
  <1>3. PICK i \in DOMAIN calls : calls[i].prog = SubDep
    BY <1>1, <1>2 DEF BuildInv, Inv, RecursionBounded
  <1>4. SubDep \in BehindOf(imports, SubDep)
    BY <1>2, <1>3
  <1>5. SubDep \in Reached \cap Files
    BY <1>2, ImportsAssumption DEF BuildInv, ReachInv
  <1> QED
    BY <1>1, <1>4, <1>5, SameReached, SameBehind
       DEF Build!Next, Build!Finish, Build!Justified

LEMMA HeadReached ==
  ASSUME BuildInv, Importing, Head(sortedDeps) \notin Builtins
  PROVE  Head(sortedDeps) \in Reached \cap Files
  <1>1. sortedDeps \in Seq(gtable) /\ gtable \subseteq All /\ sortedDeps # <<>>
    BY DEF Importing, BuildInv, Inv, TypeOK
  <1>2. Head(sortedDeps) \in gtable
    BY <1>1
  <1> QED
    BY <1>1, <1>2 DEF BuildInv, ReachInv, All

LEMMA RefinesNameClash ==
  ASSUME BuildInv, NameClash
  PROVE  Build!Next
  <1>1. /\ Importing /\ outcome = "running" /\ Clash(imports, Head(sortedDeps))
        /\ outcome' = "clash" /\ UNCHANGED <<imports, bad, scope, imported>>
    BY DEF NameClash, Importing, Throw, source
  <1>2. Head(sortedDeps) \in Reached \cap Files
    BY <1>1, BuiltinsFit, HeadReached
  <1> QED
    BY <1>1, <1>2, SameReached, SameClash DEF Build!Next, Build!Finish, Build!Justified

LEMMA RefinesHeaderRefused ==
  ASSUME BuildInv, HeaderRefused
  PROVE  Build!Next
  <1>1. /\ Importing /\ outcome = "running" /\ Head(sortedDeps) \in bad
        /\ outcome' = "header" /\ UNCHANGED <<imports, bad, scope, imported>>
    BY DEF HeaderRefused, Importing, Throw, source
  <1>2. Head(sortedDeps) \in Reached
    BY <1>1, HeadReached, ImportsAssumption DEF BuildInv, Inv, TypeOK
  <1> QED
    BY <1>1, <1>2, SameReached DEF Build!Next, Build!Finish, Build!Justified

LEMMA RefinesImportsDone ==
  ASSUME BuildInv, ImportsDone
  PROVE  Build!Next
  <1>1. /\ phase = "import" /\ outcome = "running" /\ sortedDeps = <<>>
        /\ outcome' = "done" /\ UNCHANGED <<imports, bad, scope, imported>>
    BY DEF ImportsDone, Throw, source
  <1>2. imported = gtable
    <2>1. Elements(<<>>) = {}
      BY DEF Elements
    <2> QED
      BY <1>1, <2>1 DEF BuildInv, QueueInv
  <1>3. imported = Reached \cup Builtins
    BY <1>1, <1>2 DEF BuildInv, ReachInv
  <1> QED
    BY <1>1, <1>3, SameReached, SameScope DEF Build!Next, Build!Finish, Build!Justified

LEMMA RefinesNext == BuildInv /\ [Next]_vars => [Build!Next]_Build!vars
  <1> SUFFICES ASSUME BuildInv, Next
               PROVE  Build!Next \/ UNCHANGED Build!vars
    BY DEF vars, source, Build!vars
  <1>1. CASE RunImports
    BY <1>1, RefinesRunImports
  <1>2. CASE FileMissing
    BY <1>2, RefinesFileMissing
  <1>3. CASE FoundCycle
    BY <1>3, RefinesFoundCycle
  <1>4. CASE NameClash
    BY <1>4, RefinesNameClash
  <1>5. CASE HeaderRefused
    BY <1>5, RefinesHeaderRefused
  <1>6. CASE ImportsDone
    BY <1>6, RefinesImportsDone
  <1>7. CASE \/ ImportKnown \/ ImportNew \/ GenerateReturns \/ StartSort
             \/ (\E p \in Files : SortRoot(p))
             \/ SortSubDep \/ SkipSubDep \/ SortReturns \/ StartImports
    <2>1. UNCHANGED <<source, scope, imported, outcome>>
      BY <1>7 DEF ImportKnown, ImportNew, GenerateReturns, StartSort, SortRoot, SortSubDep,
         SkipSubDep, SortReturns, StartImports, Visit
    <2> QED
      BY <2>1 DEF source, Build!vars
  <1> QED
    BY <1>1, <1>2, <1>3, <1>4, <1>5, <1>6, <1>7 DEF Next

(* The importer implements BuildOrder for every import graph: a program is *)
(* completed once, after all that it imports, with its own names and the   *)
(* public ones of what it imports, and importing ends for a reason that    *)
(* the graph gives (import_all with generate_deps, sort_deps, run_imports). *)
THEOREM ImplementsBuildOrderCorrect == Spec => ImplementsBuildOrder
  <1>1. Spec => []BuildInv
    BY BuildInvInit, BuildInvNext, PTL DEF Spec
  <1> QED
    BY <1>1, RefinesInit, RefinesNext, PTL DEF Spec, ImplementsBuildOrder, Build!Spec
=============================================================================
