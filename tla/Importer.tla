------------------------------ MODULE Importer ------------------------------
(***************************************************************************)
(* The importer (importer/importer.cpp): generate_deps walks the import    *)
(* declarations from the main program and fills the global symbol table,   *)
(* sort_deps queues the programs by a depth-first search that looks for    *)
(* cycles, run_imports fills the scope of each program in that order. Both *)
(* searches call themselves; "calls" is their stack.                       *)
(***************************************************************************)
EXTENDS Imports

VARIABLES
  imports,    \* the import declarations of the files
  bad,        \* the files with a header that is refused
  gtable,     \* the programs in m_gtable
  deps,       \* m_deps: the edges found so far
  depState,   \* m_dep_states
  sortedDeps, \* m_sorted_deps
  calls,      \* the calls of generate_deps or sort_deps_util on the stack
  scope,      \* scope[p]: the names in the scope of p
  imported,   \* history: the programs run_imports_util was done with
  phase,      \* "generate", "sort" or "import"
  outcome     \* "running", "done" or the exception import_all ended with

source == <<imports, bad>>
graph == <<gtable, deps, depState>>
vars == <<source, graph, sortedDeps, calls, scope, imported, phase, outcome>>

Frame(p) == [prog |-> p, next |-> 1]
Top == calls[Len(calls)]
Pop == SubSeq(calls, 1, Len(calls) - 1)
Advanced == [calls EXCEPT ![Len(calls)].next = @ + 1]

(* What generate_deps does first with a program that is new.               *)
Enter(p, table, edges, states) ==
  /\ gtable' = table \cup {p}
  /\ deps' = [edges EXCEPT ![p] = <<>>]
  /\ depState' = [states EXCEPT ![p] = "not_visited"]

Throw(exception) ==
  /\ outcome' = exception
  /\ UNCHANGED <<source, graph, sortedDeps, calls, scope, imported, phase>>

-----------------------------------------------------------------------------
(* generate_deps: the next import declaration of the innermost program.    *)

Generating == phase = "generate" /\ outcome = "running" /\ calls # <<>>
HasImport == Top.next <= Len(imports[Top.prog])
Importee == imports[Top.prog][Top.next]

(* The file is parsed again each time it is imported. *)
FileMissing ==
  /\ Generating /\ HasImport
  /\ Importee \notin Files
  /\ Throw("missing")

AddEdge == [deps EXCEPT ![Top.prog] = Append(@, Importee)]

(* Fault: generate_deps goes on with a program it knows.                   *)
ImportKnownAgain ==
  /\ Generating /\ HasImport
  /\ Importee \in gtable
  /\ deps' = AddEdge
  /\ calls' = Append(Advanced, Frame(Importee))
  /\ UNCHANGED <<source, gtable, depState, sortedDeps, scope, imported, phase, outcome>>

ImportKnown ==
  /\ Generating /\ HasImport
  /\ Importee \in gtable
  /\ deps' = AddEdge
  /\ calls' = Advanced
  /\ UNCHANGED <<source, gtable, depState, sortedDeps, scope, imported, phase, outcome>>

ImportNew ==
  /\ Generating /\ HasImport
  /\ Importee \in Files \ gtable
  /\ Enter(Importee, gtable, AddEdge, depState)
  /\ calls' = Append(Advanced, Frame(Importee))
  /\ UNCHANGED <<source, sortedDeps, scope, imported, phase, outcome>>

GenerateReturns ==
  /\ Generating /\ ~HasImport
  /\ calls' = Pop
  /\ UNCHANGED <<source, graph, sortedDeps, scope, imported, phase, outcome>>

-----------------------------------------------------------------------------
(* sort_deps: the builtin programs, then every program not yet visited, in *)
(* the order the hash table happens to have.                               *)

(* Fault: the builtin programs are queued but not registered.              *)
StartSortUnregistered ==
  /\ phase = "generate" /\ outcome = "running" /\ calls = <<>>
  /\ phase' = "sort"
  /\ sortedDeps' = BuiltinOrder
  /\ UNCHANGED <<source, graph, calls, scope, imported, outcome>>

StartSort ==
  /\ phase = "generate" /\ outcome = "running" /\ calls = <<>>
  /\ phase' = "sort"
  /\ gtable' = gtable \cup Builtins
  /\ sortedDeps' = BuiltinOrder
  /\ UNCHANGED <<source, deps, depState, calls, scope, imported, outcome>>

Sorting == phase = "sort" /\ outcome = "running"
Found == gtable \ Builtins

Visit(p, stack) ==
  /\ depState' = [depState EXCEPT ![p] = "visiting"]
  /\ calls' = Append(stack, Frame(p))
  /\ UNCHANGED <<source, gtable, deps, sortedDeps, scope, imported, phase, outcome>>

SortRoot(p) ==
  /\ Sorting /\ calls = <<>>
  /\ p \in Found /\ depState[p] = "not_visited"
  /\ Visit(p, calls)

SubDep == deps[Top.prog][Top.next]
HasSubDep == Sorting /\ calls # <<>> /\ Top.next <= Len(deps[Top.prog])

SortSubDep ==
  /\ HasSubDep /\ depState[SubDep] = "not_visited"
  /\ Visit(SubDep, Advanced)

(* Fault: a cycle is passed over.                                          *)
FoundCycleIgnored ==
  /\ HasSubDep /\ depState[SubDep] = "visiting"
  /\ calls' = Advanced
  /\ UNCHANGED <<source, graph, sortedDeps, scope, imported, phase, outcome>>

FoundCycle ==
  /\ HasSubDep /\ depState[SubDep] = "visiting"
  /\ Throw("cycle")

(* Fault: the loop does not get past a dependency that was visited.        *)
SkipSubDepStuck ==
  /\ HasSubDep /\ depState[SubDep] = "visited"
  /\ calls' = calls
  /\ UNCHANGED <<source, graph, sortedDeps, scope, imported, phase, outcome>>

SkipSubDep ==
  /\ HasSubDep /\ depState[SubDep] = "visited"
  /\ calls' = Advanced
  /\ UNCHANGED <<source, graph, sortedDeps, scope, imported, phase, outcome>>

(* Fault: a program comes before the others, not behind them.              *)
SortReturnsFront ==
  /\ Sorting /\ calls # <<>> /\ Top.next > Len(deps[Top.prog])
  /\ sortedDeps' = <<Top.prog>> \o sortedDeps
  /\ depState' = [depState EXCEPT ![Top.prog] = "visited"]
  /\ calls' = Pop
  /\ UNCHANGED <<source, gtable, deps, scope, imported, phase, outcome>>

SortReturns ==
  /\ Sorting /\ calls # <<>> /\ Top.next > Len(deps[Top.prog])
  /\ sortedDeps' = Append(sortedDeps, Top.prog)
  /\ depState' = [depState EXCEPT ![Top.prog] = "visited"]
  /\ calls' = Pop
  /\ UNCHANGED <<source, gtable, deps, scope, imported, phase, outcome>>

StartImports ==
  /\ Sorting /\ calls = <<>>
  /\ \A p \in Found : depState[p] # "not_visited"
  /\ phase' = "import"
  /\ UNCHANGED <<source, graph, sortedDeps, calls, scope, imported, outcome>>

-----------------------------------------------------------------------------
(* run_imports: the program at the front of the queue. An import that      *)
(* fails half way loses the whole table, so what it had added is left out. *)

Importing == phase = "import" /\ outcome = "running" /\ sortedDeps # <<>>

RunImports ==
  /\ Importing
  /\ LET p == Head(sortedDeps) IN
     /\ ~Clash(imports, p) /\ p \notin bad
     /\ scope' = [scope EXCEPT ![p] = @ \cup UNION Elements(Sources(imports, p))]
     /\ imported' = imported \cup {p}
  /\ sortedDeps' = Tail(sortedDeps)
  /\ UNCHANGED <<source, graph, calls, phase, outcome>>

NameClash ==
  /\ Importing
  /\ Clash(imports, Head(sortedDeps))
  /\ Throw("clash")

(* import_declarations checks the headers of functions (TypeChecker says   *)
(* how); what is wrong with one shows in the file that declares it, before *)
(* or after a name that clashes.                                           *)
HeaderRefused ==
  /\ Importing
  /\ Head(sortedDeps) \in bad
  /\ Throw("header")

ImportsDone ==
  /\ phase = "import" /\ outcome = "running" /\ sortedDeps = <<>>
  /\ Throw("done")

-----------------------------------------------------------------------------
Init ==
  /\ imports \in Graphs
  /\ bad \in BadHeaders
  /\ gtable = {Main}
  /\ deps = [p \in Files |-> <<>>]
  /\ depState = [p \in Files |-> "not_visited"]
  /\ sortedDeps = <<>>
  /\ calls = <<Frame(Main)>>
  /\ scope = BuiltScope
  /\ imported = {}
  /\ phase = "generate"
  /\ outcome = "running"

Next ==
  \/ FileMissing \/ ImportKnown \/ ImportNew \/ GenerateReturns
  \/ StartSort \/ (\E p \in Files : SortRoot(p)) \/ SortSubDep \/ FoundCycle
  \/ SkipSubDep \/ SortReturns \/ StartImports
  \/ RunImports \/ NameClash \/ HeaderRefused \/ ImportsDone

(* One thread runs the importer, and nothing in it waits.                  *)
Spec == Init /\ [][Next]_vars /\ WF_vars(Next)

-----------------------------------------------------------------------------
(* The type of the importer's state; edges and the queue hold only         *)
(* programs that are in the global symbol table.                           *)
TypeOK ==
  /\ imports \in Graphs
  /\ bad \in BadHeaders
  /\ gtable \subseteq All
  /\ deps \in [Files -> Seq(gtable \cap Files)]
  /\ depState \in [Files -> {"not_visited", "visiting", "visited"}]
  /\ sortedDeps \in Seq(gtable)
  /\ calls \in Seq([prog : gtable \cap Files, next : Nat \ {0}])
  /\ scope \in [All -> SUBSET (Builtins \cup UNION {Public[p] \cup Private[p] : p \in Files})]
  /\ imported \subseteq gtable
  /\ phase \in {"generate", "sort", "import"}
  /\ outcome \in {"running", "missing", "cycle", "clash", "header", "done"}

(* Neither search is inside the same program twice, so that no import      *)
(* graph makes them call themselves without end; and the programs inside   *)
(* which sort_deps_util is are those it holds for visiting (:341, :357).   *)
RecursionBounded ==
  /\ \A i, j \in DOMAIN calls : calls[i].prog = calls[j].prog => i = j
  /\ phase = "sort" => \A p \in Files :
       depState[p] = "visiting" <=> \E i \in DOMAIN calls : calls[i].prog = p

(* importer.hpp:232 "a queue of all dependencies sorted from the one with  *)
(* no dependency to the one with most dependencies": always the imports of *)
(* a queued program are queued before it or were completed.                *)
QueueSorted ==
  \A i \in DOMAIN sortedDeps :
    Elements(ImportsOf(imports, sortedDeps[i]))
      \subseteq imported \cup {sortedDeps[j] : j \in 1..(i - 1)}

(* Every run of the importer is one of BuildOrder: each program reached is *)
(* completed once, after what it imports, with the names it may see and no *)
(* other, and it fails only for a reason that the imports give.            *)
Build == INSTANCE BuildOrder WITH built <- imported
ImplementsBuildOrder == Build!Spec

(* Whatever the imports, cycles included, importing ends.                  *)
Ends == <>(outcome # "running")
=============================================================================
