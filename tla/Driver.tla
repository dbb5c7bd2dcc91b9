-------------------------------- MODULE Driver --------------------------------
(***************************************************************************)
(* The phases behind the parser as the compiler strings them together      *)
(* (compiler.cpp, interpret): the importer fills the scopes, the checker   *)
(* makes copies of what __main__ calls, the cleaner puts the copies in the *)
(* place of the functions, in new scopes, the interpreter imports again    *)
(* and runs __main__. The driver shows an error and goes on to the next    *)
(* phase. The builtin programs are left out: nothing here collides with    *)
(* them. The files are read, parsed and sorted (Importer says how).        *)
(***************************************************************************)
EXTENDS SymbolTables

CONSTANTS
  Order,     \* the files as the importer completes them, the main one last
  ImportsOf, \* ImportsOf[p]: the files p imports, in the order it does
  Programs   \* what the files declare: functions from the files to sequences

Files == ToSet(Order)
Main == Last(Order)

(* Names are made of tokens, of one if they are declared, of more if the   *)
(* checker makes them (function.cpp:339, type.cpp:1303); types are tokens: *)
(* "list" is what __main__ takes. A declaration is known by its place.     *)
Tokens == STRING \cup {"list"}
Names == Seq(Tokens)
Places == Files \X Nat
UseInBody ==
  [kind : {"identifier"}, ns : STRING, name : Names]
    \cup [kind : {"call"}, ns : STRING, name : Names, arg : Tokens]
TypeDeclaration ==
  [kind : {"type"}, ns : STRING, name : Names, cons : Names, public : BOOLEAN, id : Places]
VariableDeclaration ==
  [kind : {"variable"}, ns : STRING, name : Names, public : BOOLEAN, id : Places]
FunctionDeclaration ==
  [kind : {"function"}, ns : STRING, name : Names, param : Tokens, ret : Tokens,
   public : BOOLEAN, id : Places, body : Seq(UseInBody)]
StatementDeclaration == [kind : {"statement"}, ns : STRING, public : BOOLEAN, id : Places]
Declaration == TypeDeclaration \cup VariableDeclaration \cup FunctionDeclaration \cup StatementDeclaration

ASSUME FilesAssumption ==
  /\ Order \in Seq(Files) /\ Order # <<>> /\ "" \notin Files
  /\ \A i, j \in DOMAIN Order : Order[i] = Order[j] => i = j
  /\ ImportsOf \in [Files -> Seq(Files)]
  /\ \A i \in DOMAIN Order : ToSet(ImportsOf[Order[i]]) \subseteq {Order[j] : j \in 1..(i - 1)}
ASSUME ProgramsAssumption ==
  \A declared \in Programs :
    /\ declared \in [Files -> Seq(Declaration)]
    /\ \A p \in Files : \A i \in DOMAIN declared[p] :
         /\ declared[p][i].id = <<p, i>>
         /\ declared[p][i].kind # "statement" => Len(declared[p][i].name) = 1
         /\ declared[p][i].kind = "type" => Len(declared[p][i].cons) = 1

VARIABLES
  program,  \* the declarations of each file
  phase,    \* import, check, clean, link, run or ended
  queue,    \* the files the importer has not come to
  waiting,  \* the programs the cleaner, then the interpreter has not come to
  scopes,   \* the scopes the importer filled
  complete, \* the importer ended without an exception: the table is there
  copies,   \* m_specializations of all functions
  used,     \* the types that have a specialisation
  calls,    \* the functions being checked, or run, each within the one before
  checked,  \* the checker ended without an exception
  linked,   \* the scopes of the cleaned programs
  mainFqn,  \* the main program the cleaner found
  outcome   \* running; ran, error or abort at the end

source == program
tables == <<scopes, complete>>
checking == <<copies, used, checked>>
cleaning == <<linked, mainFqn>>
vars == <<source, phase, queue, waiting, tables, checking, calls, cleaning, outcome>>

NamespacesOf(p) == {program[p][i].ns : i \in DOMAIN program[p]}
IsMain(d) == d.kind = "function" /\ d.name = <<"__main__">>

End(how) == phase' = "ended" /\ outcome' = how
GoOn(next) == phase' = next /\ outcome' = outcome

-----------------------------------------------------------------------------
(* Fault: include_privates is not looked at.                               *)
OfferedAll(d, private) == d.kind # "statement"

(* import_declarations: all that is public, or all there is, up to the     *)
(* first that is refused.                                                  *)
Offered(d, private) == d.kind # "statement" /\ (private \/ d.public)

Insert(r, d, private) ==
  IF r.thrown = "none" /\ Offered(d, private) THEN Add(r.scope, d) ELSE r

AddAll(sofar, declarations, private) ==
  LET added[i \in 0..Len(declarations)] ==
        IF i = 0 THEN sofar ELSE Insert(added[i - 1], declarations[i], private)
  IN added[Len(declarations)]

Import(sofar, from, declarations, private) ==
  IF sofar.thrown # "none" THEN sofar
  ELSE AddAll(Inserted(add_namespaces(sofar.scope, NamespacesOf(from))), declarations, private)

(* What the files of a list offer to one that imports them, in turn.       *)
ImportAll(sofar, files, contents) ==
  LET imported[i \in 0..Len(files)] ==
        IF i = 0 THEN sofar
        ELSE Import(imported[i - 1], files[i], contents[files[i]], FALSE)
  IN imported[Len(files)]

(* run_imports_util: what p imports, then p itself.                        *)
run_imports_util(p) ==
  Import(ImportAll(Inserted(EmptyScope), ImportsOf[p], program), p, program[p], TRUE)

ImportProgram ==
  /\ phase = "import" /\ queue # <<>>
  /\ LET r == run_imports_util(Head(queue)) IN
     /\ r.thrown = "none"
     /\ scopes' = [scopes EXCEPT ![Head(queue)] = r.scope]
  /\ queue' = Tail(queue)
  /\ UNCHANGED <<source, phase, waiting, complete, checking, calls, cleaning, outcome>>

(* Fault: the table is kept after an exception, too.                       *)
ImportRefusedKept ==
  /\ phase = "import" /\ queue # <<>>
  /\ LET r == run_imports_util(Head(queue)) IN
     /\ r.thrown # "none"
     /\ scopes' = [scopes EXCEPT ![Head(queue)] = r.scope]
  /\ complete' = TRUE
  /\ GoOn("check")
  /\ UNCHANGED <<source, queue, waiting, checking, calls, cleaning>>

(* Half of the declarations stay in the scope, which the program shares    *)
(* with the importer; the table the importer returns is lost.              *)
ImportRefused ==
  /\ phase = "import" /\ queue # <<>>
  /\ LET r == run_imports_util(Head(queue)) IN
     /\ r.thrown # "none"
     /\ scopes' = [scopes EXCEPT ![Head(queue)] = r.scope]
  /\ GoOn("check")
  /\ UNCHANGED <<source, queue, waiting, complete, checking, calls, cleaning>>

ImportDone ==
  /\ phase = "import" /\ queue = <<>>
  /\ complete' = TRUE
  /\ GoOn("check")
  /\ UNCHANGED <<source, queue, waiting, scopes, checking, calls, cleaning>>

-----------------------------------------------------------------------------
(* The checker. A frame is a function that is checked for an argument,     *)
(* with the uses in its body that have been resolved.                      *)
Frame(f, arg) == [fun |-> f, arg |-> arg, next |-> 1, body |-> <<>>]
Top == Last(calls)
Use == Top.fun.body[Top.next]
HasUse == calls # <<>> /\ Top.next <= Len(Top.fun.body)

Bound(type, arg) == IF type = "a" THEN arg ELSE type
(* The scope of a function is the one of the file that declares it.        *)
ScopeOf(f) == scopes[f.id[1]]

MainFound == find_function_returning(scopes[Main], "*", <<"__main__">>, "list", "void")

CheckMain ==
  /\ phase = "check" /\ calls = <<>> /\ ~checked
  /\ \E f \in MainFound : calls' = <<Frame(f, "list")>>
  /\ UNCHANGED <<source, phase, queue, waiting, tables, checking, cleaning, outcome>>

CheckFails ==
  /\ calls' = <<>>
  /\ GoOn("clean")
  /\ UNCHANGED <<source, queue, tables, checking, cleaning>>

AllWaiting == waiting' = IF complete THEN Files ELSE {}

MainMissing ==
  /\ phase = "check" /\ calls = <<>> /\ ~checked
  /\ MainFound = {}
  /\ AllWaiting /\ CheckFails

Resolved(use) ==
  calls' = [calls EXCEPT ![Len(calls)].next = @ + 1, ![Len(calls)].body = Append(@, use)]

(* check_identifier: a variable of the namespace that is given, or else a  *)
(* constructor, for which the namespace of the function comes first.       *)
VariableUsed == Entries(ScopeOf(Top.fun), "variable", Use.ns, Use.name)
ConstructorsIn(ns) == Entries(ScopeOf(Top.fun), "constructor", ns, Use.name)
ConstructorUsed ==
  IF Use.ns = "*" /\ ConstructorsIn(Top.fun.ns) # {} THEN ConstructorsIn(Top.fun.ns) ELSE ConstructorsIn(Use.ns)

CheckVariable ==
  /\ phase = "check" /\ HasUse /\ Use.kind = "identifier"
  /\ \E v \in VariableUsed :
       Resolved([kind |-> "variable", ns |-> Use.ns, name |-> v.name, target |-> v.id])
  /\ UNCHANGED <<source, phase, queue, waiting, tables, checking, cleaning, outcome>>

CheckConstructor ==
  /\ phase = "check" /\ HasUse /\ Use.kind = "identifier"
  /\ VariableUsed = {}
  /\ \E c \in ConstructorUsed :
       /\ used' = used \cup {c.type}
       /\ Resolved([kind |-> "constructor", ns |-> c.ns, name |-> c.name, target |-> c.type])
  /\ UNCHANGED <<source, phase, queue, waiting, tables, copies, checked, cleaning, outcome>>

(* check_call: the namespace of the function comes first if none is given. *)
CalleeNs ==
  IF Use.ns = "*" /\ Entries(ScopeOf(Top.fun), "function", Top.fun.ns, Use.name) # {}
  THEN Top.fun.ns ELSE Use.ns
CalleeFound ==
  find_function(ScopeOf(Top.fun), CalleeNs, Use.name, Bound(Use.arg, Top.arg))

(* The callee is checked on the spot, for the types of this call.          *)
CheckCall ==
  /\ phase = "check" /\ HasUse /\ Use.kind = "call"
  /\ \E f \in CalleeFound : calls' = Append(calls, Frame(f, Bound(Use.arg, Top.arg)))
  /\ UNCHANGED <<source, phase, queue, waiting, tables, checking, cleaning, outcome>>

NotFound ==
  /\ phase = "check" /\ HasUse
  /\ CASE Use.kind = "identifier" -> VariableUsed = {} /\ ConstructorUsed = {}
       [] Use.kind = "call" -> CalleeFound = {}
  /\ AllWaiting /\ CheckFails

(* The copy of a function goes by its types, the one of __main__ by its    *)
(* name, if it is the one that runs first.                                 *)
Copy(frame, name) ==
  [frame.fun EXCEPT !.name = name, !.param = frame.arg, !.ret = Bound(@, frame.arg), !.body = frame.body]
Mangled(frame) == frame.fun.name \o <<frame.arg, Bound(frame.fun.ret, frame.arg)>>

(* Fault: the copy of __main__ goes by its types as any other.             *)
CopyNameMangled == Mangled(Top)
CopyName == IF Len(calls) = 1 THEN Top.fun.name ELSE Mangled(Top)

add_specialization ==
  IF \E c \in copies : c.id = Top.fun.id /\ c.name = CopyName THEN copies ELSE copies \cup {Copy(Top, CopyName)}

(* Fault: the callee is named in the namespace of the caller.              *)
CalleeOfCaller ==
  [kind |-> "call", ns |-> calls[Len(calls) - 1].fun.ns, name |-> CopyName, target |-> Top.fun.id]
(* set_callee: what the call in the body of the caller stands for now.     *)
Callee == [kind |-> "call", ns |-> Top.fun.ns, name |-> CopyName, target |-> Top.fun.id]

CheckReturns ==
  /\ phase = "check" /\ calls # <<>> /\ ~HasUse
  /\ copies' = add_specialization
  /\ IF Len(calls) > 1
     THEN /\ calls' = [Front(calls) EXCEPT ![Len(calls) - 1].next = @ + 1,
                                           ![Len(calls) - 1].body = Append(@, Callee)]
          /\ UNCHANGED <<phase, waiting, checked, outcome>>
     ELSE /\ calls' = <<>> /\ checked' = TRUE
          /\ AllWaiting /\ GoOn("clean")
  /\ UNCHANGED <<source, queue, tables, used, cleaning>>

-----------------------------------------------------------------------------
(* The cleaner, one program after the other in the order of a hash table.  *)

(* A copy of a type is public whatever the type is, and its constructor    *)
(* goes by the type it makes.                                              *)
TypeCopy(d) == [d EXCEPT !.public = TRUE, !.cons = @ \o d.name]
CopiesOf(d) == {c \in copies : c.id = d.id}
CleanDeclaration(d) ==
  CASE d.kind = "type" -> IF d.id \in used THEN <<TypeCopy(d)>> ELSE <<>>
    [] d.kind = "function" -> SetToSeq(CopiesOf(d))
    [] OTHER -> <<d>>

(* A declaration stands in a namespace of its own, which is cleaned and put*)
(* into the scope before the next: a statement stops at those before it.   *)
IsStatement(d) == d.kind = "statement"
HasStatement(p) == \E i \in DOMAIN program[p] : IsStatement(program[p][i])
CleanNext(before, p, i) ==
  IF \E j \in 1..i : IsStatement(program[p][j]) THEN before
  ELSE before \o CleanDeclaration(program[p][i])

Cleaned(p) ==
  LET cleaned[i \in 0..Len(program[p])] ==
        IF i = 0 THEN <<>> ELSE CleanNext(cleaned[i - 1], p, i)
  IN cleaned[Len(program[p])]

(* ns::set_scope passes over what is there already, and nothing else.      *)
PutCopy(r, d) == IF r.thrown = "collide" THEN r ELSE Add(r.scope, d)

set_scope(p) ==
  LET put[i \in 0..Len(Cleaned(p))] ==
        IF i = 0 THEN Inserted(add_namespaces(EmptyScope, scopes[p].namespaces))
        ELSE PutCopy(put[i - 1], Cleaned(p)[i])
  IN put[Len(Cleaned(p))]

DeclaresMain(p) == \E i \in DOMAIN program[p] : IsMain(program[p][i])

Cleaning(p) == phase = "clean" /\ p \in waiting

CleanProgram(p) ==
  /\ Cleaning(p)
  /\ ~HasStatement(p)
  /\ set_scope(p).thrown # "collide"
  /\ linked' = [linked EXCEPT ![p] = set_scope(p).scope]
  /\ mainFqn' = IF mainFqn = "" /\ DeclaresMain(p) THEN p ELSE mainFqn
  /\ waiting' = waiting \ {p}
  /\ UNCHANGED <<source, phase, queue, tables, checking, calls, outcome>>

CleanAborts(p) ==
  /\ Cleaning(p)
  /\ set_scope(p).thrown = "collide"
  /\ End("abort")
  /\ UNCHANGED <<source, queue, waiting, tables, checking, calls, cleaning>>

(* clean_error: no program is left for the interpreter.                    *)
StatementFound(p) ==
  /\ Cleaning(p)
  /\ HasStatement(p)
  /\ set_scope(p).thrown # "collide"
  /\ mainFqn' = ""
  /\ waiting' = {}
  /\ UNCHANGED <<source, phase, queue, tables, checking, calls, linked, outcome>>

CleanDone ==
  /\ phase = "clean" /\ waiting = {} /\ mainFqn # ""
  /\ waiting' = Files
  /\ GoOn("link")
  /\ UNCHANGED <<source, queue, tables, checking, calls, cleaning>>

MainProgramMissing ==
  /\ phase = "clean" /\ waiting = {} /\ mainFqn = ""
  /\ End("error")
  /\ UNCHANGED <<source, queue, waiting, tables, checking, calls, cleaning>>

-----------------------------------------------------------------------------
(* The interpreter. Its imports come on top of what a program declares     *)
(* itself; the importer had them below.                                    *)
link(p) ==
  ImportAll(Inserted(linked[p]), ImportsOf[p], [q \in Files |-> Cleaned(q)])

LinkProgram(p) ==
  /\ phase = "link" /\ p \in waiting
  /\ link(p).thrown = "none"
  /\ linked' = [linked EXCEPT ![p] = link(p).scope]
  /\ waiting' = waiting \ {p}
  /\ UNCHANGED <<source, phase, queue, tables, checking, calls, mainFqn, outcome>>

(* Only symbol_already_declared is made into an error that is shown.       *)
LinkFails(p) ==
  /\ phase = "link" /\ p \in waiting
  /\ link(p).thrown # "none"
  /\ End(IF link(p).thrown = "already" THEN "error" ELSE "abort")
  /\ UNCHANGED <<source, queue, waiting, tables, checking, calls, cleaning>>

Running(f) == [fun |-> f, next |-> 1]

StartMain ==
  /\ phase = "link" /\ waiting = {}
  /\ \E f \in get_function(linked[mainFqn], "*", <<"__main__">>) : calls' = <<Running(f)>>
  /\ GoOn("run")
  /\ UNCHANGED <<source, queue, waiting, tables, checking, cleaning>>

MainNotThere ==
  /\ phase = "link" /\ waiting = {}
  /\ get_function(linked[mainFqn], "*", <<"__main__">>) = {}
  /\ End("error")
  /\ UNCHANGED <<source, queue, waiting, tables, checking, calls, cleaning>>

(* What a use in the body of a copy means when it is run. No action stands *)
(* for a use that is not found: LinkedAsChecked says that there is none.   *)
LinkedScope == linked[Top.fun.id[1]]
Meant(use) ==
  CASE use.kind = "call" -> get_function(LinkedScope, use.ns, use.name)
    [] use.kind = "variable" -> Entries(LinkedScope, "variable", use.ns, use.name)

RunUse ==
  /\ phase = "run" /\ HasUse /\ Use.kind # "call"
  /\ Use.kind = "variable" => Meant(Use) # {}
  /\ calls' = [calls EXCEPT ![Len(calls)].next = @ + 1]
  /\ UNCHANGED <<source, phase, queue, waiting, tables, checking, cleaning, outcome>>

RunCall ==
  /\ phase = "run" /\ HasUse /\ Use.kind = "call"
  /\ \E f \in Meant(Use) :
       calls' = Append([calls EXCEPT ![Len(calls)].next = @ + 1], Running(f))
  /\ UNCHANGED <<source, phase, queue, waiting, tables, checking, cleaning, outcome>>

RunReturns ==
  /\ phase = "run" /\ calls # <<>> /\ ~HasUse
  /\ calls' = Front(calls)
  /\ IF Len(calls) = 1 THEN End("ran") ELSE UNCHANGED <<phase, outcome>>
  /\ UNCHANGED <<source, queue, waiting, tables, checking, cleaning>>

-----------------------------------------------------------------------------
Init ==
  /\ program \in Programs
  /\ phase = "import"
  /\ queue = Order
  /\ waiting = {}
  /\ scopes = [p \in Files |-> EmptyScope]
  /\ complete = FALSE
  /\ copies = {} /\ used = {} /\ checked = FALSE
  /\ calls = <<>>
  /\ linked = [p \in Files |-> EmptyScope]
  /\ mainFqn = ""
  /\ outcome = "running"

Next ==
  \/ ImportProgram \/ ImportRefused \/ ImportDone
  \/ CheckMain \/ MainMissing \/ CheckVariable \/ CheckConstructor \/ CheckCall
  \/ NotFound \/ CheckReturns
  \/ (\E p \in Files : CleanProgram(p) \/ CleanAborts(p) \/ StatementFound(p))
  \/ CleanDone \/ MainProgramMissing
  \/ (\E p \in Files : LinkProgram(p) \/ LinkFails(p))
  \/ StartMain \/ MainNotThere \/ RunUse \/ RunCall \/ RunReturns

Spec == Init /\ [][Next]_vars

-----------------------------------------------------------------------------
(* compiler.cpp:483-508 goes on whatever failed. Still, what runs is the   *)
(* __main__ that the checker found for the file on the command line, in    *)
(* the copy it made of it, and only when the check went well, in scopes    *)
(* that are complete.                                                      *)
RunsChecked ==
  phase = "run" =>
    /\ checked
    /\ \A p \in Files : run_imports_util(p) = Inserted(scopes[p])
    /\ calls # <<>> => /\ calls[1].fun \in copies
                       /\ calls[1].fun.id \in {f.id : f \in MainFound}

(* Names are looked up twice, in scopes filled at different times, in      *)
(* different orders and with different things. Whatever runs finds, under  *)
(* the name the check left in its body, what the check had found.          *)
LinkedAsChecked ==
  phase = "run" /\ HasUse /\ Use.kind # "constructor" =>
    {e.id : e \in Meant(Use)} = {Use.target}

(* importer.cpp:558: what is not public is only ever found from within the *)
(* file that declares it.                                                  *)
PrivateKept ==
  \A c \in copies : \A i \in DOMAIN c.body :
    LET target == c.body[i].target
    IN target[1] = c.id[1] \/ program[target[1]][target[2]].public

(* What comes into the scope of p: what it imports, in order, and itself.  *)
Sources(p) == Append(ImportsOf[p], p)
Entry(p, at) == program[Sources(p)[at[1]]][at[2]]
Own(p, at) == at[1] = Len(Sources(p))
PlacesOf(p) == UNION {{k} \X DOMAIN program[Sources(p)[k]] : k \in DOMAIN Sources(p)}
Entering(p) == {at \in PlacesOf(p) : Offered(Entry(p, at), Own(p, at))}
Before(a, b) == a[1] < b[1] \/ (a[1] = b[1] /\ a[2] < b[2])

(* A declaration that keeps one behind it out.                             *)
Bars(d, e) ==
  /\ d.ns = e.ns
  /\ \/ d.name = e.name /\ e.kind = "variable"
     \/ d.name = e.name /\ d.kind = "type" /\ e.kind = "type"
     \/ d.name = e.name /\ d.kind = "function" /\ e.kind = "function" /\ collides_with(d, e)
     \/ d.kind = "type" /\ e.kind # "type" /\ e.name = d.cons
     \/ e.kind = "type" /\ d.kind # "type" /\ d.name = e.cons
     \/ d.kind = "type" /\ e.kind = "type" /\ d.cons = e.cons

(* A type is found by the name of its constructor.                         *)
FoundBy(d) == IF d.kind = "type" THEN d.cons ELSE d.name
NamedAsNamespace(p, at) ==
  \E k \in 1..at[1] : \E n \in NamespacesOf(Sources(p)[k]) : FoundBy(Entry(p, at)) = <<n>>

Barred(p) ==
  \/ \E a, b \in Entering(p) : Before(a, b) /\ Bars(Entry(p, a), Entry(p, b))
  \/ \E at \in Entering(p) : NamedAsNamespace(p, at)

(* The tables refuse a program if and only if two of its declarations bar  *)
(* one another, in the order they come in, or one is named as a namespace: *)
(* no third declaration and no half inserted type matters (scope.cpp:119,  *)
(* dtable.cpp:266).                                                        *)
CollisionsPairwise ==
  \A p \in Files :
    /\ p \notin ToSet(queue) /\ phase = "import" => ~Barred(p)
    /\ phase = "check" /\ ~complete /\ queue # <<>> /\ Head(queue) = p => Barred(p)

(* What the importer accepts and a later phase trips over. The copies come *)
(* in another order, those of types even if they are not public.           *)
Arriving(p) == {at \in PlacesOf(p) : at \in Entering(p) \/ Entry(p, at).kind = "type"}
Sooner(p, a, b) == IF Own(p, a) <=> Own(p, b) THEN Before(a, b) ELSE Own(p, a)

(* Two functions of which there can be copies with the same types.         *)
CopiesMeet(d, e) ==
  /\ d.kind = "function" /\ e.kind = "function"
  /\ \E t \in {d.param, e.param, d.ret, e.ret} :
       d.param \in {"a", t} /\ e.param \in {"a", t} /\ Bound(d.ret, t) = Bound(e.ret, t)

(* A declaration whose copy can keep one behind it out.                    *)
CopyBars(d, e) ==
  /\ d.kind # "statement" /\ e.kind # "statement" /\ d.ns = e.ns /\ d.name = e.name
  /\ \/ e.kind = "type" /\ d.kind = "type"
     \/ e.kind = "variable" /\ (d.kind = "type" \/ IsMain(d))
     \/ CopiesMeet(d, e)

Overlooked(p) ==
  \/ HasStatement(p)
  \/ p # Main /\ DeclaresMain(p)
  \/ \E a, b \in Arriving(p) : Sooner(p, a, b) /\ CopyBars(Entry(p, a), Entry(p, b))
  \/ \E at \in Entering(p) : /\ Entry(p, at).kind = "variable"
                            /\ \E q \in ToSet(Sources(p)) : \E n \in NamespacesOf(q) : Entry(p, at).name = <<n>>

(* A program that was imported and checked runs, to its end, unless: a     *)
(* file has statements outside functions; another has a __main__, too (the *)
(* main program is the first found in the order of a hash table,           *)
(* cleaner.cpp:105); or the tables refuse, in the order of the second      *)
(* import (interpreter.cpp:1924), what they took in that of the first: two *)
(* copies of functions that have the same types, two types of one name of  *)
(* which one is not public, a variable behind a type or __main__, or one   *)
(* that is named as a namespace that came later the first time.            *)
RefusedExplained ==
  complete /\ checked /\ outcome \in {"error", "abort"} => \E p \in Files : Overlooked(p)
=============================================================================
