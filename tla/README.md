# TLA+ models of the avalon compiler and interpreter

`avaloni` reads a program in avalon, a language with classical and quantum
values, checks it and interprets it. Everything runs in one thread, in phases:

    source -> scanner -> lexer -> parser -> importer -> checker -> cleaner -> interpreter
                                               |           |                     |
                                               |        inferer,             quantum processor
                                               |     specialisation             (qpp)
                                               +-- scanner, lexer, parser again for each import

The difficulty is not concurrency. It lies in state that outlives the call that
set it (flags, counters, indices, tables), in recursion over graphs the user
supplies, and in long sequences of legal calls. The models below keep that
control and abstract the data it runs on.

Paths are relative to the root of the repository; the code is under `src/`.

## Inventory

| Component | State | Operations and interactions | What makes it hard | What makes it correct |
|---|---|---|---|---|
| scanner (`src/scanner`) | none | reads a file | - | - |
| lexer (`src/lexer`) | position, tokens, indentation stack, bracket counts, three line flags, first indentation | `lex` calls `tokenize`, `whitespace`, `tabulation` until the source ends; the parser takes the tokens | three flags decide where a logical line begins; several levels close at once; brackets and backslashes hide line ends | INDENT and DEDENT match; the tokens are those the layout stands for |
| parser (`src/parser`) | position in the tokens, "inside a map" | recursive descent, builds the syntax tree; after a minor error it looks for a place to resume at | relies on INDENT/DEDENT; seventeen levels of operators; a flag that an error leaves set | a file means what it says; an error costs the declaration it is in and no other; every round takes a token |
| token (`src/lexer/token.cpp`) | none | a type, a lexeme and a place | - | - |
| syntax tree (`src/representer/ast`) | declarations with a validation state, literals with qubit indices, functions with specialisations | accessors; shared by all later phases | shared pointers: one phase changes what another holds | - |
| symbol tables (`src/representer/symtable`) | `gtable` (programs), `scope`, `dtable`, `ctable` | insert and look up; scopes insert into their parents too | kinds of declarations collide differently, in an order-dependent way; an insertion of several entries fails half way | a program is refused for two of its declarations, never for a third or for what a failed insertion left |
| builtin programs (`src/representer/builtins`) | declarations made anew for each use | imported into every user program | import one another, string would be part of a cycle | - |
| importer (`src/importer`) | `m_gtable`, `m_deps`, `m_dep_states`, `m_sorted_deps` | parses imports recursively, sorts them, fills the scope of each program | cyclic and repeated imports, names that collide, order of a hash table | ends on every graph; a program is completed after what it imports |
| checker (`src/checker`) | validation states; `block_checker`: count of declarations, "inside a loop"; marks on statements | checks `__main__` and what it calls, on the spot | state kept between nested blocks; mutually dependent types; failure half way through a type | what is accepted can run; what is refused cannot |
| inferer and specialisation (`src/inferer`, `function_generator.cpp`) | specialisations added to the root function | a call generates, names and checks a copy of its callee | recursion of functions; the specialisation is added after its check | each specialisation checked once, before it is used |
| cleaner (`src/cleaner`) | a new `gtable` | keeps specialisations in place of functions, picks the main program | the main program is picked from an unordered map | what the check found under a name is what runs under it |
| compiler driver (`src/compiler`) | none of its own | calls the phases | goes on to the next phase after a failed one | nothing unchecked runs |
| interpreter (`src/interpreter/interpreter.cpp`) | `m_break_loop`, `m_continue_loop`; values in the variables of the syntax tree | mutually recursive functions for statements and expressions | flags and returned pairs together do break, continue and return; parameters are shared by all calls | structured control flow |
| quantum processor (`src/interpreter/qprocessor.cpp`) | `m_ket`, `m_length`, `m_literals`; indices and a flag in every literal | `add_ket`, `apply`, `capply`, `measure`, driven by declarations and builtins | a measurement renumbers what is behind it; literals are added again in loops | an operation acts on the qubits of the variables it names |
| quantum builtins (`src/interpreter/builtins/lang/avalon_qubit.cpp`) | none | check arguments, call the processor, set the flag | order of the checks; exceptions of qpp are caught nowhere | - |
| classical builtins (`src/interpreter/builtins/lang`) | none | arithmetic, comparisons, conversions | width of bits, division, conversions from strings | result within the width |
| errors, utilities, `main.cpp` | none | messages, paths | - | - |

## Modules

### The quantum processor

`QProcessor.tla` models `qprocessor.cpp` with the two places that drive it. The
ket is the sequence of the qubits it is the tensor product of; a qubit is named
by its literal, the execution of its declaration and its place. Amplitudes,
the matrices of gates and the outcomes of measurements are abstracted away:
nothing in the bookkeeping depends on them.

| Model | Code |
|---|---|
| `ket`, `empty`, `length`, `registered` | `m_ket`, `m_ket.size() == 0`, `m_length`, entries in `m_literals` |
| `startIndex`, `endIndex`, `wasMeasured` | the fields of `literal_expression` |
| `Declare`, `AddKet` | `interpret_variable`, `add_ket` |
| `Apply`, `CApply`, `Measure` | `qubit_apply`, `qubit_capply`, `qubit_measure` with the processor's operation |
| `Shifts` | the loop over `m_literals` in `measure`, which meets a literal once per entry |
| `Fail` | an exception: "error" is reported, "abort" is one of qpp, which nothing catches |

`m_length` is not initialised by the constructor: it starts with any member of
`Junk`. Global quantum variables are never added to the processor (no block
executes their declaration), yet a program can name them; they are `Globals`.

`QubitStore.tla` is the promise: a store in which every execution of a
declaration owns its qubits, operations act on exactly the qubits of the
variables they name, and fail only on measured variables, on several qubits at
once, and on a gate controlled by its own target. There are no registers and
no indices in it.

### Statements

`Statements.tla` is the form of function bodies. `StructuredFlow.tla` is the
promise: break, continue and return are each one jump to the innermost loop or
call. `ControlFlow.tla` is the interpreter: the C++ functions on the stack are
`frames`, and `BlockAfter`, `LoopAfter` and `CallAfter` are what
`interpret_block`, `interpret_while` and `interpret_user_function` do with the
flags and the pair that come back to them. Conditions are a free choice. `InPlace`
says of the functions of a program that their blocks can be told apart into those
outside of loops, those within one and those that are the body of one, so that no jump
stands where its flag would be for another loop; it is the hypothesis of the proofs.

`BodyChecker.tla` is `block_checker` and `termination_checker`, with their state
threaded through the walk, as operators. `CheckedProgram.tla` composes checker
and interpreter: only an accepted `__main__` runs, so that the properties of the
interpreter are stated of the programs that can reach it. `AcceptedInPlace` says that
the checker accepts none that is not `InPlace`.

### The importer

`Imports.tla` is the data: files, what they import and declare, and the builtin
programs with their fixed imports. `BuildOrder.tla` is the promise: programs
are completed once, after what they import, with their own names and the public
ones of what they import; failures have a reason in the import graph.
`Importer.tla` is the code: `generate_deps` and `sort_deps_util` call
themselves, `calls` is their stack and one step is one turn of their loops. The
order of the unordered maps is free (`SortRoot`).

A function comes into scope only if its header is in order; `bad` are the files in
which one is refused, and why one is refused is the next section's matter.

### Types

`TypeDecls.tla` holds the declarations, what is in scope, and what it means that a
type is well formed: the largest set of types whose constructors depend on
members of the set only. `TypeChecker.tla` is `type_checker.cpp`: one operator for
each of its functions, which take the validation states (`valid`) and hand them on
with a result or an exception, as the code leaves them behind when it throws.
`Meet` is one call from a header or a variable; the states persist from one to
the next, and the history `verdict` ends with the first refusal, as a
compilation does.

| Model | Code |
|---|---|
| `valid` | `m_is_valid` of the types |
| `SimpleCheck`, `ComplexCheck` | `type_instance_checker::simple_check`, `complex_check`; `abstract` and `depends` are the returned pair |
| `CheckDependency` | `constructor_checker::check`, both forms, for one parameter |
| `CheckType` | `type_checker::check` |
| `thrown` | the exception a call ends with |

### The symbol tables

`SymbolTables.tla` is `scope`, `dtable` and `ctable`: a scope is its namespaces, its
entries and the kind of declaration recorded for each name first. `add_type`,
`add_function`, `add_variable` and what they call are operators that hand on the
scope as they leave it, also when they throw, and the exception: the phases tell
`symbol_already_declared` from `symbol_can_collide`. A declaration carries its
file and its place, since two of them may be alike otherwise. Functions take one
parameter, types have one constructor without parameters; scopes of blocks and
their parents are left out.

### The driver

`Driver.tla` composes the phases behind the parser, as `compiler::interpret` strings
them together, over those tables.

| Model | Code |
|---|---|
| `queue` | the programs `run_imports` has not come to, in their order |
| `waiting` | those the loop of `clean`, then of `interpreter::import_declarations` has not come to, in the order of an unordered map |
| `ImportProgram`, `ImportRefused`, `ImportDone` | `run_imports_util` of one program; `complete` tells whether `import_all` returned the table |
| `CheckMain` ... `CheckReturns` | the checker: `calls` are the functions being checked, each within the one before; `CheckReturns` adds the specialisation and sets the callee in the body of the caller |
| `CleanProgram`, `CleanAborts`, `StatementFound` | `clean_program` with the copy of the namespaces and `ns::set_scope`; an exception nothing catches; a `clean_error`, with which the whole table is lost |
| `LinkProgram`, `LinkFails` | the second import, on top of what the program declares itself |
| `StartMain` ... `RunReturns` | `interpret_program`, `interpret_call`, `interpret_identifier` |

Every phase goes on with what the one before it left. A name is looked up
twice, by the checker in the scopes of the importer and by the interpreter in
scopes that were filled later, in another order and with copies in the place of
functions: `LinkedAsChecked` says that both find the same declaration.
`RefusedExplained` says when the second time does not go well though the first did: if two
declarations of which one did not bar the other in the order of the importer, or
could not since it is private, do so as copies (`CopyBars`) in the order of the
interpreter (`Sooner`), and else only for a statement or a second `__main__`
(`Overlooked`).
`CollisionsPairwise` says what the tables amount to: `Entering` are the places of the
declarations that come into the scope of a file, and the file is refused exactly if one
of them `Bars` one `Before` which it comes, or is named as a namespace. Left out are
the builtin programs (nothing here collides with them), the headers of functions
(`TypeChecker`), how files are found, parsed and sorted (`Importer`), and functions that
call themselves, whose check does not end.

### Expressions

`Expressions.tla` has the parts of the syntax tree that the later
phases ask: comparisons and weights of type instances, and records of one shape
for all kinds of expressions with the predicates they have. Then one module per
component:

| Module | Code |
|---|---|
| `FunctionSearch` | `function_checker.cpp` (search), `function_generator.cpp` (the copy for the types of a call) |
| `Inferer` | `inferer.cpp`: the type of every kind of expression |
| `ExpressionChecker` | `expression_checker.cpp`: which expressions are accepted |
| `StatementChecker` | `variable_checker.cpp` and the typed statements of `block_checker.cpp` |
| `Evaluator` | `interpreter.cpp`: the value of every kind of expression, references and matches included; operators are those of `Builtins` |
| `ExpressionPrograms` | the composition: a body is checked statement by statement and, if accepted, interpreted |

`infer`, `check` and `interpret_expression` call themselves through every function
of their components, with one `RECURSIVE` operator as the hub of each (`Evaluation`
in `Evaluator`): mutual recursion of twenty declared operators is something neither a
reader nor TLC handles well. What the code writes into the expressions is not there, with one
exception that matters: a declaration keeps the value it computed in the place
of its initializer.

A match takes a call for an identifier, and the reverse, without a look at its class
(`interpreter.cpp:1721`, `1751`). The model has what the layout of the two
classes makes of it: as the name of a call, an identifier offers its namespace; as the name of
an identifier, a call offers bytes of its token, which equal no name. Both read
as a mismatch, unless a namespace has the name of the constructor: then the evaluation
ends with `misread`, which stands for undefined behaviour.

### The builtins

`Values.tla` has the values: records with a type instance and a form, the two marks
the code tells literals apart by. `BuiltinFunctions`
has the implementations, `Builtins` the search for one by name and types
(`avalon_function.cpp` and the dispatch in each file), `BuiltinPrograms` the
declarations, which nothing ties to the implementations. `BuiltinCalls` calls
any declared function with any arguments of the types it declares, among them
the result of the call before. Integers have `IntBits` and wrap. A string is a
sequence of characters, some of which are words.

A float is kept in a literal as text, counted in quanta: 36 decimals in the code, one in
the model. Every operation reads its arguments as doubles (`get_float_value`), whose significand
has `DoubleBits`, rounds its exact result to a double (`Double`) and prints it
(`Printed`); beyond `MaxFloat` there are infinities and NaN, and a text that no
double can hold is refused. A power of integers goes through doubles as well (`Power`): operands
and result are rounded and cut to an integer, so `MaxInt ** 1` is the least integer.
`std::pow` is taken to round to the nearest double; the host's may be one off in the last
place where the power is not exact. The cast of a double beyond the integers is undefined in
C++; the model has what the conversion of x86-64 returns, the least integer. `int_float`
goes through a float, whose significand has `SingleBits`. The sign of a zero and doubles too
small to be printed are left out.

`Agrees` states the accuracy that is left: integers are exact wherever they fit; a power or
a float is exact where the significand holds operands and result, and elsewhere within one
part in `2 ^ DoubleBits` (and half a quantum of its text). It does not say that `3 ** 39`
is exact, which needs 62 bits.

### The parser

`SyntaxTrees.tla` says what a source means: trees, how a tree reads as tokens, which
trees can be written without further parentheses (`Proper`), and the trees that
a correct parser makes of them. It knows nothing of the parser. `Parser.tla` is
`parser.cpp`, function by function: each takes a position and returns one with
the tree, the flag `m_inside_map` and the kind of error; `Parse` is the one hub of their
mutual recursion. Its actions are one round of the loop in `prog` (`Declare`), a minor error
(`Recover`, with `synchronize`), a fatal one (`Stop`) and the end.
`ParsedPrograms.tla` gives it files: programs as they should be, and programs with
one token removed, replaced or added, as far as the lexer can deliver them
(`Lexed`: levels begin and end between lines, brackets match).

### The lexer

`Layout.tla` says what a source text is and what its layout means, line by
line, as for any language with the offside rule and not from the lexer: a text is well
laid out (`LaidOut`) if its logical lines are indented in steps of `unit` blanks, a tab
each if there are tabs, go at most one level deeper than the logical line before them and
nest their brackets, counted by kind as the lexer does; lines without tokens may stand
anywhere; the last line end may be missing. `TokensExpected` are the tokens such lines
stand for. One text is left out that a reader may expect: a last line of nothing but
blanks and without a line end. The lexer looks for a line end or a comment
behind the blanks (`lexer.cpp:614-629`), finds neither and takes the end of the source for a
token, so that it may emit an INDENT and its DEDENT behind the last line (`MayCut`).
`Lexer.tla` is the lexer over the symbols layout can tell apart: a word,
an operator, brackets, comments, blanks, tabs, line ends and the backslash.
Each action is one branch of `tokenize`, `whitespace` or `tabulation` with all
it consumes and emits. The blanks of one line are consumed in one step.

## Runs

| Run | Instance | Shows |
|---|---|---|
| `QProcessor` | three single qubits, one literal of two, each declared at most once, junk 0 or 5 | `TypeOK`, `LengthIsKet`, `OwnQubits`, `NoOrphans`, `ImplementsStore` |
| `CheckedPrograms` | some thousands of programs of two functions | `FlagsSpent`, `RefusalsJustified`, `EndsExplained`, `AcceptedInPlace`, `ImplementsStructured` |
| `CheckedNested` | continue inside an if | violates `ImplementsStructured` |
| `Importer` | all import graphs of three files with up to two imports each, and a missing file; a header of b is in order or not | `TypeOK`, `RecursionBounded`, `QueueSorted`, `ImplementsBuildOrder`, `Ends` |
| `Lexer` | sources of up to five lines | `TypeOK`, `IndentsMatch`, `LayoutKept` |
| `Parser` | 2000 programs; 6000 files with one token changed | `RoundTrip`, `AcceptedMeans`, `Recovers`, `Advances` |
| `TypeChecker` | 1300 programs of three types, one of them in a namespace, one with a parameter; two files | `AcceptedWellFormed`, `RefusedIllFormed`, `MarksSettled` |
| `TypeCheckerNested` | an ill-formed type in a list | violates `AcceptedWellFormed` |
| `BuiltinCalls` | every builtin function, integers of 5 bits, doubles with a significand of 2, bit strings of all widths | `ReturnsDeclared`, `Agrees`, `ReadsBack` |
| `Expressions` | bodies of up to five of 27 declarations and 80 expressions that belong together | `TypesKept`, `FailsExplained`, `MatchDecides`, `ElementsAgree`, `OthersKept` |
| `ExpressionsCalls` | two calls of one function | violates `CallsFresh` |
| `Driver` | 20500 programs: `lib` with up to three declarations, `also` with up to two, `main` with `__main__` and one more | `RunsChecked`, `LinkedAsChecked`, `PrivateKept`, `CollisionsPairwise`, `RefusedExplained` |

Bounds, and why they are enough:

- Four literals are enough for a measured literal to have one before it, one of
  another width behind it and one behind that; renumbering looks at two literals
  at a time. The proofs lift the bound, and for `TypeOK` and `LengthIsKet` they
  include programs that no run has: quantum declarations in loops, which add
  a literal to `m_literals` several times, and global quantum variables.
- Programs nest a block in a loop or conditional in a loop in a called function:
  flags can only be seen by the frames between where they are set and where they
  are spent, and each kind of frame occurs there. `__main__` calls `f` from within
  a loop, so a flag that survived `f` would end it. `CheckedPrograms` has continue
  only at the top of its loop; `CheckedNested` is what happens otherwise. A
  function that calls itself is left out: its check does not terminate
  (see the hazards).
- Three files give every shape of graph a search can be wrong about: a cycle of one,
  two and three, a diamond, a file imported twice, a cycle behind a finished
  part, a missing file behind a cycle. One declared name is private in one file
  and public in another, one is private in two.
- Three types make a cycle of two with a third behind it, which is what it takes
  for a check to rest on one that fails later. In `TypeChecker` nothing but builtin types
  and the parameter is nested in another instance, every type is declared in `lib`
  with all that it needs, and no name is in both namespaces; the first of these
  limits is what `TypeCheckerNested` lifts, and the hazards
  in `PROJECT.json` say what is behind the others.
- Four lines at four levels open three levels and close them at once, a fifth closes
  two and leaves one open; shorter sources have a blank
  or comment line in between, and the errors need one line each.
- In `Parser` every form of expression stands in every place of every other, which
  is where a wrong level or a wrong order of operands shows. One changed token
  makes an error; a second would mostly meet the parser where the first left it.
- In `BuiltinCalls` five bits hold a least and a greatest integer, products that
  wrap, quotients that do not come out even, and powers in the range that a significand of
  two bits holds (`3 ** 1`, `6 ** 1`) or does not (`3 ** 2`); sums, products and texts of floats
  are rounded in it too. The bit strings have the widths of the code. Strings of two characters hold a number with a sign or a word.
- In `Expressions` a statement of each kind meets every declaration it can name. What
  goes wrong takes a declaration, a reference to it, an assignment and a use: four
  statements, and the bound is five.
- In `Driver` two files are the declaring and the importing one. The pools hold, for
  each pair of kinds, two declarations of one name; a public and a private one; a
  constructor and a namespace of that name; functions of one name that overlap
  and that do not; and bodies that reach each of them, through up to three calls. The third
  file, `also`, is imported behind `lib`: what the importer's own order kept apart, a private
  type and a public one, or a namespace and a variable, meets there the second time. The order
  of the cleaner and the interpreter is free in all of them.

`CHECK_DEADLOCK FALSE` stands in every configuration: programs, imports,
sources and compilations end. A use that is not found at run time has no action in
`Driver`; that it cannot happen is what `LinkedAsChecked` says.

Fairness is assumed only of the importer: weak fairness of its next-state
relation. It runs in one thread and none of its steps waits for anything, so it
takes a step as long as it has one. `ControlFlow` and `Expressions` claim no
liveness: an avalon program may loop for ever. The parser and the driver do come to an
end, but a fairness condition makes TLC evaluate whether `Next` is enabled, that is, parse
or import again, at every state, which takes longer than the whole check; in its place
`Advances` says that every round of the parser takes a token.

What the violations are about is in the comments of the properties: each quotes
the line of the code that says what the code does not do.

What a property leaves out is named in it: `FailsExplained`, `EndsExplained` and
`RefusedExplained` list every reason for which an accepted program fails, comes to
an end without a return, or is refused by a later phase; each reason is a case
of the run, and without it the run finds a violation.

## Divergences no run states

Met while modelling, and kept in the models as the code has them. Three sets of
statements in `MCExpressions` show some of them when they are offered in place of
`MCOffered`: with `OfferedOperators` the property `FunctionFits` is violated, with
`OfferedReassigned` `ImmutableKept`, with `OfferedElements` `TypesKept`. `BitsDiffer` of `BuiltinCalls` is
violated on the instance of the run `BuiltinCalls` when it is checked there.

- Interpreter: a function may come to its end without a value behind an `if` or a
  `while` that the termination checker took for its end. A quantum declaration that
  is executed twice finds its flag that it was measured still set. The inequality
  of two single bits is not the opposite of their equality, and those of wider bits
  are declared and carried out by nothing.
- Parser: an error within the key of a map leaves `m_inside_map` set for the rest of
  the file. A fatal error hands on the program read so far as if it had been parsed. The
  statements of a function behind a minor error become declarations of the file. A condition
  that begins with a parenthesis is taken for one that is wholly in parentheses.
  Specialised calls `f<T>(x)` are never reached. A constructor with `()` is refused,
  and its first parameter cannot be a list, a tuple, a map or a reference. The comma is optional
  behind a named first element of a tuple. The body of a `while` is parsed in
  the scope around it.
- Symbol tables: `insert_variable` records the variable as a function, so that a
  function or a type behind a variable of its name is accepted and before it is not;
  a variable declared twice is thrown as one that can collide.
- Second import: a program puts what it declares itself first, where the importer has it
  last, and the copy of a private type is public. So the importer accepts what the
  interpreter refuses, mostly with an exception that nothing catches: an own type, or the own
  `__main__`, and a public variable of its name in an imported file; an own namespace,
  or one of a later import, of the name of such a variable; two types of one name of
  which one is private; a private type of one import and a variable of its name in the next. Copies
  of two functions that differ in their returned types collide when they get the same types.
- Main program: the `__main__` of another file may be taken for the main one, as the
  order of an unordered map has it; a file without one runs that which it imports. A statement in any
  file loses the whole table.

## Proofs

`QProcessorProofs.tla` proves, for any literals of any width,

- `TypeCorrect`, `LengthCorrect`: `TypeOK` and `LengthIsKet` for every program,
  loops and globals included, and
- `OwnQubitsCorrect`, `NoOrphansCorrect`, `ImplementsStoreCorrect`: the properties
  of the run `QProcessor` under `OncePrograms`, that is, with local quantum
  variables whose declarations run at most once. The assumption is needed: a
  second execution adds the same literal object again, with its flag.

`TypeOK` is not inductive: that a subtraction in `measure` stays a natural number
needs that a literal lies behind what is measured by at least as many qubits
as it is moved. `IndexInv` adds that indices and lengths fit together (a literal
that was never added has indices 0, an end is not before its start) and
`ShiftBound` bounds what the loop of `measure` subtracts. For `OwnQubits`,
`OwnInv` states both directions at once, from the literals to their qubits and
from the qubits to their literals: a measurement keeps the first only because of
the second, since it is the owner of a qubit that tells whether it lies before
or behind the measured one. `MeasureSeqAt` and `KronAt` say where a qubit is
after the ket changed. The refinement has one lemma per action, from `OwnInv`.

The assumptions are those of the module: local and global literals are different,
widths are positive, junk is some natural number.

`ImporterProofs.tla` proves, for any files and any import graphs, cyclic ones and
ones with missing files included, `TypeCorrect`, `RecursionCorrect` and
`QueueCorrect`: the safety properties of the run `Importer`. `QueueSorted` is not
inductive. It holds when a program is queued because the loop over its
dependencies got past each of them, and it got past them because they are
visited, which means queued; `SortInv` says so for every call on the stack, with the
exception of the dependency the call is waiting for. That the dependencies are all
that a program imports comes from the phase before: `GenerateInv` says that an
import is an edge already or is still to be met by the call that reads it.

`ImporterRefinement.tla` proves `ImplementsBuildOrderCorrect`: every step of the
importer is a step of `BuildOrder` or a stutter. `BuildInv` adds what `BuildOrder`
knows and the code never computes: the table holds what is behind the main
program (`ReachInv`); a call of the sort is behind those it is within, so that a
"visiting" program it meets is behind itself (`PathInv`); a program is queued once, and what
is completed is not queued (`QueueInv`); scopes are as built until they are filled
(`ScopeInv`). What is behind a program is defined as the least set closed under
imports, for which `BehindDirect`, `BehindFurther` and `BehindLeast` are all that is
needed and no induction is. The assumption is `ImportsAssumption` of `Imports`: the main
program is a file, no file has the name of a builtin program, and the graphs give each file
a sequence of names.

`LexerProofs.tla` proves `TypeCorrect`, `IndentsCorrect` and `LayoutCorrect`, the properties
`TypeOK`, `IndentsMatch` and `LayoutKept` of the run `Lexer`, for any sources over the
symbols of `Layout` (`SourcesAssumption`), of any number of lines of any length. The
first two hold well laid out or not. `LexInv` adds that only the first level is the margin:
without it the first indentation of a source could be met with levels open.
`TimesConcat` and `TimesCopies` count what a step adds to the tokens.

`LayoutCorrect` needs to know where in the lines the lexer is. `LayoutInv` says that it is
before a line (`BeforeLine`), within a line without tokens (`InEmptyLine`) or within a
logical line (`InLogicalLine`), and for each what the tokens, the levels, the flags and the
bracket counts are: the tokens of the lines before (`Done`), what leads to the
level of this one (`Lead`), and those of the symbols of its body read so far (`Read`);
`Ladder` has the levels 0, 1, 2, ... open. The text, the tokens and the expected tokens are
concatenations of lines, the `FlattenSeq` of the community modules; `Joined` names the
concatenation of each prefix, and `JoinedIs`, `FlattenIsJoined` and `JoinedAt` say what it is
and where each part stands in it. The prover cannot take the library's inductions, so that
functions over an interval are shown to exist and to be what they say (`Iterates`,
`UpToAll`) from the least element of a set of numbers. `SymbolsAt` then says which symbol
the lexer reads at each place of a line, `DepthNext` what a symbol does to the open
brackets, `MarginAt` what `whitespace` finds; the lemmas `Step...` take a
step in each place.

`ControlFlowProofs.tla` proves of the interpreter of statements, for any functions,
blocks nested to any depth and calls within calls, recursive ones included,

- `FlagsAlwaysSpent`: `FlagsSpent`, if no break or continue stands outside a loop, and
- `RunsAsStructured`: `ImplementsStructured`, if besides every continue stands in the
  body of its loop itself; the run `CheckedNested` shows that it fails otherwise.

The hypothesis is `WellPlaced`, that is, `InPlace` for some division of the blocks. The
prover cannot evaluate the checker, which is recursive; that what the checker
accepts satisfies the hypothesis of the first theorem is `AcceptedInPlace`, which TLC
checks for the programs of the run. `FlagsSpent` is not inductive: whether the flag that
comes back to a frame is one that it clears depends on the frames below. `FlowInv` is
`Stack`, that every block on the stack is where its jumps are in place (a loop stands on
a block, a call on a block or at the bottom), and `FlagsOnTheWay`, that a
flag is up only while control comes back from a block to the loop below it, or,
for a break, through the blocks between. For the refinement, `Settled` is the stack that
structured control flow would have while a flag is on its way: each step
of unwinding is a stutter, or the one jump.

`DriverProofs.tla` proves of the phases, for any files, imports and declarations,

- `PrivateNeverFound`: `PrivateKept`. `TypeOK` bounds what a scope may hold by
  `Visible`, what its file declares and what is public; `CallsSeen` carries that
  through the calls being checked, each of which was found in the scope of its
  caller, into the bodies of the copies.
- `OnlyCheckedRuns`: `RunsChecked`, whatever phase failed before. `ScopesInOrder` is
  what each phase knows of the tables it was left; `MainChecked` follows `__main__`
  from the scope it was found in to the copy that runs. The copy is found by its
  name alone, so the invariant says that no other copy has it: the copies of
  callees go by longer names.
- `RunMeansChecked`: `LinkedAsChecked`, in whatever order the programs are cleaned and
  linked. `Tied` follows a use from the check to the run: what a body names is what
  its file finds in the scope of the importer (`UseTied`), a copy is of the function its place
  declares (`Stems`), and two copies of one function under one name are one copy. `Staged` says
  of each program whether its scope is what `set_scope` put there (`Fresh`) or what `link` made
  of it (`Full`). A scope that was filled without an exception has all that was to
  come into it (`SetScopeHas`, `LinkingHas`) and is `Tidy`: of two
  variables of a name, or two functions of a name that collide, it has one. The name of
  the copy of a callee ends with its types, so that two copies of one name collide
  (`NamedByTypes`).
- `RefusalsExplained`: `RefusedExplained`. `AllPass` is the heart: nothing overlooked, neither
  `set_scope` nor `link` throws. What arrives in a scope the second time comes in
  `Pieces`, a place and the copies made of what stands there; `Filled` says that a scope holds exactly
  the pieces so far, and that no exception was thrown. The next piece is `Sooner` than none of
  them; by `CopiesPass` no copy of one of them bars one of its own, and `AddJudged`, the same
  lemma that decides the insertions of the importer, says that it comes in. `MainThere` says that
  `__main__` is found then: the file on the command line is the one main program, its scope has the copy,
  and no other copy has the name. `Explained` adds to `Inv`, `Tied` and `Staged` that the
  copy of `__main__` was made if the check went well, that the main program of the cleaner
  declares one, and that nothing has ended before.
- `RefusedIfBarred` and `TablesRefusePairs`: `CollisionsPairwise`. `Holds` says that a scope
  is made up of the declarations added to it, each type with its constructor, that what
  is recorded under a name is there because of one of them, and that nothing is recorded
  as a variable, which is the slip of `insert_variable` the code depends on. From it
  `Kept` is shown to decide every insertion, and `Judged` that
  all insertions so far went well exactly if no two of what came in bar one another.
  `RefusalStands` keeps the program that was refused in its place while the rest is
  checked.

The inductive invariant of the first two is `Inv`, the conjunction of those parts;
`RunMeansChecked` and `RefusalsExplained` add `Tied` and `Staged`, and the latter `Explained`. What
a scope holds is the outcome of a recursive function over the declarations. The
library's induction takes an operator as a parameter, so `Iterates` is an
induction for a *set* of numbers: an iteration that exists and stays in a set
(`AddAllKeeps`, `ImportAllKeeps`, `SetScopeKeeps` and the like), or
reaches a set that depends on how far it is (`AddAllReaches`, `ImportAllReaches`). The
assumptions are `FilesAssumption` (the files are what was put in order, each once, and
import only files before them, which is what `QueueCorrect` proves of the importer) and
`ProgramsAssumption` (a declaration is of one of the four kinds, knows
its place and has a name of one token; a name the checker makes has more). `Tokens` names
the type "list", which the prover does not know to be a string.

Only model-checked:

- `Ends` of the importer: liveness is beyond the prover. `Advances` of the parser
  and everything else about modules with recursive operators on nested data, which
  the prover cannot take: the parser, the checkers of bodies, types and
  expressions, the inferer, the evaluator and the builtins (whose bits besides
  come from `Bitwise`).
- `RefusalsJustified`, `EndsExplained` and `AcceptedInPlace` of `CheckedProgram`: the checker
  is a recursive operator on the nested blocks.

## What is not modelled

- Amplitudes and gate matrices; qpp is external, and only its checks of
  subsystem indices are modelled, from how `qprocessor.cpp` calls it.
- The inside of names, numbers and strings, and carriage returns, in the lexer.
- Quantum values in expressions; types and conditions of control statements; statements of control
  inside generic functions.
- Local scopes and their parents, and the arity of functions and types in the symbol
  tables: `Imports` and `SymbolTables` have names.
- Tokens, messages, the scanner, the search of paths, `main.cpp`: values, input and
  output.
- The sdk, which holds programs in avalon.

## Plan

1. Headers: the order of declarations decides what is in scope when a header is checked
   (`importer.cpp:569`); `SymbolTables` with the types of `TypeDecls`, in place of `bad`.
2. Scopes of blocks: insertion into parents, and what a variable that hides another
   does to the copies of a function.
3. Specialisation with control statements, and functions that call themselves, whose check
   does not end (`inferer.cpp:462`).
4. Proofs: the parser and the checkers are recursive operators on nested data; as state
   machines with a stack, as the interpreter of statements is, they could be proved about.
