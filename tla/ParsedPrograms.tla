---------------------------- MODULE ParsedPrograms ----------------------------
(***************************************************************************)
(* The parser with the files it is given: what was written, as trees, and  *)
(* the same with one token removed, replaced or added.  Nothing remembers  *)
(* whether an error was shown (reported is no part of the code): the       *)
(* program is handed on as it is.                                          *)
(***************************************************************************)
EXTENDS Parser

CONSTANTS
  Programs,     \* files as they should be, each a sequence of declarations
  Disturbed,    \* files of which one token of the first declaration is changed
  Spares        \* the tokens that are put in

VARIABLES
  declarations, \* what was written
  edited,       \* one of its tokens was changed
  reported      \* an error was shown

allVars == <<vars, declarations, edited, reported>>

Changed(source, i) ==
  {RemoveAt(source, i)} \cup {ReplaceAt(source, i, t) : t \in Spares \ {source[i]}}
                        \cup {InsertAt(source, i, t) : t \in Spares}

(* The files that the lexer can deliver (Lexer models it): lines end, and  *)
(* levels begin and end between lines, never within brackets, which are    *)
(* closed in the order of each kind.                                       *)
Brackets == {<<"LEFT_PAREN", "RIGHT_PAREN">>, <<"LEFT_BRACKET", "RIGHT_BRACKET">>, <<"LEFT_BRACE", "RIGHT_BRACE">>}
Layout   == {"NEWLINE", "INDENT", "DEDENT"}
Open(source, i, b) == Cardinality({j \in 1 .. i : source[j].type = b[1]})
                      - Cardinality({j \in 1 .. i : source[j].type = b[2]})
Lexed(source) ==
  \A i \in DOMAIN source :
    /\ \A b \in Brackets \cup {<<"INDENT", "DEDENT">>} : Open(source, i, b) >= 0
    /\ source[i].type \in Layout => \A b \in Brackets : Open(source, i, b) = 0
    /\ LET before == IF i = 1 THEN "NEWLINE" ELSE source[i - 1].type
       IN  CASE source[i].type = "NEWLINE" -> before \notin Layout
             [] source[i].type = "INDENT" -> before = "NEWLINE" /\ i > 1
             [] source[i].type \in {"DEDENT", "EOF"} -> before \in {"NEWLINE", "DEDENT"}
             [] OTHER -> TRUE
  /\ Open(source, Len(source), <<"INDENT", "DEDENT">>) = 0

Init ==
  /\ reported = FALSE
  /\ \/ /\ edited = FALSE
        /\ declarations \in Programs
        /\ Started(Source(declarations))
     \/ /\ edited = TRUE
        /\ declarations \in Disturbed
        /\ \E i \in DOMAIN Written(declarations[1]) :
             \E source \in {s \in Changed(Source(declarations), i) : Lexed(s)} : Started(source)

Parsed ==
  /\ Parsing
  /\ \E p \in {declaration(Here)} :
       \/ Declare(p) /\ UNCHANGED reported
       \/ (Recover(p) \/ Stop(p)) /\ reported' = TRUE
  /\ UNCHANGED <<declarations, edited>>
Finished == Finish /\ UNCHANGED <<declarations, edited, reported>>
Next == Parsed \/ Finished
Spec == Init /\ [][Next]_allVars

-----------------------------------------------------------------------------
(* What is written is what is meant *)

\* A file that is written as it should be is parsed to what it means: every
\* operator takes the operands it binds, from the left or from the right, a
\* series of variables is declared from its end, what a block declares is
\* private (parser.cpp 146-174 and everything it calls).
RoundTrip ==
  status # "parsing" /\ ~edited =>
    ~reported /\ m_program = [i \in DOMAIN declarations |-> TopMeaning(declarations[i])]

\* Forms that a program does not keep: several variables defined by one
\* declaration, and a namespace without a name.
Begun(i)   == i = 1 \/ tokens[i - 1].type \in {"NEWLINE", "INDENT", "DEDENT", "PRIVATE"}
Several    == \E i \in DOMAIN tokens : Begun(i) /\ tokens[i].type \in {"VAR", "VAL"} /\
                \E j, k \in i .. Len(tokens) :
                  /\ j <= k /\ \A l \in i .. k : tokens[l].type # "NEWLINE"
                  /\ \/ tokens[j].type = "COMMA"
                     \/ j < k /\ tokens[j].type = "EQUAL" /\ tokens[k].type = "EQUAL"
Unnamed    == \E i \in 2 .. Len(tokens) : tokens[i - 1].type = "NAMESPACE" /\ tokens[i].type = "NS_OPEN"
\* Commas, where the last or the first of them may be missing or too much,
\* and the parentheses around a condition are not kept either.
Kept(source) ==
  LET IsKept(i) == CASE source[i].type = "COMMA" -> FALSE
                     [] source[i].type = "LEFT_PAREN" -> i = 1 \/ source[i - 1].type \notin {"WHILE", "IF", "ELIF"}
                     [] source[i].type = "RIGHT_PAREN" -> source[i + 1].type # "COLON"
                     [] OTHER -> TRUE
      Is(i) == IF IsKept(i) THEN <<source[i]>> ELSE <<>>
  IN  FlattenSeq([i \in DOMAIN source |-> Is(i)])
\* A file in which no error is found says what the program says: no token of
\* it was passed over, whatever is wrong with it (parser::consume 2008-2017
\* and the conditions that decide what is read next).
AcceptedMeans ==
  status = "finished" /\ ~reported /\ ~Several /\ ~Unnamed =>
    Kept(Source([i \in DOMAIN m_program |-> m_program[i]])) = Kept(tokens)

-----------------------------------------------------------------------------
(* Errors *)

\* The last declaration begins a line, also with the token that was changed.
Apart ==
  LET i == Len(tokens) - Len(Source(<<Last(declarations)>>))
  IN  i = 0 \/ tokens[i].type \in {"NEWLINE", "DEDENT"}
\* When every error in a declaration was minor, the one on the line behind it is
\* parsed as if there had been none (synchronize 2032-2062), unless the error
\* left the parser within the key of a map.
Recovers ==
  status = "finished" /\ ~m_inside_map /\ Apart =>
    m_program # <<>> /\ Last(m_program) = TopMeaning(Last(declarations))

\* Every round takes a token, whatever is wrong at it, so that the parser comes
\* to an end (prog 158-163, declaration 185-229, synchronize 2032-2062).
Advances == [][status' = "parsing" => m_current' > m_current]_allVars
===============================================================================
