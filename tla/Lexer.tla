------------------------------- MODULE Lexer -------------------------------
(***************************************************************************)
(* The lexer (lexer/lexer.cpp) as far as layout goes: lex() calls          *)
(* tokenize() until the source ends, and whitespace() and tabulation()     *)
(* turn the blanks at the beginning of a logical line into INDENT and      *)
(* DEDENT tokens against the stack of the levels that are open.            *)
(***************************************************************************)
EXTENDS Layout

CONSTANT Sources  \* sources: [lines, unit, blank, text], text being read

Lines == [n : Nat, body : Seq(Symbols)]

ASSUME SourcesAssumption ==
  \A s \in Sources :
    /\ s.text \in Seq(Symbols) /\ s.lines \in Seq(Lines)
    /\ s.unit \in Nat \ {0} /\ s.blank \in Blanks

VARIABLES
  source,         \* m_source
  pos,            \* m_current
  tokens,         \* m_tokens, words and marks as they are
  stack,          \* m_indentation_stack, its top last
  brackets,       \* m_parens_levels, m_brackets_levels, m_braces_levels
  newLine,        \* m_is_new_logical_line
  inLine,         \* m_in_new_logical_line
  ignoreNewLine,  \* m_ignore_new_line
  marker,         \* the blank of the first indentation: "none", "sp", "tab"
  unit,           \* m_indentation_space_count
  outcome         \* "running", "done", "error" (lex_error) or "abort"

flags == <<newLine, inLine, ignoreNewLine>>
indentation == <<stack, marker, unit>>
vars == <<source, pos, tokens, indentation, brackets, flags, outcome>>

text == source.text
AtEnd == pos >= Len(text)
Symbol(i) == IF i < Len(text) THEN text[i + 1] ELSE "end"
Current == Symbol(pos)
Running == outcome = "running"
Level == stack[Len(stack)]

(* advance() n times and add_token for each of new. *)
Consume(n, new) ==
  /\ pos' = pos + n
  /\ tokens' = tokens \o new

Fail(how) ==
  /\ outcome' = how
  /\ UNCHANGED <<source, pos, tokens, indentation, brackets, flags>>

-----------------------------------------------------------------------------
(* Tokens.                                                                 *)

(* A token that can begin a statement: at the beginning of a logical line  *)
(* no blank came before it, so every level is closed.                      *)
Word ==
  /\ Running /\ Current = "word"
  /\ IF newLine
       THEN /\ Consume(1, Copies(Len(stack) - 1, "DEDENT") \o <<"word">>)
            /\ stack' = <<0>>
       ELSE Consume(1, <<"word">>) /\ UNCHANGED stack
  /\ newLine' = FALSE
  /\ inLine' = TRUE
  /\ UNCHANGED <<source, marker, unit, brackets, ignoreNewLine, outcome>>

(* The others leave both flags alone. *)
Mark ==
  /\ Running /\ Current \in {"mark", "-/"}
  /\ Consume(1, <<Current>>)
  /\ UNCHANGED <<source, indentation, brackets, flags, outcome>>

Open ==
  /\ Running /\ Current \in Opening
  /\ Consume(1, <<Current>>)
  /\ brackets' = [brackets EXCEPT ![Current] = @ + 1]
  /\ UNCHANGED <<source, indentation, flags, outcome>>

Close ==
  /\ Running /\ Current \in Closing
  /\ brackets[MatchOf(Current)] > 0
  /\ Consume(1, <<Current>>)
  /\ brackets' = [brackets EXCEPT ![MatchOf(Current)] = @ - 1]
  /\ UNCHANGED <<source, indentation, flags, outcome>>

Dangling ==
  /\ Running /\ Current \in Closing
  /\ brackets[MatchOf(Current)] = 0
  /\ Fail("error")

Unexpected == Running /\ Current = "bad" /\ Fail("error")

(* single_comment stops before the line end, multi_comment behind the end  *)
(* of the comment.                                                         *)
Comment ==
  /\ Running /\ Current \in {"--", "-["}
  /\ Consume(1, <<>>)
  /\ UNCHANGED <<source, indentation, brackets, flags, outcome>>

-----------------------------------------------------------------------------
(* Line ends.                                                              *)

Bracketed == \E b \in Opening : brackets[b] > 0

NewLineInBrackets ==
  /\ Running /\ Current = "nl" /\ Bracketed
  /\ Consume(1, <<>>)
  /\ UNCHANGED <<source, indentation, brackets, flags, outcome>>

NewLineIgnored ==
  /\ Running /\ Current = "nl" /\ ~Bracketed /\ ignoreNewLine
  /\ Consume(1, <<>>)
  /\ ignoreNewLine' = FALSE
  /\ UNCHANGED <<source, indentation, brackets, newLine, inLine, outcome>>

(* Fault: the flag of the logical line is not reset. *)
NewLineKeepsLine ==
  /\ Running /\ Current = "nl" /\ ~Bracketed /\ ~ignoreNewLine
  /\ Consume(1, IF inLine THEN <<"NEWLINE">> ELSE <<>>)
  /\ newLine' = (newLine \/ inLine)
  /\ UNCHANGED <<source, indentation, brackets, inLine, ignoreNewLine, outcome>>

NewLine ==
  /\ Running /\ Current = "nl" /\ ~Bracketed /\ ~ignoreNewLine
  /\ Consume(1, IF inLine THEN <<"NEWLINE">> ELSE <<>>)
  /\ newLine' = (newLine \/ inLine)
  /\ inLine' = FALSE
  /\ UNCHANGED <<source, indentation, brackets, ignoreNewLine, outcome>>

(* Everything behind the backslash is skipped; without a line end advance  *)
(* runs out of the source and at() throws what nothing catches.            *)
LineEnds == {i \in (pos + 1)..(Len(text) - 1) : Symbol(i) = "nl"}

Backslash ==
  /\ Running /\ Current = "\\" /\ LineEnds # {}
  /\ pos' = CHOOSE i \in LineEnds : \A j \in LineEnds : i <= j
  /\ ignoreNewLine' = TRUE
  /\ UNCHANGED <<source, tokens, indentation, brackets, newLine, inLine, outcome>>

BackslashAtEnd ==
  /\ Running /\ Current = "\\" /\ LineEnds = {}
  /\ Fail("abort")

-----------------------------------------------------------------------------
(* whitespace and tabulation: blanks at the beginning of a logical line.   *)

(* The blanks like the current one from here on, and what follows them.    *)
Found ==
  (CHOOSE i \in pos..Len(text) :
     Symbol(i) # Current /\ \A j \in pos..(i - 1) : Symbol(j) = Current) - pos
Behind == Symbol(pos + Found)

(* Not at the beginning of a logical line: only the first line of a source *)
(* may not begin with a blank.                                             *)
BlankInside ==
  /\ Running /\ Current \in Blanks /\ ~newLine /\ tokens # <<>>
  /\ Consume(1, <<>>)
  /\ UNCHANGED <<source, indentation, brackets, flags, outcome>>

BlankAtStart ==
  /\ Running /\ Current \in Blanks /\ ~newLine /\ tokens = <<>>
  /\ Fail("error")

AtMargin == Running /\ Current \in Blanks /\ newLine
Mixed == marker \notin {"none", Current} \/ Behind \in Blanks

MixedBlanks == AtMargin /\ Mixed /\ Fail("error")

(* A line without tokens; "-/" is taken for a comment too. *)
TokenBehind == Behind \notin {"nl", "--", "-/"}

BlankLine ==
  /\ AtMargin /\ ~Mixed /\ ~TokenBehind
  /\ Consume(Found, <<>>)
  /\ UNCHANGED <<source, indentation, brackets, flags, outcome>>

Indentation == AtMargin /\ ~Mixed /\ TokenBehind

(* The first indentation fixes what a level is; with tabs each is one.     *)
FirstIndent ==
  /\ Indentation /\ Level = 0
  /\ Consume(Found, <<"INDENT">>)
  /\ marker' = Current
  /\ unit' = IF Current = "sp" THEN Found ELSE unit
  /\ stack' = Append(stack, IF Current = "sp" THEN 1 ELSE Found)
  /\ newLine' = FALSE
  /\ UNCHANGED <<source, brackets, inLine, ignoreNewLine, outcome>>

Uneven ==
  Current = "sp" /\ (IF Found > unit THEN Found % unit # 0 ELSE unit % Found # 0)

LogicalTab ==
  IF Current = "tab" THEN Found
  ELSE IF Found > unit THEN Found \div unit ELSE unit \div Found

UnevenIndent == Indentation /\ Level > 0 /\ Uneven /\ Fail("error")

NextIndent == Indentation /\ Level > 0 /\ ~Uneven

SameLevel ==
  /\ NextIndent /\ LogicalTab = Level
  /\ Consume(Found, <<>>)
  /\ newLine' = FALSE
  /\ UNCHANGED <<source, indentation, brackets, inLine, ignoreNewLine, outcome>>

(* The first n levels stay open, the last of them is the first from the    *)
(* top that is not deeper than the line.                                   *)
Closes(n) ==
  /\ stack[n] <= LogicalTab /\ \A m \in (n + 1)..Len(stack) : stack[m] > LogicalTab
  /\ stack' = SubSeq(stack, 1, n)

(* Fault: one DEDENT, whatever was closed. *)
DedentOnce ==
  /\ NextIndent /\ LogicalTab < Level
  /\ \E n \in 1..Len(stack) : Closes(n) /\ Consume(Found, <<"DEDENT">>)
  /\ newLine' = FALSE
  /\ UNCHANGED <<source, marker, unit, brackets, inLine, ignoreNewLine, outcome>>

Dedent ==
  /\ NextIndent /\ LogicalTab < Level
  /\ \E n \in 1..Len(stack) :
       Closes(n) /\ Consume(Found, Copies(Len(stack) - n, "DEDENT"))
  /\ newLine' = FALSE
  /\ UNCHANGED <<source, marker, unit, brackets, inLine, ignoreNewLine, outcome>>

(* Fault: a line may go any number of levels deeper. *)
IndentSteep ==
  /\ NextIndent /\ LogicalTab > Level
  /\ stack' = Append(stack, LogicalTab)
  /\ Consume(Found, <<"INDENT">>)
  /\ newLine' = FALSE
  /\ UNCHANGED <<source, marker, unit, brackets, inLine, ignoreNewLine, outcome>>

Indent ==
  /\ NextIndent /\ LogicalTab = Level + 1
  /\ stack' = Append(stack, LogicalTab)
  /\ Consume(Found, <<"INDENT">>)
  /\ newLine' = FALSE
  /\ UNCHANGED <<source, marker, unit, brackets, inLine, ignoreNewLine, outcome>>

TooSteep == NextIndent /\ LogicalTab > Level + 1 /\ Fail("error")

-----------------------------------------------------------------------------
(* The end of lex(): the last line is closed, and every level.             *)
Finish ==
  /\ Running /\ AtEnd
  /\ LET open == tokens # <<>> /\ tokens[Len(tokens)] # "NEWLINE"
     IN tokens' = tokens \o ((IF open THEN <<"NEWLINE">> ELSE <<>>)
                              \o Copies(Len(stack) - 1, "DEDENT") \o <<"AVL_EOF">>)
  /\ stack' = <<0>>
  /\ outcome' = "done"
  /\ UNCHANGED <<source, pos, marker, unit, brackets, flags>>

Init ==
  /\ source \in Sources
  /\ pos = 0
  /\ tokens = <<>>
  /\ stack = <<0>>
  /\ brackets = [b \in Opening |-> 0]
  /\ newLine = FALSE /\ inLine = FALSE /\ ignoreNewLine = FALSE
  /\ marker = "none"
  /\ unit = 0
  /\ outcome = "running"

Next ==
  \/ Word \/ Mark \/ Open \/ Close \/ Dangling \/ Unexpected \/ Comment
  \/ NewLineInBrackets \/ NewLineIgnored \/ NewLine \/ Backslash \/ BackslashAtEnd
  \/ BlankInside \/ BlankAtStart \/ MixedBlanks \/ BlankLine
  \/ FirstIndent \/ UnevenIndent \/ SameLevel \/ Dedent \/ Indent \/ TooSteep
  \/ Finish

Spec == Init /\ [][Next]_vars

-----------------------------------------------------------------------------
(* The type of the lexer's state; the levels that are open grow by one     *)
(* level each, whatever their first one is.                                *)
TypeOK ==
  /\ pos \in 0..Len(text)
  /\ tokens \in Seq({"word", "mark", "-/", "INDENT", "DEDENT", "NEWLINE", "AVL_EOF"}
                      \cup Opening \cup Closing)
  /\ stack \in Seq(Nat) /\ stack # <<>> /\ stack[1] = 0
  /\ \A i \in 3..Len(stack) : stack[i] = stack[i - 1] + 1
  /\ brackets \in [Opening -> Nat]
  /\ newLine \in BOOLEAN /\ inLine \in BOOLEAN /\ ignoreNewLine \in BOOLEAN
  /\ marker \in Blanks \cup {"none"}
  /\ unit \in Nat
  /\ outcome \in {"running", "done", "error", "abort"}

(* parser::block_declaration relies on it (parser.cpp:945-956): every      *)
(* INDENT has its DEDENT. Whatever the source, the open levels are the     *)
(* INDENTs less the DEDENTs so far, and in the end there are as many.      *)
Number(token) == Cardinality({i \in DOMAIN tokens : tokens[i] = token})

IndentsMatch == Number("INDENT") - Number("DEDENT") = Len(stack) - 1

(* A well laid out source is accepted, and its tokens are those its lines  *)
(* stand for, comments, blank lines and continued lines notwithstanding.   *)
LayoutKept ==
  LaidOut(source) =>
    /\ outcome \in {"running", "done"}
    /\ outcome = "done" => tokens = TokensExpected(source.lines, source.unit)
=============================================================================
