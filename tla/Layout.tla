------------------------------- MODULE Layout -------------------------------
(***************************************************************************)
(* Source texts as the lexer sees their layout: "word" stands for a token  *)
(* a statement can begin with (a name, a keyword, a number, a string, + -  *)
(* ! ~ and /-), "mark" for the operators and separators, "-/" for the one  *)
(* that opens a namespace, "--" for a comment up to the end of its line,   *)
(* "-[" for one that ends by itself, "\\" for the backslash.               *)
(*                                                                         *)
(* What a well laid out text means is defined here line by line, as for    *)
(* any language with the offside rule.                                     *)
(***************************************************************************)
EXTENDS Integers, SequencesExt, FiniteSetsExt

Blanks == {"sp", "tab"}
Opening == {"(", "[", "{"}
Closing == {")", "]", "}"}
MatchOf(c) == CASE c = ")" -> "(" [] c = "]" -> "[" [] c = "}" -> "{"
Ignored == Blanks \cup {"nl", "--", "-[", "\\"}
Symbols == {"word", "mark", "-/", "bad"} \cup Opening \cup Closing \cup Ignored

Copies(n, token) == [k \in 1..n |-> token]

(* The text of the sequence of lines ls, each of n blanks and a body.      *)
LineText(line, blank) == Copies(line.n, blank) \o line.body \o <<"nl">>
LineTexts(ls, blank) == [i \in 1..Len(ls) |-> LineText(ls[i], blank)]
Text(ls, blank) == FlattenSeq(LineTexts(ls, blank))

-----------------------------------------------------------------------------
(* How many brackets of a kind are open after the first i symbols of b.    *)
Depth(b, i, kind) ==
  Cardinality({j \in 1..i : b[j] = kind})
    - Cardinality({j \in 1..i : b[j] \in Closing /\ MatchOf(b[j]) = kind})

Nested(b, i) == \E kind \in Opening : Depth(b, i, kind) > 0

(* A logical line: it begins with a word, its brackets match, and it goes  *)
(* on over a line end only inside brackets or, outside them, after a       *)
(* backslash.                                                              *)
LogicalBody(b) ==
  /\ b # <<>> /\ b[1] = "word"
  /\ ~Nested(b, Len(b))
  /\ \A i \in 1..Len(b) :
       /\ b[i] # "bad"
       /\ \A kind \in Opening : Depth(b, i, kind) >= 0
       /\ b[i] = "nl" => Nested(b, i) \/ b[i - 1] = "\\"
       /\ b[i] = "\\" => ~Nested(b, i) /\ i < Len(b) /\ b[i + 1] = "nl"

EmptyBody(b) == b \in {<<>>, <<"--">>}

TokenOf(c) == IF c \in Ignored THEN <<>> ELSE <<c>>
TokensOf(b) == FlattenSeq([j \in 1..Len(b) |-> TokenOf(b[j])])

(* The logical lines among the first i, and the level of the last of them. *)
LogicalLines(ls, i) == {j \in 1..i : ~EmptyBody(ls[j].body)}

LevelBehind(ls, unit, i) ==
  IF LogicalLines(ls, i) = {} THEN 0 ELSE ls[Max(LogicalLines(ls, i))].n \div unit

(* Lines laid out in steps of unit blanks: nothing is indented up to the   *)
(* first logical line, and each goes at most one level deeper than the     *)
(* logical line before it. Lines without tokens are indented anyhow.       *)
WellLaidOut(ls, unit) ==
  \A i \in 1..Len(ls) :
    /\ LogicalLines(ls, i - 1) = {} => ls[i].n = 0
    /\ \/ EmptyBody(ls[i].body)
       \/ /\ LogicalBody(ls[i].body)
          /\ ls[i].n % unit = 0
          /\ ls[i].n \div unit <= LevelBehind(ls, unit, i - 1) + 1

(* The line end of the last line may be missing, unless nothing but blanks *)
(* comes before it; a level is one tab or unit spaces.                     *)
CutText(s) == SubSeq(Text(s.lines, s.blank), 1, Len(Text(s.lines, s.blank)) - 1)
MayCut(ls) == ls # <<>> /\ (ls[Len(ls)].n = 0 \/ ls[Len(ls)].body # <<>>)

LaidOut(s) ==
  /\ WellLaidOut(s.lines, s.unit)
  /\ s.blank = "tab" => s.unit = 1
  /\ s.text = Text(s.lines, s.blank) \/ (MayCut(s.lines) /\ s.text = CutText(s))

-----------------------------------------------------------------------------
(* The tokens such lines stand for: before those of a logical line what    *)
(* leads from the level before it to its own.                              *)
Lead(from, to) ==
  IF from <= to THEN Copies(to - from, "INDENT") ELSE Copies(from - to, "DEDENT")

LineTokens(ls, unit, i) ==
  IF EmptyBody(ls[i].body) THEN <<>>
  ELSE Lead(LevelBehind(ls, unit, i - 1), LevelBehind(ls, unit, i))
         \o TokensOf(ls[i].body) \o <<"NEWLINE">>

AllLineTokens(ls, unit) == [i \in 1..Len(ls) |-> LineTokens(ls, unit, i)]

TokensExpected(ls, unit) ==
  FlattenSeq(AllLineTokens(ls, unit))
    \o Copies(LevelBehind(ls, unit, Len(ls)), "DEDENT") \o <<"AVL_EOF">>
=============================================================================
