---------------------------- MODULE LexerProofs ----------------------------
(***************************************************************************)
(* Proofs about the lexer, for any sources.                                *)
(***************************************************************************)
EXTENDS Lexer, FiniteSetTheorems, SequenceTheorems, WellFoundedInduction, TLAPS

(* The first level is the margin and no other is at it, so that a line at  *)
(* the margin closes all of them.                                          *)
LexInv ==
  /\ TypeOK
  /\ source \in Sources
  /\ \A i \in 2..Len(stack) : stack[i] > 0
  /\ IndentsMatch

TokenKinds == {"word", "mark", "-/", "INDENT", "DEDENT", "NEWLINE", "AVL_EOF"}
                \cup Opening \cup Closing

-----------------------------------------------------------------------------
(* How often a token occurs.                                               *)
Occurrences(s, x) == {i \in DOMAIN s : s[i] = x}
Times(s, x) == Cardinality(Occurrences(s, x))

LEMMA OccurrencesFinite ==
  ASSUME NEW S, NEW s \in Seq(S), NEW x
  PROVE  IsFiniteSet(Occurrences(s, x)) /\ Times(s, x) \in Nat
  <1>1. DOMAIN s = 1..Len(s) /\ 1 \in Int /\ Len(s) \in Int
    OBVIOUS
  <1>2. IsFiniteSet(DOMAIN s)
    BY <1>1, FS_Interval
  <1>3. Occurrences(s, x) \in SUBSET (DOMAIN s)
    BY DEF Occurrences
  <1> QED
    BY <1>2, <1>3, FS_Subset, FS_CardinalityType DEF Times

LEMMA TimesConcat ==
  ASSUME NEW S, NEW s \in Seq(S), NEW t \in Seq(S), NEW x
  PROVE  Times(s \o t, x) = Times(s, x) + Times(t, x)
  <1> DEFINE A == Occurrences(s, x)
             B == Occurrences(t, x)
             C == {i \in DOMAIN (s \o t) : i > Len(s) /\ (s \o t)[i] = x}
             shift == [j \in B |-> Len(s) + j]
  <1>1. /\ DOMAIN (s \o t) = 1..(Len(s) + Len(t)) /\ s \o t \in Seq(S)
        /\ Len(s) \in Nat /\ Len(t) \in Nat /\ DOMAIN s = 1..Len(s) /\ DOMAIN t = 1..Len(t)
        /\ \A i \in 1..Len(s) : (s \o t)[i] = s[i]
        /\ \A i \in 1..Len(t) : (s \o t)[Len(s) + i] = t[i]
    OBVIOUS
  <1>2. Occurrences(s \o t, x) = A \cup C /\ A \cap C = {}
    BY <1>1 DEF Occurrences
  <1>3. shift \in Bijection(B, C)
    <2>1. \A j \in B : shift[j] \in C
      BY <1>1 DEF Occurrences
    <2>2. \A c \in C : c - Len(s) \in B /\ Len(s) + (c - Len(s)) = c
      BY <1>1 DEF Occurrences
    <2>3. \A j, k \in B : shift[j] = shift[k] => j = k
      BY <1>1 DEF Occurrences
    <2>4. shift \in [B -> C]
      BY <2>1
    <2>5. \A c \in C : \E j \in B : shift[j] = c
      BY <2>2
    <2> HIDE DEF shift, B, C
    <2> QED
      BY <2>3, <2>4, <2>5 DEF Bijection, Injection, IsInjective, Surjection
  <1>4. IsFiniteSet(A) /\ IsFiniteSet(B) /\ Cardinality(A) \in Nat /\ Cardinality(B) \in Nat
    BY OccurrencesFinite DEF Times
  <1> HIDE DEF A, B, C, shift
  <1>5. IsFiniteSet(C) /\ Cardinality(C) = Cardinality(B)
    BY <1>3, <1>4, FS_Bijection DEF ExistsBijection
  <1>6. Cardinality(A \cup C) = Cardinality(A) + Cardinality(C)
    <2>1. Cardinality(A \cap C) = 0
      BY <1>2, FS_EmptySet
    <2>2. Cardinality(A \cup C) = Cardinality(A) + Cardinality(C) - Cardinality(A \cap C)
      BY <1>4, <1>5, FS_Union
    <2> QED
      BY <1>4, <1>5, <2>1, <2>2
  <1> QED
    BY <1>2, <1>5, <1>6 DEF Times, A, B

LEMMA TimesCopies ==
  ASSUME NEW n \in Nat, NEW x
  PROVE  /\ Copies(n, x) \in Seq({x}) /\ Len(Copies(n, x)) = n
         /\ Times(Copies(n, x), x) = n
         /\ \A y : y # x => Times(Copies(n, x), y) = 0
  <1>1. Copies(n, x) \in Seq({x}) /\ Len(Copies(n, x)) = n
    BY DEF Copies
  <1>2. Occurrences(Copies(n, x), x) = 1..n
    BY DEF Copies, Occurrences
  <1>3. \A y : y # x => Occurrences(Copies(n, x), y) = {}
    BY DEF Copies, Occurrences
  <1>4. Cardinality(1..n) = n
    BY FS_Interval
  <1> QED
    BY <1>1, <1>2, <1>3, <1>4, FS_EmptySet DEF Times

LEMMA TimesOne ==
  ASSUME NEW x
  PROVE  /\ Times(<<>>, x) = 0
         /\ \A y : Times(<<y>>, x) = IF y = x THEN 1 ELSE 0
  <1>1. Occurrences(<<>>, x) = {}
    BY DEF Occurrences
  <1>2. \A y : Occurrences(<<y>>, x) = IF y = x THEN {1} ELSE {}
    BY DEF Occurrences
  <1> QED
    BY <1>1, <1>2, FS_EmptySet, FS_Singleton DEF Times

-----------------------------------------------------------------------------
(* A set of numbers has a least one, so that the two searches in the text  *)
(* find what they look for.                                                *)
LEMMA LeastExists ==
  ASSUME NEW T \in SUBSET Nat, T # {}
  PROVE  \E n \in T : \A m \in T : n <= m
  <1>1. PICK n \in T : \A m \in T : ~ (<<m, n>> \in OpToRel(<, Nat))
    BY NatLessThanWellFounded, WFMin
  <1>2. OpToRel(<, Nat) = {r \in Nat \X Nat : r[1] < r[2]}
    BY DEF OpToRel
  <1>3. \A m \in T : ~(m < n)
    BY <1>1, <1>2
  <1> QED
    BY <1>3

LEMMA TextType ==
  ASSUME LexInv
  PROVE  /\ text \in Seq(Symbols) /\ Len(text) \in Nat /\ pos \in 0..Len(text)
         /\ \A i \in 0..Len(text) : Symbol(i) # "end" => i < Len(text) /\ Symbol(i) \in Symbols
  <1>1. text \in Seq(Symbols)
    BY SourcesAssumption DEF LexInv, text
  <1> QED
    BY <1>1 DEF LexInv, TypeOK, Symbol

LEMMA FoundType ==
  ASSUME LexInv, Current \in Blanks
  PROVE  /\ Found \in Nat \ {0} /\ pos + Found <= Len(text)
  <1> DEFINE T == {i \in pos..Len(text) : Symbol(i) # Current}
  <1>1. Len(text) \in Nat /\ pos \in Nat /\ pos <= Len(text)
    BY TextType
  <1>2. Len(text) \in T
    BY <1>1 DEF Symbol, Current, Blanks
  <1>3. PICK n \in T : \A m \in T : n <= m
    <2>1. T \in SUBSET Nat
      BY <1>1
    <2> HIDE DEF T
    <2> QED
      BY <1>2, <2>1, LeastExists
  <1>4. \A j \in pos..(n - 1) : Symbol(j) = Current
    BY <1>1, <1>3
  <1>5. /\ Found + pos \in pos..Len(text)
        /\ Symbol(Found + pos) # Current /\ Found \in Int
    <2>1. \E i \in pos..Len(text) :
            Symbol(i) # Current /\ \A j \in pos..(i - 1) : Symbol(j) = Current
      BY <1>3, <1>4
    <2> DEFINE first == CHOOSE i \in pos..Len(text) :
                          Symbol(i) # Current /\ \A j \in pos..(i - 1) : Symbol(j) = Current
    <2>2. first \in pos..Len(text) /\ Symbol(first) # Current
      BY <2>1
    <2>3. Found = first - pos
      BY DEF Found
    <2> HIDE DEF first
    <2>4. Found + pos = first /\ Found \in Int
      BY <1>1, <2>2, <2>3
    <2> QED
      BY <2>2, <2>4
  <1> QED
    BY <1>1, <1>5 DEF Current

-----------------------------------------------------------------------------
(* Steps.                                                                  *)
LEMMA LexInvInit == Init => LexInv
  <1> SUFFICES ASSUME Init
               PROVE  LexInv
    OBVIOUS
  <1>1. stack = <<0>> /\ stack \in Seq(Nat) /\ Len(stack) = 1 /\ stack[1] = 0 /\ stack # <<>>
    BY DEF Init
  <1>2. TypeOK
    <2>1. Len(text) \in Nat
      BY SourcesAssumption DEF Init, text
    <2>2. pos \in 0..Len(text) /\ brackets \in [Opening -> Nat]
      BY <2>1 DEF Init
    <2>3. \A i \in 3..Len(stack) : stack[i] = stack[i - 1] + 1
      BY <1>1
    <2>4. tokens \in Seq(TokenKinds)
      <3>1. tokens = <<>>
        BY DEF Init
      <3> QED
        BY <3>1
    <2>5. newLine \in BOOLEAN /\ inLine \in BOOLEAN /\ ignoreNewLine \in BOOLEAN
      BY DEF Init
    <2>6. marker \in Blanks \cup {"none"} /\ unit \in Nat
      BY DEF Init
    <2>7. outcome \in {"running", "done", "error", "abort"}
      BY DEF Init
    <2> QED
      BY <1>1, <2>2, <2>3, <2>4, <2>5, <2>6, <2>7 DEF TypeOK, TokenKinds
  <1>3. Number("INDENT") = 0 /\ Number("DEDENT") = 0
    <2>1. \A x : Number(x) = Times(tokens, x)
      BY DEF Number, Times, Occurrences
    <2> QED
      BY <2>1, TimesOne DEF Init
  <1>4. source \in Sources /\ \A i \in 2..Len(stack) : stack[i] > 0
    BY <1>1 DEF Init
  <1> QED
    BY <1>1, <1>2, <1>3, <1>4 DEF LexInv, IndentsMatch

(* The position and the tokens after a step that consumes something.       *)
LEMMA ConsumeType ==
  ASSUME LexInv, NEW n \in Nat, pos + n <= Len(text), NEW new \in Seq(TokenKinds),
         Consume(n, new), source' = source
  PROVE  /\ pos' \in 0..Len(text') /\ text' = text
         /\ tokens' \in Seq(TokenKinds) /\ tokens' = tokens \o new
  <1>1. tokens \in Seq(TokenKinds) /\ pos \in 0..Len(text) /\ Len(text) \in Nat
    BY TextType DEF LexInv, TypeOK, TokenKinds
  <1>2. text' = text
    BY DEF text
  <1> QED
    BY <1>1, <1>2 DEF Consume

LEMMA CurrentType ==
  ASSUME LexInv, Current # "end"
  PROVE  pos + 1 <= Len(text) /\ Current \in Symbols
  BY TextType DEF Current

(* The levels grow and shrink by what the tokens say.                      *)
LEMMA LexInvTokens ==
  ASSUME LexInv, TypeOK', source' = source,
         NEW new \in Seq(TokenKinds), tokens' = tokens \o new,
         \A i \in 2..Len(stack') : stack'[i] > 0,
         Times(new, "INDENT") - Times(new, "DEDENT") = Len(stack') - Len(stack)
  PROVE  LexInv'
  <1>1. \A x : Number(x) = Times(tokens, x) /\ Number(x)' = Times(tokens', x)
    BY DEF Number, Times, Occurrences
  <1>2. tokens \in Seq(TokenKinds) /\ Len(stack) \in Nat /\ Len(stack') \in Nat
    <2>1. tokens \in Seq(TokenKinds)
      BY DEF LexInv, TypeOK, TokenKinds
    <2>2. stack \in Seq(Nat) /\ stack' \in Seq(Nat)
      BY DEF LexInv, TypeOK
    <2> QED
      BY <2>1, <2>2
  <1>3. \A x : /\ Times(tokens', x) = Times(tokens, x) + Times(new, x)
               /\ Times(tokens, x) \in Nat /\ Times(new, x) \in Nat
    BY <1>2, TimesConcat, OccurrencesFinite
  <1>4. IndentsMatch'
    <2>1. Number("INDENT") - Number("DEDENT") = Len(stack) - 1
      BY DEF LexInv, IndentsMatch
    <2> DEFINE a == Times(tokens, "INDENT")
               b == Times(tokens, "DEDENT")
               c == Times(new, "INDENT")
               d == Times(new, "DEDENT")
               l == Len(stack)
               m == Len(stack')
    <2>2. /\ a - b = l - 1 /\ c - d = m - l
          /\ Number("INDENT")' = a + c /\ Number("DEDENT")' = b + d
      BY <1>1, <1>3, <2>1
    <2>3. /\ a \in Nat /\ b \in Nat /\ c \in Nat /\ d \in Nat
          /\ l \in Nat /\ m \in Nat
      BY <1>2, <1>3
    <2> HIDE DEF a, b, c, d, l, m
    <2>4. (a + c) - (b + d) = m - 1
      BY <2>2, <2>3
    <2> QED
      BY <2>2, <2>4 DEF m, IndentsMatch
  <1>5. source' \in Sources
    BY DEF LexInv
  <1> QED
    BY <1>4, <1>5 DEF LexInv

LEMMA LexInvSame ==
  ASSUME LexInv, TypeOK', UNCHANGED <<source, tokens, stack>>
  PROVE  LexInv'
  BY DEF LexInv, IndentsMatch, Number

(* Steps that leave the levels alone.                                      *)
Flat == TokenKinds \ {"INDENT", "DEDENT"}

LEMMA LexInvFlat ==
  ASSUME LexInv, TypeOK', UNCHANGED <<source, stack>>,
         NEW new \in Seq(Flat), tokens' = tokens \o new
  PROVE  LexInv'
  <1>1. \A i \in DOMAIN new : new[i] \in Flat
    OBVIOUS
  <1>2. Times(new, "INDENT") = 0 /\ Times(new, "DEDENT") = 0
    <2>1. Occurrences(new, "INDENT") = {} /\ Occurrences(new, "DEDENT") = {}
      BY <1>1 DEF Occurrences, Flat
    <2> QED
      BY <2>1, FS_EmptySet DEF Times
  <1>3. new \in Seq(TokenKinds)
    BY DEF Flat
  <1>4. Len(stack) \in Nat
    BY DEF LexInv, TypeOK
  <1>5. \A i \in 2..Len(stack') : stack'[i] > 0
    BY DEF LexInv
  <1>6. Times(new, "INDENT") - Times(new, "DEDENT") = Len(stack') - Len(stack)
    BY <1>2, <1>4
  <1> QED
    BY <1>3, <1>5, <1>6, LexInvTokens

LEMMA LexInvFail ==
  ASSUME LexInv, NEW how \in {"error", "abort"}, Fail(how)
  PROVE  LexInv'
  <1>1. TypeOK'
    BY DEF LexInv, TypeOK, Fail, indentation, flags, text
  <1> QED
    BY <1>1, LexInvSame DEF Fail, indentation

LEMMA OneInSeq ==
  ASSUME NEW S, NEW x \in S
  PROVE  <<x>> \in Seq(S)
  OBVIOUS

LEMMA LexInvMark ==
  ASSUME LexInv, Mark \/ Open \/ Close
  PROVE  LexInv'
  <1>1. /\ Consume(1, <<Current>>) /\ UNCHANGED <<source, indentation, flags, outcome>>
        /\ Current \in {"mark", "-/"} \cup Opening \cup Closing
    BY DEF Mark, Open, Close
  <1>2. Current # "end" /\ <<Current>> \in Seq(Flat) /\ <<Current>> \in Seq(TokenKinds)
    <2>1. Current # "end"
      BY <1>1 DEF Opening, Closing
    <2>2. Current \in TokenKinds
      BY <1>1 DEF TokenKinds
    <2>3. Current \in Flat
      BY <1>1, <2>2 DEF Flat, Opening, Closing
    <2> QED
      BY <2>1, <2>2, <2>3, OneInSeq
  <1>3. /\ pos' \in 0..Len(text') /\ tokens' \in Seq(TokenKinds)
        /\ tokens' = tokens \o <<Current>>
    BY <1>1, <1>2, CurrentType, ConsumeType
  <1>4. brackets' \in [Opening -> Nat]
    <2>1. brackets \in [Opening -> Nat]
      BY DEF LexInv, TypeOK
    <2>2. CASE Mark
      BY <2>1, <2>2 DEF Mark
    <2>3. CASE Open
      BY <2>1, <2>3 DEF Open
    <2>4. CASE Close
      <3>1. MatchOf(Current) \in Opening
        BY <2>4 DEF Close, Closing, Opening, MatchOf
      <3>2. brackets[MatchOf(Current)] - 1 \in Nat
        BY <2>1, <2>4, <3>1 DEF Close
      <3> QED
        BY <2>1, <2>4, <3>1, <3>2 DEF Close
    <2> QED
      BY <2>2, <2>3, <2>4
  <1>5. TypeOK'
    BY <1>1, <1>3, <1>4 DEF LexInv, TypeOK, indentation, flags, TokenKinds
  <1> QED
    BY <1>1, <1>2, <1>3, <1>5, LexInvFlat DEF indentation

LEMMA LexInvSkip ==
  ASSUME LexInv, NEW n \in Nat, pos + n <= Len(text), NEW new \in {<<>>, <<"NEWLINE">>},
         Consume(n, new), UNCHANGED <<source, indentation, brackets, outcome>>,
         newLine' \in BOOLEAN, inLine' \in BOOLEAN, ignoreNewLine' \in BOOLEAN
  PROVE  LexInv'
  <1>1. new \in Seq(Flat) /\ new \in Seq(TokenKinds)
    <2>1. "NEWLINE" \in Flat /\ "NEWLINE" \in TokenKinds
      BY DEF Flat, TokenKinds
    <2>2. CASE new = <<>>
      BY <2>2
    <2>3. CASE new = <<"NEWLINE">>
      BY <2>1, <2>3, OneInSeq
    <2> QED
      BY <2>2, <2>3
  <1>2. pos' \in 0..Len(text') /\ tokens' \in Seq(TokenKinds) /\ tokens' = tokens \o new
    BY <1>1, ConsumeType
  <1>3. TypeOK'
    BY <1>2 DEF LexInv, TypeOK, indentation, TokenKinds
  <1> QED
    BY <1>1, <1>2, <1>3, LexInvFlat DEF indentation

(* What comments, line ends and blanks do.                                 *)
LEMMA LexInvSkips ==
  ASSUME LexInv,
         Comment \/ NewLineInBrackets \/ NewLineIgnored \/ NewLine \/ BlankInside
  PROVE  LexInv'
  <1>1. Current # "end"
    BY DEF Comment, NewLineInBrackets, NewLineIgnored, NewLine, BlankInside, Blanks
  <1>2. pos + 1 <= Len(text)
    BY <1>1, CurrentType
  <1>3. PICK new \in {<<>>, <<"NEWLINE">>} : Consume(1, new)
    BY DEF Comment, NewLineInBrackets, NewLineIgnored, NewLine, BlankInside
  <1>4. UNCHANGED <<source, indentation, brackets, outcome>>
    BY DEF Comment, NewLineInBrackets, NewLineIgnored, NewLine, BlankInside
  <1>5. newLine \in BOOLEAN /\ inLine \in BOOLEAN /\ ignoreNewLine \in BOOLEAN
    BY DEF LexInv, TypeOK
  <1>6. newLine' \in BOOLEAN /\ inLine' \in BOOLEAN /\ ignoreNewLine' \in BOOLEAN
    BY <1>5 DEF Comment, NewLineInBrackets, NewLineIgnored, NewLine, BlankInside, flags
  <1> QED
    BY <1>2, <1>3, <1>4, <1>6, LexInvSkip

LEMMA LexInvBlanks ==
  ASSUME LexInv, BlankLine \/ SameLevel
  PROVE  LexInv'
  <1>1. Current \in Blanks
    BY DEF BlankLine, SameLevel, NextIndent, Indentation, AtMargin
  <1>2. Found \in Nat /\ pos + Found <= Len(text)
    BY <1>1, FoundType
  <1>3. Consume(Found, <<>>) /\ UNCHANGED <<source, indentation, brackets, outcome>>
    BY DEF BlankLine, SameLevel
  <1>4. newLine \in BOOLEAN /\ inLine \in BOOLEAN /\ ignoreNewLine \in BOOLEAN
    BY DEF LexInv, TypeOK
  <1>5. newLine' \in BOOLEAN /\ inLine' \in BOOLEAN /\ ignoreNewLine' \in BOOLEAN
    BY <1>4 DEF BlankLine, SameLevel, flags
  <1> QED
    BY <1>2, <1>3, <1>5, LexInvSkip

LEMMA LexInvBackslash ==
  ASSUME LexInv, Backslash
  PROVE  LexInv'
  <1>1. Len(text) \in Nat /\ pos \in Nat /\ text' = text
    BY TextType DEF Backslash, text
  <1>2. LineEnds \in SUBSET Nat /\ LineEnds # {}
    BY <1>1 DEF LineEnds, Backslash
  <1>3. \E i \in LineEnds : \A j \in LineEnds : i <= j
    BY <1>2, LeastExists
  <1>4. pos' \in LineEnds
    BY <1>3 DEF Backslash
  <1>5. pos' \in 0..Len(text')
    BY <1>1, <1>4 DEF LineEnds
  <1>6. TypeOK'
    BY <1>5 DEF LexInv, TypeOK, Backslash, indentation
  <1> QED
    BY <1>6, LexInvSame DEF Backslash, indentation

LEMMA LexInvFails ==
  ASSUME LexInv,
         \/ Dangling \/ Unexpected \/ BackslashAtEnd \/ BlankAtStart
         \/ MixedBlanks \/ UnevenIndent \/ TooSteep
  PROVE  LexInv'
  <1>1. Fail("error") \/ Fail("abort")
    BY DEF Dangling, Unexpected, BackslashAtEnd, BlankAtStart, MixedBlanks,
           UnevenIndent, TooSteep
  <1> QED
    BY <1>1, LexInvFail

-----------------------------------------------------------------------------
(* Steps that open and close levels.                                       *)

(* The tokens for a number of levels that are closed.                      *)
LEMMA ClosedTokens ==
  ASSUME NEW n \in Nat
  PROVE  /\ Copies(n, "DEDENT") \in Seq(TokenKinds)
         /\ Times(Copies(n, "DEDENT"), "INDENT") = 0
         /\ Times(Copies(n, "DEDENT"), "DEDENT") = n
  <1>1. Copies(n, "DEDENT") \in Seq(TokenKinds)
    BY DEF Copies, TokenKinds
  <1>2. Times(Copies(n, "DEDENT"), "DEDENT") = n
    <2>1. \A x : Times(Copies(n, x), x) = n
      BY TimesCopies
    <2> QED
      BY <2>1
  <1>3. Times(Copies(n, "DEDENT"), "INDENT") = 0
    <2>1. Occurrences(Copies(n, "DEDENT"), "INDENT") = {}
      BY DEF Copies, Occurrences
    <2> QED
      BY <2>1, FS_EmptySet DEF Times
  <1> QED
    BY <1>1, <1>2, <1>3

LEMMA LexInvWord ==
  ASSUME LexInv, Word
  PROVE  LexInv'
  <1>1. Current = "word" /\ pos + 1 <= Len(text)
    BY CurrentType DEF Word
  <1>2. UNCHANGED <<source, marker, unit, brackets, ignoreNewLine, outcome>>
    BY DEF Word
  <1>3. <<"word">> \in Seq(TokenKinds) /\ <<"word">> \in Seq(Flat)
    BY OneInSeq DEF TokenKinds, Flat
  <1>4. stack \in Seq(Nat) /\ Len(stack) \in Nat \ {0}
    BY DEF LexInv, TypeOK
  <1>5. CASE ~newLine
    <2>1. Consume(1, <<"word">>) /\ UNCHANGED stack
      BY <1>5 DEF Word
    <2>2. pos' \in 0..Len(text') /\ tokens' \in Seq(TokenKinds) /\ tokens' = tokens \o <<"word">>
      BY <1>1, <1>2, <1>3, <2>1, ConsumeType
    <2>3. TypeOK'
      BY <1>2, <2>1, <2>2 DEF Word, LexInv, TypeOK, TokenKinds
    <2> QED
      BY <1>2, <1>3, <2>1, <2>2, <2>3, LexInvFlat
  <1>6. CASE newLine
    <2> DEFINE closed == Copies(Len(stack) - 1, "DEDENT")
               new == closed \o <<"word">>
    <2>1. Consume(1, new) /\ stack' = <<0>>
      BY <1>6 DEF Word
    <2>2. /\ closed \in Seq(TokenKinds) /\ Times(closed, "INDENT") = 0
          /\ Times(closed, "DEDENT") = Len(stack) - 1
      <3>1. Len(stack) - 1 \in Nat
        BY <1>4
      <3> QED
        BY <3>1, ClosedTokens
    <2> HIDE DEF closed
    <2>3. new \in Seq(TokenKinds)
      BY <1>3, <2>2
    <2>4. \A x : Times(new, x) = Times(closed, x) + Times(<<"word">>, x)
      BY <1>3, <2>2, TimesConcat
    <2>8. Times(<<"word">>, "INDENT") = 0 /\ Times(<<"word">>, "DEDENT") = 0
      BY TimesOne
    <2>9. Times(new, "INDENT") = 0 /\ Times(new, "DEDENT") = Len(stack) - 1
      BY <1>4, <2>2, <2>4, <2>8
    <2> HIDE DEF new
    <2>5. pos' \in 0..Len(text') /\ tokens' \in Seq(TokenKinds) /\ tokens' = tokens \o new
      BY <1>1, <1>2, <2>1, <2>3, ConsumeType
    <2>6. /\ stack' \in Seq(Nat) /\ Len(stack') = 1 /\ stack'[1] = 0 /\ stack' # <<>>
          /\ \A i \in 3..Len(stack') : stack'[i] = stack'[i - 1] + 1
          /\ \A i \in 2..Len(stack') : stack'[i] > 0
      BY <2>1
    <2>7. TypeOK'
      BY <1>2, <2>5, <2>6 DEF Word, LexInv, TypeOK, TokenKinds
    <2>10. Times(new, "INDENT") - Times(new, "DEDENT") = Len(stack') - Len(stack)
      BY <1>4, <2>6, <2>9
    <2> QED
      BY <1>2, <2>3, <2>5, <2>6, <2>7, <2>10, LexInvTokens
  <1>7. newLine \in BOOLEAN
    BY DEF LexInv, TypeOK
  <1> QED
    BY <1>5, <1>6, <1>7

(* One level more, deeper than the margin.                                 *)
LEMMA LexInvDeeper ==
  ASSUME LexInv, Current \in Blanks, NEW level \in Nat \ {0},
         Len(stack) > 1 => level = Level + 1,
         stack' = Append(stack, level), Consume(Found, <<"INDENT">>),
         newLine' = FALSE, marker' \in Blanks \cup {"none"}, unit' \in Nat,
         UNCHANGED <<source, brackets, inLine, ignoreNewLine, outcome>>
  PROVE  LexInv'
  <1>1. stack \in Seq(Nat) /\ Len(stack) \in Nat \ {0} /\ stack[1] = 0
    BY DEF LexInv, TypeOK
  <1>2. <<"INDENT">> \in Seq(TokenKinds)
    BY OneInSeq DEF TokenKinds
  <1>3. Found \in Nat /\ pos + Found <= Len(text)
    BY FoundType
  <1>4. pos' \in 0..Len(text') /\ tokens' \in Seq(TokenKinds) /\ tokens' = tokens \o <<"INDENT">>
    BY <1>2, <1>3, ConsumeType
  <1>5. /\ stack' \in Seq(Nat) /\ Len(stack') = Len(stack) + 1 /\ stack' # <<>>
        /\ \A i \in 1..Len(stack) : stack'[i] = stack[i]
        /\ stack'[Len(stack) + 1] = level
    BY <1>1
  <1>6. /\ \A i \in 2..Len(stack) : stack[i] > 0
        /\ \A i \in 3..Len(stack) : stack[i] = stack[i - 1] + 1
    BY DEF LexInv, TypeOK
  <1>7. \A i \in 3..Len(stack') : stack'[i] = stack'[i - 1] + 1
    BY <1>1, <1>5, <1>6 DEF Level
  <1>8. \A i \in 2..Len(stack') : stack'[i] > 0
    BY <1>1, <1>5, <1>6
  <1>9. stack'[1] = 0
    BY <1>1, <1>5
  <1>10. TypeOK'
    BY <1>4, <1>5, <1>7, <1>9 DEF LexInv, TypeOK, TokenKinds
  <1>11. Times(<<"INDENT">>, "INDENT") = 1 /\ Times(<<"INDENT">>, "DEDENT") = 0
    BY TimesOne
  <1> DEFINE new == <<"INDENT">>
  <1>12. Times(new, "INDENT") - Times(new, "DEDENT") = Len(stack') - Len(stack)
    BY <1>1, <1>5, <1>11
  <1>13. new \in Seq(TokenKinds) /\ tokens' = tokens \o new
    BY <1>2, <1>4
  <1> HIDE DEF new
  <1> QED
    BY <1>8, <1>10, <1>12, <1>13, LexInvTokens

LEMMA LexInvFirstIndent ==
  ASSUME LexInv, FirstIndent
  PROVE  LexInv'
  <1>1. Current \in Blanks /\ Level = 0
    BY DEF FirstIndent, Indentation, AtMargin
  <1>2. Found \in Nat \ {0}
    BY <1>1, FoundType
  <1> DEFINE level == IF Current = "sp" THEN 1 ELSE Found
  <1>3. level \in Nat \ {0} /\ stack' = Append(stack, level)
    BY <1>2 DEF FirstIndent
  <1> HIDE DEF level
  <1>4. Len(stack) = 1
    <2>1. stack \in Seq(Nat) /\ Len(stack) \in Nat \ {0} /\ \A i \in 2..Len(stack) : stack[i] > 0
      BY DEF LexInv, TypeOK
    <2>2. stack[Len(stack)] = 0
      BY <1>1 DEF Level
    <2>3. Len(stack) \notin 2..Len(stack)
      BY <2>1, <2>2
    <2>4. \A k \in Nat \ {0} : k \notin 2..k => k = 1
      OBVIOUS
    <2> QED
      BY <2>1, <2>3, <2>4
  <1>5. marker' \in Blanks \cup {"none"} /\ unit' \in Nat
    BY <1>1, <1>2 DEF FirstIndent, LexInv, TypeOK
  <1>6. /\ Consume(Found, <<"INDENT">>) /\ newLine' = FALSE
        /\ UNCHANGED <<source, brackets, inLine, ignoreNewLine, outcome>>
    BY DEF FirstIndent
  <1>7. Len(stack) > 1 => level = Level + 1
    BY <1>4
  <1> QED
    BY <1>1, <1>3, <1>5, <1>6, <1>7, LexInvDeeper

LEMMA LexInvIndent ==
  ASSUME LexInv, Indent
  PROVE  LexInv'
  <1>1. Current \in Blanks
    BY DEF Indent, NextIndent, Indentation, AtMargin
  <1>2. Level \in Nat
    BY DEF LexInv, TypeOK, Level
  <1>3. LogicalTab = Level + 1 /\ LogicalTab \in Nat \ {0}
    BY <1>2 DEF Indent
  <1>4. marker' \in Blanks \cup {"none"} /\ unit' \in Nat
    BY DEF Indent, LexInv, TypeOK
  <1> QED
    BY <1>1, <1>3, <1>4, LexInvDeeper DEF Indent

LEMMA LexInvDedent ==
  ASSUME LexInv, Dedent
  PROVE  LexInv'
  <1>1. Current \in Blanks /\ UNCHANGED <<source, marker, unit, brackets, inLine, ignoreNewLine, outcome>>
        /\ newLine' = FALSE
    BY DEF Dedent, NextIndent, Indentation, AtMargin
  <1>2. PICK n \in 1..Len(stack) : Closes(n) /\ Consume(Found, Copies(Len(stack) - n, "DEDENT"))
    BY DEF Dedent
  <1>3. stack \in Seq(Nat) /\ Len(stack) \in Nat \ {0} /\ stack[1] = 0 /\ n \in Nat \ {0}
    BY <1>2 DEF LexInv, TypeOK
  <1> DEFINE new == Copies(Len(stack) - n, "DEDENT")
  <1>4. /\ new \in Seq(TokenKinds) /\ Times(new, "INDENT") = 0
        /\ Times(new, "DEDENT") = Len(stack) - n
    BY <1>2, <1>3, ClosedTokens
  <1>5. Found \in Nat /\ pos + Found <= Len(text) /\ Consume(Found, new)
    BY <1>1, <1>2, FoundType
  <1> HIDE DEF new
  <1>6. pos' \in 0..Len(text') /\ tokens' \in Seq(TokenKinds) /\ tokens' = tokens \o new
    BY <1>1, <1>4, <1>5, ConsumeType
  <1>7. stack' = SubSeq(stack, 1, n)
    BY <1>2 DEF Closes
  <1>8. stack' \in Seq(Nat)
    BY <1>2, <1>3, <1>7
  <1>9. Len(stack') = n
    BY <1>2, <1>3, <1>7
  <1>10. \A i \in 1..n : stack'[i] = stack[i]
    BY <1>2, <1>3, <1>7
  <1>11. /\ \A i \in 2..Len(stack) : stack[i] > 0
         /\ \A i \in 3..Len(stack) : stack[i] = stack[i - 1] + 1
    BY DEF LexInv, TypeOK
  <1>15. n \in 1..Len(stack)
    BY <1>2
  <1>16. \A i \in 2..Len(stack') : stack'[i] > 0
    BY <1>3, <1>9, <1>10, <1>11, <1>15
  <1>17. \A i \in 3..Len(stack') : stack'[i] = stack'[i - 1] + 1
    <2> SUFFICES ASSUME NEW i \in 3..Len(stack')
                 PROVE  stack'[i] = stack'[i - 1] + 1
      OBVIOUS
    <2>1. i \in 1..n /\ i - 1 \in 1..n /\ i \in 3..Len(stack)
      BY <1>3, <1>9, <1>15
    <2> QED
      BY <1>10, <1>11, <2>1
  <1>12. /\ \A i \in 2..Len(stack') : stack'[i] > 0
         /\ \A i \in 3..Len(stack') : stack'[i] = stack'[i - 1] + 1
    BY <1>16, <1>17
  <1>13. stack'[1] = 0 /\ stack' # <<>>
    BY <1>3, <1>9, <1>10
  <1>14. TypeOK'
    BY <1>1, <1>6, <1>8, <1>12, <1>13 DEF LexInv, TypeOK, TokenKinds
  <1>18. Times(new, "INDENT") - Times(new, "DEDENT") = Len(stack') - Len(stack)
    BY <1>3, <1>4, <1>9
  <1> QED
    BY <1>1, <1>4, <1>6, <1>12, <1>14, <1>18, LexInvTokens

LEMMA LexInvFinish ==
  ASSUME LexInv, Finish
  PROVE  LexInv'
  <1> DEFINE last == IF tokens # <<>> /\ tokens[Len(tokens)] # "NEWLINE"
                     THEN <<"NEWLINE">> ELSE <<>>
             closed == Copies(Len(stack) - 1, "DEDENT")
             end == <<"AVL_EOF">>
             new == last \o closed \o end
  <1>1. /\ UNCHANGED <<source, pos, marker, unit, brackets, flags>>
        /\ stack' = <<0>> /\ outcome' = "done"
    BY DEF Finish
  <1>2. stack \in Seq(Nat) /\ Len(stack) \in Nat \ {0} /\ tokens \in Seq(TokenKinds)
    BY DEF LexInv, TypeOK, TokenKinds
  <1>3. tokens' = tokens \o new
    BY DEF Finish
  <1>4. /\ closed \in Seq(TokenKinds) /\ Times(closed, "INDENT") = 0
        /\ Times(closed, "DEDENT") = Len(stack) - 1
    <2>1. Len(stack) - 1 \in Nat
      BY <1>2
    <2> QED
      BY <2>1, ClosedTokens
  <1>5. /\ end \in Seq(TokenKinds) /\ Times(end, "INDENT") = 0 /\ Times(end, "DEDENT") = 0
    <2>1. end \in Seq(TokenKinds)
      BY OneInSeq DEF TokenKinds
    <2> QED
      BY <2>1, TimesOne
  <1>6. /\ last \in Seq(TokenKinds) /\ Times(last, "INDENT") = 0 /\ Times(last, "DEDENT") = 0
    <2>1. <<"NEWLINE">> \in Seq(TokenKinds)
      BY OneInSeq DEF TokenKinds
    <2>2. last = <<"NEWLINE">> \/ last = <<>>
      OBVIOUS
    <2>3. last \in Seq(TokenKinds)
      BY <2>1, <2>2
    <2> HIDE DEF last
    <2> QED
      BY <2>2, <2>3, TimesOne
  <1> HIDE DEF last, closed, end
  <1>7. new \in Seq(TokenKinds) /\ tokens' = tokens \o new
    <2>1. last \o closed \in Seq(TokenKinds)
      BY <1>4, <1>6
    <2>2. new \in Seq(TokenKinds)
      BY <1>5, <2>1
    <2> QED
      BY <1>3, <2>2
  <1>8. \A x : Times(new, x) = Times(last, x) + Times(closed, x) + Times(end, x)
    <2>1. last \o closed \in Seq(TokenKinds)
      BY <1>4, <1>6
    <2>2. \A x : Times(last \o closed, x) = Times(last, x) + Times(closed, x)
      BY <1>4, <1>6, TimesConcat
    <2>3. \A x : Times(new, x) = Times(last \o closed, x) + Times(end, x)
      BY <1>5, <2>1, TimesConcat
    <2> QED
      BY <2>2, <2>3
  <1>9. Times(new, "INDENT") = 0 /\ Times(new, "DEDENT") = Len(stack) - 1
    BY <1>2, <1>4, <1>5, <1>6, <1>8
  <1> HIDE DEF new
  <1>10. tokens' \in Seq(TokenKinds)
    BY <1>2, <1>7
  <1>11. /\ stack' \in Seq(Nat) /\ Len(stack') = 1 /\ stack'[1] = 0 /\ stack' # <<>>
         /\ \A i \in 3..Len(stack') : stack'[i] = stack'[i - 1] + 1
         /\ \A i \in 2..Len(stack') : stack'[i] > 0
    BY <1>1
  <1>12. TypeOK'
    BY <1>1, <1>10, <1>11 DEF LexInv, TypeOK, TokenKinds, flags, text
  <1>13. Times(new, "INDENT") - Times(new, "DEDENT") = Len(stack') - Len(stack)
    BY <1>2, <1>9, <1>11
  <1> QED
    BY <1>1, <1>7, <1>11, <1>12, <1>13, LexInvTokens

LEMMA LexInvNext == LexInv /\ [Next]_vars => LexInv'
  <1> SUFFICES ASSUME LexInv, [Next]_vars
               PROVE  LexInv'
    OBVIOUS
  <1>1. CASE Mark \/ Open \/ Close
    BY <1>1, LexInvMark
  <1>2. CASE Comment \/ NewLineInBrackets \/ NewLineIgnored \/ NewLine \/ BlankInside
    BY <1>2, LexInvSkips
  <1>3. CASE BlankLine \/ SameLevel
    BY <1>3, LexInvBlanks
  <1>4. CASE \/ Dangling \/ Unexpected \/ BackslashAtEnd \/ BlankAtStart
             \/ MixedBlanks \/ UnevenIndent \/ TooSteep
    BY <1>4, LexInvFails
  <1>5. CASE Backslash
    BY <1>5, LexInvBackslash
  <1>6. CASE Word
    BY <1>6, LexInvWord
  <1>7. CASE FirstIndent
    BY <1>7, LexInvFirstIndent
  <1>8. CASE Indent
    BY <1>8, LexInvIndent
  <1>9. CASE Dedent
    BY <1>9, LexInvDedent
  <1>10. CASE Finish
    BY <1>10, LexInvFinish
  <1>11. CASE UNCHANGED vars
    <2>1. UNCHANGED <<source, pos, tokens, stack, marker, unit, brackets, newLine,
                      inLine, ignoreNewLine, outcome>>
      BY <1>11 DEF vars, indentation, flags
    <2>2. TypeOK'
      BY <2>1 DEF LexInv, TypeOK, text
    <2> QED
      BY <2>1, <2>2, LexInvSame
  <1> QED
    BY <1>1, <1>2, <1>3, <1>4, <1>5, <1>6, <1>7, <1>8, <1>9, <1>10, <1>11 DEF Next

-----------------------------------------------------------------------------
LEMMA LexInvAlways == Spec => []LexInv
  BY LexInvInit, LexInvNext, PTL DEF Spec

(* Whatever the sources, the state of lexer::tokenize has its type: the    *)
(* position never leaves the source, no bracket is closed that is not      *)
(* open, and behind the first level each level is one deeper than the one  *)
(* below it.                                                               *)
THEOREM TypeCorrect == Spec => []TypeOK
  <1>1. LexInv => TypeOK
    BY DEF LexInv
  <1> QED
    BY <1>1, LexInvAlways, PTL

(* Whatever the sources, well laid out or not, lexer::whitespace and       *)
(* lexer::tabulation give as many DEDENTs as they close levels: the        *)
(* parser's blocks end where their levels do.                              *)
THEOREM IndentsCorrect == Spec => []IndentsMatch
  <1>1. LexInv => IndentsMatch
    BY DEF LexInv
  <1> QED
    BY <1>1, LexInvAlways, PTL

-----------------------------------------------------------------------------
(* Well laid out sources: where the lexer is, line by line, and what it    *)
(* has made of the lines so far.                                           *)

(* The concatenation of the first i of a sequence of sequences, for each i.*)
Joined(ss) == CHOOSE f : f = [i \in 0..Len(ss) |-> IF i = 0 THEN <<>> ELSE f[i - 1] \o ss[i]]

(* Where the line behind the first i begins, the tokens of the first i,    *)
(* the level behind them, the tokens of the first j symbols of a body.     *)
Start(s, i) == Len(Joined(LineTexts(s.lines, s.blank))[i])
Done(s, i) == Joined(AllLineTokens(s.lines, s.unit))[i]
LevelTo(s, i) == LevelBehind(s.lines, s.unit, i)
Body(s, i) == s.lines[i].body
Margin(s, i) == s.lines[i].n
BodyTokens(b) == [j \in 1..Len(b) |-> TokenOf(b[j])]
Read(b, j) == Joined(BodyTokens(b))[j]

(* The first k levels are open, each one deeper than the one below it.     *)
Steps(k) == [m \in 1..(k + 1) |-> m - 1]

Ladder(k) ==
  /\ stack = Steps(k)
  /\ marker \in {"none", source.blank}
  /\ k > 0 /\ source.blank = "sp" => unit = source.unit

(* Nothing of a logical line has been read since the lines before line i.  *)
Fresh(i) ==
  /\ tokens = Done(source, i - 1)
  /\ Ladder(LevelTo(source, i - 1))
  /\ newLine = (LogicalLines(source.lines, i - 1) # {})
  /\ inLine = FALSE /\ ignoreNewLine = FALSE
  /\ brackets = [kind \in Opening |-> 0]

BeforeLine(i) ==
  /\ i \in 1..(Len(source.lines) + 1)
  /\ pos = Start(source, i - 1)
  /\ Fresh(i)

(* The margin of line i and j symbols of its body have been read.          *)
Within(i, j) ==
  /\ i \in 1..Len(source.lines) /\ j \in 0..Len(Body(source, i))
  /\ pos = Start(source, i - 1) + Margin(source, i) + j

InEmptyLine(i, j) ==
  /\ Within(i, j) /\ EmptyBody(Body(source, i))
  /\ Fresh(i)

InLogicalLine(i, j) ==
  /\ Within(i, j) /\ ~EmptyBody(Body(source, i))
  /\ j > 0 \/ Margin(source, i) > 0
  /\ tokens = Done(source, i - 1) \o Lead(LevelTo(source, i - 1), LevelTo(source, i))
                \o Read(Body(source, i), j)
  /\ Ladder(LevelTo(source, i))
  /\ newLine = FALSE /\ inLine = (j > 0)
  /\ ignoreNewLine = (j > 0 /\ Body(source, i)[j] = "\\")
  /\ brackets = [kind \in Opening |-> Depth(Body(source, i), j, kind)]

(* Line by line, what has been read stands for the tokens so far.          *)
Somewhere ==
  \/ \E i \in Nat : BeforeLine(i)
  \/ \E i, j \in Nat : InEmptyLine(i, j) \/ InLogicalLine(i, j)

AsLaidOut ==
  \/ outcome = "running" /\ Somewhere
  \/ outcome = "done" /\ tokens = TokensExpected(source.lines, source.unit)

LayoutInv == LaidOut(source) => AsLaidOut

(* An induction over the numbers up to n, for a set of them.               *)
LEMMA UpToAll ==
  ASSUME NEW n \in Nat, NEW T, 0 \in T,
         \A i \in 0..(n - 1) : i \in T => i + 1 \in T
  PROVE  \A i \in 0..n : i \in T
  <1> DEFINE Out == {j \in 0..n : j \notin T}
  <1> SUFFICES ASSUME Out # {}
               PROVE  FALSE
    OBVIOUS
  <1>1. Out \in SUBSET Nat
    OBVIOUS
  <1> HIDE DEF Out
  <1>2. PICK i \in Out : \A k \in Out : i <= k
    BY <1>1, LeastExists
  <1>3. i \in 0..n /\ i \notin T
    BY DEF Out
  <1>4. i # 0 /\ i - 1 \in 0..(n - 1) /\ i - 1 \in 0..n /\ ~(i <= i - 1) /\ (i - 1) + 1 = i
    BY <1>3
  <1>5. i - 1 \in T
    BY <1>2, <1>4 DEF Out
  <1> QED
    BY <1>3, <1>4, <1>5

(* A function of the numbers up to n can be given by its first value and   *)
(* what each adds to the one before, here h, which stays within R.         *)
StaysIn(h, n, R) == \A i \in 1..n : \A r \in R : h[i][r] \in R

Iteration(f, h, n, R, base) ==
  f \in [0..n -> R] /\ f[0] = base /\ \A i \in 1..n : f[i] = h[i][f[i - 1]]

LEMMA Iterates ==
  ASSUME NEW n \in Nat, NEW R, NEW base \in R, NEW h, StaysIn(h, n, R)
  PROVE  \E f : Iteration(f, h, n, R, base)
  <1> DEFINE T == {m \in 0..n : \E f : Iteration(f, h, m, R, base)}
  <1>1. 0 \in T
    <2> DEFINE f == [i \in 0..0 |-> base]
    <2>1. Iteration(f, h, 0, R, base)
      BY DEF Iteration
    <2> HIDE DEF f
    <2> QED
      BY <2>1
  <1>2. ASSUME NEW m \in 0..(n - 1), m \in T
        PROVE  m + 1 \in T
    <2>1. PICK f : Iteration(f, h, m, R, base)
      BY <1>2
    <2> DEFINE g == [i \in 0..m + 1 |-> IF i = m + 1 THEN h[i][f[m]] ELSE f[i]]
    <2>2. \A i \in 0..m : g[i] = f[i]
      OBVIOUS
    <2>8. f[m] \in R
      BY <2>1 DEF Iteration
    <2>3. g[m + 1] = h[m + 1][f[m]] /\ m + 1 \in 1..n
      OBVIOUS
    <2>9. h[m + 1][f[m]] \in R
      BY <2>3, <2>8 DEF StaysIn
    <2>4. g \in [0..m + 1 -> R]
      BY <2>1, <2>3, <2>9 DEF Iteration
    <2> HIDE DEF g
    <2>5. ASSUME NEW i \in 1..m + 1
          PROVE  g[i] = h[i][g[i - 1]]
      <3>1. CASE i = m + 1
        BY <2>2, <2>3, <3>1
      <3>2. CASE i # m + 1
        BY <2>1, <2>2, <3>2 DEF Iteration
      <3> QED
        BY <3>1, <3>2
    <2>6. g[0] = base
      BY <2>1, <2>2 DEF Iteration
    <2>7. m + 1 \in 0..n /\ Iteration(g, h, m + 1, R, base)
      BY <2>4, <2>5, <2>6 DEF Iteration
    <2> QED
      BY <2>7
  <1>3. n \in 0..n /\ \A m \in 0..(n - 1) : m \in T => m + 1 \in T
    BY <1>2
  <1> HIDE DEF T
  <1>4. n \in T
    <2>1. \A i \in 0..n : i \in T
      BY <1>1, <1>3, UpToAll
    <2> QED
      BY <1>3, <2>1
  <1> QED
    BY <1>4 DEF T

-----------------------------------------------------------------------------
(* Concatenations.                                                         *)
LEMMA SeqOfSeqs ==
  ASSUME NEW S, NEW ss \in Seq(Seq(S))
  PROVE  Len(ss) \in Nat /\ <<>> \in Seq(S) /\ \A i \in 1..Len(ss) : ss[i] \in Seq(S)
  <1> DEFINE R == Seq(S)
  <1>1. <<>> \in R
    OBVIOUS
  <1>2. ss \in Seq(R)
    OBVIOUS
  <1> HIDE DEF R
  <1>3. Len(ss) \in Nat /\ \A i \in 1..Len(ss) : ss[i] \in R
    BY <1>2
  <1> QED
    BY <1>1, <1>3 DEF R

Parts(f, ss, n, S) ==
  /\ f \in [0..n -> Seq(S)]
  /\ f[0] = <<>>
  /\ \A i \in 1..n : f[i] = f[i - 1] \o ss[i]

LEMMA JoinedIs ==
  ASSUME NEW S, NEW ss \in Seq(Seq(S))
  PROVE  Parts(Joined(ss), ss, Len(ss), S)
  <1> DEFINE n == Len(ss)
             R == Seq(S)
             Is(f) == f = [i \in 0..n |-> IF i = 0 THEN <<>> ELSE f[i - 1] \o ss[i]]
             h == [i \in 1..n |-> [r \in R |-> r \o ss[i]]]
             J == Joined(ss)
  <1>1. n \in Nat /\ <<>> \in R /\ \A i \in 1..n : ss[i] \in R
    BY SeqOfSeqs
  <1>2. \A i \in 1..n : \A r \in R : h[i][r] = r \o ss[i]
    OBVIOUS
  <1>3. StaysIn(h, n, R)
    <2>1. \A i \in 1..n : \A r \in R : r \o ss[i] \in R
      BY <1>1
    <2> QED
      BY <1>2, <2>1 DEF StaysIn
  <1> HIDE DEF h
  <1>4. PICK f : Iteration(f, h, n, R, <<>>)
    BY <1>1, <1>3, Iterates
  <1>5. Is(f)
    <2>1. ASSUME NEW i \in 0..n
          PROVE  f[i] = IF i = 0 THEN <<>> ELSE f[i - 1] \o ss[i]
      <3>1. i # 0 => i \in 1..n /\ i - 1 \in 0..n
        BY <1>1
      <3>2. i # 0 => f[i] = h[i][f[i - 1]] /\ f[i - 1] \in R
        BY <1>4, <3>1 DEF Iteration
      <3> QED
        BY <1>2, <1>4, <3>1, <3>2 DEF Iteration
    <2>2. f = [i \in 0..n |-> f[i]]
      BY <1>4 DEF Iteration
    <2> QED
      BY <2>1, <2>2
  <1>6. Is(J)
    <2>1. J = CHOOSE g : Is(g)
      BY DEF Joined
    <2> HIDE DEF Is, J
    <2> QED
      BY <1>5, <2>1
  <1> HIDE DEF J
  <1>7. J = [i \in 0..n |-> J[i]]
    BY <1>6
  <1>20. \A i \in 0..n : J[i] = IF i = 0 THEN <<>> ELSE J[i - 1] \o ss[i]
    BY <1>6
  <1>8. \A i \in 1..n : J[i] = J[i - 1] \o ss[i]
    <2>1. ASSUME NEW i \in 1..n
          PROVE  i \in 0..n /\ i # 0
      BY <1>1
    <2> HIDE DEF n
    <2> QED
      BY <1>20, <2>1
  <1>21. J[0] = <<>>
    <2>1. 0 \in 0..n
      BY <1>1
    <2> QED
      BY <1>20, <2>1
  <1> DEFINE T == {i \in 0..n : J[i] \in R}
  <1>9. 0 \in T
    <2>1. 0 \in 0..n /\ J[0] \in R
      BY <1>1, <1>21
    <2> QED
      BY <2>1
  <1>10. ASSUME NEW i \in 0..(n - 1), i \in T
         PROVE  i + 1 \in T
    <2>1. i + 1 \in 1..n /\ i + 1 \in 0..n /\ (i + 1) - 1 = i
      BY <1>1
    <2>2. J[i + 1] = J[i] \o ss[i + 1] /\ J[i] \in R /\ ss[i + 1] \in R
      BY <1>1, <1>8, <1>10, <2>1
    <2>3. J[i + 1] \in R
      BY <2>2
    <2> QED
      BY <2>1, <2>3
  <1> HIDE DEF T
  <1>11. \A i \in 0..n : i \in T
    BY <1>1, <1>9, <1>10, UpToAll
  <1>12. J \in [0..n -> R]
    BY <1>7, <1>11 DEF T
  <1> QED
    BY <1>8, <1>12, <1>21 DEF J, Parts

LEMMA FlattenIsJoined ==
  ASSUME NEW S, NEW ss \in Seq(Seq(S))
  PROVE  FlattenSeq(ss) = Joined(ss)[Len(ss)]
  <1> DEFINE n == Len(ss)
             J == Joined(ss)
             Is(f) == f = [i \in 1..n |-> IF i = 1 THEN ss[i] ELSE f[i - 1] \o ss[i]]
             F == CHOOSE f : Is(f)
             g == [i \in 1..n |-> J[i]]
  <1>1. /\ n \in Nat /\ J \in [0..n -> Seq(S)] /\ J[0] = <<>>
        /\ \A i \in 1..n : J[i] = J[i - 1] \o ss[i]
        /\ \A i \in 1..n : ss[i] \in Seq(S)
    <2>1. n \in Nat /\ \A i \in 1..n : ss[i] \in Seq(S)
      BY SeqOfSeqs
    <2>2. Parts(J, ss, n, S)
      BY JoinedIs
    <2> HIDE DEF J, n
    <2> QED
      BY <2>1, <2>2 DEF Parts
  <1>2. CASE n = 0
    <2>1. ss = <<>>
      BY <1>2
    <2> QED
      BY <1>1, <1>2, <2>1 DEF FlattenSeq
  <1>3. CASE n # 0
    <2>1. FlattenSeq(ss) = F[n]
      BY <1>3 DEF FlattenSeq
    <2>2. Is(g)
      <3>1. ASSUME NEW i \in 1..n
            PROVE  J[i] = IF i = 1 THEN ss[i] ELSE g[i - 1] \o ss[i]
        <4>1. CASE i = 1
          <5>1. ss[i] \in Seq(S)
            BY <1>1
          <5>4. i - 1 = 0
            BY <4>1
          <5>2. J[i] = J[0] \o ss[i]
            BY <1>1, <5>4
          <5>3. J[i] = <<>> \o ss[i]
            BY <1>1, <5>2
          <5> QED
            BY <4>1, <5>1, <5>3, ConcatEmptySeq
        <4>2. CASE i # 1
          <5>1. i - 1 \in 1..n
            BY <1>1, <4>2
          <5> QED
            BY <1>1, <4>2, <5>1
        <4> QED
          BY <4>1, <4>2
      <3> QED
        BY <3>1
    <2> HIDE DEF Is, F
    <2>3. Is(F)
      BY <2>2 DEF F
    <2> DEFINE T == {i \in 0..n : i = 0 \/ F[i] = J[i]}
    <2> HIDE DEF J, g
    <2>4. 0 \in T
      BY <1>1
    <2>5. ASSUME NEW i \in 0..(n - 1), i \in T
          PROVE  i + 1 \in T
      <3>1. i + 1 \in 1..n /\ i + 1 \in 0..n /\ (i + 1) - 1 = i /\ (i # 0 => i + 1 # 1)
        BY <1>1
      <3>2. F[i + 1] = IF i + 1 = 1 THEN ss[i + 1] ELSE F[(i + 1) - 1] \o ss[i + 1]
        BY <2>3, <3>1 DEF Is
      <3>3. J[i + 1] = J[i] \o ss[i + 1]
        BY <1>1, <3>1
      <3>4. CASE i = 0
        <4>5. i + 1 = 1
          BY <3>4
        <4>1. 1 \in 1..n /\ J[1] = J[0] \o ss[1]
          BY <3>1, <3>3, <3>4, <4>5
        <4>3. ss[1] \in Seq(S)
          BY <1>1, <4>1
        <4>4. J[1] = <<>> \o ss[1]
          BY <1>1, <4>1
        <4>2. J[1] = ss[1]
          BY <4>3, <4>4, ConcatEmptySeq
        <4> QED
          BY <3>1, <3>2, <3>4, <4>2
      <3>5. CASE i # 0
        BY <2>5, <3>1, <3>2, <3>3, <3>5
      <3> QED
        BY <3>4, <3>5
    <2> HIDE DEF T
    <2>6. \A i \in 0..n : i \in T
      BY <1>1, <2>4, <2>5, UpToAll
    <2>7. F[n] = J[n]
      BY <1>1, <1>3, <2>6 DEF T
    <2> QED
      BY <2>1, <2>7 DEF J
  <1> QED
    BY <1>2, <1>3

(* Where the parts of a concatenation are in it.                           *)
PartsAt(ss, n) ==
  /\ \A i \in 0..n : Len(Joined(ss)[i]) \in Nat
  /\ \A i \in 1..n :
       /\ Len(Joined(ss)[i]) = Len(Joined(ss)[i - 1]) + Len(ss[i])
       /\ Len(Joined(ss)[i]) <= Len(FlattenSeq(ss))
       /\ \A k \in 1..Len(ss[i]) : FlattenSeq(ss)[Len(Joined(ss)[i - 1]) + k] = ss[i][k]

LEMMA ConcatAt ==
  ASSUME NEW S, NEW s \in Seq(S), NEW t \in Seq(S)
  PROVE  /\ s \o t \in Seq(S) /\ Len(s) \in Nat /\ Len(t) \in Nat
         /\ Len(s \o t) = Len(s) + Len(t)
         /\ \A i \in 1..Len(s) : (s \o t)[i] = s[i]
         /\ \A i \in 1..Len(t) : (s \o t)[Len(s) + i] = t[i]
  OBVIOUS

LEMMA JoinedAt ==
  ASSUME NEW S, NEW ss \in Seq(Seq(S))
  PROVE  PartsAt(ss, Len(ss))
  <1> DEFINE n == Len(ss)
             J == Joined(ss)
             At(m, i) == /\ Len(J[i]) <= Len(J[m])
                         /\ \A k \in 1..Len(ss[i]) : J[m][Len(J[i - 1]) + k] = ss[i][k]
             T == {m \in 0..n : \A i \in 1..m : At(m, i)}
  <1>1. /\ n \in Nat /\ J \in [0..n -> Seq(S)] /\ J[0] = <<>>
        /\ \A i \in 1..n : J[i] = J[i - 1] \o ss[i]
        /\ \A i \in 1..n : ss[i] \in Seq(S)
    <2>1. n \in Nat /\ \A i \in 1..n : ss[i] \in Seq(S)
      BY SeqOfSeqs
    <2>2. Parts(J, ss, n, S)
      BY JoinedIs
    <2> HIDE DEF J, n
    <2> QED
      BY <2>1, <2>2 DEF Parts
  <1>2. FlattenSeq(ss) = J[n]
    BY FlattenIsJoined
  <1> HIDE DEF J
  <1>3. /\ \A i \in 0..n : J[i] \in Seq(S) /\ Len(J[i]) \in Nat
        /\ \A i \in 1..n : Len(ss[i]) \in Nat
    <2> DEFINE R == Seq(S)
    <2>1. \A r \in R : Len(r) \in Nat
      OBVIOUS
    <2>2. /\ J \in [0..n -> R]
          /\ \A i \in 1..n : ss[i] \in R
      BY <1>1
    <2> HIDE DEF R
    <2>3. \A i \in 0..n : J[i] \in R
      BY <2>2
    <2> QED
      BY <2>1, <2>2, <2>3 DEF R
  <1>4. ASSUME NEW i \in 1..n
        PROVE  /\ i - 1 \in 0..n /\ i \in 0..n
               /\ Len(J[i]) = Len(J[i - 1]) + Len(ss[i])
               /\ \A k \in 1..Len(J[i - 1]) : J[i][k] = J[i - 1][k]
               /\ \A k \in 1..Len(ss[i]) : J[i][Len(J[i - 1]) + k] = ss[i][k]
    <2>1. i - 1 \in 0..n /\ i \in 0..n
      BY <1>1
    <2> DEFINE a == J[i - 1]
               c == ss[i]
    <2>2. a \in Seq(S) /\ c \in Seq(S) /\ J[i] = a \o c
      BY <1>1, <1>3, <2>1
    <2> HIDE DEF a, c
    <2>3. /\ Len(a \o c) = Len(a) + Len(c)
          /\ \A k \in 1..Len(a) : (a \o c)[k] = a[k]
          /\ \A k \in 1..Len(c) : (a \o c)[Len(a) + k] = c[k]
      BY <2>2
    <2> QED
      BY <2>1, <2>2, <2>3 DEF a, c
  <1>5. 0 \in T
    BY <1>1
  <1>6. ASSUME NEW m \in 0..(n - 1), m \in T
        PROVE  m + 1 \in T
    <2>1. m + 1 \in 1..n /\ m + 1 \in 0..n /\ (m + 1) - 1 = m /\ m \in 0..n
      BY <1>1
    <2>2. ASSUME NEW i \in 1..m + 1
          PROVE  At(m + 1, i)
      <3>1. i \in 1..n
        BY <1>1
      <3>2. CASE i = m + 1
        <4>1. Len(J[i]) <= Len(J[m + 1])
          BY <1>3, <2>1, <3>2
        <4>2. \A k \in 1..Len(ss[i]) : J[m + 1][Len(J[i - 1]) + k] = ss[i][k]
          BY <1>4, <3>1, <3>2
        <4> QED
          BY <4>1, <4>2
      <3>3. CASE i # m + 1
        <4>1. At(m, i)
          BY <1>6, <3>3
        <4>5. /\ Len(J[m + 1]) = Len(J[m]) + Len(ss[m + 1]) /\ Len(ss[m + 1]) \in Nat
              /\ Len(J[m]) \in Nat
              /\ \A k \in 1..Len(J[m]) : J[m + 1][k] = J[m][k]
          <5> DEFINE p == m + 1
          <5>1. p \in 1..n /\ p - 1 = m
            BY <2>1
          <5> HIDE DEF p
          <5>2. /\ Len(J[p]) = Len(J[p - 1]) + Len(ss[p])
                /\ \A k \in 1..Len(J[p - 1]) : J[p][k] = J[p - 1][k]
            BY <1>4, <5>1
          <5> QED
            BY <1>3, <2>1, <5>1, <5>2 DEF p
        <4>2. Len(J[m]) <= Len(J[m + 1]) /\ Len(J[m + 1]) \in Nat
          <5> DEFINE a == Len(J[m])
                     c == Len(ss[m + 1])
                     d == Len(J[m + 1])
          <5>1. a \in Nat /\ c \in Nat /\ d = a + c
            BY <4>5
          <5> HIDE DEF a, c, d
          <5>2. a <= d /\ d \in Nat
            BY <5>1
          <5> QED
            BY <5>2 DEF a, d
        <4>6. /\ Len(J[i - 1]) \in Nat /\ Len(ss[i]) \in Nat
              /\ Len(J[i]) = Len(J[i - 1]) + Len(ss[i]) /\ Len(J[i]) <= Len(J[m])
          BY <1>3, <1>4, <3>1, <4>1
        <4>3. ASSUME NEW k \in 1..Len(ss[i])
              PROVE  J[m + 1][Len(J[i - 1]) + k] = ss[i][k]
          <5> DEFINE a == Len(J[i - 1])
                     c == Len(ss[i])
                     d == Len(J[m])
          <5>1. a + k \in 1..d
            <6>1. a \in Nat /\ c \in Nat /\ d \in Nat /\ k \in 1..c /\ a + c <= d
              BY <4>5, <4>6
            <6> HIDE DEF a, c, d
            <6> QED
              BY <6>1
          <5>2. J[m][a + k] = ss[i][k]
            BY <4>1
          <5> HIDE DEF a
          <5>3. J[m + 1][a + k] = J[m][a + k]
            BY <4>5, <5>1
          <5> QED
            BY <5>2, <5>3 DEF a
        <4>4. Len(J[i]) <= Len(J[m + 1])
          <5> DEFINE a == Len(J[i])
                     c == Len(J[m])
                     d == Len(J[m + 1])
          <5>3. a \in Nat
            BY <1>3, <1>4, <3>1
          <5>4. a <= c
            BY <4>1
          <5>1. a <= c /\ c <= d /\ a \in Nat /\ c \in Nat /\ d \in Nat
            BY <4>2, <4>5, <5>3, <5>4
          <5> HIDE DEF a, c, d
          <5>2. a <= d
            BY <5>1
          <5> QED
            BY <5>2 DEF a, d
        <4> QED
          BY <4>3, <4>4
      <3> QED
        BY <3>2, <3>3
    <2> QED
      BY <2>1, <2>2
  <1> HIDE DEF T
  <1>7. \A m \in 0..n : m \in T
    BY <1>1, <1>5, <1>6, UpToAll
  <1>8. \A i \in 1..n : At(n, i)
    <2>1. n \in T
      BY <1>1, <1>7
    <2> QED
      BY <2>1 DEF T
  <1>9. \A i \in 0..n : Len(J[i]) \in Nat
    BY <1>3
  <1>10. \A i \in 1..n : /\ Len(J[i]) = Len(J[i - 1]) + Len(ss[i])
                         /\ Len(J[i]) <= Len(J[n])
                         /\ \A k \in 1..Len(ss[i]) : J[n][Len(J[i - 1]) + k] = ss[i][k]
    BY <1>4, <1>8
  <1> HIDE DEF At
  <1> QED
    BY <1>2, <1>9, <1>10 DEF J, PartsAt

-----------------------------------------------------------------------------
(* Where the symbols of a line are in the text.                            *)
LEMMA LineTextAt ==
  ASSUME NEW line \in Lines, NEW blank \in Blanks
  PROVE  /\ LineText(line, blank) \in Seq(Symbols)
         /\ line.n \in Nat /\ Len(line.body) \in Nat /\ line.body \in Seq(Symbols)
         /\ Len(LineText(line, blank)) = line.n + Len(line.body) + 1
         /\ \A k \in 1..line.n : LineText(line, blank)[k] = blank
         /\ \A j \in 1..Len(line.body) : LineText(line, blank)[line.n + j] = line.body[j]
         /\ LineText(line, blank)[line.n + Len(line.body) + 1] = "nl"
  <1> DEFINE n == line.n
             m == Copies(n, blank)
             b == line.body
             e == <<"nl">>
  <1>1. n \in Nat /\ b \in Seq(Symbols) /\ LineText(line, blank) = (m \o b) \o e
    BY DEF Lines, LineText
  <1>2. m \in Seq(Symbols) /\ Len(m) = n /\ \A k \in 1..n : m[k] = blank
    <2>1. blank \in Symbols
      BY DEF Symbols, Ignored
    <2> HIDE DEF n
    <2> QED
      BY <1>1, <2>1 DEF Copies
  <1>3. e \in Seq(Symbols) /\ Len(e) = 1 /\ e[1] = "nl"
    <2>1. "nl" \in Symbols
      BY DEF Symbols, Ignored
    <2> QED
      BY <2>1, OneInSeq
  <1> HIDE DEF n, m, b, e
  <1>4. /\ m \o b \in Seq(Symbols) /\ Len(m \o b) = n + Len(b) /\ Len(b) \in Nat
        /\ \A k \in 1..n : (m \o b)[k] = blank
        /\ \A j \in 1..Len(b) : (m \o b)[n + j] = b[j]
    <2>1. /\ m \o b \in Seq(Symbols) /\ Len(m) \in Nat /\ Len(b) \in Nat
          /\ Len(m \o b) = Len(m) + Len(b)
          /\ \A k \in 1..Len(m) : (m \o b)[k] = m[k]
          /\ \A j \in 1..Len(b) : (m \o b)[Len(m) + j] = b[j]
      <3>1. m \in Seq(Symbols) /\ b \in Seq(Symbols)
        BY <1>1, <1>2
      <3> QED
        BY <3>1, ConcatAt
    <2>2. \A k \in 1..n : (m \o b)[k] = blank
      BY <1>2, <2>1
    <2> QED
      BY <1>2, <2>1, <2>2
  <1> DEFINE mb == m \o b
  <1> HIDE DEF mb
  <1>5. /\ mb \o e \in Seq(Symbols) /\ Len(mb \o e) = n + Len(b) + 1
        /\ \A k \in 1..(n + Len(b)) : (mb \o e)[k] = mb[k]
        /\ (mb \o e)[n + Len(b) + 1] = "nl"
    <2>1. mb \in Seq(Symbols) /\ Len(mb) = n + Len(b)
      BY <1>4 DEF mb
    <2> QED
      <3>1. /\ mb \o e \in Seq(Symbols) /\ Len(mb) \in Nat
            /\ Len(mb \o e) = Len(mb) + Len(e)
            /\ \A k \in 1..Len(mb) : (mb \o e)[k] = mb[k]
            /\ \A j \in 1..Len(e) : (mb \o e)[Len(mb) + j] = e[j]
        BY <1>3, <2>1, ConcatAt
      <3>2. 1 \in 1..Len(e)
        BY <1>3
      <3>3. (mb \o e)[Len(mb) + 1] = "nl"
        BY <1>3, <3>1, <3>2
      <3> QED
        BY <1>3, <2>1, <3>1, <3>3
  <1>6. /\ \A k \in 1..n : k \in 1..(n + Len(b))
        /\ \A j \in 1..Len(b) : n + j \in 1..(n + Len(b))
    BY <1>1, <1>4
  <1>7. /\ \A k \in 1..n : (mb \o e)[k] = blank
        /\ \A j \in 1..Len(b) : (mb \o e)[n + j] = b[j]
    BY <1>4, <1>5, <1>6 DEF mb
  <1> QED
    BY <1>1, <1>4, <1>5, <1>7 DEF mb, n, b

LEMMA SourceType ==
  ASSUME NEW s \in Sources
  PROVE  /\ s.lines \in Seq(Lines) /\ Len(s.lines) \in Nat
         /\ s.blank \in Blanks /\ s.unit \in Nat \ {0}
         /\ \A i \in 1..Len(s.lines) :
              /\ s.lines[i] \in Lines /\ Margin(s, i) \in Nat
              /\ Body(s, i) \in Seq(Symbols) /\ Len(Body(s, i)) \in Nat
  <1>1. s.lines \in Seq(Lines) /\ s.blank \in Blanks /\ s.unit \in Nat \ {0}
    BY SourcesAssumption
  <1>2. \A i \in 1..Len(s.lines) : s.lines[i] \in Lines
    BY <1>1
  <1>3. \A line \in Lines : line.n \in Nat /\ line.body \in Seq(Symbols) /\ Len(line.body) \in Nat
    BY DEF Lines
  <1> QED
    BY <1>1, <1>2, <1>3 DEF Margin, Body

(* Where a line ends, the line end or not.                                 *)
EndOf(s, i) == Start(s, i - 1) + Margin(s, i) + Len(Body(s, i))

LEMMA WholeText ==
  ASSUME NEW s \in Sources
  PROVE  LET whole == Text(s.lines, s.blank) IN
         /\ whole \in Seq(Symbols) /\ Len(whole) = Start(s, Len(s.lines))
         /\ \A i \in 0..Len(s.lines) : Start(s, i) \in Nat
         /\ Start(s, 0) = 0
         /\ \A i \in 1..Len(s.lines) :
              /\ Start(s, i) = EndOf(s, i) + 1
              /\ Start(s, i) <= Len(whole)
              /\ \A k \in 1..Margin(s, i) : whole[Start(s, i - 1) + k] = s.blank
              /\ \A j \in 1..Len(Body(s, i)) :
                   whole[Start(s, i - 1) + Margin(s, i) + j] = Body(s, i)[j]
              /\ whole[EndOf(s, i) + 1] = "nl"
  <1> DEFINE N == Len(s.lines)
             ss == LineTexts(s.lines, s.blank)
             whole == FlattenSeq(ss)
  <1>1. N \in Nat /\ \A i \in 1..N : s.lines[i] \in Lines /\ s.blank \in Blanks
    BY SourceType
  <1>2. \A i \in 1..N : LineText(s.lines[i], s.blank) \in Seq(Symbols)
    BY <1>1, LineTextAt
  <1>3. ss \in Seq(Seq(Symbols)) /\ Len(ss) = N /\ \A i \in 1..N : ss[i] = LineText(s.lines[i], s.blank)
    <2> DEFINE R == Seq(Symbols)
    <2>1. \A i \in 1..N : LineText(s.lines[i], s.blank) \in R
      BY <1>2
    <2> HIDE DEF R, N
    <2>2. /\ [i \in 1..N |-> LineText(s.lines[i], s.blank)] \in Seq(R)
          /\ Len([i \in 1..N |-> LineText(s.lines[i], s.blank)]) = N
      BY <1>1, <2>1
    <2> QED
      BY <2>2 DEF LineTexts, N, R
  <1> HIDE DEF ss
  <1>4. PartsAt(ss, N)
    <2>1. PartsAt(ss, Len(ss))
      BY <1>3, JoinedAt
    <2> QED
      BY <1>3, <2>1
  <1>5. \A i : Start(s, i) = Len(Joined(ss)[i])
    BY DEF Start, ss
  <1>6. whole = Joined(ss)[N] /\ Joined(ss)[0] = <<>> /\ whole \in Seq(Symbols)
    <2>1. whole = Joined(ss)[N]
      BY <1>3, FlattenIsJoined
    <2>2. Parts(Joined(ss), ss, Len(ss), Symbols)
      BY <1>3, JoinedIs
    <2>3. Joined(ss) \in [0..N -> Seq(Symbols)] /\ N \in 0..N /\ Joined(ss)[0] = <<>>
      BY <1>1, <1>3, <2>2 DEF Parts
    <2> HIDE DEF N, whole
    <2> QED
      BY <2>1, <2>3
  <1> HIDE DEF whole
  <1>7. whole = FlattenSeq(ss) /\ whole = Text(s.lines, s.blank)
    BY DEF whole, Text, ss
  <1>8. ASSUME NEW i \in 1..N
        PROVE  /\ Start(s, i) = EndOf(s, i) + 1
               /\ Start(s, i) <= Len(whole)
               /\ \A k \in 1..Margin(s, i) : whole[Start(s, i - 1) + k] = s.blank
               /\ \A j \in 1..Len(Body(s, i)) :
                    whole[Start(s, i - 1) + Margin(s, i) + j] = Body(s, i)[j]
               /\ whole[EndOf(s, i) + 1] = "nl"
    <2> DEFINE a == Start(s, i - 1)
               m == Margin(s, i)
               b == Body(s, i)
               l == Len(b)
               t == ss[i]
    <2>1. /\ m \in Nat /\ l \in Nat /\ Len(t) = m + l + 1
          /\ \A k \in 1..m : t[k] = s.blank
          /\ \A j \in 1..l : t[m + j] = b[j]
          /\ t[m + l + 1] = "nl"
      <3>1. t = LineText(s.lines[i], s.blank) /\ s.lines[i] \in Lines /\ s.blank \in Blanks
        BY <1>1, <1>3
      <3> DEFINE line == s.lines[i]
                 blank == s.blank
      <3>2. m = line.n /\ b = line.body /\ t = LineText(line, blank)
        BY <3>1 DEF Margin, Body
      <3>3. line \in Lines /\ blank \in Blanks
        BY <3>1
      <3> HIDE DEF m, b, t, line, blank
      <3>4. /\ line.n \in Nat /\ Len(line.body) \in Nat
            /\ Len(LineText(line, blank)) = line.n + Len(line.body) + 1
            /\ \A k \in 1..line.n : LineText(line, blank)[k] = blank
            /\ \A j \in 1..Len(line.body) : LineText(line, blank)[line.n + j] = line.body[j]
            /\ LineText(line, blank)[line.n + Len(line.body) + 1] = "nl"
        BY <3>3, LineTextAt
      <3> QED
        BY <3>2, <3>4 DEF blank
    <2>2. /\ a \in Nat /\ Start(s, i) = a + Len(t) /\ Start(s, i) <= Len(whole)
          /\ \A k \in 1..Len(t) : whole[a + k] = t[k]
      <3>1. i - 1 \in 0..N
        BY <1>1
      <3> QED
        <4>1. /\ a = Len(Joined(ss)[i - 1]) /\ a \in Nat
              /\ Start(s, i) = Len(Joined(ss)[i])
          BY <1>4, <1>5, <3>1 DEF PartsAt
        <4>2. /\ Len(Joined(ss)[i]) = Len(Joined(ss)[i - 1]) + Len(t)
              /\ Len(Joined(ss)[i]) <= Len(whole)
              /\ \A k \in 1..Len(t) : whole[Len(Joined(ss)[i - 1]) + k] = t[k]
          BY <1>4, <1>7 DEF PartsAt
        <4> HIDE DEF a, t
        <4> QED
          BY <4>1, <4>2
    <2>3. EndOf(s, i) = a + m + l
      BY DEF EndOf
    <2> HIDE DEF a, m, b, l, t
    <2>4. /\ \A k \in 1..m : k \in 1..Len(t)
          /\ \A j \in 1..l : m + j \in 1..Len(t) /\ a + (m + j) = a + m + j
          /\ m + l + 1 \in 1..Len(t) /\ a + (m + l + 1) = (a + m + l) + 1
          /\ a + Len(t) = (a + m + l) + 1
      BY <2>1, <2>2
    <2>5. \A k \in 1..m : whole[a + k] = s.blank
      BY <2>1, <2>2, <2>4
    <2>6. \A j \in 1..l : whole[a + m + j] = b[j]
      <3>1. \A j \in 1..l : whole[a + (m + j)] = t[m + j]
        BY <2>2, <2>4
      <3> QED
        BY <2>1, <2>4, <3>1
    <2>7. whole[(a + m + l) + 1] = "nl"
      <3>1. whole[a + (m + l + 1)] = t[m + l + 1]
        BY <2>2, <2>4
      <3> QED
        BY <2>1, <2>4, <3>1
    <2>8. Start(s, i) = (a + m + l) + 1
      BY <2>2, <2>4
    <2> QED
      BY <2>2, <2>3, <2>5, <2>6, <2>7, <2>8 DEF a, m, b, l
  <1>9. Start(s, 0) = 0
    BY <1>5, <1>6
  <1>10. \A i \in 0..N : Start(s, i) \in Nat
    BY <1>4, <1>5 DEF PartsAt
  <1>11. Len(whole) = Start(s, N)
    BY <1>5, <1>6
  <1> QED
    BY <1>6, <1>7, <1>8, <1>9, <1>10, <1>11

(* The text that is read: the same, but for a line end at its end.         *)
Cut(s) == MayCut(s.lines) /\ Len(s.text) = EndOf(s, Len(s.lines))

Placed(s) ==
  /\ \A i \in 0..Len(s.lines) : Start(s, i) \in Nat
  /\ Start(s, 0) = 0
  /\ Len(s.text) = Start(s, Len(s.lines)) \/ Cut(s)
  /\ \A i \in 1..Len(s.lines) :
       /\ Start(s, i) = EndOf(s, i) + 1 /\ EndOf(s, i) \in Nat
       /\ EndOf(s, i) <= Len(s.text)
       /\ \A k \in 1..Margin(s, i) : s.text[Start(s, i - 1) + k] = s.blank
       /\ \A j \in 1..Len(Body(s, i)) :
            s.text[Start(s, i - 1) + Margin(s, i) + j] = Body(s, i)[j]
       /\ \/ EndOf(s, i) + 1 <= Len(s.text) /\ s.text[EndOf(s, i) + 1] = "nl"
          \/ i = Len(s.lines) /\ Cut(s)

LEMMA TextPlaced ==
  ASSUME NEW s \in Sources, LaidOut(s)
  PROVE  Placed(s)
  <1> DEFINE N == Len(s.lines)
             whole == Text(s.lines, s.blank)
  <1>1. /\ whole \in Seq(Symbols) /\ Len(whole) = Start(s, N)
        /\ \A i \in 0..N : Start(s, i) \in Nat
        /\ Start(s, 0) = 0
        /\ \A i \in 1..N :
             /\ Start(s, i) = EndOf(s, i) + 1
             /\ Start(s, i) <= Len(whole)
             /\ \A k \in 1..Margin(s, i) : whole[Start(s, i - 1) + k] = s.blank
             /\ \A j \in 1..Len(Body(s, i)) :
                  whole[Start(s, i - 1) + Margin(s, i) + j] = Body(s, i)[j]
             /\ whole[EndOf(s, i) + 1] = "nl"
    BY WholeText
  <1>2. N \in Nat /\ \A i \in 1..N : Margin(s, i) \in Nat /\ Len(Body(s, i)) \in Nat
    BY SourceType
  <1>3. s.text = whole \/ (MayCut(s.lines) /\ s.text = SubSeq(whole, 1, Len(whole) - 1))
    BY DEF LaidOut, CutText
  <1>4. MayCut(s.lines) => N \in 1..N
    <2>1. MayCut(s.lines) => s.lines # <<>>
      BY DEF MayCut
    <2>2. s.lines # <<>> => N # 0
      BY SourceType
    <2> QED
      BY <1>2, <2>1, <2>2
  <1> HIDE DEF whole, N
  <1>5. ASSUME NEW i \in 1..N
        PROVE  /\ EndOf(s, i) \in Nat /\ Start(s, i) = EndOf(s, i) + 1
               /\ EndOf(s, i) + 1 <= Len(whole)
               /\ Start(s, i - 1) \in Nat
               /\ EndOf(s, i) = Start(s, i - 1) + Margin(s, i) + Len(Body(s, i))
    <2>1. i - 1 \in 0..N
      BY <1>2
    <2>2. Start(s, i - 1) \in Nat /\ Margin(s, i) \in Nat /\ Len(Body(s, i)) \in Nat
      BY <1>1, <1>2, <2>1
    <2> QED
      BY <1>1, <2>2 DEF EndOf
  <1>6. CASE s.text = whole
    <2>1. \A i \in 1..N :
            /\ Start(s, i) = EndOf(s, i) + 1 /\ EndOf(s, i) \in Nat
            /\ EndOf(s, i) <= Len(s.text) /\ EndOf(s, i) + 1 <= Len(s.text)
      <3>1. Len(s.text) \in Nat
        BY <1>1, <1>6
      <3> QED
        BY <1>5, <1>6, <3>1
    <2> QED
      BY <1>1, <1>6, <2>1 DEF Placed, N
  <1>7. CASE MayCut(s.lines) /\ s.text = SubSeq(whole, 1, Len(whole) - 1)
    <2> DEFINE n == Len(whole)
    <2>1. n \in Nat /\ n = EndOf(s, N) + 1 /\ EndOf(s, N) \in Nat
      BY <1>1, <1>4, <1>5, <1>7
    <2>2. Len(s.text) = n - 1 /\ \A p \in 1..(n - 1) : s.text[p] = whole[p]
      <3>1. /\ Len(SubSeq(whole, 1, n - 1)) = n - 1
            /\ \A p \in 1..(n - 1) : SubSeq(whole, 1, n - 1)[p] = whole[p]
        BY <1>1, <2>1
      <3> QED
        BY <1>7, <3>1
    <2> HIDE DEF n
    <2>3. Cut(s)
      BY <1>7, <2>1, <2>2 DEF Cut, N
    <2>4. ASSUME NEW i \in 1..N
          PROVE  /\ Start(s, i) = EndOf(s, i) + 1 /\ EndOf(s, i) \in Nat
                 /\ EndOf(s, i) <= Len(s.text)
                 /\ \A k \in 1..Margin(s, i) : s.text[Start(s, i - 1) + k] = s.blank
                 /\ \A j \in 1..Len(Body(s, i)) :
                      s.text[Start(s, i - 1) + Margin(s, i) + j] = Body(s, i)[j]
                 /\ i # N => EndOf(s, i) + 1 <= Len(s.text) /\ s.text[EndOf(s, i) + 1] = "nl"
      <3> DEFINE a == Start(s, i - 1)
                 m == Margin(s, i)
                 l == Len(Body(s, i))
                 e == EndOf(s, i)
      <3>1. /\ a \in Nat /\ m \in Nat /\ l \in Nat /\ e = a + m + l /\ e + 1 <= n
            /\ Start(s, i) = e + 1
        BY <1>2, <1>5 DEF n
      <3>2. i # N => e + 1 <= n - 1
        <4>1. i # N => i + 1 \in 1..N /\ (i + 1) - 1 = i
          BY <1>2
        <4>2. i # N => /\ EndOf(s, i + 1) + 1 <= n
                       /\ EndOf(s, i + 1) = Start(s, i) + Margin(s, i + 1) + Len(Body(s, i + 1))
                       /\ Margin(s, i + 1) \in Nat /\ Len(Body(s, i + 1)) \in Nat
          BY <1>2, <1>5, <4>1 DEF n
        <4> DEFINE p == EndOf(s, i + 1)
                   q == Margin(s, i + 1)
                   r == Len(Body(s, i + 1))
                   f == Start(s, i)
        <4>3. f = e + 1 /\ e \in Nat /\ n \in Nat
          BY <1>5, <2>1, <3>1
        <4>4. i # N => p + 1 <= n /\ p = f + q + r /\ q \in Nat /\ r \in Nat
          BY <4>2
        <4> HIDE DEF e, p, q, r, f
        <4> QED
          BY <4>3, <4>4
      <3>3. /\ \A k \in 1..m : whole[a + k] = s.blank
            /\ \A j \in 1..l : whole[a + m + j] = Body(s, i)[j]
            /\ whole[e + 1] = "nl"
        BY <1>1
      <3> HIDE DEF a, m, l, e
      <3>4. /\ \A k \in 1..m : a + k \in 1..(n - 1)
            /\ \A j \in 1..l : a + m + j \in 1..(n - 1)
            /\ i # N => e + 1 \in 1..(n - 1)
            /\ e \in Nat /\ e <= n - 1
        BY <2>1, <3>1, <3>2
      <3>5. \A k \in 1..m : s.text[a + k] = s.blank
        BY <2>2, <3>3, <3>4
      <3>6. \A j \in 1..l : s.text[a + m + j] = Body(s, i)[j]
        BY <2>2, <3>3, <3>4
      <3>7. i # N => e + 1 <= Len(s.text) /\ s.text[e + 1] = "nl"
        BY <2>1, <2>2, <3>3, <3>4
      <3>8. Start(s, i) = e + 1 /\ e <= Len(s.text)
        BY <2>2, <3>1, <3>4
      <3> QED
        BY <3>4, <3>5, <3>6, <3>7, <3>8 DEF a, m, l, e
    <2> QED
      BY <1>1, <2>3, <2>4 DEF Placed, N
  <1> QED
    BY <1>3, <1>6, <1>7

-----------------------------------------------------------------------------
(* Brackets.                                                               *)
LEMMA CountNext ==
  ASSUME NEW T, NEW i \in Nat
  PROVE  /\ Cardinality((1..i) \cap T) \in Nat
         /\ Cardinality((1..(i + 1)) \cap T)
              = Cardinality((1..i) \cap T) + (IF i + 1 \in T THEN 1 ELSE 0)
  <1>1. IsFiniteSet(1..i)
    BY FS_Interval
  <1>2. IsFiniteSet((1..i) \cap T) /\ Cardinality((1..i) \cap T) \in Nat
    <2>1. (1..i) \cap T \in SUBSET (1..i)
      OBVIOUS
    <2> QED
      BY <1>1, <2>1, FS_Subset, FS_CardinalityType
  <1>3. i + 1 \notin (1..i) \cap T
    OBVIOUS
  <1>4. CASE i + 1 \in T
    <2>1. (1..(i + 1)) \cap T = ((1..i) \cap T) \cup {i + 1}
      BY <1>4
    <2> QED
      BY <1>2, <1>3, <1>4, <2>1, FS_AddElement
  <1>5. CASE i + 1 \notin T
    <2>1. (1..(i + 1)) \cap T = (1..i) \cap T
      BY <1>5
    <2> QED
      BY <1>2, <1>5, <2>1
  <1> QED
    BY <1>4, <1>5

Opens(c, kind) == IF c = kind THEN 1 ELSE 0
Shuts(c, kind) == IF c \in Closing /\ MatchOf(c) = kind THEN 1 ELSE 0

LEMMA DepthNext ==
  ASSUME NEW b, NEW i \in Nat, NEW kind
  PROVE  /\ Depth(b, i, kind) \in Int /\ Depth(b, 0, kind) = 0
         /\ Depth(b, i + 1, kind) = Depth(b, i, kind) + Opens(b[i + 1], kind) - Shuts(b[i + 1], kind)
  <1> DEFINE A == {j \in Nat : b[j] = kind}
             C == {j \in Nat : b[j] \in Closing /\ MatchOf(b[j]) = kind}
  <1>1. \A k \in Nat : /\ {j \in 1..k : b[j] = kind} = (1..k) \cap A
                       /\ {j \in 1..k : b[j] \in Closing /\ MatchOf(b[j]) = kind} = (1..k) \cap C
    OBVIOUS
  <1>2. i + 1 \in A <=> b[i + 1] = kind
    OBVIOUS
  <1>3. i + 1 \in C <=> b[i + 1] \in Closing /\ MatchOf(b[i + 1]) = kind
    OBVIOUS
  <1> HIDE DEF A, C
  <1>4. \A k \in Nat : Depth(b, k, kind) = Cardinality((1..k) \cap A) - Cardinality((1..k) \cap C)
    BY <1>1 DEF Depth
  <1>5. /\ Cardinality((1..i) \cap A) \in Nat /\ Cardinality((1..i) \cap C) \in Nat
        /\ Cardinality((1..(i + 1)) \cap A) = Cardinality((1..i) \cap A) + Opens(b[i + 1], kind)
        /\ Cardinality((1..(i + 1)) \cap C) = Cardinality((1..i) \cap C) + Shuts(b[i + 1], kind)
    BY <1>2, <1>3, CountNext DEF Opens, Shuts
  <1>6. Opens(b[i + 1], kind) \in Int /\ Shuts(b[i + 1], kind) \in Int
    BY DEF Opens, Shuts
  <1>7. Depth(b, 0, kind) = 0
    <2>1. (1..0) \cap A = {} /\ (1..0) \cap C = {}
      OBVIOUS
    <2> QED
      BY <1>4, <2>1, FS_EmptySet
  <1> DEFINE x == Cardinality((1..i) \cap A)
             y == Cardinality((1..i) \cap C)
             u == Opens(b[i + 1], kind)
             v == Shuts(b[i + 1], kind)
  <1>8. /\ x \in Nat /\ y \in Nat /\ u \in Int /\ v \in Int
        /\ Depth(b, i, kind) = x - y /\ Depth(b, i + 1, kind) = (x + u) - (y + v)
    <2>1. i + 1 \in Nat
      OBVIOUS
    <2> QED
      BY <1>4, <1>5, <1>6, <2>1
  <1> HIDE DEF x, y, u, v
  <1>9. Depth(b, i, kind) \in Int /\ Depth(b, i + 1, kind) = Depth(b, i, kind) + u - v
    BY <1>8
  <1> QED
    BY <1>7, <1>9 DEF u, v

-----------------------------------------------------------------------------
(* Levels.                                                                 *)
LEMMA MaxIs ==
  ASSUME NEW n \in Nat, NEW T \in SUBSET (1..n), T # {}
  PROVE  Max(T) \in T /\ \A m \in T : m <= Max(T)
  <1> DEFINE U == {n - m : m \in T}
  <1>1. U \in SUBSET Nat /\ U # {}
    <2>1. \A m \in T : n - m \in Nat
      OBVIOUS
    <2> QED
      BY <2>1
  <1>2. PICK u \in U : \A v \in U : u <= v
    BY <1>1, LeastExists
  <1>3. PICK x \in T : u = n - x
    BY <1>2
  <1>4. \A m \in T : x >= m
    <2>1. ASSUME NEW m \in T
          PROVE  x >= m
      <3>1. n - m \in U /\ x \in Int /\ m \in Int
        OBVIOUS
      <3> QED
        BY <1>2, <1>3, <3>1
    <2> QED
      BY <2>1
  <1>5. Max(T) \in T /\ \A m \in T : Max(T) >= m
    BY <1>4 DEF Max
  <1> QED
    BY <1>5

LEMMA Levels ==
  ASSUME NEW s \in Sources
  PROVE  /\ LogicalLines(s.lines, 0) = {} /\ LevelTo(s, 0) = 0
         /\ \A i \in 0..Len(s.lines) : LevelTo(s, i) \in Nat
         /\ \A i \in 0..Len(s.lines) : LogicalLines(s.lines, i) = {} => LevelTo(s, i) = 0
         /\ \A i \in 1..Len(s.lines) :
              IF EmptyBody(Body(s, i))
              THEN /\ LogicalLines(s.lines, i) = LogicalLines(s.lines, i - 1)
                   /\ LevelTo(s, i) = LevelTo(s, i - 1)
              ELSE /\ LogicalLines(s.lines, i) # {}
                   /\ LevelTo(s, i) = Margin(s, i) \div s.unit
  <1> DEFINE N == Len(s.lines)
             LL(i) == LogicalLines(s.lines, i)
  <1>1. N \in Nat /\ s.unit \in Nat \ {0} /\ \A i \in 1..N : Margin(s, i) \in Nat
    BY SourceType
  <1>2. \A i \in Nat : LL(i) \in SUBSET (1..i)
    BY DEF LogicalLines
  <1>3. LL(0) = {}
    BY <1>2
  <1>4. \A i \in 0..N : LL(i) = {} => LevelTo(s, i) = 0
    BY DEF LevelTo, LevelBehind
  <1>5. \A m \in Nat : m \div s.unit \in Nat
    BY <1>1
  <1>6. ASSUME NEW i \in 0..N
        PROVE  LevelTo(s, i) \in Nat
    <2>1. CASE LL(i) = {}
      BY <1>4, <2>1
    <2>2. CASE LL(i) # {}
      <3>1. Max(LL(i)) \in LL(i)
        <4> DEFINE T == LL(i)
        <4>1. i \in Nat /\ T \in SUBSET (1..i) /\ T # {}
          BY <1>1, <1>2, <2>2
        <4> HIDE DEF T
        <4>2. Max(T) \in T
          BY <4>1, MaxIs
        <4> QED
          BY <4>2 DEF T
      <3>2. Max(LL(i)) \in 1..N
        BY <1>1, <1>2, <3>1
      <3>3. LevelTo(s, i) = Margin(s, Max(LL(i))) \div s.unit
        BY <2>2 DEF LevelTo, LevelBehind, Margin
      <3> QED
        BY <1>1, <1>5, <3>2, <3>3
    <2> QED
      BY <2>1, <2>2
  <1>7. ASSUME NEW i \in 1..N, EmptyBody(Body(s, i))
        PROVE  LL(i) = LL(i - 1) /\ LevelTo(s, i) = LevelTo(s, i - 1)
    <2>1. LL(i) = LL(i - 1)
      <3>1. \A j : j \in 1..i <=> j \in 1..(i - 1) \/ j = i
        BY <1>1
      <3> QED
        BY <1>7, <3>1 DEF LogicalLines, Body
    <2> QED
      BY <2>1 DEF LevelTo, LevelBehind
  <1>8. ASSUME NEW i \in 1..N, ~EmptyBody(Body(s, i))
        PROVE  LL(i) # {} /\ LevelTo(s, i) = Margin(s, i) \div s.unit
    <2>1. i \in LL(i) /\ i \in Nat
      BY <1>1, <1>8 DEF LogicalLines, Body
    <2>2. Max(LL(i)) \in LL(i) /\ i <= Max(LL(i))
      BY <1>2, <2>1, MaxIs
    <2>3. Max(LL(i)) = i
      BY <1>2, <2>1, <2>2
    <2> QED
      BY <2>1, <2>3 DEF LevelTo, LevelBehind, Margin
  <1> QED
    BY <1>3, <1>4, <1>6, <1>7, <1>8, <1>1

-----------------------------------------------------------------------------
(* Tokens.                                                                 *)
Plain == Symbols \ Ignored
Kinds == Plain \cup {"INDENT", "DEDENT", "NEWLINE", "AVL_EOF"}

LEMMA PlainSeq ==
  /\ \A t \in Seq(Plain) : t \in Seq(Kinds) /\ Len(t) \in Nat
  /\ \A t \in Seq(Plain) : \A k \in 1..Len(t) : t[k] # "NEWLINE"
  <1>1. Plain \subseteq Kinds /\ "NEWLINE" \notin Plain
    BY DEF Plain, Kinds, Symbols, Opening, Closing, Ignored, Blanks
  <1> HIDE DEF Plain, Kinds
  <1>2. ASSUME NEW t \in Seq(Plain)
        PROVE  t \in Seq(Kinds) /\ Len(t) \in Nat /\ \A k \in 1..Len(t) : t[k] # "NEWLINE"
    <2>1. t \in Seq(Kinds)
      BY <1>1, SeqMonotonic
    <2>2. Len(t) \in Nat /\ \A k \in 1..Len(t) : t[k] \in Plain
      OBVIOUS
    <2> QED
      BY <1>1, <2>1, <2>2
  <1> QED
    BY <1>2

LEMMA ReadIs ==
  ASSUME NEW b \in Seq(Symbols)
  PROVE  /\ \A j \in 0..Len(b) : Read(b, j) \in Seq(Plain)
         /\ Read(b, 0) = <<>>
         /\ \A j \in 1..Len(b) : Read(b, j) = Read(b, j - 1) \o TokenOf(b[j])
         /\ TokensOf(b) = Read(b, Len(b))
  <1> DEFINE n == Len(b)
             ss == BodyTokens(b)
  <1>1. n \in Nat /\ \A j \in 1..n : b[j] \in Symbols
    OBVIOUS
  <1>2. \A c \in Symbols : TokenOf(c) \in Seq(Plain)
    <2>1. ASSUME NEW c \in Symbols
          PROVE  TokenOf(c) \in Seq(Plain)
      <3>1. CASE c \in Ignored
        BY <3>1 DEF TokenOf
      <3>2. CASE c \notin Ignored
        <4>1. c \in Plain /\ TokenOf(c) = <<c>>
          BY <3>2 DEF Plain, TokenOf
        <4> QED
          BY <4>1, OneInSeq
      <3> QED
        BY <3>1, <3>2
    <2> QED
      BY <2>1
  <1>3. ss \in Seq(Seq(Plain)) /\ Len(ss) = n /\ \A j \in 1..n : ss[j] = TokenOf(b[j])
    <2> DEFINE R == Seq(Plain)
    <2>1. \A j \in 1..n : TokenOf(b[j]) \in R
      BY <1>1, <1>2
    <2> HIDE DEF R, n
    <2>2. /\ [j \in 1..n |-> TokenOf(b[j])] \in Seq(R)
          /\ Len([j \in 1..n |-> TokenOf(b[j])]) = n
      BY <1>1, <2>1
    <2> QED
      BY <2>2 DEF BodyTokens, n, R
  <1>4. TokensOf(b) = FlattenSeq(ss)
    BY DEF TokensOf, BodyTokens
  <1>5. \A j : Read(b, j) = Joined(ss)[j]
    BY DEF Read
  <1> HIDE DEF ss
  <1>6. Parts(Joined(ss), ss, Len(ss), Plain) /\ FlattenSeq(ss) = Joined(ss)[Len(ss)]
    BY <1>3, JoinedIs, FlattenIsJoined
  <1> HIDE DEF n
  <1>7. /\ \A j \in 0..n : Joined(ss)[j] \in Seq(Plain)
        /\ Joined(ss)[0] = <<>>
        /\ \A j \in 1..n : Joined(ss)[j] = Joined(ss)[j - 1] \o ss[j]
        /\ FlattenSeq(ss) = Joined(ss)[n]
    BY <1>3, <1>6 DEF Parts
  <1> QED
    BY <1>3, <1>4, <1>5, <1>7 DEF n

(* A body that begins with a word has a token as soon as it is read.       *)
LEMMA ReadBegun ==
  ASSUME NEW b \in Seq(Symbols), b[1] = "word"
  PROVE  \A j \in 1..Len(b) : Read(b, j) # <<>> /\ Len(Read(b, j)) \in Nat \ {0}
  <1> DEFINE n == Len(b)
             T == {j \in 0..n : j = 0 \/ Len(Read(b, j)) > 0}
  <1>1. n \in Nat /\ \A j \in 1..n : b[j] \in Symbols
    OBVIOUS
  <1>2. /\ \A j \in 0..n : Read(b, j) \in Seq(Plain)
        /\ Read(b, 0) = <<>>
        /\ \A j \in 1..n : Read(b, j) = Read(b, j - 1) \o TokenOf(b[j])
    BY ReadIs
  <1>3. \A j \in 1..n : TokenOf(b[j]) \in Seq(Plain)
    <2>1. ASSUME NEW j \in 1..n
          PROVE  TokenOf(b[j]) \in Seq(Plain)
      <3>1. CASE b[j] \in Ignored
        BY <3>1 DEF TokenOf
      <3>2. CASE b[j] \notin Ignored
        <4>1. b[j] \in Plain /\ TokenOf(b[j]) = <<b[j]>>
          BY <1>1, <3>2 DEF Plain, TokenOf
        <4> QED
          BY <4>1, OneInSeq
      <3> QED
        BY <3>1, <3>2
    <2> QED
      BY <2>1
  <1> HIDE DEF n
  <1>4. 0 \in T
    BY <1>1
  <1>5. ASSUME NEW j \in 0..(n - 1), j \in T
        PROVE  j + 1 \in T
    <2> DEFINE p == j + 1
               r == Read(b, j)
               t == TokenOf(b[p])
    <2>1. p \in 1..n /\ p \in 0..n /\ p - 1 = j /\ j \in 0..n
      BY <1>1
    <2>2. r \in Seq(Plain) /\ t \in Seq(Plain) /\ Read(b, p) = r \o t
      BY <1>2, <1>3, <2>1
    <2>3. CASE j = 0
      <3>1. r = <<>> /\ t = <<"word">>
        <4>1. p = 1
          BY <2>3
        <4>2. "word" \notin Ignored
          BY DEF Ignored, Blanks
        <4> QED
          BY <1>2, <2>3, <4>1, <4>2 DEF TokenOf
      <3>2. Len(r) = 0 /\ Len(t) = 1
        BY <3>1
      <3> HIDE DEF r, t, p
      <3>3. Len(r \o t) = Len(r) + Len(t)
        BY <2>2, ConcatAt
      <3>4. Len(Read(b, p)) > 0
        BY <2>2, <3>2, <3>3
      <3> QED
        BY <2>1, <3>4 DEF p
    <2>4. CASE j # 0
      <3>1. Len(r) > 0
        BY <1>5, <2>4
      <3> HIDE DEF r, t, p
      <3>2. Len(r \o t) = Len(r) + Len(t) /\ Len(r) \in Nat /\ Len(t) \in Nat
        BY <2>2, ConcatAt
      <3>4. Len(Read(b, p)) > 0
        BY <2>2, <3>1, <3>2
      <3> QED
        BY <2>1, <3>4 DEF p
    <2> QED
      BY <2>3, <2>4
  <1> HIDE DEF T
  <1>6. \A j \in 0..n : j \in T
    BY <1>1, <1>4, <1>5, UpToAll
  <1>7. ASSUME NEW j \in 1..n
        PROVE  Read(b, j) # <<>> /\ Len(Read(b, j)) \in Nat \ {0}
    <2>1. j \in T /\ j \in 0..n /\ j # 0
      BY <1>1, <1>6
    <2>2. Len(Read(b, j)) > 0 /\ Read(b, j) \in Seq(Plain)
      BY <1>2, <2>1 DEF T
    <2> QED
      BY <2>2
  <1> QED
    BY <1>7 DEF n

LEMMA CopiesSeq ==
  ASSUME NEW n \in Nat, NEW token \in Kinds
  PROVE  Copies(n, token) \in Seq(Kinds) /\ Len(Copies(n, token)) = n
  BY DEF Copies

LEMMA LayoutKinds ==
  /\ "INDENT" \in Kinds /\ "DEDENT" \in Kinds /\ "NEWLINE" \in Kinds /\ "AVL_EOF" \in Kinds
  /\ "word" \in Kinds
  BY DEF Kinds, Plain, Symbols, Ignored, Blanks

LEMMA LeadSeq ==
  ASSUME NEW from \in Nat, NEW to \in Nat
  PROVE  /\ Lead(from, to) \in Seq(Kinds)
         /\ from = to => Lead(from, to) = <<>>
  <1>1. CASE from <= to
    <2>1. to - from \in Nat
      BY <1>1
    <2>2. Lead(from, to) = Copies(to - from, "INDENT")
      BY <1>1 DEF Lead
    <2>3. from = to => Copies(to - from, "INDENT") = <<>>
      BY DEF Copies
    <2> QED
      BY <2>1, <2>2, <2>3, CopiesSeq, LayoutKinds
  <1>2. CASE ~(from <= to)
    <2>1. from - to \in Nat /\ from # to
      BY <1>2
    <2>2. Lead(from, to) = Copies(from - to, "DEDENT")
      BY <1>2 DEF Lead
    <2> QED
      BY <2>1, <2>2, CopiesSeq, LayoutKinds
  <1> QED
    BY <1>1, <1>2

LEMMA ConcatAssoc ==
  ASSUME NEW S, NEW s \in Seq(S), NEW t \in Seq(S), NEW u \in Seq(S)
  PROVE  s \o (t \o u) = (s \o t) \o u
  BY ConcatAssociative, SMTT(20)

LEMMA KindsAssoc ==
  \A s, t, u \in Seq(Kinds) : s \o (t \o u) = (s \o t) \o u
  BY ConcatAssoc

LEMMA LineTokensAre ==
  ASSUME NEW s \in Sources, NEW i \in 1..Len(s.lines)
  PROVE  /\ LineTokens(s.lines, s.unit, i) \in Seq(Kinds)
         /\ EmptyBody(Body(s, i)) => LineTokens(s.lines, s.unit, i) = <<>>
         /\ ~EmptyBody(Body(s, i)) =>
              LineTokens(s.lines, s.unit, i) =
                (Lead(LevelTo(s, i - 1), LevelTo(s, i)) \o Read(Body(s, i), Len(Body(s, i))))
                  \o <<"NEWLINE">>
  <1> DEFINE b == Body(s, i)
             lead == Lead(LevelTo(s, i - 1), LevelTo(s, i))
             read == Read(b, Len(b))
             t == LineTokens(s.lines, s.unit, i)
             nl == <<"NEWLINE">>
  <1>1. b \in Seq(Symbols) /\ Len(b) \in 0..Len(b)
    BY SourceType
  <1>2. LevelTo(s, i - 1) \in Nat /\ LevelTo(s, i) \in Nat
    <2>1. i - 1 \in 0..Len(s.lines) /\ i \in 0..Len(s.lines)
      BY SourceType
    <2> QED
      BY <2>1, Levels
  <1>3. TokensOf(b) = read /\ read \in Seq(Plain)
    BY <1>1, ReadIs
  <1>4. read \in Seq(Kinds)
    BY <1>3, PlainSeq
  <1>5. lead \in Seq(Kinds)
    BY <1>2, LeadSeq
  <1>6. nl \in Seq(Kinds)
    BY LayoutKinds, OneInSeq
  <1>7. CASE EmptyBody(b)
    <2>1. t = <<>>
      BY <1>7 DEF LineTokens, Body
    <2> QED
      BY <1>7, <2>1
  <1>8. CASE ~EmptyBody(b)
    <2>1. t = lead \o TokensOf(b) \o nl
      BY <1>8 DEF LineTokens, Body, LevelTo
    <2> HIDE DEF lead, read, t, nl, b
    <2>2. t = (lead \o read) \o nl
      BY <1>3, <2>1
    <2>3. lead \o read \in Seq(Kinds)
      BY <1>4, <1>5, ConcatAt
    <2>4. (lead \o read) \o nl \in Seq(Kinds)
      BY <1>6, <2>3, ConcatAt
    <2> QED
      BY <1>8, <2>2, <2>4 DEF b, lead, read, t, nl
  <1> QED
    BY <1>7, <1>8

LEMMA DoneIs ==
  ASSUME NEW s \in Sources
  PROVE  /\ \A i \in 0..Len(s.lines) : Done(s, i) \in Seq(Kinds)
         /\ Done(s, 0) = <<>>
         /\ \A i \in 1..Len(s.lines) :
              Done(s, i) = Done(s, i - 1) \o LineTokens(s.lines, s.unit, i)
         /\ TokensExpected(s.lines, s.unit) =
              (Done(s, Len(s.lines)) \o Copies(LevelTo(s, Len(s.lines)), "DEDENT")) \o <<"AVL_EOF">>
  <1> DEFINE n == Len(s.lines)
             ss == AllLineTokens(s.lines, s.unit)
  <1>1. n \in Nat /\ \A i \in 1..n : LineTokens(s.lines, s.unit, i) \in Seq(Kinds)
    BY SourceType, LineTokensAre
  <1>2. /\ ss \in Seq(Seq(Kinds)) /\ Len(ss) = n
        /\ \A i \in 1..n : ss[i] = LineTokens(s.lines, s.unit, i)
    <2> DEFINE R == Seq(Kinds)
    <2>1. \A i \in 1..n : LineTokens(s.lines, s.unit, i) \in R
      BY <1>1
    <2> HIDE DEF R, n
    <2>2. /\ [i \in 1..n |-> LineTokens(s.lines, s.unit, i)] \in Seq(R)
          /\ Len([i \in 1..n |-> LineTokens(s.lines, s.unit, i)]) = n
      BY <1>1, <2>1
    <2> QED
      BY <2>2 DEF AllLineTokens, n, R
  <1>3. \A i : Done(s, i) = Joined(ss)[i]
    BY DEF Done
  <1>4. TokensExpected(s.lines, s.unit)
          = (FlattenSeq(ss) \o Copies(LevelTo(s, n), "DEDENT")) \o <<"AVL_EOF">>
    BY DEF TokensExpected, LevelTo
  <1> HIDE DEF ss
  <1>5. Parts(Joined(ss), ss, Len(ss), Kinds) /\ FlattenSeq(ss) = Joined(ss)[Len(ss)]
    BY <1>2, JoinedIs, FlattenIsJoined
  <1> HIDE DEF n
  <1>6. /\ \A i \in 0..n : Joined(ss)[i] \in Seq(Kinds)
        /\ Joined(ss)[0] = <<>>
        /\ \A i \in 1..n : Joined(ss)[i] = Joined(ss)[i - 1] \o ss[i]
        /\ FlattenSeq(ss) = Joined(ss)[n]
    BY <1>2, <1>5 DEF Parts
  <1> QED
    BY <1>2, <1>3, <1>4, <1>6 DEF n

(* The lines before another end with a line end, once there was a logical  *)
(* one, and stand for nothing before.                                      *)
Ends(t, logical) ==
  IF logical = {} THEN t = <<>> ELSE t # <<>> /\ t[Len(t)] = "NEWLINE"

LEMMA DoneEnds ==
  ASSUME NEW s \in Sources
  PROVE  \A i \in 0..Len(s.lines) : Ends(Done(s, i), LogicalLines(s.lines, i))
  <1> DEFINE n == Len(s.lines)
             LL(i) == LogicalLines(s.lines, i)
             T == {i \in 0..n : Ends(Done(s, i), LL(i))}
  <1>1. n \in Nat
    BY SourceType
  <1>2. 0 \in T
    <2>1. Done(s, 0) = <<>> /\ LL(0) = {}
      BY DoneIs, Levels
    <2>2. Ends(Done(s, 0), LL(0))
      BY <2>1 DEF Ends
    <2> QED
      BY <1>1, <2>2
  <1>3. ASSUME NEW i \in 0..(n - 1), i \in T
        PROVE  i + 1 \in T
    <2> DEFINE p == i + 1
               d == Done(s, i)
               t == LineTokens(s.lines, s.unit, p)
    <2>1. p \in 1..n /\ p \in 0..n /\ p - 1 = i /\ i \in 0..n
      BY <1>1
    <2> HIDE DEF p
    <2>2. Done(s, p) = d \o t /\ d \in Seq(Kinds) /\ t \in Seq(Kinds)
      BY <2>1, DoneIs, LineTokensAre
    <2>3. CASE EmptyBody(Body(s, p))
      <3>1. t = <<>> /\ LL(p) = LL(i)
        BY <2>1, <2>3, LineTokensAre, Levels
      <3>2. Done(s, p) = d
        BY <2>2, <3>1, ConcatEmptySeq
      <3> QED
        BY <1>3, <2>1, <3>1, <3>2 DEF p
    <2>4. CASE ~EmptyBody(Body(s, p))
      <3>1. LL(p) # {}
        BY <2>1, <2>4, Levels
      <3> DEFINE u == Lead(LevelTo(s, p - 1), LevelTo(s, p)) \o Read(Body(s, p), Len(Body(s, p)))
                 nl == <<"NEWLINE">>
      <3>2. t = u \o nl
        BY <2>1, <2>4, LineTokensAre
      <3>3. u \in Seq(Kinds) /\ nl \in Seq(Kinds) /\ Len(nl) = 1 /\ nl[1] = "NEWLINE"
        <4>1. Lead(LevelTo(s, p - 1), LevelTo(s, p)) \in Seq(Kinds)
          <5>1. LevelTo(s, p - 1) \in Nat /\ LevelTo(s, p) \in Nat
            BY <2>1, Levels
          <5> QED
            BY <5>1, LeadSeq
        <4>2. Read(Body(s, p), Len(Body(s, p))) \in Seq(Kinds)
          <5>1. Body(s, p) \in Seq(Symbols) /\ Len(Body(s, p)) \in 0..Len(Body(s, p))
            BY <2>1, SourceType
          <5> QED
            BY <5>1, ReadIs, PlainSeq
        <4>3. u \in Seq(Kinds)
          BY <4>1, <4>2, ConcatAt
        <4> QED
          BY <4>3, LayoutKinds, OneInSeq
      <3> HIDE DEF d, t, u, nl
      <3>4. d \o (u \o nl) = (d \o u) \o nl
        <4>1. d \in Seq(Kinds) /\ u \in Seq(Kinds) /\ nl \in Seq(Kinds)
          BY <2>2, <3>3
        <4> QED
          BY <4>1, ConcatAssoc
      <3> DEFINE v == d \o u
      <3>5. v \in Seq(Kinds)
        BY <2>2, <3>3, ConcatAt
      <3> HIDE DEF v
      <3>6. /\ v \o nl \in Seq(Kinds) /\ Len(v \o nl) = Len(v) + Len(nl) /\ Len(v) \in Nat
            /\ \A k \in 1..Len(nl) : (v \o nl)[Len(v) + k] = nl[k]
        <4>1. nl \in Seq(Kinds)
          BY <3>3
        <4> QED
          BY <3>5, <4>1, ConcatAt
      <3>7. Len(v \o nl) = Len(v) + 1 /\ (v \o nl)[Len(v) + 1] = "NEWLINE"
        BY <3>3, <3>6
      <3>8. v \o nl # <<>> /\ (v \o nl)[Len(v \o nl)] = "NEWLINE"
        BY <3>6, <3>7
      <3>9. Done(s, p) = v \o nl
        BY <2>2, <3>2, <3>4 DEF v
      <3> QED
        BY <2>1, <3>1, <3>8, <3>9 DEF Ends, p
    <2> QED
      BY <2>3, <2>4
  <1> HIDE DEF T
  <1>4. \A i \in 0..n : i \in T
    BY <1>1, <1>2, <1>3, UpToAll
  <1> QED
    BY <1>4 DEF T

-----------------------------------------------------------------------------
(* The symbols that are read on the way.                                   *)
SymbolsPlaced ==
  /\ \A i \in 0..Len(source.lines) : Start(source, i) \in Nat
  /\ Start(source, 0) = 0
  /\ Symbol(Start(source, Len(source.lines))) = "end"
  /\ \A i \in 1..Len(source.lines) :
       /\ Start(source, i) = EndOf(source, i) + 1 /\ EndOf(source, i) \in Nat
       /\ \A k \in 0..(Margin(source, i) - 1) : Symbol(Start(source, i - 1) + k) = source.blank
       /\ \A j \in 0..(Len(Body(source, i)) - 1) :
            Symbol(Start(source, i - 1) + Margin(source, i) + j) = Body(source, i)[j + 1]
       /\ \/ Symbol(EndOf(source, i)) = "nl"
          \/ /\ Symbol(EndOf(source, i)) = "end"
             /\ i = Len(source.lines) /\ MayCut(source.lines)

LEMMA SymbolsAt ==
  ASSUME LexInv, LaidOut(source)
  PROVE  SymbolsPlaced
  <1> DEFINE s == source
             N == Len(s.lines)
             t == s.text
  <1>1. s \in Sources /\ LaidOut(s)
    BY DEF LexInv
  <1>2. Placed(s)
    BY <1>1, TextPlaced
  <1>3. N \in Nat /\ \A i \in 1..N : Margin(s, i) \in Nat /\ Len(Body(s, i)) \in Nat
    BY <1>1, SourceType
  <1>4. \A p \in Nat : Symbol(p) = IF p < Len(t) THEN t[p + 1] ELSE "end"
    BY DEF Symbol, text
  <1>5. Len(t) \in Nat
    BY TextType DEF text
  <1> HIDE DEF s, t, N
  <1>6. ASSUME NEW i \in 1..N
        PROVE  /\ Start(s, i) = EndOf(s, i) + 1 /\ EndOf(s, i) \in Nat
               /\ \A k \in 0..(Margin(s, i) - 1) : Symbol(Start(s, i - 1) + k) = s.blank
               /\ \A j \in 0..(Len(Body(s, i)) - 1) :
                    Symbol(Start(s, i - 1) + Margin(s, i) + j) = Body(s, i)[j + 1]
               /\ \/ Symbol(EndOf(s, i)) = "nl"
                  \/ Symbol(EndOf(s, i)) = "end" /\ i = N /\ MayCut(s.lines)
    <2> DEFINE a == Start(s, i - 1)
               m == Margin(s, i)
               l == Len(Body(s, i))
               e == EndOf(s, i)
    <2>1. i - 1 \in 0..N
      BY <1>3
    <2>2. /\ a \in Nat /\ m \in Nat /\ l \in Nat /\ e = a + m + l /\ e <= Len(t) /\ Start(s, i) = e + 1
          /\ \A k \in 1..m : t[a + k] = s.blank
          /\ \A j \in 1..l : t[a + m + j] = Body(s, i)[j]
          /\ \/ e + 1 <= Len(t) /\ t[e + 1] = "nl"
             \/ i = N /\ Cut(s)
      BY <1>2, <1>3, <2>1 DEF Placed, EndOf, t, N
    <2> HIDE DEF a, m, l, e
    <2>3. ASSUME NEW k \in 0..(m - 1)
          PROVE  Symbol(a + k) = s.blank
      <3>1. /\ a + k \in Nat /\ a + k < Len(t) /\ k + 1 \in 1..m /\ (a + k) + 1 = a + (k + 1)
        BY <1>5, <2>2
      <3>2. t[a + (k + 1)] = s.blank
        BY <2>2, <3>1
      <3> QED
        BY <1>4, <3>1, <3>2
    <2>4. ASSUME NEW j \in 0..(l - 1)
          PROVE  Symbol(a + m + j) = Body(s, i)[j + 1]
      <3>1. /\ a + m + j \in Nat /\ a + m + j < Len(t) /\ j + 1 \in 1..l
            /\ (a + m + j) + 1 = a + m + (j + 1)
        BY <1>5, <2>2
      <3>2. t[a + m + (j + 1)] = Body(s, i)[j + 1]
        BY <2>2, <3>1
      <3> QED
        BY <1>4, <3>1, <3>2
    <2>5. e \in Nat
      BY <2>2
    <2>6. \/ Symbol(e) = "nl"
          \/ Symbol(e) = "end" /\ i = N /\ MayCut(s.lines)
      <3>1. CASE e + 1 <= Len(t) /\ t[e + 1] = "nl"
        <4>1. e < Len(t)
          BY <1>5, <2>5, <3>1
        <4> QED
          BY <1>4, <2>5, <3>1, <4>1
      <3>2. CASE i = N /\ Cut(s)
        <4>1. Len(t) = e /\ MayCut(s.lines)
          BY <3>2 DEF Cut, t, e, N
        <4>2. ~(e < Len(t))
          BY <1>5, <4>1
        <4> QED
          BY <1>4, <2>5, <3>2, <4>1, <4>2
      <3> QED
        BY <2>2, <3>1, <3>2
    <2> QED
      BY <2>2, <2>3, <2>4, <2>5, <2>6 DEF a, m, l, e
  <1>7. Symbol(Start(s, N)) = "end"
    <2>1. Start(s, N) \in Nat
      BY <1>2, <1>3 DEF Placed, N
    <2>2. Len(t) <= Start(s, N)
      <3>1. CASE Len(t) = Start(s, N)
        BY <2>1, <3>1
      <3>2. CASE Cut(s)
        <4>1. Len(t) = EndOf(s, N) /\ N # 0
          <5>1. s.lines # <<>> /\ s.lines \in Seq(Lines)
            BY <1>1, <3>2, SourceType DEF Cut, MayCut
          <5>2. N # 0
            BY <5>1 DEF N
          <5> QED
            BY <3>2, <5>2 DEF Cut, t, N
        <4>2. N \in 1..N
          BY <1>3, <4>1
        <4> QED
          BY <1>5, <1>6, <4>1, <4>2
      <3> QED
        BY <1>2, <3>1, <3>2 DEF Placed, t, N
    <2>3. ~(Start(s, N) < Len(t))
      BY <1>5, <2>1, <2>2
    <2> QED
      BY <1>4, <2>1, <2>3
  <1> QED
    BY <1>2, <1>6, <1>7 DEF SymbolsPlaced, Placed, s, N

LEMMA BySymbol ==
  ASSUME LexInv, Next
  PROVE  /\ Running
         /\ Current = "word" => Word
         /\ Current \in {"mark", "-/"} => Mark
         /\ Current \in Opening => Open
         /\ Current \in Closing => Close \/ Dangling
         /\ Current \in {"--", "-["} => Comment
         /\ Current = "nl" => NewLineInBrackets \/ NewLineIgnored \/ NewLine
         /\ Current = "\\" => Backslash \/ BackslashAtEnd
         /\ Current \in Blanks =>
              \/ BlankInside \/ BlankAtStart \/ MixedBlanks \/ BlankLine
              \/ FirstIndent \/ UnevenIndent \/ SameLevel \/ Dedent \/ Indent \/ TooSteep
         /\ Current = "end" => Finish
  <1>1. AtEnd => Current = "end"
    BY TextType DEF AtEnd, Current, Symbol
  <1>2. \/ Running /\ Current = "word" /\ Word
        \/ Running /\ Current \in {"mark", "-/"} /\ Mark
        \/ Running /\ Current \in Opening /\ Open
        \/ Running /\ Current \in Closing /\ (Close \/ Dangling)
        \/ Running /\ Current = "bad"
        \/ Running /\ Current \in {"--", "-["} /\ Comment
        \/ Running /\ Current = "nl" /\ (NewLineInBrackets \/ NewLineIgnored \/ NewLine)
        \/ Running /\ Current = "\\" /\ (Backslash \/ BackslashAtEnd)
        \/ Running /\ Current \in Blanks
             /\ (\/ BlankInside \/ BlankAtStart \/ MixedBlanks \/ BlankLine
                 \/ FirstIndent \/ UnevenIndent \/ SameLevel \/ Dedent \/ Indent \/ TooSteep)
        \/ Running /\ Current = "end" /\ Finish
    <2>1. Word => Running /\ Current = "word"
      BY DEF Word
    <2>2. Mark => Running /\ Current \in {"mark", "-/"}
      BY DEF Mark
    <2>3. Open => Running /\ Current \in Opening
      BY DEF Open
    <2>4. Close \/ Dangling => Running /\ Current \in Closing
      BY DEF Close, Dangling
    <2>5. Unexpected => Running /\ Current = "bad"
      BY DEF Unexpected
    <2>6. Comment => Running /\ Current \in {"--", "-["}
      BY DEF Comment
    <2>7. NewLineInBrackets \/ NewLineIgnored \/ NewLine => Running /\ Current = "nl"
      BY DEF NewLineInBrackets, NewLineIgnored, NewLine
    <2>8. Backslash \/ BackslashAtEnd => Running /\ Current = "\\"
      BY DEF Backslash, BackslashAtEnd
    <2>9. BlankInside \/ BlankAtStart => Running /\ Current \in Blanks
      BY DEF BlankInside, BlankAtStart
    <2>10. MixedBlanks \/ BlankLine \/ Indentation => Running /\ Current \in Blanks
      BY DEF MixedBlanks, BlankLine, Indentation, AtMargin
    <2>11. FirstIndent \/ UnevenIndent \/ NextIndent => Indentation
      BY DEF FirstIndent, UnevenIndent, NextIndent
    <2>12. SameLevel \/ Dedent \/ Indent \/ TooSteep => NextIndent
      BY DEF SameLevel, Dedent, Indent, TooSteep
    <2>13. Finish => Running /\ Current = "end"
      BY <1>1 DEF Finish
    <2> QED
      BY <2>1, <2>2, <2>3, <2>4, <2>5, <2>6, <2>7, <2>8, <2>9, <2>10, <2>11, <2>12, <2>13 DEF Next
  <1> QED
    BY <1>2 DEF Opening, Closing, Blanks

(* What can come next in the body of a logical line.                       *)
Continues(b, j, c) ==
  /\ c \in Symbols \ {"bad"}
  /\ j = 0 => c = "word"
  /\ c # "nl" => ~(j > 0 /\ b[j] = "\\")
  /\ c = "nl" => j > 0 /\ (Nested(b, j) <=> b[j] # "\\")
  /\ c = "\\" => j + 1 < Len(b) /\ b[j + 2] = "nl"
  /\ c \in Closing => Depth(b, j, MatchOf(c)) > 0

LEMMA BodyContinues ==
  ASSUME NEW b \in Seq(Symbols), LogicalBody(b), NEW j \in 0..(Len(b) - 1)
  PROVE  Continues(b, j, b[j + 1])
  <1> DEFINE n == Len(b)
             p == j + 1
             c == b[p]
  <1>1. n \in Nat /\ p \in 1..n /\ j \in Nat /\ c \in Symbols /\ (j > 0 => j \in 1..n)
    OBVIOUS
  <1>2. /\ b[1] = "word"
        /\ \A i \in 1..n :
             /\ b[i] # "bad"
             /\ \A kind \in Opening : Depth(b, i, kind) >= 0
             /\ b[i] = "nl" => Nested(b, i) \/ b[i - 1] = "\\"
             /\ b[i] = "\\" => ~Nested(b, i) /\ i < n /\ b[i + 1] = "nl"
    BY DEF LogicalBody
  <1>3. /\ \A kind : Depth(b, j, kind) \in Int /\ Depth(b, p, kind) \in Int
        /\ \A kind : Depth(b, p, kind) = Depth(b, j, kind) + Opens(c, kind) - Shuts(c, kind)
    <2>1. p \in Nat
      OBVIOUS
    <2> QED
      BY <1>1, <2>1, DepthNext
  <1>4. c # "bad" /\ (j = 0 => c = "word")
    BY <1>1, <1>2
  <1>5. j > 0 /\ b[j] = "\\" => c = "nl" /\ ~Nested(b, j)
    BY <1>1, <1>2
  <1>6. c = "nl" => j > 0 /\ (Nested(b, j) <=> b[j] # "\\")
    <2>1. c = "nl" => j > 0
      BY <1>1, <1>4
    <2>2. c = "nl" => (Nested(b, p) <=> Nested(b, j))
      <3>1. c = "nl" => \A kind \in Opening : Opens(c, kind) = 0 /\ Shuts(c, kind) = 0
        BY DEF Opens, Shuts, Opening, Closing
      <3>2. c = "nl" => \A kind \in Opening : Depth(b, p, kind) = Depth(b, j, kind)
        BY <1>3, <3>1
      <3> QED
        BY <3>2 DEF Nested
    <2>3. c = "nl" => Nested(b, p) \/ b[j] = "\\"
      <3>1. p - 1 = j
        BY <1>1
      <3> QED
        BY <1>1, <1>2, <3>1
    <2> QED
      BY <1>5, <2>1, <2>2, <2>3
  <1>7. c = "\\" => p < n /\ b[p + 1] = "nl"
    BY <1>1, <1>2
  <1>8. c \in Closing => Depth(b, j, MatchOf(c)) > 0
    <2> SUFFICES ASSUME c \in Closing
                 PROVE  Depth(b, j, MatchOf(c)) > 0
      OBVIOUS
    <2> DEFINE kind == MatchOf(c)
    <2>1. kind \in Opening /\ kind # c
      BY DEF MatchOf, Opening, Closing
    <2>2. Opens(c, kind) = 0 /\ Shuts(c, kind) = 1
      BY <2>1 DEF Opens, Shuts
    <2>3. Depth(b, p, kind) >= 0
      BY <1>1, <1>2, <2>1
    <2> HIDE DEF kind
    <2>4. Depth(b, p, kind) = Depth(b, j, kind) + 0 - 1 /\ Depth(b, j, kind) \in Int
      BY <1>3, <2>2
    <2>5. Depth(b, j, kind) > 0
      BY <2>3, <2>4
    <2> QED
      BY <2>5 DEF kind
  <1>9. p + 1 = j + 2
    BY <1>1
  <1> QED
    BY <1>1, <1>4, <1>5, <1>6, <1>7, <1>8, <1>9 DEF Continues

(* A logical line that well laid out lines have.                           *)
LEMMA LineLaidOut ==
  ASSUME LexInv, LaidOut(source), NEW i \in 1..Len(source.lines)
  PROVE  /\ Body(source, i) \in Seq(Symbols) /\ Len(Body(source, i)) \in Nat
         /\ Margin(source, i) \in Nat /\ source.unit \in Nat \ {0} /\ source.blank \in Blanks
         /\ LogicalLines(source.lines, i - 1) = {} => Margin(source, i) = 0
         /\ ~EmptyBody(Body(source, i)) =>
              /\ LogicalBody(Body(source, i)) /\ Len(Body(source, i)) > 0
              /\ Body(source, i)[1] = "word"
              /\ Margin(source, i) % source.unit = 0
              /\ LevelTo(source, i) = Margin(source, i) \div source.unit
              /\ LevelTo(source, i) <= LevelTo(source, i - 1) + 1
         /\ LevelTo(source, i) \in Nat /\ LevelTo(source, i - 1) \in Nat
         /\ source.blank = "tab" => source.unit = 1
  <1> DEFINE s == source
  <1>1. s \in Sources
    BY DEF LexInv
  <1>2. /\ Body(s, i) \in Seq(Symbols) /\ Len(Body(s, i)) \in Nat
        /\ Margin(s, i) \in Nat /\ s.unit \in Nat \ {0} /\ s.blank \in Blanks
    BY <1>1, SourceType
  <1>3. /\ s.blank = "tab" => s.unit = 1
        /\ LogicalLines(s.lines, i - 1) = {} => Margin(s, i) = 0
        /\ EmptyBody(Body(s, i)) \/ (/\ LogicalBody(Body(s, i))
                                     /\ Margin(s, i) % s.unit = 0
                                     /\ Margin(s, i) \div s.unit <= LevelTo(s, i - 1) + 1)
    BY DEF LaidOut, WellLaidOut, Body, Margin, LevelTo
  <1>4. /\ LevelTo(s, i) \in Nat /\ LevelTo(s, i - 1) \in Nat
        /\ ~EmptyBody(Body(s, i)) => LevelTo(s, i) = Margin(s, i) \div s.unit
    <2>1. i \in 0..Len(s.lines) /\ i - 1 \in 0..Len(s.lines)
      BY <1>1, SourceType
    <2> QED
      BY <1>1, <2>1, Levels
  <1> HIDE DEF s
  <1>5. LogicalBody(Body(s, i)) => Len(Body(s, i)) > 0 /\ Body(s, i)[1] = "word"
    BY <1>2 DEF LogicalBody
  <1> QED
    BY <1>2, <1>3, <1>4, <1>5 DEF s

LEMMA LayoutInvInit == Init => LayoutInv
  <1> SUFFICES ASSUME Init, LaidOut(source)
               PROVE  AsLaidOut
    BY DEF LayoutInv
  <1>1. source \in Sources /\ LexInv
    BY LexInvInit DEF Init
  <1>2. 1 \in 1..(Len(source.lines) + 1) /\ 1 - 1 = 0
    BY <1>1, SourceType
  <1>3. pos = Start(source, 0)
    BY <1>1, SymbolsAt DEF SymbolsPlaced, Init
  <1>4. /\ tokens = Done(source, 0) /\ LevelTo(source, 0) = 0
        /\ LogicalLines(source.lines, 0) = {}
    BY <1>1, DoneIs, Levels DEF Init
  <1>5. Ladder(0)
    <2>1. stack = <<0>> /\ marker = "none"
      BY DEF Init
    <2>2. Steps(0) = <<0>>
      BY DEF Steps
    <2> QED
      BY <2>1, <2>2 DEF Ladder
  <1>6. /\ newLine = FALSE /\ inLine = FALSE /\ ignoreNewLine = FALSE
        /\ brackets = [kind \in Opening |-> 0] /\ outcome = "running"
    BY DEF Init
  <1>7. BeforeLine(1)
    BY <1>2, <1>3, <1>4, <1>5, <1>6 DEF BeforeLine, Fresh
  <1> QED
    BY <1>6, <1>7 DEF AsLaidOut, Somewhere

-----------------------------------------------------------------------------
(* Within a logical line.                                                  *)
Before(i) == Done(source, i - 1) \o Lead(LevelTo(source, i - 1), LevelTo(source, i))

LEMMA BeforeSeq ==
  ASSUME LexInv, LaidOut(source), NEW i \in 1..Len(source.lines)
  PROVE  /\ Before(i) \in Seq(Kinds) /\ Done(source, i - 1) \in Seq(Kinds)
         /\ Lead(LevelTo(source, i - 1), LevelTo(source, i)) \in Seq(Kinds)
         /\ \A j \in 0..Len(Body(source, i)) :
              Read(Body(source, i), j) \in Seq(Kinds) /\ Read(Body(source, i), j) \in Seq(Plain)
  <1> DEFINE lead == Lead(LevelTo(source, i - 1), LevelTo(source, i))
             done == Done(source, i - 1)
  <1>1. source \in Sources
    BY DEF LexInv
  <1>2. i - 1 \in 0..Len(source.lines)
    BY <1>1, SourceType
  <1>3. done \in Seq(Kinds)
    BY <1>1, <1>2, DoneIs
  <1>4. lead \in Seq(Kinds)
    BY LineLaidOut, LeadSeq
  <1>5. \A j \in 0..Len(Body(source, i)) :
          Read(Body(source, i), j) \in Seq(Kinds) /\ Read(Body(source, i), j) \in Seq(Plain)
    <2>1. Body(source, i) \in Seq(Symbols)
      BY LineLaidOut
    <2> QED
      BY <2>1, ReadIs, PlainSeq
  <1>6. Before(i) = done \o lead
    BY DEF Before
  <1> HIDE DEF lead, done
  <1>7. Before(i) \in Seq(Kinds)
    BY <1>3, <1>4, <1>6, ConcatAt
  <1> QED
    BY <1>3, <1>4, <1>5, <1>7 DEF lead, done

LEMMA TokenOfSeq ==
  ASSUME NEW c \in Symbols
  PROVE  TokenOf(c) \in Seq(Kinds)
  <1>1. CASE c \in Ignored
    BY <1>1 DEF TokenOf
  <1>2. CASE c \notin Ignored
    <2>1. c \in Kinds /\ TokenOf(c) = <<c>>
      BY <1>2 DEF Kinds, Plain, TokenOf
    <2> QED
      BY <2>1, OneInSeq
  <1> QED
    BY <1>1, <1>2

LEMMA LogicalAt ==
  ASSUME LexInv, LaidOut(source), NEW i, NEW j, InLogicalLine(i, j), j < Len(Body(source, i))
  PROVE  /\ i \in 1..Len(source.lines) /\ j \in 0..(Len(Body(source, i)) - 1)
         /\ Current = Body(source, i)[j + 1] /\ Current \in Symbols
         /\ Continues(Body(source, i), j, Current)
  <1>1. i \in 1..Len(source.lines) /\ j \in 0..Len(Body(source, i))
    BY DEF InLogicalLine, Within
  <1>2. /\ Body(source, i) \in Seq(Symbols) /\ Len(Body(source, i)) \in Nat
        /\ LogicalBody(Body(source, i))
    BY <1>1, LineLaidOut DEF InLogicalLine
  <1>3. j \in 0..(Len(Body(source, i)) - 1)
    BY <1>1, <1>2
  <1>4. Continues(Body(source, i), j, Body(source, i)[j + 1])
    BY <1>2, <1>3, BodyContinues
  <1>5. Current = Body(source, i)[j + 1]
    <2>1. Symbol(Start(source, i - 1) + Margin(source, i) + j) = Body(source, i)[j + 1]
      BY <1>1, <1>3, SymbolsAt DEF SymbolsPlaced
    <2> QED
      BY <2>1 DEF Current, InLogicalLine, Within
  <1> QED
    BY <1>1, <1>3, <1>4, <1>5 DEF Continues

LEMMA ReadOne ==
  ASSUME LexInv, LaidOut(source), NEW i, NEW j, InLogicalLine(i, j), j < Len(Body(source, i)),
         source' = source, UNCHANGED indentation, UNCHANGED outcome, Running,
         pos' = pos + 1, tokens' = tokens \o TokenOf(Current),
         newLine' = FALSE, inLine' = TRUE, ignoreNewLine' = (Current = "\\"),
         brackets' = [kind \in Opening |-> Depth(Body(source, i), j + 1, kind)]
  PROVE  AsLaidOut'
  <1> DEFINE b == Body(source, i)
             n == Len(b)
             p == j + 1
  <1>1. /\ i \in 1..Len(source.lines) /\ j \in 0..(n - 1)
        /\ Current = b[p] /\ Current \in Symbols
    BY LogicalAt
  <1>2. n \in Nat /\ Margin(source, i) \in Nat /\ Start(source, i - 1) \in Nat /\ i \in Nat
    <2>1. n \in Nat /\ Margin(source, i) \in Nat
      BY <1>1, LineLaidOut
    <2>2. source \in Sources
      BY DEF LexInv
    <2>3. i - 1 \in 0..Len(source.lines) /\ i \in Nat
      BY <1>1, <2>2, SourceType
    <2> QED
      BY <2>1, <2>3, SymbolsAt DEF SymbolsPlaced
  <1>3. p \in 1..n /\ p \in 0..n /\ p \in Nat /\ p > 0 /\ p - 1 = j
    BY <1>1, <1>2
  <1>4. pos = Start(source, i - 1) + Margin(source, i) + j
    BY DEF InLogicalLine, Within
  <1>5. pos' = Start(source, i - 1) + Margin(source, i) + p
    BY <1>1, <1>2, <1>4
  <1>6. tokens' = Before(i) \o Read(b, p)
    <2> DEFINE r == Read(b, j)
               t == TokenOf(Current)
               x == Before(i)
    <2>1. x \in Seq(Kinds) /\ r \in Seq(Kinds) /\ t \in Seq(Kinds)
      <3>1. j \in 0..Len(b)
        BY <1>1, <1>2
      <3> QED
        BY <1>1, <3>1, BeforeSeq, TokenOfSeq
    <2>2. Read(b, p) = r \o t
      <3>1. b \in Seq(Symbols)
        BY <1>1, LineLaidOut
      <3> QED
        BY <1>1, <1>3, <3>1, ReadIs
    <2>3. tokens' = (x \o r) \o t
      BY DEF InLogicalLine, Before
    <2> HIDE DEF x, r, t
    <2>4. x \o (r \o t) = (x \o r) \o t
      BY <2>1, ConcatAssoc
    <2> QED
      BY <2>2, <2>3, <2>4 DEF x
  <1>7. Ladder(LevelTo(source, i))'
    BY DEF InLogicalLine, Ladder, indentation
  <1>8. ignoreNewLine' = (p > 0 /\ b[p] = "\\") /\ inLine' = (p > 0)
    BY <1>1, <1>3
  <1> HIDE DEF p
  <1>9. InLogicalLine(i, p)'
    BY <1>1, <1>3, <1>5, <1>6, <1>7, <1>8 DEF InLogicalLine, Within, Before, p
  <1> QED
    BY <1>2, <1>3, <1>9 DEF AsLaidOut, Somewhere, Running

(* The brackets behind the next symbol.                                    *)
(* The brackets that are open after the first k symbols of b.              *)
Depths(b, k) == [kind \in Opening |-> Depth(b, k, kind)]

LEMMA BracketsNext ==
  ASSUME LexInv, LaidOut(source), NEW i, NEW j, InLogicalLine(i, j), j < Len(Body(source, i))
  PROVE  /\ brackets = Depths(Body(source, i), j) /\ brackets \in [Opening -> Int]
         /\ Current \notin Opening \cup Closing => Depths(Body(source, i), j + 1) = brackets
         /\ Current \in Opening =>
              Depths(Body(source, i), j + 1) = [brackets EXCEPT ![Current] = @ + 1]
         /\ Current \in Closing =>
              Depths(Body(source, i), j + 1) = [brackets EXCEPT ![MatchOf(Current)] = @ - 1]
  <1> DEFINE b == Body(source, i)
             c == Current
             D == Depths(b, j + 1)
  <1>1. j \in Nat /\ c = b[j + 1]
    BY LogicalAt DEF LexInv
  <1>2. brackets = [kind \in Opening |-> Depth(b, j, kind)]
    BY DEF InLogicalLine
  <1>10. brackets = Depths(b, j)
    BY <1>2 DEF Depths
  <1>11. D = [kind \in Opening |-> Depth(b, j + 1, kind)]
    BY DEF Depths
  <1>3. \A kind : /\ Depth(b, j, kind) \in Int
                  /\ Depth(b, j + 1, kind) = Depth(b, j, kind) + Opens(c, kind) - Shuts(c, kind)
    BY <1>1, DepthNext
  <1> HIDE DEF b, c
  <1>4. \A kind \in Opening : /\ brackets[kind] \in Int /\ brackets[kind] = Depth(b, j, kind)
                              /\ D[kind] = brackets[kind] + Opens(c, kind) - Shuts(c, kind)
    <2> HIDE DEF D
    <2> QED
      BY <1>2, <1>3, <1>11
  <1>5. brackets \in [Opening -> Int]
    BY <1>2, <1>3
  <1>6. D = [kind \in Opening |-> D[kind]]
    BY DEF Depths
  <1> HIDE DEF D
  <1>7. ASSUME c \notin Opening \cup Closing
        PROVE  D = brackets
    <2>1. \A kind \in Opening : Opens(c, kind) = 0 /\ Shuts(c, kind) = 0
      BY <1>7 DEF Opens, Shuts
    <2>2. \A kind \in Opening : D[kind] = brackets[kind]
      BY <1>4, <2>1
    <2> QED
      BY <1>5, <1>6, <2>2
  <1>8. ASSUME c \in Opening
        PROVE  D = [brackets EXCEPT ![c] = @ + 1]
    <2>1. \A kind \in Opening : Opens(c, kind) = (IF kind = c THEN 1 ELSE 0) /\ Shuts(c, kind) = 0
      BY <1>8 DEF Opens, Shuts, Opening, Closing
    <2>2. \A kind \in Opening : D[kind] = IF kind = c THEN brackets[kind] + 1 ELSE brackets[kind]
      BY <1>4, <2>1
    <2> QED
      BY <1>5, <1>6, <2>2
  <1>9. ASSUME c \in Closing
        PROVE  D = [brackets EXCEPT ![MatchOf(c)] = @ - 1]
    <2>1. \A kind \in Opening :
            Opens(c, kind) = 0 /\ Shuts(c, kind) = (IF kind = MatchOf(c) THEN 1 ELSE 0)
      BY <1>9 DEF Opens, Shuts, Opening, Closing
    <2>2. \A kind \in Opening : D[kind] = IF kind = MatchOf(c) THEN brackets[kind] - 1 ELSE brackets[kind]
      BY <1>4, <2>1
    <2> QED
      BY <1>5, <1>6, <2>2
  <1> QED
    BY <1>5, <1>7, <1>8, <1>9, <1>10 DEF D, b, c

LEMMA BegunTokens ==
  ASSUME LexInv, LaidOut(source), NEW i, NEW j, InLogicalLine(i, j), j > 0
  PROVE  Len(tokens) \in Nat \ {0} /\ tokens # <<>> /\ tokens[Len(tokens)] # "NEWLINE"
  <1> DEFINE b == Body(source, i)
             r == Read(b, j)
             x == Before(i)
  <1>1. i \in 1..Len(source.lines) /\ j \in 1..Len(b)
    BY LineLaidOut DEF InLogicalLine, Within
  <1>2. b \in Seq(Symbols) /\ b[1] = "word"
    BY <1>1, LineLaidOut DEF InLogicalLine
  <1>3. x \in Seq(Kinds) /\ r \in Seq(Kinds) /\ r \in Seq(Plain)
    <2>1. j \in 0..Len(b)
      BY <1>1
    <2> QED
      BY <1>1, <2>1, BeforeSeq
  <1>4. Len(r) \in Nat \ {0}
    BY <1>1, <1>2, ReadBegun
  <1>5. tokens = x \o r
    BY DEF InLogicalLine, Before
  <1>6. \A k \in 1..Len(r) : r[k] # "NEWLINE"
    BY <1>3, PlainSeq
  <1> HIDE DEF r, x, b
  <1>7. /\ Len(x \o r) = Len(x) + Len(r) /\ Len(x) \in Nat
        /\ \A k \in 1..Len(r) : (x \o r)[Len(x) + k] = r[k]
        /\ x \o r \in Seq(Kinds)
    BY <1>3, ConcatAt
  <1>8. Len(r) \in 1..Len(r)
    BY <1>4
  <1>9. (x \o r)[Len(x \o r)] # "NEWLINE" /\ Len(x \o r) \in Nat \ {0}
    BY <1>4, <1>6, <1>7, <1>8
  <1>10. tokens # <<>>
    <2>1. tokens \in Seq(Kinds) /\ Len(tokens) # 0
      BY <1>5, <1>7, <1>9
    <2> QED
      BY <2>1
  <1> QED
    BY <1>5, <1>9, <1>10

LEMMA StepLogical ==
  ASSUME LexInv, LaidOut(source), NEW i, NEW j, InLogicalLine(i, j), j < Len(Body(source, i)),
         Next
  PROVE  AsLaidOut'
  <1> DEFINE b == Body(source, i)
             c == Current
  <1>1. /\ i \in 1..Len(source.lines) /\ j \in 0..(Len(b) - 1)
        /\ c = b[j + 1] /\ c \in Symbols /\ Continues(b, j, c)
    BY LogicalAt
  <1>2. Running
    BY BySymbol
  <1>3. /\ brackets = Depths(b, j) /\ brackets \in [Opening -> Int]
        /\ c \notin Opening \cup Closing => Depths(b, j + 1) = brackets
        /\ c \in Opening => Depths(b, j + 1) = [brackets EXCEPT ![c] = @ + 1]
        /\ c \in Closing => Depths(b, j + 1) = [brackets EXCEPT ![MatchOf(c)] = @ - 1]
    BY BracketsNext
  <1>4. /\ newLine = FALSE /\ inLine = (j > 0)
        /\ ignoreNewLine = (j > 0 /\ b[j] = "\\")
    BY DEF InLogicalLine
  <1>5. c # "word" => j > 0 /\ inLine = TRUE
    <2>1. c # "word" => j # 0
      BY <1>1 DEF Continues
    <2>2. j # 0 => j > 0
      BY <1>1
    <2> QED
      BY <1>4, <2>1, <2>2
  <1>6. c # "nl" => ignoreNewLine = FALSE
    BY <1>1, <1>4 DEF Continues
  <1>7. Bracketed <=> Nested(b, j)
    BY <1>3 DEF Bracketed, Nested, Depths
  <1> DEFINE Result ==
        /\ source' = source /\ UNCHANGED indentation /\ UNCHANGED outcome
        /\ pos' = pos + 1 /\ tokens' = tokens \o TokenOf(c)
        /\ newLine' = FALSE /\ inLine' = TRUE /\ ignoreNewLine' = (c = "\\")
        /\ brackets' = Depths(b, j + 1)
  <1>8. Result => AsLaidOut'
    BY <1>2, ReadOne DEF Depths
  <1>9. CASE c = "word"
    <2>1. Word /\ TokenOf(c) = <<"word">> /\ c \notin Opening \cup Closing
      BY <1>9, BySymbol DEF TokenOf, Ignored, Blanks, Opening, Closing
    <2>2. Consume(1, <<"word">>) /\ UNCHANGED <<stack, source, marker, unit, brackets, ignoreNewLine, outcome>>
          /\ newLine' = FALSE /\ inLine' = TRUE
      BY <1>4, <2>1 DEF Word
    <2>3. Result
      BY <1>3, <1>6, <1>9, <2>1, <2>2 DEF Consume, indentation
    <2> QED
      BY <1>8, <2>3
  <1>10. CASE c \in {"mark", "-/"}
    <2>1. Mark /\ TokenOf(c) = <<c>> /\ c \notin Opening \cup Closing
      BY <1>10, BySymbol DEF TokenOf, Ignored, Blanks, Opening, Closing
    <2>2. Result
      BY <1>3, <1>4, <1>5, <1>6, <1>10, <2>1 DEF Mark, Consume, flags
    <2> QED
      BY <1>8, <2>2
  <1>11. CASE c \in Opening
    <2>1. Open /\ TokenOf(c) = <<c>> /\ c # "nl" /\ c # "\\" /\ c # "word"
      BY <1>11, BySymbol DEF TokenOf, Ignored, Blanks, Opening
    <2>2. Result
      BY <1>3, <1>4, <1>5, <1>6, <1>11, <2>1 DEF Open, Consume, flags
    <2> QED
      BY <1>8, <2>2
  <1>12. CASE c \in Closing
    <2>1. TokenOf(c) = <<c>> /\ c # "nl" /\ c # "\\" /\ c # "word" /\ MatchOf(c) \in Opening
      BY <1>12 DEF TokenOf, Ignored, Blanks, Closing, MatchOf, Opening
    <2>2. brackets[MatchOf(c)] > 0
      BY <1>1, <1>3, <1>12, <2>1 DEF Continues, Depths
    <2>3. Close
      BY <1>12, <2>2, BySymbol DEF Dangling
    <2>4. Result
      BY <1>3, <1>4, <1>5, <1>6, <1>12, <2>1, <2>3 DEF Close, Consume, flags
    <2> QED
      BY <1>8, <2>4
  <1>13. CASE c \in {"--", "-["}
    <2>1. Comment /\ TokenOf(c) = <<>> /\ c \notin Opening \cup Closing
      BY <1>13, BySymbol DEF TokenOf, Ignored, Opening, Closing
    <2>2. Result
      BY <1>3, <1>4, <1>5, <1>6, <1>13, <2>1 DEF Comment, Consume, flags
    <2> QED
      BY <1>8, <2>2
  <1>14. CASE c = "nl"
    <2>1. /\ NewLineInBrackets \/ NewLineIgnored \/ NewLine
          /\ TokenOf(c) = <<>> /\ c \notin Opening \cup Closing
      BY <1>14, BySymbol DEF TokenOf, Ignored, Opening, Closing
    <2>2. j > 0 /\ (Bracketed <=> ~ignoreNewLine)
      BY <1>1, <1>4, <1>7, <1>14 DEF Continues
    <2>3. CASE Bracketed
      <3>1. NewLineInBrackets /\ ~ignoreNewLine
        BY <2>1, <2>2, <2>3 DEF NewLineIgnored, NewLine
      <3>2. ignoreNewLine = FALSE
        BY <1>4, <3>1
      <3>3. Result
        BY <1>3, <1>4, <1>5, <1>14, <2>1, <3>1, <3>2 DEF NewLineInBrackets, Consume, flags
      <3> QED
        BY <1>8, <3>3
    <2>4. CASE ~Bracketed
      <3>1. NewLineIgnored
        BY <2>1, <2>2, <2>4 DEF NewLineInBrackets, NewLine
      <3>2. Result
        BY <1>3, <1>4, <1>5, <1>14, <2>1, <3>1 DEF NewLineIgnored, Consume
      <3> QED
        BY <1>8, <3>2
    <2> QED
      BY <2>3, <2>4
  <1>15. CASE c = "\\"
    <2>1. /\ Backslash \/ BackslashAtEnd
          /\ TokenOf(c) = <<>> /\ c \notin Opening \cup Closing
      BY <1>15, BySymbol DEF TokenOf, Ignored, Opening, Closing
    <2>2. j + 1 < Len(b) /\ b[j + 2] = "nl"
      BY <1>1, <1>15 DEF Continues
    <2>3. pos \in Nat /\ Len(text) \in Nat
      BY TextType
    <2>4. Symbol(pos + 1) = "nl"
      <3>1. j + 1 \in 0..(Len(b) - 1) /\ (j + 1) + 1 = j + 2
        BY <1>1, <2>2, LineLaidOut
      <3>2. Symbol(Start(source, i - 1) + Margin(source, i) + (j + 1)) = b[(j + 1) + 1]
        BY <1>1, <3>1, SymbolsAt DEF SymbolsPlaced
      <3>3. /\ pos = Start(source, i - 1) + Margin(source, i) + j
            /\ Start(source, i - 1) \in Nat /\ Margin(source, i) \in Nat /\ j \in Nat
        <4>1. i - 1 \in 0..Len(source.lines)
          BY <1>1, SourceType DEF LexInv
        <4>2. Start(source, i - 1) \in Nat
          BY <4>1, SymbolsAt DEF SymbolsPlaced
        <4>3. Margin(source, i) \in Nat /\ Len(Body(source, i)) \in Nat
          BY <1>1, LineLaidOut
        <4>4. /\ pos = Start(source, i - 1) + Margin(source, i) + j
              /\ j \in 0..Len(Body(source, i))
          BY DEF InLogicalLine, Within
        <4> QED
          BY <4>2, <4>3, <4>4
      <3>4. pos + 1 = Start(source, i - 1) + Margin(source, i) + (j + 1)
        BY <3>3
      <3> QED
        BY <2>2, <3>1, <3>2, <3>4
    <2>5. pos + 1 < Len(text)
      BY <2>4 DEF Symbol
    <2>6. pos + 1 \in LineEnds /\ \A k \in LineEnds : pos + 1 <= k
      BY <2>3, <2>4, <2>5 DEF LineEnds
    <2>7. Backslash
      BY <2>1, <2>6 DEF BackslashAtEnd
    <2>8. pos' = pos + 1
      <3>1. \A k \in LineEnds : (\A m \in LineEnds : k <= m) => k = pos + 1
        BY <2>3, <2>6 DEF LineEnds
      <3> QED
        BY <2>6, <2>7, <3>1 DEF Backslash
    <2>9. tokens' = tokens \o TokenOf(c)
      <3>1. tokens \in Seq(TokenKinds)
        BY DEF LexInv, TypeOK, TokenKinds
      <3>2. tokens \o <<>> = tokens
        BY <3>1, ConcatEmptySeq
      <3> QED
        BY <2>1, <2>7, <3>2 DEF Backslash
    <2>10. Result
      BY <1>3, <1>4, <1>5, <1>15, <2>1, <2>7, <2>8, <2>9 DEF Backslash
    <2> QED
      BY <1>8, <2>10
  <1>16. CASE c \in Blanks
    <2>1. j > 0 /\ TokenOf(c) = <<>> /\ c \notin Opening \cup Closing /\ c # "nl" /\ c # "\\" /\ c # "word"
      BY <1>5, <1>16 DEF TokenOf, Ignored, Blanks, Opening, Closing
    <2>2. tokens # <<>>
      BY <2>1, BegunTokens
    <2>3. ~AtMargin /\ ~Indentation
      BY <1>4 DEF AtMargin, Indentation
    <2>4. BlankInside
      BY <1>16, <2>2, <2>3, BySymbol
         DEF BlankAtStart, MixedBlanks, BlankLine, FirstIndent, UnevenIndent, NextIndent,
             SameLevel, Dedent, Indent, TooSteep
    <2>5. Result
      BY <1>3, <1>4, <1>5, <1>6, <2>1, <2>4 DEF BlankInside, Consume, flags
    <2> QED
      BY <1>8, <2>5
  <1> QED
    BY <1>1, <1>9, <1>10, <1>11, <1>12, <1>13, <1>14, <1>15, <1>16
       DEF Continues, Symbols, Ignored

-----------------------------------------------------------------------------
(* Line ends and the end of the source.                                    *)
LEMMA LogicalDone ==
  ASSUME LexInv, LaidOut(source), NEW i \in 1..Len(source.lines), ~EmptyBody(Body(source, i))
  PROVE  /\ Done(source, i)
              = (Before(i) \o Read(Body(source, i), Len(Body(source, i)))) \o <<"NEWLINE">>
         /\ Before(i) \o Read(Body(source, i), Len(Body(source, i))) \in Seq(Kinds)
         /\ LogicalLines(source.lines, i) # {}
  <1> DEFINE b == Body(source, i)
             d == Done(source, i - 1)
             lead == Lead(LevelTo(source, i - 1), LevelTo(source, i))
             r == Read(b, Len(b))
             nl == <<"NEWLINE">>
  <1>1. source \in Sources
    BY DEF LexInv
  <1>2. d \in Seq(Kinds) /\ lead \in Seq(Kinds) /\ Before(i) = d \o lead
    BY BeforeSeq DEF Before
  <1>3. r \in Seq(Kinds)
    <2>1. Len(b) \in 0..Len(b)
      BY LineLaidOut
    <2> QED
      BY <2>1, BeforeSeq
  <1>4. nl \in Seq(Kinds)
    BY LayoutKinds, OneInSeq
  <1>5. Done(source, i) = d \o ((lead \o r) \o nl)
    BY <1>1, DoneIs, LineTokensAre
  <1> HIDE DEF b, d, lead, r, nl
  <1>6. lead \o r \in Seq(Kinds) /\ d \o lead \in Seq(Kinds)
    BY <1>2, <1>3, ConcatAt
  <1>7. d \o ((lead \o r) \o nl) = (d \o (lead \o r)) \o nl
    <2> DEFINE u == lead \o r
    <2>1. u \in Seq(Kinds) /\ d \in Seq(Kinds)
      BY <1>2, <1>6
    <2> HIDE DEF u
    <2>2. d \o (u \o nl) = (d \o u) \o nl
      BY <1>4, <2>1, KindsAssoc
    <2> QED
      BY <2>2 DEF u
  <1>8. d \o (lead \o r) = (d \o lead) \o r
    <2>1. d \in Seq(Kinds) /\ lead \in Seq(Kinds)
      BY <1>2
    <2> QED
      BY <1>3, <2>1, KindsAssoc
  <1>9. (d \o lead) \o r \in Seq(Kinds)
    BY <1>3, <1>6, ConcatAt
  <1>10. LogicalLines(source.lines, i) # {}
    BY <1>1, Levels
  <1> QED
    BY <1>2, <1>5, <1>7, <1>8, <1>9, <1>10 DEF b, r, nl

LEMMA Finished ==
  ASSUME LexInv, LaidOut(source), Finish, Ladder(LevelTo(source, Len(source.lines))),
         NEW last \in Seq(Kinds), tokens \in Seq(Kinds),
         last = IF tokens # <<>> /\ tokens[Len(tokens)] # "NEWLINE" THEN <<"NEWLINE">> ELSE <<>>,
         tokens \o last = Done(source, Len(source.lines))
  PROVE  AsLaidOut'
  <1> DEFINE N == Len(source.lines)
             k == LevelTo(source, N)
             copies == Copies(k, "DEDENT")
             e == <<"AVL_EOF">>
             d == Done(source, N)
  <1>1. source \in Sources /\ N \in Nat
    BY SourceType DEF LexInv
  <1>2. k \in Nat
    <2>1. N \in 0..N
      BY <1>1
    <2> QED
      BY <1>1, <2>1, Levels
  <1>3. copies \in Seq(Kinds) /\ e \in Seq(Kinds)
    BY <1>2, CopiesSeq, LayoutKinds, OneInSeq
  <1>4. Copies(Len(stack) - 1, "DEDENT") = copies
    <2>1. stack = Steps(k)
      BY DEF Ladder
    <2> HIDE DEF k
    <2>2. Len(Steps(k)) = k + 1
      BY <1>2 DEF Steps
    <2>3. Len(stack) - 1 = k
      BY <1>2, <2>1, <2>2
    <2> QED
      BY <2>3
  <1>5. /\ tokens' = tokens \o (last \o copies \o e)
        /\ source' = source /\ outcome' = "done"
    BY <1>4 DEF Finish
  <1>6. TokensExpected(source.lines, source.unit) = (d \o copies) \o e
    BY <1>1, DoneIs
  <1>7. d = tokens \o last
    OBVIOUS
  <1> HIDE DEF N, k, copies, e, d
  <1>8. last \o copies \in Seq(Kinds)
    BY <1>3, ConcatAt
  <1>9. tokens \o ((last \o copies) \o e) = (tokens \o (last \o copies)) \o e
    <2> DEFINE u == last \o copies
    <2>1. u \in Seq(Kinds) /\ e \in Seq(Kinds)
      BY <1>3, <1>8
    <2> HIDE DEF u
    <2>2. tokens \o (u \o e) = (tokens \o u) \o e
      BY <2>1, KindsAssoc
    <2> QED
      BY <2>2 DEF u
  <1>10. tokens \o (last \o copies) = (tokens \o last) \o copies
    BY <1>3, KindsAssoc
  <1>11. tokens' = TokensExpected(source.lines, source.unit)
    BY <1>5, <1>6, <1>7, <1>9, <1>10
  <1> QED
    BY <1>5, <1>11 DEF AsLaidOut

LEMMA StepLineEnd ==
  ASSUME LexInv, LaidOut(source), NEW i, NEW j, InLogicalLine(i, j), j = Len(Body(source, i)),
         Next
  PROVE  AsLaidOut'
  <1> DEFINE b == Body(source, i)
             n == Len(b)
  <1>1. i \in 1..Len(source.lines) /\ ~EmptyBody(b)
    BY DEF InLogicalLine, Within
  <1>2. /\ b \in Seq(Symbols) /\ n \in Nat /\ n > 0 /\ LogicalBody(b)
        /\ Margin(source, i) \in Nat
    BY <1>1, LineLaidOut
  <1>3. Running
    BY BySymbol
  <1>4. brackets = [kind \in Opening |-> 0] /\ ~Bracketed
    <2>1. ~Nested(b, n)
      BY <1>2 DEF LogicalBody
    <2>2. brackets = [kind \in Opening |-> Depth(b, n, kind)] /\ brackets \in [Opening -> Nat]
      BY DEF InLogicalLine, LexInv, TypeOK
    <2>3. \A kind \in Opening : brackets[kind] \in Nat /\ ~(brackets[kind] > 0)
      BY <2>1, <2>2 DEF Nested
    <2>4. \A kind \in Opening : brackets[kind] = 0
      BY <2>3
    <2> QED
      BY <2>2, <2>4 DEF Bracketed
  <1>5. ignoreNewLine = FALSE /\ inLine = TRUE
    <2>1. n \in 1..n
      BY <1>2
    <2>2. b[n] # "\\"
      BY <1>2, <2>1 DEF LogicalBody
    <2> QED
      BY <1>2, <2>2 DEF InLogicalLine
  <1>6. pos = EndOf(source, i)
    BY DEF InLogicalLine, Within, EndOf
  <1>7. /\ Start(source, i) = pos + 1
        /\ \/ Current = "nl"
           \/ Current = "end" /\ i = Len(source.lines)
    BY <1>1, <1>6, SymbolsAt DEF SymbolsPlaced, Current
  <1>8. /\ tokens = Before(i) \o Read(b, n) /\ tokens \in Seq(Kinds)
        /\ Done(source, i) = tokens \o <<"NEWLINE">>
        /\ LogicalLines(source.lines, i) # {}
    BY <1>1, LogicalDone DEF InLogicalLine, Before
  <1>9. Ladder(LevelTo(source, i))
    BY DEF InLogicalLine
  <1>10. CASE Current = "nl"
    <2>1. NewLine
      BY <1>4, <1>5, <1>10, BySymbol DEF NewLineInBrackets, NewLineIgnored
    <2>2. /\ tokens' = Done(source, i) /\ pos' = Start(source, i)
          /\ newLine' = TRUE /\ inLine' = FALSE /\ ignoreNewLine' = FALSE
          /\ brackets' = [kind \in Opening |-> 0]
          /\ UNCHANGED <<source, indentation, outcome>>
      BY <1>4, <1>5, <1>7, <1>8, <2>1 DEF NewLine, Consume
    <2>3. i + 1 \in 1..(Len(source.lines) + 1) /\ (i + 1) - 1 = i /\ i + 1 \in Nat
      BY <1>1, SourceType DEF LexInv
    <2>4. Ladder(LevelTo(source, i))'
      BY <1>9, <2>2 DEF Ladder, indentation
    <2>5. BeforeLine(i + 1)'
      BY <1>8, <2>2, <2>3, <2>4 DEF BeforeLine, Fresh
    <2> QED
      BY <1>3, <2>2, <2>3, <2>5 DEF AsLaidOut, Somewhere, Running
  <1>11. CASE Current = "end" /\ i = Len(source.lines)
    <2>1. Finish
      BY <1>11, BySymbol
    <2> DEFINE last == <<"NEWLINE">>
    <2>2. last \in Seq(Kinds)
      BY LayoutKinds, OneInSeq
    <2>3. tokens # <<>> /\ tokens[Len(tokens)] # "NEWLINE"
      BY <1>2, BegunTokens
    <2>4. tokens \o last = Done(source, Len(source.lines))
      BY <1>8, <1>11
    <2>5. last = IF tokens # <<>> /\ tokens[Len(tokens)] # "NEWLINE" THEN <<"NEWLINE">> ELSE <<>>
      BY <2>3
    <2> HIDE DEF last
    <2> QED
      BY <1>8, <1>9, <1>11, <2>1, <2>2, <2>4, <2>5, Finished
  <1> QED
    BY <1>7, <1>10, <1>11

(* A source that ends between two lines.                                   *)
LEMMA FinishedFresh ==
  ASSUME LexInv, LaidOut(source), Finish, NEW i \in 1..(Len(source.lines) + 1), Fresh(i),
         Done(source, i - 1) = Done(source, Len(source.lines)),
         LevelTo(source, i - 1) = LevelTo(source, Len(source.lines))
  PROVE  AsLaidOut'
  <1>1. source \in Sources /\ Len(source.lines) \in Nat
    BY SourceType DEF LexInv
  <1>2. i - 1 \in 0..Len(source.lines)
    BY <1>1
  <1>3. tokens = Done(source, i - 1) /\ Ladder(LevelTo(source, Len(source.lines)))
    BY DEF Fresh
  <1>4. tokens \in Seq(Kinds) /\ Ends(tokens, LogicalLines(source.lines, i - 1))
    BY <1>1, <1>2, <1>3, DoneIs, DoneEnds
  <1> DEFINE last == <<>>
  <1>5. last \in Seq(Kinds)
    OBVIOUS
  <1>6. last = IF tokens # <<>> /\ tokens[Len(tokens)] # "NEWLINE" THEN <<"NEWLINE">> ELSE <<>>
    BY <1>4 DEF Ends
  <1>7. tokens \o last = Done(source, Len(source.lines))
    <2>1. tokens \o <<>> = tokens
      BY <1>4, ConcatEmptySeq
    <2> QED
      BY <1>3, <2>1
  <1> HIDE DEF last
  <1> QED
    BY <1>3, <1>4, <1>5, <1>6, <1>7, Finished

LEMMA EmptyDone ==
  ASSUME LexInv, LaidOut(source), NEW i \in 1..Len(source.lines), EmptyBody(Body(source, i))
  PROVE  /\ Done(source, i) = Done(source, i - 1)
         /\ LevelTo(source, i) = LevelTo(source, i - 1)
         /\ LogicalLines(source.lines, i) = LogicalLines(source.lines, i - 1)
  <1>1. source \in Sources /\ i - 1 \in 0..Len(source.lines)
    BY SourceType DEF LexInv
  <1>2. /\ LineTokens(source.lines, source.unit, i) = <<>>
        /\ Done(source, i - 1) \in Seq(Kinds)
        /\ Done(source, i) = Done(source, i - 1) \o LineTokens(source.lines, source.unit, i)
    BY <1>1, LineTokensAre, DoneIs
  <1>3. Done(source, i) = Done(source, i - 1)
    BY <1>2, ConcatEmptySeq
  <1> QED
    BY <1>1, <1>3, Levels

LEMMA NoBrackets ==
  ASSUME NEW i, Fresh(i)
  PROVE  ~Bracketed
  BY DEF Fresh, Bracketed

LEMMA StepEmpty ==
  ASSUME LexInv, LaidOut(source), NEW i, NEW j, InEmptyLine(i, j), Next
  PROVE  AsLaidOut'
  <1> DEFINE b == Body(source, i)
             n == Len(b)
  <1>1. /\ i \in 1..Len(source.lines) /\ EmptyBody(b) /\ j \in 0..n /\ Fresh(i)
        /\ pos = Start(source, i - 1) + Margin(source, i) + j
    BY DEF InEmptyLine, Within
  <1>2. n \in Nat /\ Margin(source, i) \in Nat /\ i \in Nat /\ Start(source, i - 1) \in Nat
    <2>1. i - 1 \in 0..Len(source.lines) /\ i \in Nat
      BY <1>1, SourceType DEF LexInv
    <2> QED
      BY <1>1, <2>1, LineLaidOut, SymbolsAt DEF SymbolsPlaced
  <1>3. Running
    BY BySymbol
  <1>4. tokens \o <<>> = tokens
    BY ConcatEmptySeq DEF LexInv, TypeOK
  <1>5. CASE j < n
    <2>1. b = <<"--">> /\ n = 1 /\ j = 0
      <3>1. b # <<>>
        BY <1>1, <1>2, <1>5
      <3>2. b = <<"--">>
        BY <1>1, <3>1 DEF EmptyBody
      <3>3. n = 1
        BY <3>2
      <3> QED
        BY <1>1, <1>5, <3>2, <3>3
    <2>2. Current = "--"
      <3>1. Symbol(Start(source, i - 1) + Margin(source, i) + j) = b[j + 1]
        BY <1>1, <1>2, <1>5, SymbolsAt DEF SymbolsPlaced
      <3>2. j + 1 = 1
        BY <2>1
      <3> QED
        BY <1>1, <2>1, <3>1, <3>2 DEF Current
    <2>3. Comment
      BY <2>2, BySymbol
    <2>4. /\ pos' = pos + 1 /\ tokens' = tokens
          /\ UNCHANGED <<source, indentation, brackets, flags, outcome>>
      BY <1>4, <2>3 DEF Comment, Consume
    <2>5. Fresh(i)'
      BY <1>1, <2>4 DEF Fresh, Ladder, indentation, flags
    <2>6. j + 1 \in 0..n /\ j + 1 \in Nat /\ pos' = Start(source, i - 1) + Margin(source, i) + (j + 1)
      BY <1>1, <1>2, <1>5, <2>4
    <2>7. InEmptyLine(i, j + 1)'
      BY <1>1, <2>4, <2>5, <2>6 DEF InEmptyLine, Within
    <2> QED
      BY <1>2, <1>3, <2>4, <2>6, <2>7 DEF AsLaidOut, Somewhere, Running
  <1>6. CASE ~(j < n)
    <2>1. pos = EndOf(source, i)
      <3>1. j = n
        BY <1>1, <1>2, <1>6
      <3> QED
        BY <1>1, <3>1 DEF EndOf
    <2>2. /\ Start(source, i) = pos + 1
          /\ \/ Current = "nl"
             \/ Current = "end" /\ i = Len(source.lines)
      BY <1>1, <2>1, SymbolsAt DEF SymbolsPlaced, Current
    <2>3. /\ Done(source, i) = Done(source, i - 1)
          /\ LevelTo(source, i) = LevelTo(source, i - 1)
          /\ LogicalLines(source.lines, i) = LogicalLines(source.lines, i - 1)
      BY <1>1, EmptyDone
    <2>4. i + 1 \in 1..(Len(source.lines) + 1) /\ (i + 1) - 1 = i /\ i + 1 \in Nat
          /\ i \in 1..(Len(source.lines) + 1)
      BY <1>1, SourceType DEF LexInv
    <2>5. CASE Current = "nl"
      <3>1. inLine = FALSE /\ ignoreNewLine = FALSE /\ newLine \in BOOLEAN
        BY <1>1 DEF Fresh
      <3>2. NewLine
        BY <1>1, <2>5, <3>1, NoBrackets, BySymbol DEF NewLineInBrackets, NewLineIgnored
      <3>3. /\ pos' = pos + 1 /\ tokens' = tokens
            /\ newLine' = newLine /\ inLine' = inLine
            /\ UNCHANGED <<source, indentation, brackets, ignoreNewLine, outcome>>
        BY <1>4, <3>1, <3>2 DEF NewLine, Consume
      <3>4. Fresh(i)'
        BY <1>1, <3>3 DEF Fresh, Ladder, indentation
      <3>5. Fresh(i + 1)'
        BY <2>3, <2>4, <3>3, <3>4 DEF Fresh, Ladder
      <3>6. BeforeLine(i + 1)'
        BY <2>2, <2>4, <3>3, <3>5 DEF BeforeLine
      <3> QED
        BY <1>3, <2>4, <3>3, <3>6 DEF AsLaidOut, Somewhere, Running
    <2>6. CASE Current = "end" /\ i = Len(source.lines)
      <3>1. Finish
        BY <2>6, BySymbol
      <3> QED
        BY <1>1, <2>3, <2>4, <2>6, <3>1, FinishedFresh
    <2> QED
      BY <2>2, <2>5, <2>6
  <1> QED
    BY <1>5, <1>6

-----------------------------------------------------------------------------
(* The beginnings of lines.                                                *)
LEMMA StepLastLine ==
  ASSUME LexInv, LaidOut(source), NEW i, BeforeLine(i), i = Len(source.lines) + 1, Next
  PROVE  AsLaidOut'
  <1>1. i - 1 = Len(source.lines) /\ i \in 1..(Len(source.lines) + 1)
    BY SourceType DEF LexInv, BeforeLine
  <1>2. Current = "end"
    <2>1. pos = Start(source, Len(source.lines))
      BY <1>1 DEF BeforeLine
    <2> QED
      BY <2>1, SymbolsAt DEF SymbolsPlaced, Current
  <1>3. Finish
    BY <1>2, BySymbol
  <1> QED
    BY <1>1, <1>3, FinishedFresh DEF BeforeLine

LEMMA StepsAre ==
  ASSUME NEW k \in Nat
  PROVE  /\ Steps(k) \in Seq(Nat) /\ Len(Steps(k)) = k + 1
         /\ \A m \in 1..(k + 1) : Steps(k)[m] = m - 1
         /\ Steps(k)[Len(Steps(k))] = k
         /\ Append(Steps(k), k + 1) = Steps(k + 1)
         /\ \A q \in 1..(k + 1) : SubSeq(Steps(k), 1, q) = Steps(q - 1)
  <1>1. Steps(k) \in Seq(Nat) /\ Len(Steps(k)) = k + 1 /\ \A m \in 1..(k + 1) : Steps(k)[m] = m - 1
    BY DEF Steps
  <1>2. Steps(k + 1) \in Seq(Nat) /\ Len(Steps(k + 1)) = k + 2
        /\ \A m \in 1..(k + 2) : Steps(k + 1)[m] = m - 1
    BY DEF Steps
  <1>3. Append(Steps(k), k + 1) = Steps(k + 1)
    <2> DEFINE t == Append(Steps(k), k + 1)
    <2>1. t \in Seq(Nat) /\ Len(t) = k + 2 /\ \A m \in 1..(k + 2) : t[m] = m - 1
      BY <1>1
    <2> HIDE DEF t
    <2>2. t = Steps(k + 1)
      BY <1>2, <2>1, SeqEqual
    <2> QED
      BY <2>2 DEF t
  <1>4. ASSUME NEW q \in 1..(k + 1)
        PROVE  SubSeq(Steps(k), 1, q) = Steps(q - 1)
    <2> DEFINE t == SubSeq(Steps(k), 1, q)
    <2>1. t \in Seq(Nat) /\ Len(t) = q /\ \A m \in 1..q : t[m] = m - 1
      BY <1>1
    <2>2. Steps(q - 1) \in Seq(Nat) /\ Len(Steps(q - 1)) = q /\ \A m \in 1..q : Steps(q - 1)[m] = m - 1
      BY DEF Steps
    <2> HIDE DEF t
    <2>3. t = Steps(q - 1)
      BY <2>1, <2>2, SeqEqual
    <2> QED
      BY <2>3 DEF t
  <1>5. Steps(k)[Len(Steps(k))] = k
    <2>1. k + 1 \in 1..(k + 1) /\ (k + 1) - 1 = k
      OBVIOUS
    <2> QED
      BY <1>1, <2>1
  <1> QED
    BY <1>1, <1>3, <1>4, <1>5

LEMMA ReadNone ==
  ASSUME NEW b \in Seq(Symbols)
  PROVE  /\ Read(b, 0) = <<>>
         /\ Len(b) > 0 /\ b[1] = "word" => Read(b, 1) = <<"word">>
         /\ Len(b) > 0 /\ b[1] = "word" => \A kind \in Opening : Depth(b, 1, kind) = 0
         /\ \A kind \in Opening : Depth(b, 0, kind) = 0
  <1>1. Read(b, 0) = <<>>
    BY ReadIs
  <1>2. ASSUME Len(b) > 0, b[1] = "word"
        PROVE  Read(b, 1) = <<"word">>
    <2>1. 1 \in 1..Len(b) /\ 1 - 1 = 0
      BY <1>2
    <2>2. Read(b, 1) = Read(b, 0) \o TokenOf(b[1])
      BY <2>1, ReadIs
    <2>3. TokenOf(b[1]) = <<"word">>
      BY <1>2 DEF TokenOf, Ignored, Blanks
    <2>4. <<"word">> \in Seq(Kinds)
      BY LayoutKinds, OneInSeq
    <2> QED
      BY <1>1, <2>2, <2>3, <2>4, ConcatEmptySeq
  <1>3. \A kind \in Opening : Depth(b, 0, kind) = 0
    BY DepthNext
  <1>4. ASSUME b[1] = "word", NEW kind \in Opening
        PROVE  Depth(b, 1, kind) = 0
    <2>1. 0 \in Nat /\ 0 + 1 = 1
      OBVIOUS
    <2>2. Depth(b, 1, kind) = Depth(b, 0, kind) + Opens(b[1], kind) - Shuts(b[1], kind)
      BY <2>1, DepthNext
    <2>3. Opens(b[1], kind) = 0 /\ Shuts(b[1], kind) = 0
      BY <1>4 DEF Opens, Shuts, Opening, Closing
    <2> QED
      BY <1>3, <2>2, <2>3
  <1> QED
    BY <1>1, <1>2, <1>3, <1>4

(* A word at the margin closes all levels.                                 *)
LEMMA StepWord ==
  ASSUME LexInv, LaidOut(source), NEW i \in 1..Len(source.lines), BeforeLine(i),
         Margin(source, i) = 0, ~EmptyBody(Body(source, i)), Next
  PROVE  AsLaidOut'
  <1> DEFINE b == Body(source, i)
             k == LevelTo(source, i - 1)
             d == Done(source, i - 1)
             lead == Lead(k, 0)
             w == <<"word">>
  <1>1. /\ b \in Seq(Symbols) /\ Len(b) \in Nat /\ Len(b) > 0 /\ b[1] = "word"
        /\ k \in Nat /\ i \in Nat
    BY LineLaidOut
  <1>2. LevelTo(source, i) = 0
    <2>1. LevelTo(source, i) = 0 \div source.unit /\ source.unit \in Nat \ {0}
      BY LineLaidOut
    <2> QED
      BY <2>1
  <1>3. Start(source, i - 1) \in Nat
    <2>1. i - 1 \in 0..Len(source.lines)
      BY SourceType DEF LexInv
    <2> QED
      BY <2>1, SymbolsAt DEF SymbolsPlaced
  <1>4. Current = "word"
    <2>1. Symbol(Start(source, i - 1) + 0 + 0) = b[0 + 1]
      <3>1. 0 \in 0..(Len(b) - 1)
        BY <1>1
      <3> QED
        BY <3>1, SymbolsAt DEF SymbolsPlaced
    <2> QED
      BY <1>1, <1>3, <2>1 DEF Current, BeforeLine
  <1>5. Word /\ Running
    BY <1>4, BySymbol
  <1>6. /\ pos = Start(source, i - 1) /\ tokens = d /\ stack = Steps(k)
        /\ Ladder(k) /\ newLine = (LogicalLines(source.lines, i - 1) # {})
        /\ ignoreNewLine = FALSE /\ brackets = [kind \in Opening |-> 0]
    BY DEF BeforeLine, Fresh, Ladder
  <1>7. Len(stack) - 1 = k
    <2> HIDE DEF k
    <2>1. Len(Steps(k)) = k + 1
      BY <1>1, StepsAre
    <2> QED
      BY <1>1, <1>6, <2>1
  <1>8. lead = Copies(k, "DEDENT") /\ (k = 0 => lead = <<>>)
    <2>1. CASE k = 0
      <3>1. lead = Copies(0 - 0, "INDENT")
        BY <2>1 DEF Lead
      <3>2. Copies(0 - 0, "INDENT") = <<>> /\ Copies(0, "DEDENT") = <<>>
        BY DEF Copies
      <3> QED
        BY <2>1, <3>1, <3>2
    <2>2. CASE k # 0
      <3>1. ~(k <= 0) /\ k - 0 = k
        BY <1>1, <2>2
      <3> QED
        BY <2>2, <3>1 DEF Lead
    <2> QED
      BY <2>1, <2>2
  <1>9. d \in Seq(Kinds) /\ lead \in Seq(Kinds) /\ w \in Seq(Kinds)
    BY <1>2, BeforeSeq, LayoutKinds, OneInSeq
  <1>10. tokens' = d \o (lead \o w) /\ stack' = <<0>>
    <2>1. CASE newLine
      <3>1. tokens' = tokens \o (Copies(Len(stack) - 1, "DEDENT") \o <<"word">>) /\ stack' = <<0>>
        BY <1>5, <2>1 DEF Word, Consume
      <3> QED
        BY <1>6, <1>7, <1>8, <3>1
    <2>2. CASE ~newLine
      <3>1. tokens' = tokens \o w /\ stack' = stack
        BY <1>5, <2>2 DEF Word, Consume
      <3>2. k = 0
        <4>2. LogicalLines(source.lines, i - 1) = {}
          BY <1>6, <2>2
        <4>3. i - 1 \in 0..Len(source.lines)
          BY SourceType DEF LexInv
        <4>1. LogicalLines(source.lines, i - 1) = {} /\ i - 1 \in 0..Len(source.lines)
          BY <4>2, <4>3
        <4> QED
          BY <4>1, Levels DEF LexInv
      <3>3. lead \o w = w
        <4>1. lead = <<>>
          BY <1>8, <3>2
        <4> QED
          BY <1>9, <4>1, ConcatEmptySeq
      <3>4. Steps(0) = <<0>>
        BY DEF Steps
      <3> QED
        BY <1>6, <3>1, <3>2, <3>3, <3>4
    <2> QED
      BY <2>1, <2>2
  <1>11. tokens' = Before(i) \o Read(b, 1)
    <2>1. Before(i) = d \o lead
      BY <1>2 DEF Before
    <2>2. Read(b, 1) = w
      BY <1>1, ReadNone
    <2> HIDE DEF d, lead, w
    <2>3. d \o (lead \o w) = (d \o lead) \o w
      BY <1>9, KindsAssoc
    <2> QED
      BY <1>10, <2>1, <2>2, <2>3
  <1>12. /\ pos' = pos + 1 /\ newLine' = FALSE /\ inLine' = TRUE
         /\ UNCHANGED <<source, marker, unit, brackets, ignoreNewLine, outcome>>
    BY <1>5 DEF Word, Consume
  <1>13. Ladder(LevelTo(source, i))'
    <2>1. Steps(0) = <<0>>
      BY DEF Steps
    <2> QED
      BY <1>2, <1>6, <1>10, <1>12, <2>1 DEF Ladder
  <1>14. brackets' = [kind \in Opening |-> Depth(b, 1, kind)]
    <2>1. \A kind \in Opening : Depth(b, 1, kind) = 0
      BY <1>1, ReadNone
    <2> QED
      BY <1>6, <1>12, <2>1
  <1>15. /\ pos' = Start(source, i - 1) + Margin(source, i) + 1
         /\ 1 \in 0..Len(b) /\ 1 \in Nat /\ 1 > 0
    BY <1>1, <1>3, <1>6, <1>12
  <1>16. ignoreNewLine' = (1 > 0 /\ b[1] = "\\") /\ inLine' = (1 > 0)
    <2>1. ignoreNewLine' = FALSE /\ inLine' = TRUE
      BY <1>6, <1>12
    <2>2. b[1] # "\\" /\ 1 > 0
      BY <1>1
    <2> QED
      BY <2>1, <2>2
  <1>17. InLogicalLine(i, 1)'
    <2> DEFINE one == 1
    <2>1. /\ one \in 0..Len(b) /\ one > 0 /\ b[one] = b[1]
          /\ pos' = Start(source, i - 1) + Margin(source, i) + one
          /\ tokens' = Before(i) \o Read(b, one)
          /\ ignoreNewLine' = (one > 0 /\ b[one] = "\\") /\ inLine' = (one > 0)
          /\ brackets' = [kind \in Opening |-> Depth(b, one, kind)]
      BY <1>11, <1>14, <1>15, <1>16
    <2> HIDE DEF one
    <2>2. InLogicalLine(i, one)'
      BY <1>12, <1>13, <2>1 DEF InLogicalLine, Within, Before
    <2> QED
      BY <2>2 DEF one
  <1> QED
    BY <1>1, <1>5, <1>12, <1>15, <1>17 DEF AsLaidOut, Somewhere, Running

(* The blanks before a line, up to what comes behind them.                 *)
LEMMA MarginAt ==
  ASSUME LexInv, LaidOut(source), NEW i \in 1..Len(source.lines), BeforeLine(i),
         Margin(source, i) > 0
  PROVE  /\ Current = source.blank /\ Current \in Blanks /\ newLine = TRUE
         /\ Found = Margin(source, i) /\ ~Mixed
         /\ IF EmptyBody(Body(source, i)) THEN Behind \in {"nl", "--"} ELSE Behind = "word"
  <1> DEFINE b == Body(source, i)
             n == Margin(source, i)
             p == Start(source, i - 1)
             blank == source.blank
  <1>1. /\ b \in Seq(Symbols) /\ Len(b) \in Nat /\ n \in Nat /\ n > 0 /\ blank \in Blanks
        /\ ~EmptyBody(b) => Len(b) > 0 /\ b[1] = "word"
    BY LineLaidOut
  <1>2. p \in Nat /\ pos = p
    <2>1. i - 1 \in 0..Len(source.lines)
      BY SourceType DEF LexInv
    <2> QED
      BY <2>1, SymbolsAt DEF SymbolsPlaced, BeforeLine
  <1>3. \A k \in 0..(n - 1) : Symbol(p + k) = blank
    BY SymbolsAt DEF SymbolsPlaced
  <1>4. IF EmptyBody(b) THEN Symbol(p + n) \in {"nl", "--"} ELSE Symbol(p + n) = "word"
    <2>1. CASE b = <<>>
      <3>1. EndOf(source, i) = p + n
        <4>1. Len(b) = 0
          BY <2>1
        <4> HIDE DEF b, n, p
        <4> QED
          BY <1>1, <1>2, <4>1 DEF EndOf, b, n, p
      <3>2. ~(i = Len(source.lines) /\ MayCut(source.lines))
        BY <1>1, <2>1 DEF MayCut, Margin, Body
      <3>3. Symbol(EndOf(source, i)) = "nl"
        BY <3>2, SymbolsAt DEF SymbolsPlaced
      <3> QED
        BY <2>1, <3>1, <3>3 DEF EmptyBody
    <2>2. CASE b # <<>>
      <3>1. 0 \in 0..(Len(b) - 1) /\ p + n + 0 = p + n /\ 0 + 1 = 1
        <4>1. Len(b) > 0
          BY <1>1, <2>2
        <4> HIDE DEF b, n, p
        <4> QED
          BY <1>1, <1>2, <4>1
      <3>2. Symbol(p + n + 0) = b[0 + 1]
        BY <3>1, SymbolsAt DEF SymbolsPlaced
      <3>3. Symbol(p + n) = b[1]
        BY <3>1, <3>2
      <3>4. EmptyBody(b) => b = <<"--">>
        BY <2>2 DEF EmptyBody
      <3>5. b = <<"--">> => b[1] = "--"
        OBVIOUS
      <3> HIDE DEF b, n, p
      <3> QED
        BY <1>1, <3>3, <3>4, <3>5
    <2> QED
      BY <2>1, <2>2
  <1>5. newLine = TRUE /\ marker \in {"none", blank}
    <2>1. LogicalLines(source.lines, i - 1) # {}
      <3>1. LogicalLines(source.lines, i - 1) = {} => n = 0
        BY LineLaidOut
      <3> HIDE DEF n
      <3> QED
        BY <1>1, <3>1
    <2> QED
      BY <2>1 DEF BeforeLine, Fresh, Ladder
  <1>6. Len(text) \in Nat /\ pos \in 0..Len(text)
    BY TextType
  <1> HIDE DEF b, n, p, blank
  <1>7. Current = blank
    <2>1. 0 \in 0..(n - 1) /\ p + 0 = p
      BY <1>1, <1>2
    <2>2. Symbol(p + 0) = blank
      BY <1>3, <2>1
    <2> QED
      BY <1>2, <2>1, <2>2 DEF Current
  <1>8. Symbol(p + n) # blank
    <2>1. Symbol(p + n) \in {"nl", "--", "word"}
      BY <1>4
    <2> QED
      BY <1>1, <2>1 DEF Blanks
  <1>9. p + n \in pos..Len(text)
    <2>1. n - 1 \in 0..(n - 1) /\ p + (n - 1) \in Nat
      BY <1>1, <1>2
    <2>2. Symbol(p + (n - 1)) # "end"
      BY <1>1, <1>3, <2>1 DEF Blanks
    <2>3. p + (n - 1) < Len(text)
      BY <2>2 DEF Symbol
    <2> QED
      BY <1>1, <1>2, <1>6, <2>1, <2>3
  <1>10. Found = n
    <2> DEFINE Is(q) == Symbol(q) # Current /\ \A r \in pos..(q - 1) : Symbol(r) = Current
               first == CHOOSE q \in pos..Len(text) : Is(q)
    <2>1. Is(p + n)
      <3>1. ASSUME NEW r \in pos..((p + n) - 1)
            PROVE  Symbol(r) = Current
        <4>1. r - p \in 0..(n - 1) /\ p + (r - p) = r
          BY <1>1, <1>2
        <4> QED
          BY <1>3, <1>7, <4>1
      <3> QED
        BY <1>7, <1>8, <3>1
    <2>2. ASSUME NEW q \in pos..Len(text), Is(q)
          PROVE  q = p + n
      <3>1. CASE q < p + n
        <4>1. q \in pos..((p + n) - 1)
          BY <1>1, <1>2, <1>6, <3>1
        <4> QED
          BY <2>1, <2>2, <4>1
      <3>2. CASE q > p + n
        <4>1. p + n \in pos..(q - 1)
          BY <1>1, <1>2, <1>6, <3>2
        <4> QED
          BY <2>1, <2>2, <4>1
      <3> QED
        BY <1>1, <1>2, <1>6, <3>1, <3>2
    <2>3. Found = first - pos
      BY DEF Found
    <2> HIDE DEF Is
    <2>4. first \in pos..Len(text) /\ Is(first)
      BY <1>9, <2>1
    <2>5. first = p + n
      BY <2>2, <2>4
    <2> HIDE DEF first
    <2> QED
      BY <1>1, <1>2, <2>3, <2>5
  <1>11. Behind = Symbol(p + n)
    BY <1>2, <1>10 DEF Behind
  <1>12. ~Mixed
    <2>1. Behind \in {"nl", "--", "word"}
      BY <1>4, <1>11
    <2>2. Behind \notin Blanks
      BY <2>1 DEF Blanks
    <2> QED
      BY <1>5, <1>7, <2>2 DEF Mixed
  <1> QED
    BY <1>1, <1>4, <1>5, <1>7, <1>10, <1>11, <1>12 DEF b, n, p, blank

(* The margin of a logical line, and the levels it opens or closes.        *)
LEMMA MarginRead ==
  ASSUME LexInv, LaidOut(source), NEW i \in 1..Len(source.lines), BeforeLine(i),
         Margin(source, i) > 0, ~EmptyBody(Body(source, i)), Running,
         pos' = pos + Margin(source, i), newLine' = FALSE,
         tokens' = tokens \o Lead(LevelTo(source, i - 1), LevelTo(source, i)),
         Ladder(LevelTo(source, i))',
         UNCHANGED <<source, brackets, inLine, ignoreNewLine, outcome>>
  PROVE  AsLaidOut'
  <1> DEFINE b == Body(source, i)
             zero == 0
  <1>1. /\ b \in Seq(Symbols) /\ Len(b) \in Nat /\ Margin(source, i) \in Nat /\ i \in Nat
    BY LineLaidOut
  <1>2. Start(source, i - 1) \in Nat
    <2>1. i - 1 \in 0..Len(source.lines)
      BY SourceType DEF LexInv
    <2> QED
      BY <2>1, SymbolsAt DEF SymbolsPlaced
  <1>3. /\ pos = Start(source, i - 1) /\ tokens = Done(source, i - 1)
        /\ inLine = FALSE /\ ignoreNewLine = FALSE /\ brackets = [kind \in Opening |-> 0]
    BY DEF BeforeLine, Fresh
  <1>4. Read(b, zero) = <<>> /\ \A kind \in Opening : Depth(b, zero, kind) = 0
    BY <1>1, ReadNone
  <1>5. /\ zero \in 0..Len(b) /\ zero \in Nat /\ ~(zero > 0)
        /\ Start(source, i - 1) + Margin(source, i) = Start(source, i - 1) + Margin(source, i) + zero
    BY <1>1, <1>2
  <1> HIDE DEF b, zero
  <1>6. brackets' = [kind \in Opening |-> Depth(b, zero, kind)]
    BY <1>3, <1>4
  <1>7. tokens' = Before(i) \o Read(b, zero)
    <2>1. tokens' = Before(i)
      BY <1>3 DEF Before
    <2>2. Before(i) \in Seq(Kinds)
      BY BeforeSeq
    <2> QED
      BY <1>4, <2>1, <2>2, ConcatEmptySeq
  <1>8. /\ inLine' = (zero > 0) /\ ignoreNewLine' = (zero > 0 /\ b[zero] = "\\")
    <2>1. inLine' = FALSE /\ ignoreNewLine' = FALSE
      BY <1>3
    <2>2. (zero > 0) = FALSE
      BY <1>5
    <2>3. (zero > 0 /\ b[zero] = "\\") = FALSE
      BY <2>2
    <2> QED
      BY <2>1, <2>2, <2>3
  <1>9. pos' = Start(source, i - 1) + Margin(source, i) + zero
    BY <1>3, <1>5
  <1>10. InLogicalLine(i, zero)'
    BY <1>5, <1>6, <1>7, <1>8, <1>9 DEF InLogicalLine, Within, Before, b
  <1> QED
    BY <1>1, <1>5, <1>10 DEF AsLaidOut, Somewhere, Running

LEMMA OneIndent ==
  ASSUME NEW k \in Nat
  PROVE  Lead(k, k + 1) = <<"INDENT">>
  <1>1. k <= k + 1 /\ (k + 1) - k = 1
    OBVIOUS
  <1>2. Lead(k, k + 1) = Copies(1, "INDENT")
    BY <1>1 DEF Lead
  <1>3. Copies(1, "INDENT") = <<"INDENT">>
    BY DEF Copies
  <1> QED
    BY <1>2, <1>3

(* The first indentation of a text fixes how many blanks a level takes.    *)
LEMMA StepFirstIndent ==
  ASSUME LexInv, LaidOut(source), NEW i \in 1..Len(source.lines), BeforeLine(i),
         Margin(source, i) > 0, ~EmptyBody(Body(source, i)), FirstIndent
  PROVE  AsLaidOut'
  <1> DEFINE n == Margin(source, i)
             u == source.unit
             k == LevelTo(source, i - 1)
             m == LevelTo(source, i)
             blank == source.blank
             level == IF blank = "sp" THEN 1 ELSE n
  <1>1. /\ n \in Nat \ {0} /\ u \in Nat \ {0} /\ k \in Nat /\ m \in Nat /\ blank \in Blanks
        /\ n % u = 0 /\ m = n \div u /\ m <= k + 1 /\ (blank = "tab" => u = 1)
    BY LineLaidOut
  <1>2. Current = blank /\ Found = n
    BY MarginAt
  <1>3. Running /\ Level = 0
    BY DEF FirstIndent, Indentation, AtMargin
  <1>4. /\ pos' = pos + n /\ tokens' = tokens \o <<"INDENT">> /\ newLine' = FALSE
        /\ marker' = blank /\ unit' = IF blank = "sp" THEN n ELSE unit
        /\ stack' = Append(stack, level)
        /\ UNCHANGED <<source, brackets, inLine, ignoreNewLine, outcome>>
    BY <1>2 DEF FirstIndent, Consume
  <1>5. stack = Steps(k)
    BY DEF BeforeLine, Fresh, Ladder
  <1> HIDE DEF n, u, k, m, blank
  <1>6. k = 0
    BY <1>1, <1>3, <1>5, StepsAre DEF Level
  <1>7. n = u /\ m = 1
    <2>1. n \div u <= 1
      BY <1>1, <1>6
    <2>2. n = u
      BY <1>1, <2>1
    <2>3. u \div u = 1
      BY <1>1
    <2> QED
      BY <1>1, <2>2, <2>3
  <1>8. level = 1
    BY <1>1, <1>7 DEF Blanks
  <1>9. stack' = Steps(m)
    <2>1. k + 1 = 1
      BY <1>6
    <2>2. Append(Steps(k), k + 1) = Steps(k + 1)
      BY <1>1, StepsAre
    <2> HIDE DEF level
    <2> QED
      BY <1>4, <1>5, <1>7, <1>8, <2>1, <2>2
  <1>10. tokens' = tokens \o Lead(k, m)
    <2>1. m = k + 1
      BY <1>6, <1>7
    <2> QED
      BY <1>1, <1>4, <2>1, OneIndent
  <1>11. Ladder(LevelTo(source, i))'
    <2>1. source' = source /\ source'.blank = blank /\ source'.unit = u
      BY <1>4 DEF blank, u
    <2>2. LevelTo(source, i)' = m
      BY <2>1 DEF m, LevelTo
    <2> HIDE DEF level
    <2> QED
      BY <1>4, <1>7, <1>9, <2>1, <2>2 DEF Ladder
  <1> QED
    BY <1>3, <1>4, <1>10, <1>11, MarginRead DEF n, k, m

(* A later one has the level that its blanks stand for.                    *)
LEMMA LevelRead ==
  ASSUME LexInv, LaidOut(source), NEW i \in 1..Len(source.lines), BeforeLine(i),
         Margin(source, i) > 0, ~EmptyBody(Body(source, i)), Level > 0
  PROVE  /\ ~Uneven /\ LogicalTab = LevelTo(source, i)
         /\ stack = Steps(LevelTo(source, i - 1)) /\ Level = LevelTo(source, i - 1)
         /\ LevelTo(source, i) <= LevelTo(source, i - 1) + 1
  <1> DEFINE n == Margin(source, i)
             u == source.unit
             k == LevelTo(source, i - 1)
             m == LevelTo(source, i)
             blank == source.blank
  <1>1. /\ n \in Nat \ {0} /\ u \in Nat \ {0} /\ k \in Nat /\ m \in Nat /\ blank \in Blanks
        /\ n % u = 0 /\ m = n \div u /\ m <= k + 1 /\ (blank = "tab" => u = 1)
    BY LineLaidOut
  <1>2. Current = blank /\ Found = n
    BY MarginAt
  <1>3. stack = Steps(k) /\ (k > 0 /\ blank = "sp" => unit = u)
    BY DEF BeforeLine, Fresh, Ladder
  <1> HIDE DEF n, u, k, m, blank
  <1>4. Level = k /\ k > 0
    BY <1>1, <1>3, StepsAre DEF Level
  <1>5. CASE blank = "tab"
    <2>1. n \div 1 = n
      BY <1>1
    <2> QED
      BY <1>1, <1>2, <1>3, <1>4, <1>5, <2>1 DEF Uneven, LogicalTab, k, m
  <1>6. CASE blank = "sp" /\ n > u
    <2>1. unit = u
      BY <1>3, <1>4, <1>6
    <2> QED
      BY <1>1, <1>2, <1>3, <1>4, <1>6, <2>1 DEF Uneven, LogicalTab, k, m
  <1>7. CASE blank = "sp" /\ ~(n > u)
    <2>1. unit = u
      BY <1>3, <1>4, <1>7
    <2>2. n = u
      BY <1>1, <1>7
    <2>3. u \div u = 1 /\ u % u = 0
      BY <1>1
    <2> QED
      BY <1>1, <1>2, <1>3, <1>4, <1>7, <2>1, <2>2, <2>3 DEF Uneven, LogicalTab, k, m
  <1> QED
    BY <1>1, <1>5, <1>6, <1>7 DEF Blanks

LEMMA StepSameLevel ==
  ASSUME LexInv, LaidOut(source), NEW i \in 1..Len(source.lines), BeforeLine(i),
         Margin(source, i) > 0, ~EmptyBody(Body(source, i)), SameLevel
  PROVE  AsLaidOut'
  <1> DEFINE k == LevelTo(source, i - 1)
             m == LevelTo(source, i)
  <1>1. Running /\ Level > 0 /\ LogicalTab = Level
    BY DEF SameLevel, NextIndent, Indentation, AtMargin
  <1>2. k \in Nat /\ m = k
    BY <1>1, LevelRead, LineLaidOut
  <1>3. /\ pos' = pos + Margin(source, i) /\ tokens' = tokens \o <<>> /\ newLine' = FALSE
        /\ UNCHANGED <<source, indentation, brackets, inLine, ignoreNewLine, outcome>>
    BY MarginAt DEF SameLevel, Consume
  <1>4. Lead(k, m) = <<>>
    BY <1>2, LeadSeq
  <1>5. Ladder(LevelTo(source, i))'
    <2>1. Ladder(m)
      BY <1>2 DEF BeforeLine, Fresh
    <2> QED
      BY <1>3, <2>1 DEF Ladder, indentation
  <1> QED
    BY <1>1, <1>3, <1>4, <1>5, MarginRead

LEMMA StepIndent ==
  ASSUME LexInv, LaidOut(source), NEW i \in 1..Len(source.lines), BeforeLine(i),
         Margin(source, i) > 0, ~EmptyBody(Body(source, i)), Indent
  PROVE  AsLaidOut'
  <1> DEFINE k == LevelTo(source, i - 1)
             m == LevelTo(source, i)
  <1>1. Running /\ Level > 0 /\ LogicalTab = Level + 1
    BY DEF Indent, NextIndent, Indentation, AtMargin
  <1>2. k \in Nat /\ m = k + 1 /\ k > 0 /\ LogicalTab = k + 1 /\ stack = Steps(k)
    BY <1>1, LevelRead, LineLaidOut
  <1>3. /\ pos' = pos + Margin(source, i) /\ tokens' = tokens \o <<"INDENT">>
        /\ newLine' = FALSE /\ stack' = Append(stack, LogicalTab)
        /\ UNCHANGED <<source, marker, unit, brackets, inLine, ignoreNewLine, outcome>>
    BY MarginAt DEF Indent, Consume
  <1>4. Lead(k, m) = <<"INDENT">>
    BY <1>2, OneIndent
  <1>5. Ladder(LevelTo(source, i))'
    <2>1. Ladder(k)
      BY DEF BeforeLine, Fresh
    <2> HIDE DEF k, m
    <2>2. Append(Steps(k), k + 1) = Steps(k + 1)
      BY <1>2, StepsAre
    <2>3. stack' = Steps(m)
      BY <1>2, <1>3, <2>2
    <2>4. (LevelTo(source, i))' = m
      BY <1>3 DEF m, LevelTo
    <2> QED
      BY <1>2, <1>3, <2>1, <2>3, <2>4 DEF Ladder
  <1> QED
    BY <1>1, <1>3, <1>4, <1>5, MarginRead

LEMMA StepDedent ==
  ASSUME LexInv, LaidOut(source), NEW i \in 1..Len(source.lines), BeforeLine(i),
         Margin(source, i) > 0, ~EmptyBody(Body(source, i)), Dedent
  PROVE  AsLaidOut'
  <1> DEFINE k == LevelTo(source, i - 1)
             m == LevelTo(source, i)
  <1>1. Running /\ Level > 0 /\ LogicalTab < Level
    BY DEF Dedent, NextIndent, Indentation, AtMargin
  <1>2. k \in Nat /\ m \in Nat /\ m < k /\ LogicalTab = m /\ stack = Steps(k)
    BY <1>1, LevelRead, LineLaidOut
  <1>3. PICK q \in 1..Len(stack) : Closes(q) /\ Consume(Found, Copies(Len(stack) - q, "DEDENT"))
    BY DEF Dedent
  <1>4. /\ newLine' = FALSE
        /\ UNCHANGED <<source, marker, unit, brackets, inLine, ignoreNewLine, outcome>>
    BY DEF Dedent
  <1>5. Ladder(k)
    BY DEF BeforeLine, Fresh
  <1>6. Found = Margin(source, i)
    BY MarginAt
  <1>7. Lead(k, m) = Copies(k - m, "DEDENT")
    BY <1>2 DEF Lead
  <1> HIDE DEF k, m
  <1>8. Len(stack) = k + 1 /\ \A r \in 1..(k + 1) : stack[r] = r - 1
    BY <1>2, StepsAre
  <1>9. q = m + 1
    <2>1. q \in 1..(k + 1) /\ stack[q] <= m /\ \A r \in (q + 1)..(k + 1) : stack[r] > m
      BY <1>2, <1>3, <1>8 DEF Closes
    <2>2. q - 1 <= m
      BY <1>8, <2>1
    <2>3. q + 1 \in (q + 1)..(k + 1) /\ q + 1 \in 1..(k + 1)
      BY <1>2, <2>1, <2>2
    <2>4. (q + 1) - 1 > m
      BY <1>8, <2>1, <2>3
    <2> QED
      BY <1>2, <2>1, <2>2, <2>4
  <1>10. stack' = Steps(m)
    <2>1. stack' = SubSeq(Steps(k), 1, q)
      BY <1>2, <1>3 DEF Closes
    <2>2. q \in 1..(k + 1) /\ q - 1 = m
      BY <1>2, <1>9
    <2>3. SubSeq(Steps(k), 1, q) = Steps(q - 1)
      BY <1>2, <2>2, StepsAre
    <2> QED
      BY <2>1, <2>2, <2>3
  <1>11. pos' = pos + Margin(source, i) /\ tokens' = tokens \o Lead(k, m)
    <2>1. Len(stack) - q = k - m
      BY <1>2, <1>8, <1>9
    <2> QED
      BY <1>3, <1>6, <1>7, <2>1 DEF Consume
  <1>12. Ladder(LevelTo(source, i))'
    <2>1. (LevelTo(source, i))' = m
      BY <1>4 DEF m, LevelTo
    <2>2. k > 0
      BY <1>2
    <2> QED
      BY <1>4, <1>5, <1>10, <2>1, <2>2 DEF Ladder
  <1> QED
    BY <1>1, <1>4, <1>11, <1>12, MarginRead DEF k, m

(* A line that begins with blanks.                                         *)
LEMMA StepMargin ==
  ASSUME LexInv, LaidOut(source), NEW i \in 1..Len(source.lines), BeforeLine(i),
         Margin(source, i) > 0, Next
  PROVE  AsLaidOut'
  <1>1. /\ Current \in Blanks /\ newLine = TRUE /\ Found = Margin(source, i) /\ ~Mixed
        /\ IF EmptyBody(Body(source, i)) THEN Behind \in {"nl", "--"} ELSE Behind = "word"
    BY MarginAt
  <1>2. /\ Running
        /\ \/ BlankLine
           \/ FirstIndent \/ UnevenIndent \/ SameLevel \/ Dedent \/ Indent \/ TooSteep
    BY <1>1, BySymbol DEF BlankInside, BlankAtStart, MixedBlanks
  <1>3. CASE EmptyBody(Body(source, i))
    <2>1. ~TokenBehind
      BY <1>1, <1>3 DEF TokenBehind
    <2>2. BlankLine
      BY <1>2, <2>1 DEF FirstIndent, UnevenIndent, SameLevel, Dedent, Indent, TooSteep,
                        NextIndent, Indentation
    <2>3. /\ pos' = pos + Margin(source, i) /\ tokens' = tokens \o <<>>
          /\ UNCHANGED <<source, indentation, brackets, flags, outcome>>
      BY <1>1, <2>2 DEF BlankLine, Consume
    <2>4. tokens' = tokens
      BY <2>3, ConcatEmptySeq DEF LexInv, TypeOK
    <2>5. Fresh(i)'
      BY <2>3, <2>4 DEF BeforeLine, Fresh, Ladder, indentation, flags
    <2> DEFINE zero == 0
    <2>6. /\ pos' = Start(source, i - 1) + Margin(source, i) + zero
          /\ zero \in 0..Len(Body(source, i)) /\ zero \in Nat /\ i \in Nat
      <3>1. i - 1 \in 0..Len(source.lines)
        BY SourceType DEF LexInv
      <3>2. Start(source, i - 1) \in Nat
        BY <3>1, SymbolsAt DEF SymbolsPlaced
      <3>3. Margin(source, i) \in Nat /\ Len(Body(source, i)) \in Nat /\ i \in Nat
        BY LineLaidOut
      <3>4. pos = Start(source, i - 1)
        BY DEF BeforeLine
      <3> QED
        BY <2>3, <3>2, <3>3, <3>4
    <2> HIDE DEF zero
    <2>7. InEmptyLine(i, zero)'
      BY <1>3, <2>3, <2>5, <2>6 DEF InEmptyLine, Within
    <2> QED
      BY <1>2, <2>3, <2>6, <2>7 DEF AsLaidOut, Somewhere, Running
  <1>4. CASE ~EmptyBody(Body(source, i))
    <2>1. TokenBehind
      BY <1>1, <1>4 DEF TokenBehind
    <2>2. ~BlankLine
      BY <2>1 DEF BlankLine
    <2>3. CASE FirstIndent
      BY <1>4, <2>3, StepFirstIndent
    <2>4. CASE SameLevel
      BY <1>4, <2>4, StepSameLevel
    <2>5. CASE Indent
      BY <1>4, <2>5, StepIndent
    <2>6. CASE Dedent
      BY <1>4, <2>6, StepDedent
    <2>7. ~UnevenIndent
      BY <1>4, LevelRead DEF UnevenIndent
    <2>8. ~TooSteep
      <3>1. SUFFICES ASSUME TooSteep
                     PROVE  FALSE
        OBVIOUS
      <3>2. Level > 0 /\ LogicalTab > Level + 1
        BY <3>1 DEF TooSteep, NextIndent
      <3>3. LogicalTab <= Level + 1 /\ Level \in Nat /\ LogicalTab \in Nat
        BY <1>4, <3>2, LevelRead, LineLaidOut
      <3> QED
        BY <3>2, <3>3
    <2> QED
      BY <1>2, <2>2, <2>3, <2>4, <2>5, <2>6, <2>7, <2>8
  <1> QED
    BY <1>3, <1>4

-----------------------------------------------------------------------------
LEMMA StepBeforeLine ==
  ASSUME LexInv, LaidOut(source), NEW i, BeforeLine(i), Next
  PROVE  AsLaidOut'
  <1>1. i \in 1..(Len(source.lines) + 1) /\ Len(source.lines) \in Nat
    BY SourceType DEF LexInv, BeforeLine
  <1>2. CASE i = Len(source.lines) + 1
    BY <1>2, StepLastLine
  <1>3. CASE i # Len(source.lines) + 1
    <2>1. i \in 1..Len(source.lines)
      BY <1>1, <1>3
    <2>2. Margin(source, i) \in Nat /\ Len(Body(source, i)) \in Nat /\ i \in Nat
      BY <2>1, LineLaidOut
    <2>3. CASE Margin(source, i) > 0
      BY <2>1, <2>3, StepMargin
    <2>4. CASE Margin(source, i) = 0 /\ ~EmptyBody(Body(source, i))
      BY <2>1, <2>4, StepWord
    <2>5. CASE Margin(source, i) = 0 /\ EmptyBody(Body(source, i))
      <3>1. Start(source, i - 1) \in Nat
        <4>1. i - 1 \in 0..Len(source.lines)
          BY <1>1, <2>1
        <4> QED
          BY <4>1, SymbolsAt DEF SymbolsPlaced
      <3>2. pos = Start(source, i - 1) + Margin(source, i) + 0 /\ 0 \in 0..Len(Body(source, i))
        BY <2>2, <2>5, <3>1 DEF BeforeLine
      <3>3. InEmptyLine(i, 0)
        BY <2>1, <2>5, <3>2 DEF InEmptyLine, Within, BeforeLine
      <3> QED
        BY <3>3, StepEmpty
    <2> QED
      BY <2>2, <2>3, <2>4, <2>5
  <1> QED
    BY <1>2, <1>3

LEMMA LayoutInvNext == LexInv /\ LayoutInv /\ [Next]_vars => LayoutInv'
  <1> SUFFICES ASSUME LexInv, LayoutInv, [Next]_vars, LaidOut(source)'
               PROVE  AsLaidOut'
    BY DEF LayoutInv
  <1>1. CASE UNCHANGED vars
    <2>1. UNCHANGED <<source, pos, tokens, stack, marker, unit, brackets, newLine,
                      inLine, ignoreNewLine, outcome>>
      BY <1>1 DEF vars, indentation, flags
    <2>2. AsLaidOut
      BY <2>1 DEF LayoutInv
    <2>3. CASE outcome = "done" /\ tokens = TokensExpected(source.lines, source.unit)
      BY <2>1, <2>3 DEF AsLaidOut
    <2>4. CASE outcome = "running" /\ Somewhere
      <3>1. ASSUME NEW i
            PROVE  Fresh(i) => Fresh(i)'
        BY <2>1 DEF Fresh, Ladder
      <3>2. ASSUME NEW i, BeforeLine(i)
            PROVE  BeforeLine(i)'
        BY <2>1, <3>1, <3>2 DEF BeforeLine
      <3>3. ASSUME NEW i, NEW j, InEmptyLine(i, j)
            PROVE  InEmptyLine(i, j)'
        BY <2>1, <3>1, <3>3 DEF InEmptyLine, Within
      <3>4. ASSUME NEW i, NEW j, InLogicalLine(i, j)
            PROVE  InLogicalLine(i, j)'
        BY <2>1, <3>4 DEF InLogicalLine, Within, Ladder
      <3>5. Somewhere'
        BY <2>4, <3>2, <3>3, <3>4 DEF Somewhere
      <3> QED
        BY <2>1, <2>4, <3>5 DEF AsLaidOut
    <2> QED
      BY <2>2, <2>3, <2>4 DEF AsLaidOut
  <1>2. CASE Next
    <2>1. source' = source
      BY <1>2 DEF Next, Word, Mark, Open, Close, Dangling, Unexpected, Comment,
           NewLineInBrackets, NewLineIgnored, NewLine, Backslash, BackslashAtEnd,
           BlankInside, BlankAtStart, MixedBlanks, BlankLine, FirstIndent, UnevenIndent,
           SameLevel, Dedent, Indent, TooSteep, Finish, Fail
    <2>2. LaidOut(source) /\ Running
      BY <1>2, <2>1, BySymbol
    <2>3. Somewhere
      BY <2>2 DEF LayoutInv, AsLaidOut, Running
    <2>4. ASSUME NEW i, BeforeLine(i)
          PROVE  AsLaidOut'
      BY <1>2, <2>2, <2>4, StepBeforeLine
    <2>5. ASSUME NEW i, NEW j, InEmptyLine(i, j)
          PROVE  AsLaidOut'
      BY <1>2, <2>2, <2>5, StepEmpty
    <2>6. ASSUME NEW i, NEW j, InLogicalLine(i, j)
          PROVE  AsLaidOut'
      <3>1. i \in 1..Len(source.lines) /\ j \in 0..Len(Body(source, i))
        BY <2>6 DEF InLogicalLine, Within
      <3>2. Len(Body(source, i)) \in Nat
        BY <2>2, <3>1, LineLaidOut
      <3>3. CASE j < Len(Body(source, i))
        BY <1>2, <2>2, <2>6, <3>3, StepLogical
      <3>4. CASE j = Len(Body(source, i))
        BY <1>2, <2>2, <2>6, <3>4, StepLineEnd
      <3> QED
        BY <3>1, <3>2, <3>3, <3>4
    <2> QED
      BY <2>3, <2>4, <2>5, <2>6 DEF Somewhere
  <1> QED
    BY <1>1, <1>2

(* Whatever the sources, one whose lines are well laid out is accepted by  *)
(* lexer::lex, and what lexer::tokenize makes of it are the tokens its     *)
(* lines stand for: lines without tokens and continued lines change        *)
(* nothing, and INDENT and DEDENT say where each logical line stands.      *)
THEOREM LayoutCorrect == Spec => []LayoutKept
  <1>1. LayoutInv => LayoutKept
    BY DEF LayoutInv, AsLaidOut, LayoutKept
  <1> QED
    BY <1>1, LexInvAlways, LayoutInvInit, LayoutInvNext, PTL DEF Spec
=============================================================================
