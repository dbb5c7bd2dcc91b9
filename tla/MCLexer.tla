------------------------------ MODULE MCLexer ------------------------------
(* Sources of a few lines: every sequence of lines from a set that covers  *)
(* each case of the lexer, well laid out or not.                           *)
EXTENDS Lexer

Line(n, body) == [n |-> n, body |-> body]

(* Up to four lines at every level, blank and comment lines between; the   *)
(* fifth one, without those, can close two levels and leave one open.      *)
Words == {Line(n, <<"word">>) : n \in 0..3}
Plain == Words \cup {Line(1, <<>>), Line(2, <<"--">>)}
Continued ==
  {Line(0, <<"word", "(", "nl", "sp", "word", ")", "mark">>),
   Line(1, <<"word", "\\", "nl", "sp", "word", "sp", "--">>),
   Line(0, <<"word", "(", "[", ")", "nl", "]">>), Line(0, <<"word", "sp", "--">>),
   Line(1, <<"word", "mark", "[", "]", "-[">>), Line(2, <<"word">>)}

(* Lines no well laid out source has. *)
Odd ==
  {Line(0, <<"mark", "sp", "word">>), Line(0, <<"(", "\\", "nl", ")">>),
   Line(0, <<"word", "]">>), Line(0, <<"bad">>), Line(0, <<"word", "\\">>),
   Line(1, <<"-[">>), Line(1, <<"-/", "word">>), Line(1, <<"other", "word">>)}

Files(lines, ks, blank, step) ==
  UNION {{[lines |-> ls, unit |-> step, blank |-> blank, text |-> Text(ls, blank)] :
            ls \in [1..k -> lines]} : k \in ks}

(* Steps of n: a level is n blanks, so that n \in {1, 2, 4} are no multiple. *)
Scaled(lines, n) == {[l EXCEPT !.n = n * @] : l \in lines}

Other(blank) == IF blank = "sp" THEN "tab" ELSE "sp"
WithOther(ls, blank) ==
  [i \in DOMAIN ls |-> [ls[i] EXCEPT !.body =
     [j \in DOMAIN @ |-> IF @[j] = "other" THEN Other(blank) ELSE @[j]]]]

(* The same text without its last line end. *)
Cut(s) == [s EXCEPT !.text = CutText(s)]

MCSources ==
  LET OddLines == {WithOther(<<l>>, "sp")[1] : l \in Odd} IN
  Files(Plain, 1..4, "sp", 1)
    \cup Files(Words, {5}, "sp", 1)
    \cup Files(Plain, {3}, "tab", 1)
    \cup Files(Scaled(Plain, 2), {3}, "sp", 2)
    \cup Files(Continued, {3}, "sp", 1)
    \cup Files({Line(n, <<"word">>) : n \in {0, 1, 2, 3, 4, 8}}, {3, 4}, "sp", 4)
    \cup Files(OddLines \cup {Line(0, <<"word">>), Line(1, <<"word">>)}, {2, 3}, "sp", 1)
    \cup {Cut(s) : s \in Files(OddLines \cup {Line(0, <<"word">>), Line(2, <<"word">>)},
                                {2}, "sp", 1)}
    \cup {Cut(s) : s \in Files(Plain, 1..3, "tab", 1)}
=============================================================================
