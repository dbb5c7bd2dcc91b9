-------------------------------- MODULE Parser --------------------------------
(***************************************************************************)
(* The parser: recursive descent over the tokens of one file.  It makes    *)
(* the declarations of the program one after the other.  An error that is  *)
(* fatal ends the parse with the declarations made so far; after any other *)
(* the parser looks for a place to resume at (synchronize).  The tokens    *)
(* end with EOF, as the lexer leaves them.                                 *)
(*                                                                         *)
(* Every function of the parser takes a position and returns one:          *)
(*   at      m_current                                                     *)
(*   inside  m_inside_map: a colon here is not followed by a type          *)
(*   value   what was read last, a tree or a sequence of trees             *)
(*   error   "none", "minor" or "fatal"                                    *)
(***************************************************************************)
EXTENDS SyntaxTrees

VARIABLES
  tokens,          \* m_tokens
  m_current,
  m_inside_map,
  m_program,       \* the declarations of the program
  status           \* "parsing", "finished", or "stopped" by a fatal error

vars == <<tokens, m_current, m_inside_map, m_program, status>>

-----------------------------------------------------------------------------
(* Tokens *)

peek(p)             == tokens[p.at]
is_at_end(p)        == peek(p).type = "EOF"
check(p, types)     == ~is_at_end(p) /\ peek(p).type \in types
check_next(p, type) == ~is_at_end(p) /\ tokens[p.at + 1].type = type
check_previous(p, type) == p.at > 1 /\ tokens[p.at - 1].type = type
advance(p)          == IF is_at_end(p) THEN p ELSE [p EXCEPT !.at = @ + 1]

Gives(p, value) == [p EXCEPT !.value = value]
Fails(p, error) == [p EXCEPT !.error = error]
Then(p, Next(_)) == IF p.error = "none" THEN Next(p) ELSE p
\* What was read becomes the parts of a tree.
Making(p, Tree(_)) == Then(p, LAMBDA q : Gives(q, Tree(q.value)))

(* Fault: the next token is taken for the one that is expected. *)
consume_any(p, type) == Gives(advance(p), peek(p).lexeme)
consume(p, type) == IF check(p, {type}) THEN Gives(advance(p), peek(p).lexeme) ELSE Fails(p, "fatal")
ConsumeAll(p, types) == FoldLeft(LAMBDA q, type : Then(q, LAMBDA r : Gives(consume(r, type), r.value)), p, types)

\* While there is More, an Item, which gives a sequence, is added.
Repeat(p, More(_), Item(_)) ==
  LET RECURSIVE Loop(_)
      Loop(q) == IF q.error # "none" \/ ~More(q) THEN q
                 ELSE LET all == q.value
                      IN  Loop(Making(Item(q), LAMBDA more : all \o more))
  IN  Loop(p)
One(p) == Making(p, LAMBDA value : <<value>>)
AfterComma(Item(_), q) == One(Item(advance(q)))
Separated(p, Item(_)) == Repeat(One(Item(p)), LAMBDA q : check(q, {"COMMA"}), LAMBDA q : AfterComma(Item, q))

-----------------------------------------------------------------------------
(* The functions that others call *)

RECURSIVE Parse(_, _)
parse_type_instance(p) == Parse("type", p)
parse_expression(p) == Parse("expression", p)
logical_or(p) == Parse("logical_or", p)
bitwise_or(p) == Parse("bitwise_or", p)
cast(p) == Parse("cast", p)
dot(p) == Parse("dot", p)
primary(p) == Parse("primary", p)
top_declaration(p, is_public) == Parse(IF is_public THEN "public" ELSE "private", p)
block_statement(p) == Parse("block", p)

-----------------------------------------------------------------------------
(* Type instances *)

Qualified(p, ns) ==
  LET Of(tree) == IF ns = "*" THEN tree ELSE Node("of namespace", ns, <<tree>>)
      Builtin(q) == IF ns # "*" THEN Fails(q, "fatal") ELSE q
  IN  CASE check(p, {"IDENTIFIER"}) ->
             LET name == peek(p).lexeme
                 after == advance(p)
             IN  IF ~check(after, {"LEFT_PAREN"}) THEN Gives(after, Of(Leaf("user", name)))
                 ELSE Making(ConsumeAll(Separated(advance(after), parse_type_instance), <<"RIGHT_PAREN">>),
                             LAMBDA ts : Of(Node("user", name, ts)))
        [] check(p, {"LEFT_PAREN"}) ->
             Making(Then(Builtin(advance(p)), LAMBDA q :
                      ConsumeAll(IF check(q, {"RIGHT_PAREN"}) THEN Gives(q, <<>>)
                                 ELSE Separated(q, parse_type_instance), <<"RIGHT_PAREN">>)),
                    LAMBDA ts : Node("tuple type", "", ts))
        [] check(p, {"LEFT_BRACKET"}) ->
             Making(Then(Builtin(advance(p)), LAMBDA q :
                      ConsumeAll(One(parse_type_instance(q)), <<"RIGHT_BRACKET">>)),
                    LAMBDA ts : Node("list type", "", ts))
        [] check(p, {"LEFT_BRACE"}) ->
             Then(Then(Builtin(advance(p)), parse_type_instance), LAMBDA key :
               Making(ConsumeAll(Then(consume(key, "COLON"), parse_type_instance), <<"RIGHT_BRACE">>),
                      LAMBDA value : Node("map type", "", <<key.value, value>>)))
        [] OTHER -> Fails(p, "fatal")
TypeInstance(p) ==
  CASE check(p, {"REF"}) ->
         Then(parse_type_instance(advance(p)), LAMBDA q :
           IF q.value.kind = "ref type" THEN Fails(q, "fatal")
           ELSE Gives(q, Node("ref type", "", <<q.value>>)))
    [] check(p, {"IDENTIFIER"}) /\ check_next(p, "DOT") -> Qualified(advance(advance(p)), peek(p).lexeme)
    [] OTHER -> Qualified(p, "*")

-----------------------------------------------------------------------------
(* Primary expressions *)

\* A type that is written behind an expression; not the colon of a block.
Typed(p) ==
  Then(p, LAMBDA q :
    IF q.inside \/ ~check(q, {"COLON"}) \/ check_next(q, "NEWLINE") THEN q
    ELSE Making(parse_type_instance(advance(q)), LAMBDA type : Annotated(q.value, type)))

IsNamed(p) == check(p, {"IDENTIFIER"}) /\ check_next(p, "EQUAL")
NamedElement(p) == Making(parse_expression(advance(advance(p))), LAMBDA e : Node("named", peek(p).lexeme, <<e>>))
Element(p) == IF IsNamed(p) THEN NamedElement(p) ELSE parse_expression(p)

\* An argument may be left out before the parenthesis.
Argument(p) ==
  CASE IsNamed(p) -> One(NamedElement(p))
    [] ~IsNamed(p) /\ check(p, {"RIGHT_PAREN"}) -> Gives(p, <<>>)
    [] OTHER -> One(parse_expression(p))
parse_call_expression(p) ==
  LET first == Argument(advance(advance(p)))
      all == Repeat(first, LAMBDA q : check(q, {"COMMA"}), LAMBDA q : Argument(advance(q)))
      call == Making(ConsumeAll(all, <<"RIGHT_PAREN">>), LAMBDA es : Node("call", peek(p).lexeme, es))
  IN  Then(Typed(call), LAMBDA q :
        CASE ~check(q, {"RETURN_TYPE"}) -> q
          [] check(q, {"RETURN_TYPE"}) /\ q.value.kind = "annotated" -> Fails(q, "fatal")
          [] OTHER -> Making(parse_type_instance(advance(q)), LAMBDA type : Node("returning", "", <<q.value, type>>)))

NamesOf(es) == {es[i].name : i \in {j \in DOMAIN es : es[j].kind = "named"}}
\* An element whose name is taken ends the parse.
AddElement(p) ==
  Then(Element(p), LAMBDA q :
    IF q.value.kind = "named" /\ q.value.name \in NamesOf(p.value) THEN Fails(q, "fatal") ELSE One(q))
\* From behind the first element and its comma.
parse_tuple_expression(p) ==
  LET More(q) == check(q, {"COMMA"})
      second == Making(AddElement(p), LAMBDA more : p.value \o more)
      all == IF check(p, {"RIGHT_PAREN"}) THEN p
             ELSE Repeat(second, More, LAMBDA q : AddElement([advance(q) EXCEPT !.value = q.value]))
  IN  Typed(Making(ConsumeAll(all, <<"RIGHT_PAREN">>), LAMBDA es : Node("tuple", "", es)))

\* The comma behind a first element that has a name may be left out.
Parenthesised(p) ==
  LET inner == advance(p)
      PastComma(q) == IF check(q, {"COMMA"}) THEN advance(q) ELSE q
  IN  CASE check(inner, {"RIGHT_PAREN"}) -> Typed(Gives(advance(inner), Leaf("tuple", "")))
        [] ~check(inner, {"RIGHT_PAREN"}) /\ IsNamed(inner) ->
             Then(One(NamedElement(inner)), LAMBDA q : parse_tuple_expression(PastComma(q)))
        [] OTHER ->
             Then(parse_expression(inner), LAMBDA q :
               IF check(q, {"COMMA"}) THEN parse_tuple_expression(Gives(advance(q), <<q.value>>))
               ELSE Gives(consume(q, "RIGHT_PAREN"), Node("grouped", "", <<q.value>>)))

parse_list_expression(p) ==
  LET all == IF check(p, {"RIGHT_BRACKET"}) THEN Gives(p, <<>>) ELSE Separated(p, parse_expression)
  IN  Typed(Making(ConsumeAll(all, <<"RIGHT_BRACKET">>), LAMBDA es : Node("list", "", es)))

\* No type is read within a key; a map within a key ends that too early, and
\* an error within one never.
MapEntry(p) ==
  Then(parse_expression([p EXCEPT !.inside = TRUE]), LAMBDA key :
    Then(consume([key EXCEPT !.inside = FALSE], "COLON"), LAMBDA q :
      Making(parse_expression(q), LAMBDA value : <<key.value, value>>)))
parse_map_expression(p) ==
  LET all == IF check(p, {"RIGHT_BRACE"}) THEN Gives(p, <<>>)
             ELSE Repeat(MapEntry(p), LAMBDA q : check(q, {"COMMA"}), LAMBDA q : MapEntry(advance(q)))
  IN  Typed(Making(ConsumeAll(all, <<"RIGHT_BRACE">>), LAMBDA es : Node("map", "", es)))

Primary(p) ==
  CASE check(p, {"IDENTIFIER"}) /\ check_next(p, "LEFT_PAREN") -> parse_call_expression(p)
    [] check(p, {"IDENTIFIER"}) /\ ~check_next(p, "LEFT_PAREN") ->
         Typed(Gives(advance(p), Leaf("identifier", peek(p).lexeme)))
    [] check(p, {"INTEGER"})      -> Typed(Gives(advance(p), Leaf("literal", peek(p).lexeme)))
    [] check(p, {"LEFT_PAREN"})   -> Parenthesised(p)
    [] check(p, {"LEFT_BRACKET"}) -> parse_list_expression(advance(p))
    [] check(p, {"LEFT_BRACE"})   -> parse_map_expression(advance(p))
    [] check(p, {"UNDERSCORE"})   -> Gives(advance(p), Leaf("underscore", ""))
    [] OTHER -> Fails(p, "minor")

-----------------------------------------------------------------------------
(* Operators, from the tightest to the loosest *)

RECURSIVE bitwise_not(_)
RECURSIVE sign(_)
RECURSIVE logical_not(_)
RECURSIVE assignment(_)

Operation(p, kind, Operand(_)) ==
  LET op == peek(p).type
  IN  Making(Operand(advance(p)), LAMBDA e : Node(kind, op, <<e>>))
Infix(p, kind, Operand(_)) ==
  LET op == peek(p).type
  IN  Making(Operand(advance(p)), LAMBDA e : Node(kind, op, <<p.value, e>>))
LeftAssociative(p, Operand(_), ops) ==
  LET RECURSIVE Loop(_)
      Loop(q) == IF q.error = "none" /\ check(q, ops) THEN Loop(Infix(q, "binary", Operand)) ELSE q
  IN  Loop(Operand(p))

subscript(p) ==
  LET Index(q) == ConsumeAll(primary(q), <<"RIGHT_BRACKET">>)
      RECURSIVE Loop(_)
      Loop(q) == IF q.error = "none" /\ check(q, {"LEFT_BRACKET"})
                 THEN Loop(Making(Index(advance(q)), LAMBDA e : Node("subscript", "", <<q.value, e>>))) ELSE q
  IN  Loop(primary(p))
Dot(p) == Then(subscript(p), LAMBDA q : IF check(q, {"DOT"}) THEN Infix(q, "binary", dot) ELSE q)
bitwise_not(p) == IF check(p, {"BITWISE_NOT"}) THEN Operation(p, "unary", bitwise_not) ELSE dot(p)
sign(p) == IF check(p, {"PLUS", "MINUS"}) THEN Operation(p, "unary", sign) ELSE bitwise_not(p)
Cast(p) ==
  IF ~check(p, {"CAST"}) THEN sign(p)
  ELSE Then(ConsumeAll(Then(consume(advance(p), "LEFT_PAREN"), parse_expression), <<"RIGHT_PAREN", "RETURN_TYPE">>),
            LAMBDA e : Making(parse_type_instance(e), LAMBDA type : Node("cast", "", <<e.value, type>>)))
dereference(p) == IF check(p, {"DREF"}) THEN Operation(p, "dereference", cast) ELSE cast(p)
reference(p)   == IF check(p, {"REF"}) THEN Operation(p, "reference", dereference) ELSE dereference(p)
(* Fault: an operand takes every operator behind it. *)
factor_from_the_right(p) ==
  LET RECURSIVE Operand(_)
      Operand(q) == Then(reference(q), LAMBDA r :
                      IF check(r, {"MUL", "DIV", "MOD", "POW"}) THEN Infix(r, "binary", Operand) ELSE r)
  IN  Operand(p)
factor(p)      == LeftAssociative(p, reference, {"MUL", "DIV", "MOD", "POW"})
term(p)        == LeftAssociative(p, factor, {"PLUS", "MINUS"})
bit_shift(p)   == LeftAssociative(p, term, {"LEFT_SHIFT", "RIGHT_SHIFT"})
bitwise_and(p) == LeftAssociative(p, bit_shift, {"BITWISE_AND"})
bitwise_xor(p) == LeftAssociative(p, bitwise_and, {"BITWISE_XOR"})
BitwiseOr(p)   == LeftAssociative(p, bitwise_xor, {"BITWISE_OR", "VERTICAL_BAR"})
\* At most one.
comparison(p) ==
  Then(bitwise_or(p), LAMBDA q :
    CASE check(q, Comparisons)            -> Infix(q, "binary", bitwise_or)
      [] check(q, {"MATCH", "NOT_MATCH"}) -> Infix(q, "match", bitwise_or)
      [] OTHER -> q)
logical_not(p) == IF check(p, {"LOGICAL_NOT"}) THEN Operation(p, "unary", logical_not) ELSE comparison(p)
logical_and(p) == LeftAssociative(p, logical_not, {"LOGICAL_AND"})
LogicalOr(p)   == LeftAssociative(p, logical_and, {"LOGICAL_OR"})
conditional(p) ==
  Then(logical_or(p), LAMBDA q :
    IF ~check(q, {"IF"}) THEN q
    ELSE Then(ConsumeAll(logical_or(advance(q)), <<"ELSE">>), LAMBDA c :
           Making(logical_or(c), LAMBDA e : Node("conditional", "", <<q.value, c.value, e>>))))
assignment(p) ==
  Then(conditional(p), LAMBDA q : IF check(q, {"EQUAL"}) THEN Infix(q, "assignment", assignment) ELSE q)

-----------------------------------------------------------------------------
(* Statements *)

BlockStatement(p) ==
  LET More(q) == ~check(q, {"DEDENT"}) /\ ~is_at_end(q)
      Item(q) == IF check(q, {"INDENT"}) THEN Fails(advance(q), "fatal") ELSE top_declaration(q, FALSE)
      all == Then(consume(p, "INDENT"), LAMBDA q : Repeat(Gives(q, <<>>), More, Item))
  IN  Making(ConsumeAll(all, <<"DEDENT">>), Block)

\* A parenthesis in front is taken for one around the whole condition.
Condition(p) ==
  IF check(p, {"LEFT_PAREN"}) THEN ConsumeAll(parse_expression(advance(p)), <<"RIGHT_PAREN">>)
  ELSE parse_expression(p)
BodyOf(p) ==
  Then(ConsumeAll(p, <<"COLON", "NEWLINE">>), LAMBDA q :
    IF check(q, {"INDENT"}) THEN block_statement(q) ELSE Fails(q, "fatal"))
Guarded(kind, p) ==
  Then(Condition(p), LAMBDA c : Making(BodyOf(c), LAMBDA block : Node(kind, "", <<c.value, block>>)))

while_statement(p) == Guarded("WHILE", p)
if_statement(p) ==
  LET Elif(q) == One(Guarded("ELIF", advance(q)))
      Else(q) == Making(BodyOf(advance(q)), LAMBDA block : q.value \o <<Node("ELSE", "", <<block>>)>>)
  IN  Then(Guarded("IF", p), LAMBDA first :
        Making(Then(Repeat(Gives(first, <<>>), LAMBDA q : check(q, {"ELIF"}), Elif), LAMBDA q :
                 IF check(q, {"ELSE"}) THEN Else(q) ELSE q),
               LAMBDA rest : [first.value EXCEPT !.parts = @ \o rest]))
Ended(p, tree) == Gives(consume(p, "NEWLINE"), tree)
break_statement(p)    == Ended(p, Leaf("BREAK", ""))
continue_statement(p) == Ended(p, Leaf("CONTINUE", ""))
pass_statement(p)     == Ended(p, Leaf("PASS", ""))
return_statement(p) ==
  LET value == IF check(p, {"NEWLINE"}) THEN Gives(p, <<>>) ELSE One(parse_expression(p))
  IN  Making(ConsumeAll(value, <<"NEWLINE">>), LAMBDA es : Node("RETURN", "", es))
expression_statement(p) ==
  Making(ConsumeAll(parse_expression(p), <<"NEWLINE">>), LAMBDA e : Node("expression", "", <<e>>))
statement_declaration(p) ==
  LET next == advance(p)
  IN  CASE check(p, {"WHILE"})    -> while_statement(next)
        [] check(p, {"IF"})       -> if_statement(next)
        [] check(p, {"BREAK"})    -> break_statement(next)
        [] check(p, {"CONTINUE"}) -> continue_statement(next)
        [] check(p, {"PASS"})     -> pass_statement(next)
        [] check(p, {"RETURN"})   -> return_statement(next)
        [] OTHER -> expression_statement(p)

-----------------------------------------------------------------------------
(* Declarations *)

Name(p) == Making(consume(p, "IDENTIFIER"), LAMBDA name : Leaf("identifier", name))

type_parameters(p) == IF check(p, {"IDENTIFIER"}) THEN Separated(p, Name) ELSE Gives(p, <<>>)
parse_default_constructor(name, p) ==
  LET types == IF check_previous(p, "LEFT_PAREN") THEN Separated(p, parse_type_instance) ELSE Gives(p, <<>>)
  IN  Making(types, LAMBDA ts : Node("default", name, ts))
parse_record_constructor(name, p) ==
  LET Field(q) == Then(ConsumeAll(consume(q, "IDENTIFIER"), <<"COLON">>), LAMBDA f :
                    Making(parse_type_instance(f), LAMBDA type : Node("field", f.value, <<type>>)))
  IN  Making(Separated(p, Field), LAMBDA fields : Node("record", name, fields))
\* With parentheses, what comes first tells a default from a record constructor.
Constructor(p) ==
  Then(consume(p, "IDENTIFIER"), LAMBDA name :
    LET first == advance(name)
        Inside == CASE check(first, {"RIGHT_PAREN"}) -> parse_default_constructor(name.value, first)
                    [] check(first, {"IDENTIFIER"}) /\ check_next(first, "COLON") ->
                         parse_record_constructor(name.value, first)
                    [] check(first, {"IDENTIFIER"}) /\ ~check_next(first, "COLON") ->
                         parse_default_constructor(name.value, first)
                    [] OTHER -> Fails(first, "fatal")
    IN  ConsumeAll(IF check(name, {"LEFT_PAREN"}) THEN ConsumeAll(Inside, <<"RIGHT_PAREN">>)
                   ELSE parse_default_constructor(name.value, name), <<"NEWLINE">>))
type_constructors(p) ==
  Repeat(One(Constructor(p)), LAMBDA q : check(q, {"VERTICAL_BAR"}), LAMBDA q : One(Constructor(advance(q))))
type_declaration(p) ==
  Then(consume(p, "IDENTIFIER"), LAMBDA name :
    IF ~check(name, {"EQUAL"})
    THEN Gives(consume(name, "NEWLINE"), Node("type", name.value, <<<<>>, <<>>>>))
    ELSE Then(ConsumeAll(Then(consume(advance(name), "LEFT_PAREN"), type_parameters),
                         <<"RIGHT_PAREN", "COLON", "NEWLINE", "INDENT">>), LAMBDA params :
           Making(ConsumeAll(type_constructors(params), <<"DEDENT">>),
                  LAMBDA constructors : Node("type", name.value, <<params.value, constructors>>))))

parse_parameters_constraints(p) == Separated(p, Name)
Parameter(p) ==
  LET kind == IF check(p, {"VAR"}) THEN "VAR" ELSE "VAL"
  IN  Then(ConsumeAll(Name(IF check(p, {"VAR", "VAL"}) THEN advance(p) ELSE p), <<"COLON">>), LAMBDA name :
        Making(parse_type_instance(name), LAMBDA type : Node("param", kind, <<name.value, type>>)))
parse_parameters(p) ==
  ConsumeAll(Then(consume(p, "LEFT_PAREN"), LAMBDA q :
    IF check(q, {"IDENTIFIER", "VAR", "VAL"}) THEN Separated(q, Parameter) ELSE Gives(q, <<>>)), <<"RIGHT_PAREN">>)
function_declaration(p) ==
  Then(consume(p, "IDENTIFIER"), LAMBDA name :
  Then(IF check(name, {"COLON"}) THEN parse_parameters_constraints(advance(name)) ELSE Gives(name, <<>>), LAMBDA constraints :
  Then(ConsumeAll(Then(consume(constraints, "EQUAL"), parse_parameters), <<"RETURN_TYPE">>), LAMBDA params :
  Then(ConsumeAll(parse_type_instance(params), <<"COLON", "NEWLINE">>), LAMBDA return :
    Making(block_statement(return), LAMBDA body :
      Node("function", name.value, <<constraints.value, params.value, return.value, body>>))))))

\* Each variable of a series is given the one behind it, the last one a value;
\* they are declared from the last to the first.
Series(kind, p) ==
  LET Variable(name, type) == Node(kind, name, <<type, None>>)
      WithValue(vs, e) == [vs EXCEPT ![Len(vs)].parts[2] = e]
      first == Then(consume(p, "IDENTIFIER"), LAMBDA name :
                 IF check(name, {"COLON"})
                 THEN Making(parse_type_instance(advance(name)), LAMBDA type : <<Variable(name.value, type)>>)
                 ELSE Gives(name, <<Variable(name.value, None)>>))
      RECURSIVE Loop(_)
      Loop(q) ==
        LET next == advance(q)
            name == peek(next).lexeme
        IN  CASE q.error # "none" \/ ~check(q, {"EQUAL"}) -> q
              [] IsNamed(next) -> Loop(Gives(advance(next),
                   WithValue(q.value, Leaf("identifier", name)) \o <<Variable(name, None)>>))
              [] OTHER -> Loop(Making(parse_expression(next), LAMBDA e : WithValue(q.value, e)))
  IN  Making(Loop(first), Reverse)
\* Behind a comma the next definition may be on the next line, once a level
\* deeper, and on a line after that at the level of the first again.
variable_declaration(p) ==
  LET kind == IF check_previous(p, "VAR") THEN "VAR" ELSE "VAL"
      RECURSIVE Loop(_, _, _)
      Loop(q, is_first_def, indent_found) ==
        LET broken == check(q, {"NEWLINE"})
            line   == IF broken THEN advance(q) ELSE q
            deeper == broken /\ check(line, {"INDENT"})
            inner  == IF deeper THEN advance(line) ELSE line
            back   == broken /\ check(inner, {"DEDENT"})
            start  == IF back THEN advance(inner) ELSE inner
            indented == (indent_found \/ deeper) /\ ~back
            defined == Making(Series(kind, start), LAMBDA vs : q.value \o vs)
        IN  CASE broken /\ is_first_def -> Fails(line, "minor")
              [] back /\ ~indent_found /\ ~deeper -> Fails(start, "minor")
              [] OTHER -> Then(defined, LAMBDA r :
                   IF check(r, {"COMMA"}) THEN Loop(advance(r), FALSE, indented)
                   ELSE ConsumeAll(r, IF indented THEN <<"NEWLINE", "DEDENT">> ELSE <<"NEWLINE">>))
  IN  Loop(Gives(p, <<>>), TRUE, FALSE)

\* What is declared: one declaration or, for variables, several.
TopDeclaration(p, is_public) ==
  LET next == advance(p)
      Visible(q) == Making(q, LAMBDA ds : IF is_public THEN ds ELSE [i \in DOMAIN ds |-> Private(ds[i])])
  IN  CASE check(p, {"TYPE"})       -> Visible(One(type_declaration(next)))
        [] check(p, {"FUNCTION"})   -> Visible(One(function_declaration(next)))
        [] check(p, {"VAR", "VAL"}) -> Visible(variable_declaration(next))
        [] OTHER -> One(statement_declaration(p))
\* At the top and in namespaces, declarations are public unless they say not.
WithVisibility(p) == top_declaration(IF check(p, {"PUBLIC", "PRIVATE"}) THEN advance(p) ELSE p,
                                     ~check(p, {"PRIVATE"}))

Parse(rule, p) ==
  CASE rule = "type"       -> TypeInstance(p)
    [] rule = "expression" -> assignment(p)
    [] rule = "logical_or" -> LogicalOr(p)
    [] rule = "bitwise_or" -> BitwiseOr(p)
    [] rule = "cast"       -> Cast(p)
    [] rule = "dot"        -> Dot(p)
    [] rule = "primary"    -> Primary(p)
    [] rule = "block"      -> BlockStatement(p)
    [] OTHER               -> TopDeclaration(p, rule = "public")

import_declaration(p) ==
  Making(ConsumeAll(Repeat(One(Name(p)), LAMBDA q : check(q, {"DOT"}), LAMBDA q : One(Name(advance(q)))),
                    <<"NEWLINE">>), LAMBDA names : Node("import", "", names))
\* A namespace without a name adds to the global one.
namespace_declaration(p) ==
  LET named == check(p, {"IDENTIFIER"})
      opened == ConsumeAll(IF named THEN advance(p) ELSE p, <<"NS_OPEN", "NEWLINE">>)
      name == IF named THEN peek(p).lexeme ELSE "*"
  IN  Then(opened, LAMBDA q :
        LET indent_found == check(q, {"INDENT"})
            More(r) == ~check(r, {IF indent_found THEN "DEDENT" ELSE "NS_CLOSE"}) /\ ~is_at_end(r)
        IN  Making(ConsumeAll(Repeat(Gives(IF indent_found THEN advance(q) ELSE q, <<>>), More, WithVisibility),
                              (IF indent_found THEN <<"DEDENT">> ELSE <<>>) \o <<"NS_CLOSE", "NEWLINE">>),
                   LAMBDA ds : Node("namespace", name, ds)))
declaration(p) ==
  CASE check(p, {"IMPORT"})    -> import_declaration(advance(p))
    [] check(p, {"NAMESPACE"}) -> namespace_declaration(advance(p))
    [] OTHER -> Making(WithVisibility(p), LAMBDA ds : Node("namespace", "*", ds))

-----------------------------------------------------------------------------
(* The parse *)

(* Fault: the parser does not resume at variables. *)
Begins_no_variable == {"IMPORT", "NAMESPACE", "PUBLIC", "PRIVATE", "TYPE", "VERTICAL_BAR", "FUNCTION",
                       "IF", "WHILE", "RETURN", "BREAK", "CONTINUE", "PASS"}
Begins == {"IMPORT", "NAMESPACE", "PUBLIC", "PRIVATE", "TYPE", "VERTICAL_BAR", "VAR", "VAL", "FUNCTION",
           "IF", "WHILE", "RETURN", "BREAK", "CONTINUE", "PASS"}
(* Fault: the token that was not expected is not passed. *)
synchronize_in_place(p) ==
  LET RECURSIVE Loop(_)
      Loop(q) == IF check_previous(q, "NEWLINE") \/ check(q, Begins) \/ is_at_end(q) THEN q
                 ELSE Loop(advance(q))
  IN  Loop(p)
\* Behind the token that was not expected: the next line, or the next token
\* that begins a declaration.
synchronize(p) ==
  LET RECURSIVE Loop(_)
      Loop(q) == IF check_previous(q, "NEWLINE") \/ check(q, Begins) \/ is_at_end(q) THEN q
                 ELSE Loop(advance(q))
  IN  Loop(advance(p))

Here == [at |-> m_current, inside |-> m_inside_map, value |-> <<>>, error |-> "none"]
MovesTo(p) == m_current' = p.at /\ m_inside_map' = p.inside
Parsing == status = "parsing" /\ ~is_at_end(Here)

Started(source) ==
  /\ tokens = source
  /\ m_current = 1
  /\ m_inside_map = FALSE
  /\ m_program = <<>>
  /\ status = "parsing"

\* What is done with the outcome p of a declaration.
Declare(p) ==
  /\ p.error = "none"
  /\ MovesTo(p)
  /\ m_program' = Append(m_program, p.value)
  /\ UNCHANGED <<tokens, status>>

Recover(p) ==
  /\ p.error = "minor"
  /\ MovesTo(synchronize(p))
  /\ UNCHANGED <<tokens, m_program, status>>

Stop(p) ==
  /\ p.error = "fatal"
  /\ MovesTo(p)
  /\ status' = "stopped"
  /\ UNCHANGED <<tokens, m_program>>

Finish ==
  /\ status = "parsing" /\ is_at_end(Here)
  /\ status' = "finished"
  /\ UNCHANGED <<tokens, m_current, m_inside_map, m_program>>
===============================================================================
