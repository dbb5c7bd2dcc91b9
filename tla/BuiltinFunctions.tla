--------------------------- MODULE BuiltinFunctions ---------------------------
(***************************************************************************)
(* What the builtin functions of interpreter/builtins compute, one part    *)
(* per type.                                                               *)
(***************************************************************************)
EXTENDS Values, SequencesExt

-----------------------------------------------------------------------------
(***************************************************************************)
(* The integers of avalon_int.cpp.  Results are numbers of IntBits bits:   *)
(* what overflows wraps, as the machine instructions behind them do, and   *)
(* a division the processor cannot carry out traps.                        *)
(***************************************************************************)

Wrap(n) == ((n - MinInt) % 2 ^ IntBits) + MinInt

\* Division of C++ cuts towards zero.
Quotient(a, b) ==
  LET q == Magnitude(a) \div Magnitude(b)
  IN  IF (a < 0) = (b < 0) THEN q ELSE -q
Remainder(a, b) == a - b * Quotient(a, b)
Traps(a, b) == b = 0 \/ (a = MinInt /\ b = -1)

IntUnary(args, Op(_)) ==
  Unary(args, IntT, LAMBDA a : Number(IntT, Wrap(Op(a))))
IntBinary(args, Op(_, _)) ==
  Binary(args, IntT, LAMBDA a, b : Number(IntT, Wrap(Op(a, b))))
IntRelation(args, Op(_, _)) ==
  Binary(args, IntT, LAMBDA a, b : Truth(Op(a, b)))

-----------------------------------------------------------------------------
(* Arithmetic *)

\* The argument itself, without a look at its number.
int_pos(args) == IF Refused(args, 1, IntT) THEN InvalidCall ELSE args[1]
int_neg(args) == IntUnary(args, LAMBDA a : -a)
int_add(args) == IntBinary(args, LAMBDA a, b : a + b)
int_sub(args) == IntBinary(args, LAMBDA a, b : a - b)
int_mul(args) == IntBinary(args, LAMBDA a, b : a * b)

(* Nothing is a call expression here, where every other builtin returns an *)
(* identifier expression.                                                  *)
NothingCalled(type) ==
  Value("call", type, "DEFAULT_CONSTRUCTOR_EXPR", 0, <<"None">>)
int_div(args) ==
  Binary(args, IntT, LAMBDA a, b :
    CASE b = 0 -> NothingCalled(Maybe(IntT))
      [] b # 0 /\ Traps(a, b) -> Crash
      [] OTHER -> Just(Maybe(IntT), Number(IntT, Quotient(a, b))))

int_mod(args) ==
  Binary(args, IntT, LAMBDA a, b :
    IF Traps(a, b) THEN Crash ELSE Number(IntT, Remainder(a, b)))

(* The power is taken of doubles and rounded to one, then cut to an        *)
(* integer; what does not fit, an infinity included, becomes the least.    *)
(* The power of two by the width does not fit, and no larger one is taken. *)
CutToInt(n) == IF n \in MinInt .. MaxInt THEN n ELSE MinInt
PowerOf(a, b) ==
  CASE b = 0 -> 1
    [] b # 0 /\ Magnitude(a) = 1 -> IF b % 2 = 0 THEN 1 ELSE a
    [] b > 0 /\ Magnitude(a) # 1 ->
         CutToInt(Significant(a ^ Min({b, IntBits}), 1, DoubleBits))
    [] b < 0 /\ a = 0 -> MinInt
    [] OTHER -> 0
(* Fault: as of floats of the host, that int_float goes through. *)
PowerSingle(a, b) ==
  PowerOf(Significant(a, 1, SingleBits), Significant(b, 1, SingleBits))
Power(a, b) ==
  PowerOf(Significant(a, 1, DoubleBits), Significant(b, 1, DoubleBits))
int_pow(args) == IntBinary(args, Power)

-----------------------------------------------------------------------------
(* Comparisons *)

int_eq(args) == IntRelation(args, LAMBDA a, b : a = b)
int_ne(args) == IntRelation(args, LAMBDA a, b : a # b)
int_gt(args) == IntRelation(args, LAMBDA a, b : a > b)
int_ge(args) == IntRelation(args, LAMBDA a, b : a >= b)
int_lt(args) == IntRelation(args, LAMBDA a, b : a < b)
int_le(args) == IntRelation(args, LAMBDA a, b : a <= b)

-----------------------------------------------------------------------------
(* Conversions *)

Digit == <<"0", "1", "2", "3", "4", "5", "6", "7", "8", "9">>
RECURSIVE Numeral(_)
Numeral(n) == IF n < 10 THEN <<Digit[n + 1]>>
              ELSE Numeral(n \div 10) \o <<Digit[(n % 10) + 1]>>
Signed(n, text) == IF n < 0 THEN <<"-">> \o text ELSE text

int_stringUnsigned(args) ==
  Unary(args, IntT, LAMBDA a : Text(Numeral(Magnitude(a))))
int_string(args) ==
  Unary(args, IntT, LAMBDA a : Text(Signed(a, Numeral(Magnitude(a)))))

\* The number goes through a float of the host.
int_float(args) ==
  Unary(args, IntT, LAMBDA a :
    Number(FloatT, Significant(a, 1, SingleBits) * Quantum))

int_cast(args, ret) == CASE ret = StringT -> int_string(args)
                         [] ret = FloatT -> int_float(args)
                         [] OTHER -> InvalidCall

-----------------------------------------------------------------------------
(***************************************************************************)
(* The floats of avalon_float.cpp.  The texts of the arguments are read as *)
(* doubles, the exact result of the operation is rounded to a double, and  *)
(* that is printed for whoever reads it next.  The sign of a zero is not   *)
(* told apart.                                                             *)
(***************************************************************************)

DoubleSum(x, y) ==
  CASE x = NotNumber \/ y = NotNumber -> NotNumber
    [] FiniteDouble(x) /\ FiniteDouble(y) -> Double(x + y, 1)
    [] ~FiniteDouble(x) /\ ~FiniteDouble(y) /\ x # y -> NotNumber
    [] OTHER -> IF FiniteDouble(x) THEN y ELSE x
Negated(x) == IF x = NotNumber THEN x ELSE -x
DoubleProduct(x, y) ==
  CASE x = NotNumber \/ y = NotNumber -> NotNumber
    [] FiniteDouble(x) /\ FiniteDouble(y) -> Double(x * y, Grain)
    [] x = 0 \/ y = 0 -> NotNumber
    [] OTHER -> SignOf(x) * SignOf(y) * Infinity
DoubleQuotient(x, y) ==
  CASE x = NotNumber \/ y = NotNumber -> NotNumber
    [] FiniteDouble(x) /\ FiniteDouble(y) -> Double(SignOf(y) * x * Grain, Magnitude(y))
    [] FiniteDouble(x) /\ ~FiniteDouble(y) -> 0
    [] ~FiniteDouble(x) /\ FiniteDouble(y) -> SignOf(x) * SignOf(y) * Infinity
    [] OTHER -> NotNumber

FloatBinary(args, Op(_, _)) ==
  Binary(args, FloatT, LAMBDA x, y : Number(FloatT, Printed(Op(x, y))))

-----------------------------------------------------------------------------

float_pos(args) == IF Refused(args, 1, FloatT) THEN InvalidCall ELSE args[1]
float_neg(args) ==
  Unary(args, FloatT, LAMBDA x : Number(FloatT, Printed(Negated(x))))
float_add(args) == FloatBinary(args, DoubleSum)
float_sub(args) == FloatBinary(args, LAMBDA x, y : DoubleSum(x, Negated(y)))
float_mul(args) == FloatBinary(args, DoubleProduct)
float_div(args) ==
  Binary(args, FloatT, LAMBDA x, y :
    IF y = 0 THEN InvalidCall ELSE Number(FloatT, Printed(DoubleQuotient(x, y))))

\* A text without a point is an infinity or not a number: it gets ".0".
FloatText(f) ==
  CASE f = NaN -> <<"nan", ".", "0">>
    [] f = Inf \/ f = -Inf -> Signed(f, <<"inf", ".", "0">>)
    [] OTHER -> LET m == Magnitude(f)
                IN  Signed(f, Numeral(m \div Quantum) \o <<".">>
                              \o Numeral(m % Quantum))
float_string(args) ==
  Unary(args, FloatT, LAMBDA x : Text(FloatText(Printed(x))))

float_cast(args, ret) == IF ret = StringT THEN float_string(args)
                         ELSE InvalidCall

-----------------------------------------------------------------------------
(***************************************************************************)
(* Bits and strings of two, four and eight of them: avalon_bit.cpp and its *)
(* three copies.  A bit string is the number whose binary digits it is.    *)
(***************************************************************************)

Width(type) == CASE type = BitT -> 1 [] type = Bit2T -> 2
                 [] type = Bit4T -> 4 [] type = Bit8T -> 8

BitAt(n, i) == (n \div 2 ^ i) % 2
\* The number whose bit i is B(i).
Bits(type, B(_)) ==
  Number(type, MapThenSumSet(LAMBDA i : B(i) * 2 ^ i, 0 .. Width(type) - 1))

BitsAnd(args, type) == Binary(args, type, LAMBDA a, b :
  Bits(type, LAMBDA i : BitAt(a, i) * BitAt(b, i)))
BitsOr(args, type) == Binary(args, type, LAMBDA a, b :
  Bits(type, LAMBDA i : IF BitAt(a, i) + BitAt(b, i) = 0 THEN 0 ELSE 1))
BitsXor(args, type) == Binary(args, type, LAMBDA a, b :
  Bits(type, LAMBDA i : (BitAt(a, i) + BitAt(b, i)) % 2))
BitsNot(args, type) == Unary(args, type, LAMBDA a :
  Bits(type, LAMBDA i : 1 - BitAt(a, i)))
BitsEq(args, type) == Binary(args, type, LAMBDA a, b : Truth(a = b))
BitsNe(args, type) == Binary(args, type, LAMBDA a, b : Truth(a # b))

\* The digits from the left in groups of four, the first group holding what
\* is left over: a quote behind it, and one between the groups behind that.
BitsText(a, w) ==
  LET over == w % 4
      quoted(i) == \/ i = over /\ i > 0
                   \/ i > over /\ i < w /\ (i - over) % 4 = 0
      text[i \in 0 .. w] ==
        IF i = 0 THEN <<"0", "b">>
        ELSE text[i - 1] \o <<Digit[BitAt(a, w - i) + 1]>>
                         \o (IF quoted(i) THEN <<"'">> ELSE <<>>)
  IN  text[w]
BitsString(args, type) ==
  Unary(args, type, LAMBDA a : Text(BitsText(a, Width(type))))
BitsCast(args, ret, type) ==
  IF ret = StringT THEN BitsString(args, type) ELSE InvalidCall

(* A reference to one bit holds no variable yet: its user fills it in.  An *)
(* index the checks ahead of it should have refused is an error.           *)
DummyReference(index) == Value("reference", <<>>, "", index, <<>>)
BitsRefitem(args, type) ==
  CASE Len(args) # 2 \/ Refused(<<args[1]>>, 1, type)
                     \/ Refused(<<args[2]>>, 1, IntT) -> InvalidCall
    [] args[2].form # FormOf(IntT) -> ValueError
    [] get_int_value(args[2]) \notin 0 .. Width(type) - 1 -> InvalidCall
    [] OTHER -> DummyReference(get_int_value(args[2]))

-----------------------------------------------------------------------------
(* One operator for each function of the four files *)

bit_and(args) == BitsAnd(args, BitT)
bit_or(args) == BitsOr(args, BitT)
bit_xor(args) == BitsXor(args, BitT)
bit_not(args) == BitsNot(args, BitT)
bit_cast(args, ret) == BitsCast(args, ret, BitT)
\* A single bit is never grouped.
bit_string(args) == Unary(args, BitT, LAMBDA a : Text(<<"0", "b", Digit[a + 1]>>))
bit_eq(args) == BitsEq(args, BitT)
bit_refitem(args) == BitsRefitem(args, BitT)

bit2_and(args) == BitsAnd(args, Bit2T)
bit2_or(args) == BitsOr(args, Bit2T)
bit2_xor(args) == BitsXor(args, Bit2T)
bit2_not(args) == BitsNot(args, Bit2T)
bit2_string(args) == BitsString(args, Bit2T)
bit2_refitem(args) == BitsRefitem(args, Bit2T)

bit4_and(args) == BitsAnd(args, Bit4T)
bit4_or(args) == BitsOr(args, Bit4T)
bit4_xor(args) == BitsXor(args, Bit4T)
bit4_not(args) == BitsNot(args, Bit4T)
bit4_string(args) == BitsString(args, Bit4T)
bit4_refitem(args) == BitsRefitem(args, Bit4T)

bit8_and(args) == BitsAnd(args, Bit8T)
bit8_or(args) == BitsOr(args, Bit8T)
bit8_xorCopied(args) == BitsOr(args, Bit8T)
bit8_xor(args) == BitsXor(args, Bit8T)
bit8_not(args) == BitsNot(args, Bit8T)
bit8_string(args) == BitsString(args, Bit8T)
bit8_refitem(args) == BitsRefitem(args, Bit8T)

-----------------------------------------------------------------------------
(***************************************************************************)
(* Booleans, strings and the console: avalon_bool.cpp, avalon_string.cpp   *)
(* and avalon_io.cpp.  A text is a sequence of characters, a word such as  *)
(* True being one character of its own.                                    *)
(***************************************************************************)

CONSTANTS
  HashOf(_),   \* std::hash of a text, an unsigned number of IntBits bits
  Words,       \* the words among the characters
  Mirror       \* the word that each word is when read backwards

-----------------------------------------------------------------------------
(* Booleans: identifier expressions that are told apart by their names.    *)
(* The implementations look at nothing else, the type instance included.   *)

NamesOnly(args, n) ==
  Len(args) = n /\ \A i \in 1 .. n : args[i].kind = "identifier"
Name(v) == v.text[1]
BoolResult(args, n, result) ==
  IF NamesOnly(args, n) THEN Truth(result) ELSE InvalidCall

bool_and(args) ==
  BoolResult(args, 2, Name(args[1]) = "True" /\ Name(args[2]) = "True")
bool_or(args) ==
  BoolResult(args, 2, ~(Name(args[1]) = "False" /\ Name(args[2]) = "False"))
bool_not(args) == BoolResult(args, 1, Name(args[1]) # "True")
bool_eq(args) ==
  BoolResult(args, 2, \E b \in {"True", "False"} :
                        Name(args[1]) = b /\ Name(args[2]) = b)
bool_ne(args) ==
  BoolResult(args, 2, \E <<b, c>> \in {<<"True", "False">>, <<"False", "True">>} :
                        Name(args[1]) = b /\ Name(args[2]) = c)
bool_string(args) ==
  IF NamesOnly(args, 1)
  THEN Text(<<IF Name(args[1]) = "True" THEN "True" ELSE "False">>)
  ELSE InvalidCall
bool_cast(args, ret) ==
  IF ret = StringT THEN bool_string(args) ELSE InvalidCall

-----------------------------------------------------------------------------
(* Strings *)

string_reverse(args) ==
  Unary(args, StringT, LAMBDA s :
    Text([i \in DOMAIN s |-> LET c == Reverse(s)[i]
                             IN  IF c \in Words THEN Mirror[c] ELSE c]))
string_concat(args) == Binary(args, StringT, LAMBDA s, t : Text(s \o t))

\* The hash is unsigned, and the literal it is put into is read as signed.
string_hash(args) ==
  Unary(args, StringT, LAMBDA s : Number(IntT, HashOf(s)))

(* The single token a text is, if it is one: the conversions lex the text  *)
(* and take anything but one token and the end of its line for a failure,  *)
(* an error of the lexer included.  Decimals that a float cannot print are *)
(* rounded when they are read.                                             *)
IsDigit(c) == c \in ToSet(Digit)
Digits(s) == /\ s # <<>> /\ IsDigit(s[1])
             /\ \A i \in DOMAIN s : IsDigit(s[i]) \/ s[i] = "'"
Lexed(s) ==
  CASE s = <<>> -> "none"
    [] Digits(s) -> "INTEGER"
    [] \E k \in 2 .. Len(s) - 1 : /\ s[k] = "."
                                  /\ Digits(SubSeq(s, 1, k - 1))
                                  /\ Digits(SubSeq(s, k + 1, Len(s)))
         -> "FLOATING_POINT"
    [] s[1] \in Words /\ \A c \in ToSet(s) : c \in Words \/ IsDigit(c)
         -> "IDENTIFIER"
    [] OTHER -> "other"

NumeralValue(s) ==
  FoldLeft(LAMBDA n, c : IF c = "'" THEN n
                         ELSE n * 10 + SelectInSeq(Digit, LAMBDA d : d = c) - 1,
           0, s)
Point(s) == SelectInSeq(s, LAMBDA c : c = ".")

string_bool(args) ==
  Unary(args, StringT, LAMBDA s :
    IF Lexed(s) = "IDENTIFIER" /\ s \in {<<"True">>, <<"False">>}
    THEN Just(Maybe(BoolT), Truth(s = <<"True">>))
    ELSE Nothing(Maybe(BoolT)))
string_int(args) ==
  Unary(args, StringT, LAMBDA s :
    IF Lexed(s) = "INTEGER"
    THEN Just(Maybe(IntT), Number(IntT, NumeralValue(s)))
    ELSE Nothing(Maybe(IntT)))
string_float(args) ==
  Unary(args, StringT, LAMBDA s :
    IF Lexed(s) = "FLOATING_POINT"
    THEN Just(Maybe(FloatT),
              LET decimals == SelectSeq(SubSeq(s, Point(s) + 1, Len(s)), IsDigit)
                  all == NumeralValue(SubSeq(s, 1, Point(s) - 1) \o decimals)
              IN  Number(FloatT, Min({TooLarge, Nearest(all * Quantum, 10 ^ Len(decimals))})))
    ELSE Nothing(Maybe(FloatT)))
string_cast(args, ret) == CASE ret = Maybe(BoolT) -> string_bool(args)
                            [] ret = Maybe(IntT) -> string_int(args)
                            [] ret = Maybe(FloatT) -> string_float(args)
                            [] OTHER -> InvalidCall

\* A reference to one character, or None behind the end; neither has its
\* type yet.
string_refitem(args) ==
  CASE Len(args) # 2 \/ Refused(<<args[1]>>, 1, StringT)
                     \/ Refused(<<args[2]>>, 1, IntT) -> InvalidCall
    [] args[2].form # FormOf(IntT) -> ValueError
    [] get_int_value(args[2]) < 0 -> InvalidCall
    [] args[1].form # FormOf(StringT) -> ValueError
    [] get_int_value(args[2]) < Len(args[1].text) ->
         Value("call", <<>>, "DEFAULT_CONSTRUCTOR_EXPR",
               get_int_value(args[2]), <<"Just">>)
    [] OTHER -> Nothing(<<>>)

-----------------------------------------------------------------------------
(* The console *)

\* The type of what is printed is not looked at, only its form.
Printing(args, extra) ==
  CASE Len(args) # 1 -> InvalidCall
    [] args[1].kind # "literal" -> InvalidCall
    [] args[1].form # FormOf(StringT) -> ValueError
    [] OTHER -> Number(IntT, Len(args[1].text) + extra)
avl_print(args) == Printing(args, 0)
avl_println(args) == Printing(args, 1)

\* At the end of the input there is no expression at all.
EndOfInput == <<"end of input">>
avl_readln(args, line) ==
  CASE Len(args) # 0 -> InvalidCall
    [] line = EndOfInput -> Crash
    [] OTHER -> Text(line)
===============================================================================
