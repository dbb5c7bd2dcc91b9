-------------------------------- MODULE Values --------------------------------
(***************************************************************************)
(* The values of the interpreter: expressions that evaluate to themselves. *)
(* A literal has two marks of its kind: the type instance the checks       *)
(* compare, and the form the accessors insist on (INTEGER_EXPR ...).       *)
(*                                                                         *)
(* A type instance is the sequence of the names it is nested in, as in     *)
(* <<"maybe", "int">>.  Every value is a record of the same shape, so that *)
(* any two can be compared: num holds the number of an integer, a bit      *)
(* string or an index, or the text of a float, text the characters of a    *)
(* string or the names of the constructors.                                *)
(***************************************************************************)
EXTENDS Integers, Sequences, FiniteSetsExt

CONSTANTS
  IntBits,     \* width of a long long int
  SingleBits,  \* bits in the significand of a float of the host
  DoubleBits,  \* bits in the significand of a double
  MaxFloat     \* largest text read as a finite double, in quanta

(* The text of a float has 36 decimals behind an operation, six behind a   *)
(* conversion from an integer, where they are zeros, and one in the model: *)
(* it is counted in quanta, the parts of one that texts tell apart.        *)
Quantum == 10

\* Every integer is in the range of the doubles.
ASSUME ValuesAssumption ==
  /\ IntBits \in Nat \ {0} /\ SingleBits \in Nat \ {0}
  /\ DoubleBits \in Nat /\ DoubleBits >= SingleBits
  /\ MaxFloat \in Nat /\ MaxFloat >= 2 ^ (IntBits - 1) * Quantum

-----------------------------------------------------------------------------
(* Type instances *)

IntT    == <<"int">>
FloatT  == <<"float">>
StringT == <<"string">>
BoolT   == <<"bool">>
BitT    == <<"bit">>
Bit2T   == <<"bit2">>
Bit4T   == <<"bit4">>
Bit8T   == <<"bit8">>
Maybe(type) == <<"maybe">> \o type
RefTo(type) == <<"ref">> \o type

BitTypes == {BitT, Bit2T, Bit4T, Bit8T}

\* The form the accessor of a type asks for.
FormOf(type) == CASE type = IntT -> "INTEGER_EXPR"
                  [] type = FloatT -> "FLOATING_POINT_EXPR"
                  [] type = StringT -> "STRING_EXPR"
                  [] OTHER -> "BIT_EXPR"

-----------------------------------------------------------------------------
(* Values and the ways not to have one *)

Value(kind, type, form, num, text) ==
  [kind |-> kind, type |-> type, form |-> form, num |-> num, text |-> text]

Number(type, n) == Value("literal", type, FormOf(type), n, <<>>)
Text(chars)     == Value("literal", StringT, "STRING_EXPR", 0, chars)

\* A default constructor without arguments is an identifier expression ...
Constructor(type, name) ==
  Value("identifier", type, "CONSTRUCTOR_EXPR", 0, <<name>>)
Truth(b) == Constructor(BoolT, IF b THEN "True" ELSE "False")
\* ... and one with arguments a call expression: the argument of Just is all
\* that is known of it here.
Just(type, v) == Value("call", type, v.form, v.num, <<"Just">> \o v.text)
Nothing(type) == Constructor(type, "None")

Failure(kind) == Value(kind, <<>>, "", 0, <<>>)
InvalidCall == Failure("invalid_call")   \* "[compiler error] ..."
ValueError  == Failure("value_error")    \* an accessor met another form
OutOfRange  == Failure("out_of_range")   \* std::out_of_range
Crash       == Failure("crash")          \* the processor traps
Failures == {InvalidCall, ValueError, OutOfRange, Crash}

-----------------------------------------------------------------------------
(* What the accessors read *)

MinInt == -(2 ^ (IntBits - 1))
MaxInt == 2 ^ (IntBits - 1) - 1

\* strtoll stops at the ends of the range.
get_int_value(lit) ==
  IF lit.num > MaxInt THEN MaxInt ELSE IF lit.num < MinInt THEN MinInt
  ELSE lit.num

Magnitude(n) == IF n < 0 THEN -n ELSE n
SignOf(n) == CASE n > 0 -> 1 [] n < 0 -> -1 [] OTHER -> 0

\* The whole number nearest to n / d, the even one of two that are as near.
Nearest(n, d) ==
  LET q == n \div d
      r == n % d
  IN  IF 2 * r > d \/ (2 * r = d /\ q % 2 = 1) THEN q + 1 ELSE q
\* The whole number with so many significant bits that is nearest to n / d.
Significant(n, d, bits) ==
  LET m == Magnitude(n)
      place[k \in Nat] == IF m < d * 2 ^ (bits + k) THEN 2 ^ k ELSE place[k + 1]
  IN  SignOf(n) * Nearest(m, d * place[0]) * place[0]

\* In a text, infinities and not-a-number stand right above the finite
\* floats, and above them all that no double can hold.
Inf == MaxFloat + 1
NaN == MaxFloat + 2
TooLarge == MaxFloat + 3
Finite(f) == f \in -MaxFloat .. MaxFloat

(* A double is a number of grains, so small that all smaller parts of a    *)
(* significand belong to floats that are printed as zero.                  *)
Grain == 2 ^ (DoubleBits + 4)
Infinity  == Inf * Grain
NotNumber == NaN * Grain
FiniteDouble(x) == x \notin {Infinity, -Infinity, NotNumber}

\* The double nearest to n / d grains.
Double(n, d) ==
  LET x == Significant(n, d, DoubleBits)
  IN  IF Magnitude(x) * Quantum > MaxFloat * Grain THEN SignOf(x) * Infinity ELSE x
\* The text of a double.
Printed(x) ==
  IF FiniteDouble(x) THEN SignOf(x) * Nearest(Magnitude(x) * Quantum, Grain)
  ELSE SignOf(x) * (Magnitude(x) \div Grain)

\* stod refuses a text that no double can hold.
FloatReadable(lit) == lit.num \in -Inf .. NaN
get_float_value(lit) ==
  IF Finite(lit.num) THEN Double(lit.num * Grain, Quantum) ELSE lit.num * Grain

\* The accessor of a type: the number or the text of a literal.
Accessor(type, lit) == CASE type = IntT -> get_int_value(lit)
                         [] type = FloatT -> get_float_value(lit)
                         [] type = StringT -> lit.text
                         [] OTHER -> lit.num

(* An implementation for the literals of one type refuses any other number *)
(* or type of arguments; then it reads them.                               *)
Refused(args, n, type) ==
  \/ Len(args) # n
  \/ \E i \in DOMAIN args : args[i].kind # "literal" \/ args[i].type # type

Applied(args, n, type, result) ==
  CASE Refused(args, n, type) -> InvalidCall
    [] \E i \in DOMAIN args : args[i].form # FormOf(type) -> ValueError
    [] type = FloatT /\ \E i \in DOMAIN args : ~FloatReadable(args[i])
         -> OutOfRange
    [] OTHER -> result

Unary(args, type, Op(_)) ==
  Applied(args, 1, type, Op(Accessor(type, args[1])))
Binary(args, type, Op(_, _)) ==
  Applied(args, 2, type, Op(Accessor(type, args[1]), Accessor(type, args[2])))
===============================================================================
