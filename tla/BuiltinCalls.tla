----------------------------- MODULE BuiltinCalls -----------------------------
(***************************************************************************)
(* Calls of builtin functions, one after another: each takes arguments of  *)
(* the types its declaration names, among them the result of the call      *)
(* before it if that fits, and leaves a result.  This is how an expression *)
(* whose operators are builtins is evaluated, from the inside out.         *)
(***************************************************************************)
EXTENDS BuiltinPrograms, Bitwise

CONSTANTS
  Samples,   \* values to begin with and to mix in
  MaxText    \* longest string that is passed on

VARIABLES
  fn,      \* the declaration that was called last
  args,    \* what it was called with
  result   \* what it returned, an argument of Just taken out of it

vars == <<fn, args, result>>

\* A match takes the argument out of Just.
Contained(v) ==
  IF v.kind = "call" /\ v.text # <<>> /\ v.text[1] = "Just" /\ v.type # <<>>
  THEN LET type == Tail(v.type)
       IN  IF type = BoolT THEN Truth(v.text[2] = "True")
           ELSE [Number(type, v.num) EXCEPT !.form = v.form]
  ELSE v

\* An expression that is missing or not complete cannot be passed on.
Usable(v) == /\ v.kind \in {"literal", "identifier"}
             /\ v.type # StringT \/ Len(v.text) <= MaxText

\* The values that may be passed for a parameter of the type.
Available == Samples \cup {v \in {Contained(result)} : Usable(v)}
ArgumentsOf(type) == {v \in Available : v.type = type}
\* (one of them being the last result, if there are any)
ArgumentLists(params) ==
  {as \in [DOMAIN params -> UNION {ArgumentsOf(params[i]) : i \in DOMAIN params}] :
     /\ \A i \in DOMAIN params : as[i].type = params[i]
     /\ params # <<>> => \E i \in DOMAIN params : as[i] = Contained(result)}

\* What comes from outside, where the function asks for it.
Worlds(f) == [line : IF f.name = "__readln__"
                     THEN {v.text : v \in ArgumentsOf(StringT)} \cup {EndOfInput}
                     ELSE {<<>>},
              bit : IF f.ret = BitT THEN {0, 1} ELSE {0}]

\* What is passed: __refitem__ gets the value of the variable referred to.
Passed(f) == IF f.name = "__refitem__" THEN <<Tail(f.params[1]), IntT>> ELSE f.params

\* The interpreter ends the program at a failure.
Call ==
  /\ result \notin Failures
  /\ \E f \in {g \in Declared : g.params = <<>> \/ Contained(result).type \in ToSet(Passed(g))} :
     \E as \in ArgumentLists(Passed(f)), world \in Worlds(f) :
       /\ fn' = f
       /\ args' = as
       /\ result' = run(f.name, as, f.ret, world)

Init == /\ fn = Function("", <<>>, VoidT)
        /\ args = <<>>
        /\ result \in Samples

Next == Call
Spec == Init /\ [][Next]_vars

-----------------------------------------------------------------------------
(* What a declaration promises *)

Called == fn.name # ""
First  == Accessor(args[1].type, args[1])
Second == Accessor(args[2].type, args[2])
Wide == {Bit2T, Bit4T, Bit8T}
WideQubits == {RefTo(Qubit2T), RefTo(Qubit4T), RefTo(Qubit8T)}

\* Declared, and carried out by nothing.
Gaps ==
  {f \in Declared :
     \/ f.name \in {"__eq__", "__ne__", "__cast__"} /\ f.params[1] \in Wide
     \/ f.name = "__hash__" /\ f.params[1] = IntT
     \/ f.name \in {"apply", "measure"} /\ ToSet(f.params) \cap WideQubits # {}}

(* Arguments for which there is no result: a divisor of zero, a bit that   *)
(* the string does not have, a negative index, a float that was read from  *)
(* a text too large for it.                                                *)
NoResult ==
  \/ fn.name = "__div__" /\ fn.ret = FloatT /\ Second = 0
  \/ /\ fn.name = "__refitem__"
     /\ \/ get_int_value(args[2]) < 0
        \/ args[1].type \in BitTypes /\ get_int_value(args[2]) >= Width(args[1].type)
  \/ \E i \in DOMAIN args : args[i].type = FloatT /\ ~FloatReadable(args[i])
                            /\ fn.name # "__pos__"
\* Arguments that stop the interpreter itself.
NoReturn ==
  \/ fn.name \in {"__div__", "__mod__"} /\ fn.params[1] = IntT
     /\ LET a == get_int_value(args[1])
            b == get_int_value(args[2])
        IN  (a = MinInt /\ b = -1) \/ (b = 0 /\ fn.name = "__mod__")
  \/ fn.name = "__readln__"

\* Numbers that come out of a text or a hash may be out of range.
NumbersOf(type) == CASE type = IntT -> MinInt .. MaxInt
                     [] type = FloatT -> -Inf .. NaN
                     [] type \in BitTypes -> 0 .. 2 ^ Width(type) - 1
                     [] OTHER -> {0}
IsOf(v, type) ==
  IF type = BoolT THEN v \in {Truth(TRUE), Truth(FALSE)}
  ELSE /\ v.kind = "literal" /\ v.type = type /\ v.form = FormOf(type)
       /\ \/ v.num \in NumbersOf(type)
          \/ \E i \in DOMAIN args : args[i].type = StringT \/ args[i].num \notin NumbersOf(type)
IsMaybe(v, type) ==
  \/ v.text = <<"None">> /\ v.type = fn.ret
  \/ v.kind = "call" /\ v.type = fn.ret /\ IsOf(Contained(v), type)
IsResult(v) ==
  CASE fn.ret = VoidT -> v = NoExpression
    [] fn.ret = RefTo(BitT) -> v \in {DummyReference(i) : i \in 0 .. Width(args[1].type) - 1}
    [] fn.ret = Maybe(RefTo(StringT)) ->
         v = Nothing(<<>>) \/ (v.kind = "call" /\ v.num \in 0 .. Len(args[1].text) - 1)
    [] fn.ret[1] = "maybe" -> IsMaybe(v, Tail(fn.ret))
    [] OTHER -> IsOf(v, fn.ret)

(* A call that the checks of a program let pass, of a builtin function with *)
(* arguments of the types it declares, returns a value of the type it      *)
(* declares, which the next call can read; it ends in an error exactly for *)
(* the functions nobody carries out and the arguments without a result.    *)
(* (avalon_function::run and the dispatch by type behind it)               *)
ReturnsDeclared ==
  Called => CASE fn \in Gaps \/ NoResult -> result = InvalidCall
              [] result = Crash -> NoReturn
              [] OTHER -> result \notin Failures /\ IsResult(result)

-----------------------------------------------------------------------------
(* What the functions compute *)

Got == Contained(result).num

\* The exact number, wherever it fits.
Exactly(n) == n \in MinInt .. MaxInt => Got = n
\* What is left by a division cut towards zero: below the divisor, and with
\* the sign of the dividend.
Cut == {r \in 1 - Magnitude(Second) .. Magnitude(Second) - 1 : r * First >= 0}
(* Powers are those of doubles.  Where a significand holds the operands,    *)
(* the power is exact if a significand holds it too, and otherwise off by  *)
(* no more than one part in 2 ^ DoubleBits, unless it may be rounded out   *)
(* of the range.                                                           *)
Held(n) == \E e \in 0 .. 2 * IntBits, m \in 0 .. 2 ^ DoubleBits - 1 : Magnitude(n) = m * 2 ^ e
\* As near as a significand allows.
Close(got, exact) == 2 ^ DoubleBits * Magnitude(got - exact) <= Magnitude(exact)
MayExceed(n, d, limit) == Magnitude(n) * (2 ^ DoubleBits + 1) > limit * d * 2 ^ DoubleBits
PowerAgrees ==
  /\ Second = 0 => Got = 1
  /\ Second < 0 /\ Magnitude(First) > 1 => Got = 0
  /\ Second > 0 /\ Magnitude(First) > 1 /\ Second >= IntBits => Got = MinInt
  /\ Second \in 1 .. IntBits - 1 /\ Held(First) /\ Held(Second) =>
       LET exact == First ^ Second
       IN  /\ Held(exact) => Exactly(exact)
           /\ MayExceed(exact, 1, MaxInt) \/ Close(Got, exact)
IntAgrees ==
  /\ fn.name = "__add__" => Exactly(First + Second)
  /\ fn.name = "__sub__" => Exactly(First - Second)
  /\ fn.name = "__mul__" => Exactly(First * Second)
  /\ fn.name = "__neg__" => Exactly(0 - First)
  /\ fn.name = "__pow__" => PowerAgrees
  /\ fn.name = "__div__" => IF Second = 0 THEN result.text = <<"None">>
                            ELSE First - Got * Second \in Cut
  /\ fn.name = "__mod__" => /\ First - Got \in {q * Second : q \in MinInt .. MaxInt}
                            /\ Got \in Cut

(* A float is what its text, read as the nearest double, stands for.  The  *)
(* result n / d, counted in grains, is exact if a significand and a text   *)
(* hold it, and otherwise off by no more than one part in 2 ^ DoubleBits   *)
(* and half a quantum; it is infinite only if it may be rounded out of the *)
(* range.                                                                  *)
FloatResult(n, d) ==
  LET grains == n \div d
      text == (grains * Quantum) \div Grain
  IN  IF Finite(Got)
      THEN /\ grains * d = n /\ Held(grains) /\ text * Grain = grains * Quantum => Got = text
           /\ 2 * 2 ^ DoubleBits * Magnitude(Got * Grain * d - n * Quantum)
                <= 2 * Quantum * Magnitude(n) + 2 ^ DoubleBits * Grain * d
      ELSE Got = SignOf(n) * Inf /\ MayExceed(n * Quantum, d * Grain, MaxFloat)
FloatAgrees ==
  (\A i \in DOMAIN args : Finite(args[i].num)) =>
  /\ \A i \in DOMAIN args :
       Close(get_float_value(args[i]) * Quantum, args[i].num * Grain)
  /\ fn.name = "__neg__" => FloatResult(-First, 1)
  /\ fn.name = "__add__" => FloatResult(First + Second, 1)
  /\ fn.name = "__sub__" => FloatResult(First - Second, 1)
  /\ fn.name = "__mul__" => FloatResult(First * Second, Grain)
  /\ fn.name = "__div__" => FloatResult(SignOf(Second) * First * Grain, Magnitude(Second))

\* The digits of its text are the number, read in the base.
ReadIn(base, digits) ==
  FoldLeft(LAMBDA n, c : base * n + SelectInSeq(Digit, LAMBDA d : d = c) - 1, 0, digits)
BitAgrees ==
  /\ fn.name = "__band__" => Got = First & Second
  /\ fn.name = "__bor__" => Got = First | Second
  /\ fn.name = "__xor__" => Got = First ^^ Second
  /\ fn.name = "__bnot__" => First + Got = 2 ^ Width(fn.ret) - 1
  /\ fn.ret = StringT =>
       LET digits == SelectSeq(Tail(Tail(result.text)), IsDigit)
       IN  Len(digits) = Width(fn.params[1]) /\ ReadIn(2, digits) = First

(* Comparisons are those of the numbers. That of two bits for not being    *)
(* equal is not: BitsDiffer, below, says so.                               *)
Same == IF fn.params[1] = BoolT THEN args[1] = args[2] ELSE First = Second
TruthAgrees ==
  /\ fn.name = "__eq__" => result = Truth(Same)
  /\ fn.name = "__ne__" /\ fn.params[1] # BitT => result = Truth(~Same)
  /\ fn.name = "__gt__" => result = Truth(First > Second)
  /\ fn.name = "__ge__" => result = Truth(~(First < Second))
  /\ fn.name = "__lt__" => result = Truth(First < Second)
  /\ fn.name = "__le__" => result = Truth(~(First > Second))
  /\ fn.params[1] = BoolT /\ fn.ret = BoolT =>
       LET holds(i) == args[i] = Truth(TRUE)
       IN  /\ fn.name = "__and__" => result = Truth(holds(1) /\ holds(2))
           /\ fn.name = "__or__" => result = Truth(holds(1) \/ holds(2))
           /\ fn.name = "__not__" => result = Truth(~holds(1))

(* Whatever was computed before, integers, bit strings and truths are what *)
(* exact arithmetic on the numbers makes of them, integers wherever they   *)
(* fit their width.  Floats and powers go through doubles: they are exact  *)
(* where a significand holds them and as near as it comes elsewhere        *)
(* (avalon_int.cpp, avalon_float.cpp, avalon_bit.cpp and its copies,       *)
(* avalon_bool.cpp).                                                       *)
Agrees ==
  Called /\ fn.params # <<>> /\ result \notin Failures =>
    /\ TruthAgrees
    /\ fn.params[1] = IntT => IntAgrees
    /\ fn.params[1] = FloatT => FloatAgrees
    /\ fn.params[1] \in BitTypes => BitAgrees

(* A number that is turned into a string and back is the number it was, a  *)
(* float the text of the double that it was read as; a                     *)
(* sign is not read back, and neither is what is not finite (string_int,   *)
(* string_float and string_bool against int_string, float_string and       *)
(* bool_string).                                                           *)
ThereAndBack(v, type) ==
  IF type # BoolT /\ (Accessor(type, v) < 0 \/ (type = FloatT /\ ~Finite(v.num)))
  THEN Nothing(Maybe(type))
  ELSE IF type = BoolT THEN Just(Maybe(type), v)
  ELSE Just(Maybe(type), Number(type, IF type = FloatT THEN Printed(get_float_value(v))
                                      ELSE get_int_value(v)))
ReadsBack ==
  [][/\ fn.ret = StringT /\ fn.params # <<>> /\ fn.params[1] \in {IntT, FloatT, BoolT}
     /\ fn'.ret = Maybe(fn.params[1]) /\ fn'.params = <<StringT>> /\ args'[1] = result
     => result' = ThereAndBack(args[1], fn.params[1])]_vars

(* avalon_bit.cpp of the representer declares an inequality of bits next   *)
(* to their equality: one holds if and only if the other does not.         *)
BitsDiffer ==
  fn.name = "__ne__" /\ fn.params[1] = BitT => result = Truth(args[1] # args[2])
===============================================================================
