------------------------------- MODULE Builtins -------------------------------
(***************************************************************************)
(* A call of a builtin function: avalon_function finds the implementation  *)
(* by the name of the function alone, and the implementation finds the one *)
(* for its arguments by their type instances.  Nothing but this search     *)
(* ties the functions that the builtin programs declare to the code that   *)
(* carries them out.                                                       *)
(*                                                                         *)
(* What comes from outside is a record: the next line of the input and the *)
(* bit that a measurement yields (QProcessor models the measurement).      *)
(***************************************************************************)
EXTENDS BuiltinFunctions

VoidT   == <<"void">>
GateT   == <<"gate">>
CGateT  == <<"cgate">>
QubitT  == <<"qubit">>
Qubit2T == <<"qubit2">>
Qubit4T == <<"qubit4">>
Qubit8T == <<"qubit8">>
AnyT    == <<"*">>

\* n literals of one type; n constructors without arguments of one type.
Literals(args, n, type) == ~Refused(args, n, type)
Identifiers(args, n, type) ==
  Len(args) = n /\ \A i \in 1 .. n : args[i].kind = "identifier" /\ args[i].type = type
References(args, type) == \A i \in DOMAIN args : args[i].kind = "reference"
                                                 /\ args[i].type = RefTo(type)

-----------------------------------------------------------------------------
(* avalon_arithmetic.cpp *)

avl_pos(args) == CASE Literals(args, 1, IntT) -> int_pos(args)
                   [] Literals(args, 1, FloatT) -> float_pos(args)
                   [] OTHER -> InvalidCall
avl_neg(args) == CASE Literals(args, 1, IntT) -> int_neg(args)
                   [] Literals(args, 1, FloatT) -> float_neg(args)
                   [] Literals(args, 1, StringT) -> string_reverse(args)
                   [] OTHER -> InvalidCall
avl_add(args) == CASE Literals(args, 2, IntT) -> int_add(args)
                   [] Literals(args, 2, FloatT) -> float_add(args)
                   [] Literals(args, 2, StringT) -> string_concat(args)
                   [] OTHER -> InvalidCall
avl_sub(args) == CASE Literals(args, 2, IntT) -> int_sub(args)
                   [] Literals(args, 2, FloatT) -> float_sub(args)
                   [] OTHER -> InvalidCall
avl_mul(args) == CASE Literals(args, 2, IntT) -> int_mul(args)
                   [] Literals(args, 2, FloatT) -> float_mul(args)
                   [] OTHER -> InvalidCall
avl_div(args) == CASE Literals(args, 2, IntT) -> int_div(args)
                   [] Literals(args, 2, FloatT) -> float_div(args)
                   [] OTHER -> InvalidCall
avl_mod(args) == IF Literals(args, 2, IntT) THEN int_mod(args) ELSE InvalidCall
avl_pow(args) == IF Literals(args, 2, IntT) THEN int_pow(args) ELSE InvalidCall

-----------------------------------------------------------------------------
(* avalon_comparison.cpp *)

avl_eq(args) == CASE Identifiers(args, 2, BoolT) -> bool_eq(args)
                  [] Literals(args, 2, IntT) -> int_eq(args)
                  [] Literals(args, 2, BitT) -> bit_eq(args)
                  [] OTHER -> InvalidCall
\* Two bits are compared for being equal here too.
avl_ne(args) == CASE Identifiers(args, 2, BoolT) -> bool_ne(args)
                  [] Literals(args, 2, IntT) -> int_ne(args)
                  [] Literals(args, 2, BitT) -> bit_eq(args)
                  [] OTHER -> InvalidCall
avl_gt(args) == IF Literals(args, 2, IntT) THEN int_gt(args) ELSE InvalidCall
avl_ge(args) == IF Literals(args, 2, IntT) THEN int_ge(args) ELSE InvalidCall
avl_lt(args) == IF Literals(args, 2, IntT) THEN int_lt(args) ELSE InvalidCall
avl_le(args) == IF Literals(args, 2, IntT) THEN int_le(args) ELSE InvalidCall

-----------------------------------------------------------------------------
(* avalon_logic.cpp *)

avl_and(args) == CASE Literals(args, 2, BitT) -> bit_and(args)
                   [] Literals(args, 2, Bit2T) -> bit2_and(args)
                   [] Literals(args, 2, Bit4T) -> bit4_and(args)
                   [] Literals(args, 2, Bit8T) -> bit8_and(args)
                   [] OTHER -> InvalidCall
avl_orNarrow(args) == CASE Literals(args, 2, BitT) -> bit_or(args)
                        [] Literals(args, 2, Bit2T) -> bit2_or(args)
                        [] OTHER -> InvalidCall
avl_or(args) == CASE Literals(args, 2, BitT) -> bit_or(args)
                  [] Literals(args, 2, Bit2T) -> bit2_or(args)
                  [] Literals(args, 2, Bit4T) -> bit4_or(args)
                  [] Literals(args, 2, Bit8T) -> bit8_or(args)
                  [] OTHER -> InvalidCall
avl_xor(args) == CASE Literals(args, 2, BitT) -> bit_xor(args)
                   [] Literals(args, 2, Bit2T) -> bit2_xor(args)
                   [] Literals(args, 2, Bit4T) -> bit4_xor(args)
                   [] Literals(args, 2, Bit8T) -> bit8_xor(args)
                   [] OTHER -> InvalidCall
avl_not(args) == CASE Literals(args, 1, BitT) -> bit_not(args)
                   [] Literals(args, 1, Bit2T) -> bit2_not(args)
                   [] Literals(args, 1, Bit4T) -> bit4_not(args)
                   [] Literals(args, 1, Bit8T) -> bit8_not(args)
                   [] OTHER -> InvalidCall

-----------------------------------------------------------------------------
(* avalon_quantum.cpp: single qubits only.  A gate returns no expression.  *)

NoExpression == Value("nothing", VoidT, "", 0, <<>>)
IsGate(v, type) == v.kind = "call" /\ v.type = type
avl_apply(args) ==
  IF \/ Len(args) = 2 /\ IsGate(args[1], GateT)
     \/ Len(args) = 3 /\ IsGate(args[1], CGateT)
  THEN IF References(Tail(args), QubitT) THEN NoExpression ELSE InvalidCall
  ELSE InvalidCall
avl_measure(args, bit) ==
  IF Len(args) = 1 /\ References(args, QubitT) THEN Number(BitT, bit)
  ELSE InvalidCall
qubit_cast(args, ret, bit) ==
  IF ret = BitT THEN avl_measure(args, bit) ELSE InvalidCall

-----------------------------------------------------------------------------
(* avalon_cast.cpp, avalon_hash.cpp and avalon_getters.cpp *)

avl_cast(args, ret, bit) ==
  CASE Identifiers(args, 1, BoolT) -> bool_cast(args, ret)
    [] Literals(args, 1, IntT) -> int_cast(args, ret)
    [] Literals(args, 1, FloatT) -> float_cast(args, ret)
    [] Literals(args, 1, BitT) -> bit_cast(args, ret)
    [] Literals(args, 1, StringT) -> string_cast(args, ret)
    [] Len(args) = 1 /\ References(args, QubitT) -> qubit_cast(args, ret, bit)
    [] OTHER -> InvalidCall
avl_bool_cast(args) ==
  IF Literals(args, 1, StringT) THEN string_bool(args) ELSE InvalidCall
avl_int_cast(args) ==
  IF Literals(args, 1, StringT) THEN string_int(args) ELSE InvalidCall
avl_float_cast(args) == CASE Literals(args, 1, IntT) -> int_float(args)
                          [] Literals(args, 1, StringT) -> string_float(args)
                          [] OTHER -> InvalidCall
avl_string_cast(args) == CASE Identifiers(args, 1, BoolT) -> bool_string(args)
                           [] Literals(args, 1, IntT) -> int_string(args)
                           [] Literals(args, 1, FloatT) -> float_string(args)
                           [] Literals(args, 1, BitT) -> bit_string(args)
                           [] Literals(args, 1, Bit2T) -> bit2_string(args)
                           [] Literals(args, 1, Bit4T) -> bit4_string(args)
                           [] Literals(args, 1, Bit8T) -> bit8_string(args)
                           [] OTHER -> InvalidCall
avl_hash(args) ==
  IF Literals(args, 1, StringT) THEN string_hash(args) ELSE InvalidCall
avl_refitem(args) ==
  IF Len(args) # 2 THEN InvalidCall
  ELSE LET of == <<args[1]>>
       IN  CASE Literals(of, 1, StringT) -> string_refitem(args)
             [] Literals(of, 1, BitT) -> bit_refitem(args)
             [] Literals(of, 1, Bit2T) -> bit2_refitem(args)
             [] Literals(of, 1, Bit4T) -> bit4_refitem(args)
             [] Literals(of, 1, Bit8T) -> bit8_refitem(args)
             [] OTHER -> InvalidCall

-----------------------------------------------------------------------------
(* avalon_function.cpp *)

Arithmetic(name, args) ==
  CASE name = "__and__" -> bool_and(args)
    [] name = "__or__"  -> bool_or(args)
    [] name = "__not__" -> bool_not(args)
    [] name = "__pos__" -> avl_pos(args)
    [] name = "__neg__" -> avl_neg(args)
    [] name = "__add__" -> avl_add(args)
    [] name = "__sub__" -> avl_sub(args)
    [] name = "__mul__" -> avl_mul(args)
    [] name = "__div__" -> avl_div(args)
    [] name = "__mod__" -> avl_mod(args)
    [] name = "__pow__" -> avl_pow(args)
    [] OTHER -> OutOfRange
Conversion(name, args, ret, world) ==
  CASE name = "__print__" -> avl_print(args)
    [] name = "__println__" -> avl_println(args)
    [] name = "__readln__" -> avl_readln(args, world.line)
    [] name = "__cast__" -> avl_cast(args, ret, world.bit)
    [] name = "bool" -> avl_bool_cast(args)
    [] name = "int" -> avl_int_cast(args)
    [] name = "float" -> avl_float_cast(args)
    [] name = "string" -> avl_string_cast(args)
    [] name = "__hash__" -> avl_hash(args)
    [] OTHER -> Arithmetic(name, args)
implementations(name, args, ret, world) ==
  CASE name = "__eq__" -> avl_eq(args)
    [] name = "__ne__" -> avl_ne(args)
    [] name = "__gt__" -> avl_gt(args)
    [] name = "__ge__" -> avl_ge(args)
    [] name = "__lt__" -> avl_lt(args)
    [] name = "__le__" -> avl_le(args)
    [] name = "__band__" -> avl_and(args)
    [] name = "__bor__" -> avl_or(args)
    [] name = "__xor__" -> avl_xor(args)
    [] name = "__bnot__" -> avl_not(args)
    [] name = "apply" -> avl_apply(args)
    [] name = "measure" -> avl_measure(args, world.bit)
    [] name = "__refitem__" -> avl_refitem(args)
    [] OTHER -> Conversion(name, args, ret, world)

\* std::out_of_range out of an implementation, and not only out of the
\* search for it, is reported as a function that is not implemented.
Reported(result) == IF result = OutOfRange THEN InvalidCall ELSE result
run(name, args, ret, world) == Reported(implementations(name, args, ret, world))
===============================================================================
