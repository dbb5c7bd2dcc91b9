--------------------------- MODULE BuiltinPrograms ----------------------------
(***************************************************************************)
(* The functions that the builtin programs declare: name, types of the     *)
(* parameters, type of the result.  The checks of a program know a builtin *)
(* by this and nothing else.                                               *)
(***************************************************************************)
EXTENDS Builtins

Function(name, params, ret) == [name |-> name, params |-> params, ret |-> ret]

\* An operator on n values of one type; the two ways to write a cast.
Operators(names, n, type, ret) ==
  {Function(name, [i \in 1 .. n |-> type], ret) : name \in names}
Casts(name, type, ret) ==
  {Function("__cast__", <<type>>, ret), Function(name, <<type>>, ret)}

IntArithmetic ==
  Operators({"__pos__", "__neg__"}, 1, IntT, IntT)
  \cup Operators({"__add__", "__sub__", "__mul__"}, 2, IntT, IntT)
  \cup Operators({"__div__"}, 2, IntT, Maybe(IntT))
  \cup Operators({"__mod__", "__pow__"}, 2, IntT, IntT)
IntConversions ==
  Operators({"__hash__"}, 1, IntT, IntT)
  \cup Casts("string", IntT, StringT) \cup Casts("float", IntT, FloatT)
IntComparisons ==
  Operators({"__eq__", "__ne__", "__gt__", "__ge__", "__lt__", "__le__"},
            2, IntT, BoolT)

FloatFunctions ==
  Operators({"__pos__", "__neg__"}, 1, FloatT, FloatT)
  \cup Operators({"__add__", "__sub__", "__mul__", "__div__"}, 2, FloatT, FloatT)
  \cup Casts("string", FloatT, StringT)

BoolFunctions ==
  Operators({"__and__", "__or__", "__eq__", "__ne__"}, 2, BoolT, BoolT)
  \cup Operators({"__not__"}, 1, BoolT, BoolT)
  \cup Casts("string", BoolT, StringT)

StringFunctions ==
  Operators({"__neg__"}, 1, StringT, StringT)
  \cup Operators({"__add__"}, 2, StringT, StringT)
  \cup Operators({"__hash__"}, 1, StringT, IntT)
  \cup Casts("bool", StringT, Maybe(BoolT))
  \cup Casts("int", StringT, Maybe(IntT))
  \cup Casts("float", StringT, Maybe(FloatT))
  \cup {Function("__refitem__", <<RefTo(StringT), IntT>>, Maybe(RefTo(StringT)))}

(* The same nine functions in four files: bit, bit2, bit4 and bit8.        *)
Logic(type) == Operators({"__band__", "__bor__", "__xor__"}, 2, type, type)
               \cup Operators({"__bnot__"}, 1, type, type)
Inspection(type) ==
  Casts("string", type, StringT) \cup Operators({"__eq__", "__ne__"}, 2, type, BoolT)
  \cup {Function("__refitem__", <<RefTo(type), IntT>>, RefTo(BitT))}
BitFunctions  == Logic(BitT) \cup Inspection(BitT)
Bit2Functions == Logic(Bit2T) \cup Inspection(Bit2T)
Bit4Functions == Logic(Bit4T) \cup Inspection(Bit4T)
Bit8Functions == Logic(Bit8T) \cup Inspection(Bit8T)

QubitFunctions ==
  {Function("apply", <<GateT, RefTo(QubitT)>>, VoidT),
   Function("apply", <<CGateT, RefTo(QubitT), RefTo(QubitT)>>, VoidT),
   Function("measure", <<RefTo(QubitT)>>, BitT),
   Function("__cast__", <<RefTo(QubitT)>>, BitT)}
Wider(type, bits) == {Function("apply", <<GateT, RefTo(type)>>, VoidT),
                      Function("measure", <<RefTo(type)>>, bits)}
Qubit2Functions == Wider(Qubit2T, Bit2T)
Qubit4Functions == Wider(Qubit4T, Bit4T)
Qubit8Functions == Wider(Qubit8T, Bit8T)

IoFunctions == Operators({"__print__", "__println__"}, 1, StringT, IntT)
               \cup {Function("__readln__", <<>>, StringT)}

Declared ==
  UNION {IntArithmetic, IntConversions, IntComparisons, FloatFunctions,
         BoolFunctions, StringFunctions, BitFunctions, Bit2Functions,
         Bit4Functions, Bit8Functions, QubitFunctions, Qubit2Functions,
         Qubit4Functions, Qubit8Functions, IoFunctions}
===============================================================================
