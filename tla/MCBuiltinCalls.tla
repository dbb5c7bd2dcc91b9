---------------------------- MODULE MCBuiltinCalls ----------------------------
EXTENDS BuiltinCalls
MCWords == {"True", "False", "inf", "nan", "eurT", "eslaF", "fni", "nan."}
MCMirror == [w \in MCWords |->
  CASE w = "True" -> "eurT" [] w = "eurT" -> "True" [] w = "False" -> "eslaF"
    [] w = "eslaF" -> "False" [] w = "inf" -> "fni" [] w = "fni" -> "inf" [] OTHER -> w]
MCHashOf(s) == (5 * Len(s) + 13) % 32
MCSamples ==
  {Number(IntT, n) : n \in {-16, -1, 0, 3, 6}}
  \cup {Number(FloatT, f) : f \in {-30, 0, 2, 35}}
  \cup {Number(BitT, b) : b \in {0, 1}} \cup {Number(Bit2T, b) : b \in {1, 3}}
  \cup {Number(Bit4T, b) : b \in {3, 5}} \cup {Number(Bit8T, b) : b \in {15, 165}}
  \cup {Truth(TRUE), Truth(FALSE)}
  \cup {Text(<<"True">>), Text(<<"4">>)}
  \cup {Value("reference", RefTo(t), "", 0, <<>>) : t \in {QubitT, Qubit2T, Qubit4T, Qubit8T}}
  \cup {Value("call", GateT, "", 0, <<"Gate">>), Value("call", CGateT, "", 0, <<"CGate">>)}
===============================================================================
