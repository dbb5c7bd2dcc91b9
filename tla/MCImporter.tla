----------------------------- MODULE MCImporter -----------------------------
(* Every import graph of three small files, cycles, imports made twice and *)
(* a file that does not exist included.                                    *)
EXTENDS Importer

MCFiles == {"main", "a", "b"}

UpTo(n, S) == UNION {[1..k -> S] : k \in 0..n}

MCGraphs ==
  {g \in [MCFiles -> UpTo(2, MCFiles \cup {"nowhere"})] :
     /\ g["main"] \in UpTo(2, MCFiles)
     /\ g["a"] \in UpTo(2, MCFiles)
     /\ g["b"] \in UpTo(1, MCFiles \cup {"nowhere"}) }

MCBadHeaders == {{}, {"b"}}

(* The private g of a collides with what b offers; the hs do not meet.     *)
MCPublic == [p \in MCFiles |-> CASE p = "main" -> {} [] p = "a" -> {"f"} [] p = "b" -> {"g"}]
MCPrivate == [p \in MCFiles |-> CASE p = "main" -> {"h"} [] p = "a" -> {"g"} [] p = "b" -> {"h"}]
=============================================================================
