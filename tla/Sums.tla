--------------------------------- MODULE Sums ---------------------------------
(***************************************************************************)
(* The sum of a function over a finite set, by counting: f is worth one    *)
(* pair <<x, i>> for each i in 1..f[x].  Unlike a recursive sum this form  *)
(* can be reasoned about with the theorems on cardinalities; module        *)
(* SumsTheorems does.                                                      *)
(***************************************************************************)
EXTENDS Integers, FiniteSets

Units(S, f) == UNION {{x} \X (1..f[x]) : x \in S}

Total(S, f) == Cardinality(Units(S, f))
=============================================================================
