---- MODULE Sums ----
(***************************************************************************)
(* Totals of amounts, as the ledger queries compute them with SQL's SUM.   *)
(*                                                                         *)
(* A total is defined by counting units: the total of f over S is the      *)
(* number of pairs <<x, i>> with x in S and i in 1..f[x].  A recursive sum *)
(* would need an induction principle to reason about; counting needs only  *)
(* the cardinality facts of FiniteSetTheorems (see SumsProofs).            *)
(***************************************************************************)
EXTENDS Integers, FiniteSets

\* The units of f over S: f[x] distinct pairs for every x.
Units(S, f) == UNION {{x} \X (1..f[x]) : x \in S}

\* The total of the natural numbers f[x] for x in S.
SumOver(S, f) == Cardinality(Units(S, f))

====
