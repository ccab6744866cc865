------------------------------- MODULE Totals -------------------------------
(***************************************************************************)
(* Sums of a column of amounts.                                            *)
(*                                                                         *)
(* Both crates that keep the books (aggora-economy and aggora-state) add   *)
(* up a column of u64 amounts with Iterator::sum.  A sum is stated here as *)
(* the number of units in the column: an amount f[w] is the set of units   *)
(* 1..f[w] held by w, and the sum is the cardinality of all the units.     *)
(* That definition needs no recursion, so facts about it can be proved for *)
(* columns of any length; MCLedger compares it with SumFunction.          *)
(***************************************************************************)
EXTENDS Integers, FiniteSets

\* The units of the column f, each tagged with the row that holds it.
Units(f) == UNION {{w} \X (1..f[w]) : w \in DOMAIN f}

\* The exact sum of the column f of natural numbers.
Total(f) == Cardinality(Units(f))

=============================================================================
