-------------------------------- MODULE Sums --------------------------------
(***************************************************************************)
(* Sums of natural numbers over a finite set, defined without recursion.   *)
(*                                                                         *)
(* A counter the program keeps (raised_amount, refunded_amount, ...) is    *)
(* claimed to be the sum of what individual accounts hold.  A sum is       *)
(* represented as the number of units held: account w with f[w] base units *)
(* owns the pairs <<w, 1>>, ..., <<w, f[w]>>.  The laws of sums are then   *)
(* facts about cardinalities of finite sets (module SumTheorems).          *)
(***************************************************************************)
EXTENDS Integers, FiniteSets

UnitsOf(f, w) == {w} \X (1 .. f[w])

Units(f, S) == UNION {UnitsOf(f, w) : w \in S}

(* The total of f over S. *)
SumOver(f, S) == Cardinality(Units(f, S))
=============================================================================
