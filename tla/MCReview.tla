------------------------------ MODULE MCReview ------------------------------
(***************************************************************************)
(* The review pipeline on a small instance: one vendor of one category,    *)
(* whose cap admits one quote of one unit until the late payment doubles   *)
(* what was raised, and then two.                                          *)
(***************************************************************************)
EXTENDS Review, TLC

OneCategory == [v \in Vendors |-> "goods"]

(* One item of unit price 1, once or twice. *)
SmallBaskets == {<<[unit_price |-> 1, quantity |-> n]>> : n \in 1 .. 2}

CapOne == [categories |-> "goods" :> [maxUnitPrice |-> 1, maxTotal |-> 1],
           maxPerCategory |-> NoLimit, allowSurplusScaling |-> TRUE]

One == {1}

Interchangeable == Permutations(Reviewers) \cup Permutations(Proofs)
=============================================================================
