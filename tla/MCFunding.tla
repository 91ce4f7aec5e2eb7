----------------------------- MODULE MCFunding -----------------------------
(***************************************************************************)
(* The funding phase on small instances: quotes of one unit, goals of one  *)
(* and two, so that campaigns are both met and missed.                     *)
(***************************************************************************)
EXTENDS Funding, TLC

OneEach == [w \in Wallets |-> 1]
MCPrice == [t \in Tiers |-> 1]
MCLimit == [t \in Tiers |-> 1]
One     == {1}
Two     == {2}

Interchangeable ==
  Permutations(Refs) \cup Permutations(Wallets) \cup Permutations(TxIds)
    \cup Permutations(Checkers)
=============================================================================
