---------------------------- MODULE MCSettlement ----------------------------
(***************************************************************************)
(* Settlement on small instances: two fans with one unit each, so that a   *)
(* goal of 1 or 2 can be met and a goal of 3 cannot, and quotes of one     *)
(* unit.  The configurations choose the handlers and the faults.           *)
(***************************************************************************)
EXTENDS Settlement, TLC

MCPurse == [w \in Wallets |-> 1]
MCCost  == [p \in Proofs |-> 1]
Met     == {1, 2}
Missed  == {3}
Either  == {1, 3}
AtOne   == {1}

(* No definition tells these apart. *)
Alike ==
  Permutations(Wallets) \cup Permutations(TxIds) \cup Permutations(Proofs)
    \cup Permutations(Releasers) \cup Permutations(Refunders)
=============================================================================
