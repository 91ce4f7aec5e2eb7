------------------------------ MODULE MCEscrow ------------------------------
(***************************************************************************)
(* The escrow on a small instance: four wallets that can contribute at    *)
(* most twice each, room for only three contributors (so the u32 limit is    *)
(* met), one outsider's token to deposit, a clock that passes the deadline. *)
(***************************************************************************)
EXTENDS Escrow

(* One wallet holds a single unit, so it can only contribute once. *)
MCPurse == [w \in Wallets |-> IF w = CHOOSE x \in Wallets : TRUE THEN 1 ELSE 2]
=============================================================================
