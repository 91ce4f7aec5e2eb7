------------------------------ MODULE Custody -------------------------------
(***************************************************************************)
(* What the escrow promises, without accounts, counters, tokens or time.   *)
(*                                                                         *)
(* Backers pledge stakes while funding is open.  One decision then commits *)
(* the whole pledge: if it reached the target it may only be spent, up to  *)
(* its last unit; otherwise it may only be handed back, each stake at most *)
(* once and in full.  Custody ends exactly when everything pledged has     *)
(* been spent or everything pledged has been handed back.                  *)
(***************************************************************************)
EXTENDS Integers

CONSTANTS Backers,
          Total(_)   \* the sum of a function on Backers

VARIABLES phase, target, stake, repaid, spent

vars == <<phase, target, stake, repaid, spent>>

Pledged == Total(stake)

Holders == {w \in Backers : stake[w] > 0}

Init == /\ phase = "None"
        /\ target = 0
        /\ stake = [w \in Backers |-> 0]
        /\ repaid = {}
        /\ spent = 0

Open == /\ phase = "None"
        /\ phase' = "Funding"
        /\ target' > 0
        /\ UNCHANGED <<stake, repaid, spent>>

Collect == /\ phase = "Funding"
           /\ \E w \in Backers : /\ stake'[w] > stake[w]
                                 /\ stake' = [stake EXCEPT ![w] = stake'[w]]
           /\ UNCHANGED <<phase, target, repaid, spent>>

Decide == /\ phase = "Funding"
          /\ phase' = IF Pledged >= target THEN "Executing"
                      ELSE IF Holders = {} THEN "Closed" ELSE "Refunding"
          /\ UNCHANGED <<target, stake, repaid, spent>>

Spend == /\ phase = "Executing"
         /\ spent' \in spent + 1 .. Pledged
         /\ phase' = IF spent' = Pledged THEN "Closed" ELSE "Executing"
         /\ UNCHANGED <<target, stake, repaid>>

Repay == /\ phase = "Refunding"
         /\ repaid \subseteq repaid' /\ repaid' \subseteq Holders /\ repaid' # repaid
         /\ phase' = IF repaid' = Holders THEN "Closed" ELSE "Refunding"
         /\ UNCHANGED <<target, stake, spent>>

Next == Open \/ Collect \/ Decide \/ Spend \/ Repay

Spec == Init /\ [][Next]_vars
=============================================================================
