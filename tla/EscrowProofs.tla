---------------------------- MODULE EscrowProofs ----------------------------
(***************************************************************************)
(* Proofs about the escrow program for every set of wallets and keys and   *)
(* every bound.  IInv is inductive; each property follows from it.         *)
(***************************************************************************)
EXTENDS Escrow, SumTheorems

USE EscrowAssumption

(* A balance of zero everywhere adds up to nothing. *)
LEMMA SumZero ==
  ASSUME NEW S, IsFiniteSet(S), NEW f, \A w \in S : f[w] = 0
  PROVE  SumOver(f, S) = 0
<1>1. Units(f, S) = {}
  BY DEF Units, UnitsOf
<1> QED BY <1>1, FS_EmptySet DEF SumOver

(* Sums over fans are natural numbers, and any set of fans is finite. *)
LEMMA FanSums ==
  ASSUME NEW f, \A w \in Wallets : f[w] \in Nat, NEW S \in SUBSET Wallets
  PROVE  IsFiniteSet(S) /\ SumOver(f, S) \in Nat /\ Cardinality(S) \in Nat
<1>1. IsFiniteSet(S)
  BY FS_Subset
<1> QED BY <1>1, SumType, FS_CardinalityType

LEMMA InitIInv == Init => IInv
<1> SUFFICES ASSUME Init PROVE IInv
  OBVIOUS
<1> USE DEF Init
<1>1. Contributors = {}
  BY DEF Contributors
<1>2. SumOver(amount, Wallets) = 0
  BY SumZero
<1>3. SumOver(amount, refunded) = 0
  BY SumEmpty
<1>4. Cardinality({}) = 0
  BY FS_EmptySet
<1>5. TypeOK
  BY DEF TypeOK, Statuses
<1>6. CountersAgree
  BY <1>1, <1>2, <1>3, <1>4 DEF CountersAgree
<1>7. FansMadeWhole
  BY DEF FansMadeWhole
<1>8. refunded \subseteq Contributors
  BY <1>1
<1>9. escrow_usdc + released_amount + refunded_amount >= raised_amount
  OBVIOUS
<1>10. StatusFacts
  BY DEF StatusFacts
<1> QED BY <1>5, <1>6, <1>7, <1>8, <1>9, <1>10 DEF IInv

(* Contributing adds one backer exactly when the account was new. *)
LEMMA ContributorAdded ==
  ASSUME TypeOK, NEW w \in Wallets, NEW a \in Nat, a > 0,
         amount' = [amount EXCEPT ![w] = @ + a]
  PROVE  /\ Contributors' = Contributors \cup {w}
         /\ Cardinality(Contributors') =
              IF amount[w] = 0 THEN Cardinality(Contributors) + 1 ELSE Cardinality(Contributors)
         /\ SumOver(amount', Wallets) = SumOver(amount, Wallets) + a
         /\ \A u \in Wallets : amount'[u] = IF u = w THEN amount[w] + a ELSE amount[u]
<1>1. amount \in [Wallets -> Nat]
  BY DEF TypeOK
<1>2. \A u \in Wallets : amount'[u] = IF u = w THEN amount[w] + a ELSE amount[u]
  BY <1>1
<1>3. Contributors' = Contributors \cup {w}
  BY <1>1, <1>2 DEF Contributors
<1>4. IsFiniteSet(Contributors)
  BY FS_Subset DEF Contributors
<1>5. amount[w] = 0 <=> w \notin Contributors
  BY <1>1 DEF Contributors
<1>6. Cardinality(Contributors \cup {w}) =
        IF w \in Contributors THEN Cardinality(Contributors) ELSE Cardinality(Contributors) + 1
  BY <1>4, FS_AddElement
<1>7. SumOver([amount EXCEPT ![w] = amount[w] + a], Wallets) + amount[w]
        = SumOver(amount, Wallets) + (amount[w] + a)
  <2>1. amount[w] + a \in Nat
    BY <1>1
  <2> QED BY <1>1, <2>1, SumUpdate
<1>8. amount' = [amount EXCEPT ![w] = amount[w] + a]
  BY <1>1
<1>9. SumOver(amount', Wallets) + amount[w] = SumOver(amount, Wallets) + (amount[w] + a)
  BY <1>7, <1>8
<1>10. SumOver(amount, Wallets) \in Nat /\ SumOver(amount', Wallets) \in Nat
  <2>1. \A u \in Wallets : amount[u] \in Nat /\ amount'[u] \in Nat
    BY <1>1, <1>2
  <2>2. Wallets \in SUBSET Wallets
    OBVIOUS
  <2> QED BY <2>1, <2>2, FanSums
<1>11. SumOver(amount', Wallets) = SumOver(amount, Wallets) + a
  BY <1>1, <1>9, <1>10
<1> QED BY <1>2, <1>3, <1>5, <1>6, <1>11

(* Instructions that touch neither accounts, counters nor fans' tokens keep *)
(* what IInv says about them.                                              *)
LEMMA BooksUnchanged ==
  ASSUME CountersAgree, FansMadeWhole, refunded \subseteq Contributors,
         UNCHANGED <<raised_amount, refunded_amount, contributor_count, refunded_count,
                     amount, refunded, wallet_usdc>>
  PROVE  /\ CountersAgree' /\ FansMadeWhole' /\ refunded' \subseteq Contributors'
         /\ Contributors' = Contributors
BY DEF CountersAgree, FansMadeWhole, Contributors

LEMMA CreateCampaignIInv ==
  ASSUME IInv, NEW k \in Keys, NEW goal \in 1 .. MaxU64, NEW until \in 0 .. MaxTime,
         CreateCampaign(k, goal, until)
  PROVE  IInv'
<1> USE DEF IInv, CreateCampaign
<1>1. status = "None" /\ refunded = {} /\ raised_amount = 0 /\ contributor_count = 0
  BY DEF StatusFacts
<1>2. refunded_amount = 0 /\ refunded_count = 0
  BY <1>1, SumEmpty, FS_EmptySet DEF CountersAgree
<1>3. UNCHANGED <<raised_amount, refunded_amount, contributor_count, refunded_count,
                  amount, refunded, wallet_usdc>>
  BY <1>1, <1>2 DEF tokens
<1>4. /\ CountersAgree' /\ FansMadeWhole' /\ refunded' \subseteq Contributors'
      /\ Contributors' = Contributors
  BY <1>3, BooksUnchanged
<1>5. TypeOK'
  BY DEF TypeOK, tokens, Statuses
<1>6. (escrow_usdc + released_amount + refunded_amount >= raised_amount)'
  BY DEF tokens, TypeOK
<1>7. StatusFacts'
  BY <1>1 DEF StatusFacts
<1> QED BY <1>4, <1>5, <1>6, <1>7

LEMMA ContributeIInv ==
  ASSUME IInv, NEW w \in Wallets, NEW a \in 1 .. MaxU64, NEW b \in 0 .. MaxU64,
         Contribute(w, a, b)
  PROVE  IInv'
<1> USE DEF IInv, Contribute, Accepting, Pay, Counted, IsFirst
<1>1. a \in Nat /\ a > 0 /\ b \in Nat
  OBVIOUS
<1>2. refunded = {} /\ refunded' = {}
  BY DEF StatusFacts
<1>3. /\ Contributors' = Contributors \cup {w}
      /\ Cardinality(Contributors') =
           IF amount[w] = 0 THEN Cardinality(Contributors) + 1 ELSE Cardinality(Contributors)
      /\ SumOver(amount', Wallets) = SumOver(amount, Wallets) + a
      /\ \A u \in Wallets : amount'[u] = IF u = w THEN amount[w] + a ELSE amount[u]
  BY <1>1, ContributorAdded
<1>4. TypeOK'
  <2>1. amount' \in [Wallets -> 0 .. MaxU64]
    BY <1>1 DEF TypeOK
  <2>2. wallet_usdc' \in [Wallets -> Nat] /\ escrow_usdc' \in Nat /\ outside_usdc' \in Nat
    BY <1>1 DEF TypeOK
  <2>3. contributor_count' \in 0 .. MaxU32 /\ raised_amount' \in 0 .. MaxU64
    BY <1>1 DEF TypeOK
  <2> QED BY <1>2, <2>1, <2>2, <2>3 DEF TypeOK, terms
<1>5. CountersAgree'
  <2>1. SumOver(amount', refunded') = 0 /\ SumOver(amount, refunded) = 0
    BY <1>2, SumEmpty
  <2> QED BY <1>2, <1>3, <2>1 DEF CountersAgree
<1>6. FansMadeWhole'
  <2> SUFFICES ASSUME NEW u \in Wallets
               PROVE  wallet_usdc'[u] = Purse[u] - amount'[u]
    BY <1>2 DEF FansMadeWhole
  <2>1. wallet_usdc[u] = Purse[u] - amount[u]
    BY <1>2 DEF FansMadeWhole
  <2>2. wallet_usdc'[u] = IF u = w THEN wallet_usdc[u] - a ELSE wallet_usdc[u]
    BY DEF TypeOK
  <2> QED BY <1>1, <1>3, <2>1, <2>2 DEF TypeOK
<1>7. (refunded \subseteq Contributors)'
  BY <1>2
<1>8. (escrow_usdc + released_amount + refunded_amount >= raised_amount)'
  BY <1>1 DEF TypeOK
<1>9. StatusFacts'
  BY <1>2 DEF StatusFacts, terms
<1> QED BY <1>4, <1>5, <1>6, <1>7, <1>8, <1>9

LEMMA CloseCampaignIInv ==
  ASSUME IInv, NEW k \in Keys, CloseCampaign(k)
  PROVE  IInv'
<1> USE DEF IInv, CloseCampaign, StatusAtClose
<1>1. /\ CountersAgree' /\ FansMadeWhole' /\ refunded' \subseteq Contributors'
      /\ Contributors' = Contributors
  BY BooksUnchanged DEF counters, tokens
<1>2. status' \in {"Executing", "Closed", "Refunding"}
  OBVIOUS
<1>3. TypeOK'
  BY <1>2 DEF TypeOK, Statuses, counters, tokens, terms
<1>4. (escrow_usdc + released_amount + refunded_amount >= raised_amount)'
  BY DEF counters, tokens
<1>5. refunded = {} /\ released_amount = 0 /\ goal_amount > 0
  BY DEF StatusFacts
<1>6. refunded_count = 0
  BY <1>5, FS_EmptySet DEF CountersAgree
<1>7. contributor_count = 0 => Contributors = {}
  BY FanSums, FS_EmptySet DEF CountersAgree, Contributors, TypeOK
<1>8. StatusFacts'
  <2>1. /\ goal_amount' = goal_amount /\ raised_amount' = raised_amount
        /\ released_amount' = 0 /\ refunded' = {} /\ refunded_count' = 0
        /\ contributor_count' = contributor_count
    BY <1>5, <1>6 DEF counters, terms
  <2>2. CASE raised_amount >= goal_amount
    <3>1. status' = "Executing"
      BY <2>2 DEF TypeOK
    <3> QED BY <1>5, <2>1, <2>2, <3>1 DEF StatusFacts, TypeOK
  <2>3. CASE raised_amount < goal_amount /\ contributor_count = 0
    <3>1. status' = "Closed"
      BY <2>3 DEF TypeOK
    <3> QED BY <1>1, <1>5, <1>7, <2>1, <2>3, <3>1 DEF StatusFacts, TypeOK
  <2>4. CASE raised_amount < goal_amount /\ contributor_count # 0
    <3>1. status' = "Refunding"
      BY <2>4 DEF TypeOK
    <3> QED BY <1>5, <2>1, <2>4, <3>1 DEF StatusFacts, TypeOK
  <2> QED BY <2>2, <2>3, <2>4 DEF TypeOK
<1> QED BY <1>1, <1>3, <1>4, <1>8

LEMMA ReleaseIInv ==
  ASSUME IInv, NEW k \in Keys, NEW a \in 1 .. MaxU64, Release(k, a)
  PROVE  IInv'
<1> USE DEF IInv, Release, StatusAfterRelease
<1>1. /\ CountersAgree' /\ FansMadeWhole' /\ refunded' \subseteq Contributors'
      /\ Contributors' = Contributors
  BY BooksUnchanged
<1>2. TypeOK'
  BY DEF TypeOK, Statuses, terms
<1>3. (escrow_usdc + released_amount + refunded_amount >= raised_amount)'
  BY DEF TypeOK
<1>4. StatusFacts'
  BY DEF StatusFacts, TypeOK, terms
<1> QED BY <1>1, <1>2, <1>3, <1>4

(* A transaction of refunds adds to the repaid sum and count exactly its   *)
(* own contributions.                                                      *)
LEMMA RefundAdds ==
  ASSUME TypeOK, CountersAgree, refunded \subseteq Contributors,
         NEW S, S \subseteq Contributors \ refunded
  PROVE  /\ SumOver(amount, refunded \cup S) = refunded_amount + SumOver(amount, S)
         /\ Cardinality(refunded \cup S) = refunded_count + Cardinality(S)
         /\ SumOver(amount, S) \in Nat /\ Cardinality(S) \in Nat
<1>1. \A w \in Wallets : amount[w] \in Nat
  BY DEF TypeOK
<1>2. S \in SUBSET Wallets /\ refunded \in SUBSET Wallets /\ refunded \cap S = {}
  BY DEF Contributors
<1>3. IsFiniteSet(S) /\ IsFiniteSet(refunded)
  BY <1>1, <1>2, FanSums
<1>4. SumOver(amount, S) \in Nat /\ Cardinality(S) \in Nat /\ Cardinality(refunded) \in Nat
  BY <1>1, <1>2, FanSums
<1>5. SumOver(amount, refunded \cup S) = SumOver(amount, refunded) + SumOver(amount, S)
  BY <1>1, <1>2, <1>3, SumDisjoint
<1>6. Cardinality(refunded \cup S) = Cardinality(refunded) + Cardinality(S) - Cardinality({})
  BY <1>2, <1>3, FS_Union
<1>7. Cardinality({}) = 0
  BY FS_EmptySet
<1>8. Cardinality(refunded \cup S) = Cardinality(refunded) + Cardinality(S)
  BY <1>4, <1>6, <1>7
<1> QED BY <1>4, <1>5, <1>8 DEF CountersAgree

LEMMA RefundIInv ==
  ASSUME IInv, NEW k \in Keys, NEW S \in SUBSET Wallets, Refund(k, S)
  PROVE  IInv'
<1> USE DEF IInv, Refund, Refundable
<1> DEFINE paid == SumOver(amount, S)
<1>1. /\ SumOver(amount, refunded \cup S) = refunded_amount + paid
      /\ Cardinality(refunded \cup S) = refunded_count + Cardinality(S)
      /\ paid \in Nat /\ Cardinality(S) \in Nat
  BY RefundAdds
<1> HIDE DEF paid
<1>2. /\ refunded_amount' = refunded_amount + paid
      /\ escrow_usdc' = escrow_usdc - paid /\ paid <= escrow_usdc
  BY DEF paid
<1>3. Contributors' = Contributors
  BY DEF Contributors
<1>4. TypeOK'
  <2>1. wallet_usdc' \in [Wallets -> Nat]
    BY DEF TypeOK
  <2>2. refunded_amount' \in 0 .. MaxU64 /\ refunded_count' \in 0 .. MaxU32
    BY <1>1, <1>2 DEF TypeOK
  <2>3. escrow_usdc' \in Nat
    BY <1>1, <1>2 DEF TypeOK
  <2>4. status' \in Statuses
    BY DEF Statuses
  <2> QED BY <2>1, <2>2, <2>3, <2>4 DEF TypeOK, terms
<1>5. CountersAgree'
  BY <1>1, <1>2, <1>3 DEF CountersAgree
<1>6. FansMadeWhole'
  <2> SUFFICES ASSUME NEW w \in Wallets
               PROVE  wallet_usdc'[w] = Purse[w] - IF w \in refunded \cup S THEN 0 ELSE amount[w]
    BY DEF FansMadeWhole
  <2>1. wallet_usdc[w] = Purse[w] - IF w \in refunded THEN 0 ELSE amount[w]
    BY DEF FansMadeWhole
  <2>2. wallet_usdc'[w] = wallet_usdc[w] + IF w \in S THEN amount[w] ELSE 0
    OBVIOUS
  <2>3. w \in S => w \notin refunded
    OBVIOUS
  <2>4. amount[w] \in Nat /\ Purse[w] \in Nat /\ wallet_usdc[w] \in Nat
    BY DEF TypeOK
  <2> QED BY <2>1, <2>2, <2>3, <2>4
<1>7. (refunded \subseteq Contributors)'
  BY <1>3
<1>8. (escrow_usdc + released_amount + refunded_amount >= raised_amount)'
  BY <1>1, <1>2 DEF TypeOK
<1>9. StatusFacts'
  <2>1. /\ released_amount = 0 /\ raised_amount < goal_amount /\ goal_amount > 0
    BY DEF StatusFacts
  <2>2. refunded \cup S \subseteq Contributors
    OBVIOUS
  <2>3. IsFiniteSet(Contributors)
    BY FS_Subset DEF Contributors
  <2>4. Cardinality(refunded \cup S) <= Cardinality(Contributors)
        /\ (Cardinality(refunded \cup S) = Cardinality(Contributors)
              => refunded \cup S = Contributors)
    BY <2>2, <2>3, FS_Subset
  <2>5. refunded_count' = Cardinality(refunded \cup S)
        /\ contributor_count = Cardinality(Contributors)
    BY <1>1 DEF CountersAgree
  <2>6. refunded_count' \in Nat /\ contributor_count \in Nat
    BY <1>1 DEF TypeOK
  <2>7. CASE refunded_count' = contributor_count
    <3>1. status' = "Closed" /\ refunded' = Contributors'
      BY <1>3, <2>4, <2>5, <2>7
    <3> QED BY <2>1, <3>1 DEF StatusFacts, terms
  <2>8. CASE refunded_count' # contributor_count
    <3>1. status' = "Refunding"
      BY <2>8
    <3>2. refunded_count' < contributor_count
      BY <2>4, <2>5, <2>6, <2>8
    <3> QED BY <2>1, <3>1, <3>2 DEF StatusFacts, terms
  <2> QED BY <2>7, <2>8
<1> QED BY <1>4, <1>5, <1>6, <1>7, <1>8, <1>9

LEMMA DepositIInv ==
  ASSUME IInv, NEW a \in 1 .. MaxU64, Deposit(a)
  PROVE  IInv'
<1> USE DEF IInv, Deposit, counters, terms
<1>1. /\ CountersAgree' /\ FansMadeWhole' /\ refunded' \subseteq Contributors'
      /\ Contributors' = Contributors
  BY BooksUnchanged
<1>2. TypeOK'
  BY DEF TypeOK, Statuses
<1>3. (escrow_usdc + released_amount + refunded_amount >= raised_amount)'
  BY DEF TypeOK
<1>4. StatusFacts'
  BY <1>1 DEF StatusFacts
<1> QED BY <1>1, <1>2, <1>3, <1>4

LEMMA IdleIInv ==
  ASSUME IInv, Tick \/ UNCHANGED vars
  PROVE  IInv'
<1> USE DEF IInv, Tick, vars, counters, terms, tokens
<1>1. UNCHANGED <<status, terms, counters, amount, refunded, tokens>>
  OBVIOUS
<1>2. /\ CountersAgree' /\ FansMadeWhole' /\ refunded' \subseteq Contributors'
      /\ Contributors' = Contributors
  BY <1>1, BooksUnchanged
<1>3. TypeOK'
  BY DEF TypeOK
<1>4. (escrow_usdc + released_amount + refunded_amount >= raised_amount)'
  BY <1>1
<1>5. StatusFacts'
  BY <1>1, <1>2 DEF StatusFacts
<1> QED BY <1>2, <1>3, <1>4, <1>5

LEMMA StepIInv == IInv /\ [Next]_vars => IInv'
<1> SUFFICES ASSUME IInv, [Next]_vars PROVE IInv'
  OBVIOUS
<1>1. CASE \E k \in Keys, goal \in 1 .. MaxU64, until \in 0 .. MaxTime :
             CreateCampaign(k, goal, until)
  BY <1>1, CreateCampaignIInv
<1>2. CASE \E w \in Wallets, a \in 1 .. MaxU64, b \in 0 .. MaxU64 : Contribute(w, a, b)
  BY <1>2, ContributeIInv
<1>3. CASE \E k \in Keys : CloseCampaign(k)
  BY <1>3, CloseCampaignIInv
<1>4. CASE \E k \in Keys, a \in 1 .. MaxU64 : Release(k, a)
  BY <1>4, ReleaseIInv
<1>5. CASE \E k \in Keys, S \in SUBSET Wallets : Refund(k, S)
  BY <1>5, RefundIInv
<1>6. CASE \E a \in 1 .. MaxU64 : Deposit(a)
  BY <1>6, DepositIInv
<1>7. CASE Tick \/ UNCHANGED vars
  BY <1>7, IdleIInv
<1> QED BY <1>1, <1>2, <1>3, <1>4, <1>5, <1>6, <1>7 DEF Next

(* IInv holds in every reachable state of the program: the base of every   *)
(* theorem below.                                                          *)
THEOREM EscrowInductive == Spec => []IInv
BY InitIInv, StepIInv, PTL DEF Spec

(* The fields of the accounts stay in the range of their u64 and u32 types. *)
THEOREM EscrowTypes == Spec => []TypeOK
<1>1. IInv => TypeOK
  BY DEF IInv
<1> QED BY <1>1, EscrowInductive, PTL

(* The campaign's counters equal the sums and counts of its contributions. *)
THEOREM EscrowCounters == Spec => []CountersAgree
<1>1. IInv => CountersAgree
  BY DEF IInv
<1> QED BY <1>1, EscrowInductive, PTL

(* Every fan is out of pocket by exactly the unrefunded contribution. *)
THEOREM EscrowFansMadeWhole == Spec => []FansMadeWhole
<1>1. IInv => FansMadeWhole
  BY DEF IInv
<1> QED BY <1>1, EscrowInductive, PTL

(* The pledge splits into what was repaid and what was not. *)
LEMMA OwedToFans ==
  ASSUME IInv
  PROVE  /\ SumOver(amount, Contributors \ refunded) \in Nat
         /\ refunded_amount + SumOver(amount, Contributors \ refunded) <= raised_amount
<1>1. \A w \in Wallets : amount[w] \in Nat
  BY DEF IInv, TypeOK
<1>2. Contributors \in SUBSET Wallets
  BY DEF Contributors
<1>3. SumOver(amount, refunded \cup (Contributors \ refunded))
        = refunded_amount + SumOver(amount, Contributors \ refunded)
  BY RefundAdds DEF IInv
<1>4. SumOver(amount, refunded \cup (Contributors \ refunded)) <= SumOver(amount, Wallets)
  <2>1. refunded \cup (Contributors \ refunded) \subseteq Wallets
    BY <1>2 DEF IInv
  <2> QED BY <1>1, <2>1, SumMono
<1>5. SumOver(amount, Contributors \ refunded) \in Nat
  BY <1>1, <1>2, FanSums
<1> QED BY <1>3, <1>4, <1>5 DEF IInv, CountersAgree

LEMMA CoversFromIInv == IInv => EscrowCovers
<1> SUFFICES ASSUME IInv PROVE EscrowCovers
  OBVIOUS
<1>1. TypeOK /\ StatusFacts /\ escrow_usdc + released_amount + refunded_amount >= raised_amount
  BY DEF IInv
<1>2. CASE status = "Executing"
  <2>1. refunded_amount = 0
    BY <1>2, SumEmpty DEF IInv, StatusFacts, CountersAgree
  <2>2. Owed = raised_amount - released_amount
    BY <1>2 DEF Owed
  <2> QED BY <1>1, <2>1, <2>2 DEF EscrowCovers, TypeOK
<1>3. CASE status \in {"Funding", "Refunding"}
  <2>1. released_amount = 0
    BY <1>1, <1>3 DEF StatusFacts
  <2>2. Owed = SumOver(amount, Contributors \ refunded)
    BY <1>3 DEF Owed
  <2> HIDE DEF Owed
  <2> QED BY <1>1, <2>1, <2>2, OwedToFans DEF EscrowCovers, TypeOK
<1>4. CASE status \in {"None", "Closed"}
  <2>1. Owed = 0
    BY <1>4 DEF Owed
  <2> QED BY <1>1, <2>1 DEF EscrowCovers, TypeOK
<1> QED BY <1>1, <1>2, <1>3, <1>4 DEF TypeOK, Statuses

(* The campaign's token account can always pay what the campaign owes. *)
THEOREM EscrowIsCovered == Spec => []EscrowCovers
BY EscrowInductive, CoversFromIInv, PTL

LEMMA NeverStuckFromIInv == IInv => RefundNeverStuck
<1> SUFFICES ASSUME IInv, status = "Refunding"
             PROVE  /\ Contributors \ refunded # {}
                    /\ \A w \in Contributors \ refunded :
                         /\ amount[w] <= escrow_usdc
                         /\ refunded_amount + amount[w] <= MaxU64
                         /\ refunded_count + 1 <= MaxU32
  BY DEF RefundNeverStuck
<1>1. TypeOK /\ CountersAgree /\ refunded \subseteq Contributors
  BY DEF IInv
<1>2. refunded_count < contributor_count
  BY DEF IInv, StatusFacts
<1>3. Contributors \ refunded # {}
  <2> SUFFICES ASSUME Contributors \ refunded = {} PROVE FALSE
    OBVIOUS
  <2>1. refunded = Contributors
    BY <1>1
  <2> QED BY <1>1, <1>2, <2>1 DEF CountersAgree, TypeOK
<1>4. ASSUME NEW w \in Contributors \ refunded
      PROVE  /\ amount[w] <= escrow_usdc
             /\ refunded_amount + amount[w] <= MaxU64
             /\ refunded_count + 1 <= MaxU32
  <2>1. \A u \in Wallets : amount[u] \in Nat
    BY <1>1 DEF TypeOK
  <2>2. amount[w] \in Nat
    BY <2>1 DEF Contributors
  <2>3. amount[w] <= SumOver(amount, Contributors \ refunded)
    <3>1. IsFiniteSet(Contributors \ refunded) /\ Contributors \ refunded \subseteq Wallets
      BY FS_Subset DEF Contributors
    <3> QED BY <2>1, <3>1, SumMember
  <2>4. SumOver(amount, Contributors \ refunded) <= escrow_usdc
    <3>1. EscrowCovers
      BY CoversFromIInv
    <3>2. Owed = SumOver(amount, Contributors \ refunded)
      BY DEF Owed
    <3> QED BY <3>1, <3>2 DEF EscrowCovers, TypeOK
  <2>5. /\ SumOver(amount, Contributors \ refunded) \in Nat
        /\ refunded_amount + SumOver(amount, Contributors \ refunded) <= raised_amount
    BY OwedToFans
  <2> QED BY <1>1, <1>2, <2>2, <2>3, <2>4, <2>5 DEF TypeOK
<1> QED BY <1>3, <1>4

(* A refunding campaign always has a refund left, and each one goes through. *)
THEOREM EscrowRefundNeverStuck == Spec => []RefundNeverStuck
BY EscrowInductive, NeverStuckFromIInv, PTL

LEMMA NoOverflowFromIInv == IInv => NoOverflow
<1> SUFFICES ASSUME IInv, status = "Funding", NEW w \in Wallets
             PROVE  /\ amount[w] + wallet_usdc[w] <= MaxU64
                    /\ raised_amount + wallet_usdc[w] <= MaxU64
  BY DEF NoOverflow
<1> DEFINE all == [amount EXCEPT ![w] = Purse[w]]
<1>1. amount \in [Wallets -> Nat] /\ wallet_usdc \in [Wallets -> Nat]
  BY DEF IInv, TypeOK
<1>2. \A u \in Wallets : wallet_usdc[u] = Purse[u] - amount[u]
  BY DEF IInv, FansMadeWhole, StatusFacts
<1>3. \A u \in Wallets : amount[u] <= Purse[u]
  BY <1>1, <1>2
<1>4. SumOver(all, Wallets) + amount[w] = SumOver(amount, Wallets) + Purse[w]
  <2>1. Purse[w] \in Nat
    OBVIOUS
  <2> QED BY ZenonT(40), <1>1, <2>1, SumUpdate
<1>5. \A u \in Wallets : all[u] \in Nat /\ Purse[u] \in Nat /\ all[u] <= Purse[u]
  BY <1>1, <1>3
<1>6. SumOver(all, Wallets) <= SumOver(Purse, Wallets)
  BY <1>5, SumMono
<1>7. /\ SumOver(all, Wallets) \in Nat /\ SumOver(Purse, Wallets) \in Nat
      /\ SumOver(amount, Wallets) \in Nat
  BY <1>1, <1>5, SumType
<1>8. Purse[w] <= SumOver(Purse, Wallets)
  BY <1>5, SumMember
<1>9. raised_amount = SumOver(amount, Wallets)
  BY DEF IInv, CountersAgree
<1> HIDE DEF all
<1>10. amount[w] + wallet_usdc[w] = Purse[w]
  BY <1>1, <1>2
<1>11. raised_amount + wallet_usdc[w] = SumOver(all, Wallets)
  BY <1>1, <1>2, <1>4, <1>7, <1>9
<1>12. SumOver(Purse, Wallets) <= MaxU64
  BY <1>7
<1> QED BY <1>1, <1>6, <1>7, <1>8, <1>10, <1>11, <1>12

(* No payment a wallet can make overflows the u64 sums of the accounts. *)
THEOREM EscrowNoOverflow == Spec => []NoOverflow
BY EscrowInductive, NoOverflowFromIInv, PTL

LEMMA SettledFromIInv == IInv => ClosedIsSettled
<1> SUFFICES ASSUME IInv, status = "Closed", released_amount = 0, refunded = Contributors
             PROVE  wallet_usdc = Purse
  BY DEF IInv, StatusFacts, ClosedIsSettled
<1>1. wallet_usdc \in [Wallets -> Nat] /\ amount \in [Wallets -> Nat]
  BY DEF IInv, TypeOK
<1>2. ASSUME NEW w \in Wallets PROVE wallet_usdc[w] = Purse[w]
  <2>1. wallet_usdc[w] = Purse[w] - IF w \in refunded THEN 0 ELSE amount[w]
    BY DEF IInv, FansMadeWhole
  <2>2. w \notin refunded => amount[w] = 0
    BY <1>1 DEF Contributors
  <2> QED BY <2>1, <2>2
<1> QED BY <1>1, <1>2

(* A closed campaign has spent everything or repaid everybody. *)
THEOREM EscrowClosedIsSettled == Spec => []ClosedIsSettled
BY EscrowInductive, SettledFromIInv, PTL

-----------------------------------------------------------------------------
(* The program implements Custody. *)

LEMMA InitPromise == Init => Promise!Init
BY DEF Init, Promise!Init

LEMMA StepPromise == IInv /\ [Next]_vars => [Promise!Next]_(Promise!vars)
<1> SUFFICES ASSUME IInv, [Next]_vars PROVE Promise!Next \/ UNCHANGED Promise!vars
  OBVIOUS
<1> USE DEF IInv
<1>0. Promise!Pledged = raised_amount /\ Promise!Holders = Contributors
  BY DEF TotalOf, CountersAgree, Promise!Pledged, Promise!Holders, Contributors
<1>1. ASSUME NEW k \in Keys, NEW goal \in 1 .. MaxU64, NEW until \in 0 .. MaxTime,
             CreateCampaign(k, goal, until)
      PROVE  Promise!Open
  BY <1>1 DEF CreateCampaign, Promise!Open, StatusFacts
<1>2. ASSUME NEW w \in Wallets, NEW a \in 1 .. MaxU64, NEW b \in 0 .. MaxU64,
             Contribute(w, a, b)
      PROVE  Promise!Collect
  <2>1. refunded' = refunded
    BY <1>2 DEF Contribute, StatusFacts, Accepting
  <2>2. amount'[w] > amount[w] /\ amount' = [amount EXCEPT ![w] = amount'[w]]
    BY <1>2 DEF Contribute, TypeOK
  <2> QED BY <1>2, <2>1, <2>2 DEF Contribute, Accepting, terms, Promise!Collect
<1>3. ASSUME NEW k \in Keys, CloseCampaign(k)
      PROVE  Promise!Decide
  <2>1. contributor_count = 0 <=> Contributors = {}
    BY FanSums, FS_EmptySet DEF CountersAgree, Contributors, TypeOK
  <2>2. status' = IF raised_amount >= goal_amount THEN "Executing"
                  ELSE IF Contributors = {} THEN "Closed" ELSE "Refunding"
    BY <1>3, <2>1 DEF CloseCampaign, StatusAtClose, TypeOK
  <2> QED BY <1>0, <1>3, <2>2 DEF CloseCampaign, counters, terms, Promise!Decide
<1>4. ASSUME NEW k \in Keys, NEW a \in 1 .. MaxU64, Release(k, a)
      PROVE  Promise!Spend
  <2>1. released_amount' \in released_amount + 1 .. raised_amount
    BY <1>4 DEF Release, TypeOK
  <2> QED BY <1>0, <1>4, <2>1 DEF Release, StatusAfterRelease, terms, Promise!Spend
<1>5. ASSUME NEW k \in Keys, NEW S \in SUBSET Wallets, Refund(k, S)
      PROVE  Promise!Repay
  <2>1. S # {} /\ S \subseteq Contributors \ refunded /\ refunded' = refunded \cup S
    BY <1>5 DEF Refund, Refundable
  <2>2. refunded_count' = Cardinality(refunded \cup S)
    BY <1>5, <2>1, RefundAdds DEF Refund
  <2>3. IsFiniteSet(Contributors)
    BY FS_Subset DEF Contributors
  <2>4. refunded_count' = contributor_count <=> refunded \cup S = Contributors
    BY <2>1, <2>2, <2>3, FS_Subset DEF CountersAgree
  <2> QED BY <1>0, <1>5, <2>1, <2>4 DEF Refund, terms, Promise!Repay
<1>6. ASSUME (\E a \in 1 .. MaxU64 : Deposit(a)) \/ Tick \/ UNCHANGED vars
      PROVE  UNCHANGED Promise!vars
  BY <1>6 DEF Deposit, Tick, vars, terms, counters, Promise!vars
<1> QED BY <1>1, <1>2, <1>3, <1>4, <1>5, <1>6 DEF Next, Promise!Next

(* Every behaviour of the escrow program is one Custody allows. *)
THEOREM EscrowKeepsPromise == Spec => PromiseSpec
BY InitPromise, StepPromise, EscrowInductive, PTL DEF Spec, PromiseSpec, Promise!Spec
=============================================================================
