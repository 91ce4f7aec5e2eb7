------------------------------- MODULE Escrow -------------------------------
(***************************************************************************)
(* The Anchor escrow program: one campaign account (a PDA derived from the *)
(* campaign's uuid), the Contribution account of every fan's wallet, and   *)
(* the USDC token accounts they move.  An instruction runs alone and either *)
(* commits or changes nothing, so each instruction is one action whose     *)
(* guards are the require!s, the account constraints, the checked          *)
(* arithmetic and the balance check of the SPL transfer.                   *)
(***************************************************************************)
EXTENDS Sums

CONSTANTS Wallets,   \* fans' wallets
          Keys,      \* keys that can sign as agent_authority
          NoKey,     \* agent_authority of an account that does not exist yet
          Purse,     \* USDC each wallet holds at the start
          Outside,   \* USDC held at the start by vendors and everybody else
          MaxU64, MaxU32,
          MaxTime    \* bound of the clock

ASSUME EscrowAssumption ==
  /\ IsFiniteSet(Wallets)
  /\ NoKey \notin Keys
  /\ Purse \in [Wallets -> Nat]
  /\ Outside \in Nat /\ MaxU64 \in Nat /\ MaxU32 \in Nat /\ MaxTime \in Nat
  /\ SumOver(Purse, Wallets) + Outside <= MaxU64   \* a mint's supply is a u64

VARIABLES
  status,                        \* "None" before create_campaign
  agent_authority, goal_amount, deadline,
  raised_amount, released_amount, refunded_amount,
  contributor_count, refunded_count,
  amount,                        \* Contribution.amount; 0: no account
  refunded,                      \* wallets whose Contribution.refunded is set
  escrow_usdc,                   \* the campaign's token account
  wallet_usdc,                   \* the fans' token accounts
  outside_usdc,                  \* every other token account
  now                            \* Clock::unix_timestamp

terms    == <<agent_authority, goal_amount, deadline>>
counters == <<raised_amount, released_amount, refunded_amount,
              contributor_count, refunded_count>>
tokens   == <<escrow_usdc, wallet_usdc, outside_usdc>>
vars     == <<status, terms, counters, amount, refunded, tokens, now>>

Statuses == {"None", "Funding", "Executing", "Refunding", "Closed"}

Contributors == {w \in Wallets : amount[w] > 0}

Init ==
  /\ status = "None" /\ agent_authority = NoKey
  /\ goal_amount = 0 /\ deadline = 0
  /\ raised_amount = 0 /\ released_amount = 0 /\ refunded_amount = 0
  /\ contributor_count = 0 /\ refunded_count = 0
  /\ amount = [w \in Wallets |-> 0] /\ refunded = {}
  /\ escrow_usdc = 0 /\ wallet_usdc = Purse /\ outside_usdc = Outside
  /\ now = 0

-----------------------------------------------------------------------------
(* Instructions. *)

CreateCampaign(k, goal, until) ==
  /\ status = "None"
  /\ goal > 0 /\ until > now
  /\ status' = "Funding"
  /\ agent_authority' = k /\ goal_amount' = goal /\ deadline' = until
  /\ raised_amount' = 0 /\ released_amount' = 0 /\ refunded_amount' = 0
  /\ contributor_count' = 0 /\ refunded_count' = 0
  /\ UNCHANGED <<amount, refunded, tokens, now>>

(* Fault: the status check is forgotten. *)
FaultAcceptingAnyStatus == now <= deadline

Accepting == status = "Funding" /\ now <= deadline

(* Fault: every contribution counts as a contributor. *)
FaultIsFirst(w) == TRUE

(* init_if_needed leaves amount 0 on the account of a first-time contributor. *)
IsFirst(w) == amount[w] = 0

(* Fault: the contribution is recorded although the transfer moved nothing. *)
FaultPay(w, a, b) == a <= wallet_usdc[w] /\ b <= outside_usdc /\ UNCHANGED tokens

(* The SPL transfer of a contribution, and what else its transaction sends *)
(* to the campaign's token account: a plain transfer of b, which the       *)
(* program does not see.                                                   *)
Pay(w, a, b) ==
  /\ a <= wallet_usdc[w] /\ b <= outside_usdc
  /\ wallet_usdc' = [wallet_usdc EXCEPT ![w] = @ - a]
  /\ outside_usdc' = outside_usdc - b
  /\ escrow_usdc' = escrow_usdc + a + b

(* Fault: a plain + where the program has checked_add. *)
FaultCounted(w) ==
  contributor_count' = IF IsFirst(w) THEN contributor_count + 1 ELSE contributor_count

Counted(w) ==
  /\ contributor_count' = IF IsFirst(w) THEN contributor_count + 1 ELSE contributor_count
  /\ contributor_count' <= MaxU32

Contribute(w, a, b) ==
  /\ a > 0 /\ Accepting
  /\ Pay(w, a, b)
  /\ Counted(w)
  /\ refunded' = IF IsFirst(w) THEN refunded \ {w} ELSE refunded
  /\ amount' = [amount EXCEPT ![w] = @ + a] /\ amount[w] + a <= MaxU64
  /\ raised_amount' = raised_amount + a /\ raised_amount' <= MaxU64
  /\ UNCHANGED <<status, terms, released_amount, refunded_amount, refunded_count, now>>

(* Fault: nobody thought of a campaign without contributors. *)
FaultStatusAtCloseNobody == IF raised_amount >= goal_amount THEN "Executing" ELSE "Refunding"

(* Fault: the goal has to be exceeded. *)
FaultStatusAtCloseStrict ==
  CASE raised_amount > goal_amount -> "Executing"
    [] raised_amount <= goal_amount /\ contributor_count = 0 -> "Closed"
    [] OTHER -> "Refunding"

StatusAtClose ==
  CASE raised_amount >= goal_amount -> "Executing"
    [] raised_amount < goal_amount /\ contributor_count = 0 -> "Closed"
    [] OTHER -> "Refunding"

CloseCampaign(k) ==
  /\ k = agent_authority
  /\ status = "Funding"
  /\ status' = StatusAtClose
  /\ UNCHANGED <<terms, counters, amount, refunded, tokens, now>>

(* Fault: the goal is taken for the whole pledge. *)
FaultStatusAfterRelease(released) == IF released >= goal_amount THEN "Closed" ELSE status

StatusAfterRelease(released) == IF released = raised_amount THEN "Closed" ELSE status

Release(k, a) ==
  /\ k = agent_authority
  /\ a > 0 /\ status = "Executing"
  /\ released_amount <= raised_amount /\ a <= raised_amount - released_amount
  /\ a <= escrow_usdc
  /\ escrow_usdc' = escrow_usdc - a /\ outside_usdc' = outside_usdc + a
  /\ released_amount' = released_amount + a /\ released_amount' <= MaxU64
  /\ status' = StatusAfterRelease(released_amount')
  /\ UNCHANGED <<terms, raised_amount, refunded_amount, contributor_count, refunded_count,
                 amount, refunded, wallet_usdc, now>>

(* Fault: the AlreadyRefunded check is missing. *)
FaultRefundable == Contributors

(* The contributions a transaction may pay back: each instruction requires the flag unset. *)
Refundable == Contributors \ refunded

(* One transaction carrying a refund instruction for every contribution in *)
(* S: the sidecar packs several, and one failing instruction fails them all. *)
Refund(k, S) ==
  /\ k = agent_authority
  /\ status = "Refunding"
  /\ S # {} /\ S \subseteq Refundable
  /\ SumOver(amount, S) <= escrow_usdc
  /\ escrow_usdc' = escrow_usdc - SumOver(amount, S)
  /\ wallet_usdc' = [w \in Wallets |-> wallet_usdc[w] + IF w \in S THEN amount[w] ELSE 0]
  /\ refunded' = refunded \cup S
  /\ refunded_amount' = refunded_amount + SumOver(amount, S) /\ refunded_amount' <= MaxU64
  /\ refunded_count' = refunded_count + Cardinality(S) /\ refunded_count' <= MaxU32
  /\ status' = IF refunded_count' = contributor_count THEN "Closed" ELSE status
  /\ UNCHANGED <<terms, raised_amount, released_amount, contributor_count, amount,
                 outside_usdc, now>>

(* Outside the program: anybody may send USDC straight to the campaign's   *)
(* token account, whose address is public; the program is not told.        *)
Deposit(a) ==
  /\ a > 0 /\ a <= outside_usdc
  /\ outside_usdc' = outside_usdc - a /\ escrow_usdc' = escrow_usdc + a
  /\ UNCHANGED <<status, terms, counters, amount, refunded, wallet_usdc, now>>

Tick ==
  /\ now < MaxTime
  /\ now' = now + 1
  /\ UNCHANGED <<status, terms, counters, amount, refunded, tokens>>

Next ==
  \/ \E k \in Keys, goal \in 1 .. MaxU64, until \in 0 .. MaxTime : CreateCampaign(k, goal, until)
  \/ \E w \in Wallets, a \in 1 .. MaxU64, b \in 0 .. MaxU64 : Contribute(w, a, b)
  \/ \E k \in Keys : CloseCampaign(k)
  \/ \E k \in Keys, a \in 1 .. MaxU64 : Release(k, a)
  \/ \E k \in Keys, S \in SUBSET Wallets : Refund(k, S)
  \/ \E a \in 1 .. MaxU64 : Deposit(a)
  \/ Tick

Spec == Init /\ [][Next]_vars

-----------------------------------------------------------------------------
(* Properties. *)

(* Every account field has its type: u64 and u32 fields stay in range, the *)
(* refunded flag exists only for fans.                                     *)
TypeOK ==
  /\ status \in Statuses
  /\ agent_authority \in Keys \cup {NoKey}
  /\ goal_amount \in 0 .. MaxU64 /\ deadline \in Nat /\ now \in Nat
  /\ raised_amount \in 0 .. MaxU64 /\ released_amount \in 0 .. MaxU64
  /\ refunded_amount \in 0 .. MaxU64
  /\ contributor_count \in 0 .. MaxU32 /\ refunded_count \in 0 .. MaxU32
  /\ amount \in [Wallets -> 0 .. MaxU64] /\ refunded \in SUBSET Wallets
  /\ escrow_usdc \in Nat /\ outside_usdc \in Nat /\ wallet_usdc \in [Wallets -> Nat]

(* The counters of the Campaign account, which decide its fate, agree with *)
(* the Contribution accounts they summarise, whatever mix of first and     *)
(* repeated contributions and of single and batched refunds came before.   *)
CountersAgree ==
  /\ raised_amount = SumOver(amount, Wallets)
  /\ contributor_count = Cardinality(Contributors)
  /\ refunded_amount = SumOver(amount, refunded)
  /\ refunded_count = Cardinality(refunded)

(* What the campaign's token account has received so far. *)
Received == escrow_usdc + released_amount + refunded_amount

(* What the campaign's token account still has to be able to pay. *)
Owed == CASE status = "Executing" -> raised_amount - released_amount
          [] status \in {"Funding", "Refunding"} -> SumOver(amount, Contributors \ refunded)
          [] OTHER -> 0

(* The campaign's token account always holds at least what it owes: the    *)
(* unspent pledge while executing, every unreturned contribution otherwise. *)
EscrowCovers == escrow_usdc >= Owed

(* A fan is out of pocket by exactly the contribution recorded for the     *)
(* wallet, and by nothing once it was refunded: no partial and no double   *)
(* payment in either direction.                                            *)
FansMadeWhole ==
  \A w \in Wallets :
    wallet_usdc[w] = Purse[w] - IF w \in refunded THEN 0 ELSE amount[w]

(* A campaign in Refunding always has a contribution left to pay back, and *)
(* each one left can be paid back now, in any order: there is money for it *)
(* and no counter overflows.  (A campaign closed without contributors must *)
(* not get there: it could never leave.)                                   *)
RefundNeverStuck ==
  status = "Refunding" =>
    /\ Contributors \ refunded # {}
    /\ \A w \in Contributors \ refunded :
         /\ amount[w] <= escrow_usdc
         /\ refunded_amount + amount[w] <= MaxU64
         /\ refunded_count + 1 <= MaxU32

(* The u64 overflow errors of contribute are unreachable: the sums stay    *)
(* within the mint's supply for any amount a wallet can pay.  (That of     *)
(* release cannot occur either: its guard keeps released within raised.)   *)
NoOverflow ==
  status = "Funding" =>
    \A w \in Wallets : /\ amount[w] + wallet_usdc[w] <= MaxU64
                        /\ raised_amount + wallet_usdc[w] <= MaxU64

(* A closed campaign is settled: all that was raised was spent, after      *)
(* reaching the goal, or every fan's wallet is back at what it held.       *)
ClosedIsSettled ==
  status = "Closed" =>
    \/ /\ released_amount = raised_amount /\ raised_amount >= goal_amount
       /\ refunded = {}
    \/ released_amount = 0 /\ wallet_usdc = Purse

(* What the status of the campaign says about its counters and accounts.   *)
StatusFacts ==
  /\ status = "None" => raised_amount = 0 /\ contributor_count = 0
  /\ status # "None" => goal_amount > 0
  /\ status \in {"None", "Funding", "Refunding"} => released_amount = 0
  /\ status \in {"None", "Funding", "Executing"} => refunded = {}
  /\ status = "Executing" => goal_amount <= raised_amount /\ released_amount < raised_amount
  /\ status = "Refunding" => raised_amount < goal_amount /\ refunded_count < contributor_count
  /\ status = "Closed" =>
       \/ /\ released_amount = raised_amount /\ raised_amount >= goal_amount
          /\ refunded = {}
       \/ released_amount = 0 /\ refunded = Contributors

(* The money and the flags behind the counters: the inductive strengthening *)
(* of the properties above, each of which follows from it.                 *)
IInv ==
  /\ TypeOK
  /\ CountersAgree
  /\ FansMadeWhole
  /\ refunded \subseteq Contributors
  /\ escrow_usdc + released_amount + refunded_amount >= raised_amount
  /\ StatusFacts

(* The program implements the promise of Custody: the counters stand for   *)
(* the sums and sets they summarise, the decision is made once on what was *)
(* really pledged, and pledges are spent or handed back, never both.       *)
TotalOf(f) == SumOver(f, Wallets)

Promise == INSTANCE Custody WITH
  Backers <- Wallets, Total <- TotalOf, phase <- status, target <- goal_amount, stake <- amount,
  repaid <- refunded, spent <- released_amount

PromiseSpec == Promise!Spec
=============================================================================
