--------------------------- MODULE FundingProofs ---------------------------
(***************************************************************************)
(* Proofs about the funding phase for every set of wallets, references,    *)
(* handlers, transactions and tiers.  Every step on chain is a step of the *)
(* escrow program, so IInv (module EscrowProofs) holds; FundingInv adds    *)
(* what the API's rows, its handlers and the transactions in flight know   *)
(* of each other, and each property follows from it.                       *)
(***************************************************************************)
EXTENDS Funding, EscrowProofs

USE FundingAssumption, EscrowAssumption

RequestRows == [status : {"none", "posted", "pending", "confirmed"}, amount : 0 .. MaxU64,
                tier : Tiers \cup {None}, wallet : Wallets \cup {None}, sig : TxIds \cup {None}]

Tasks == [ref : Refs \cup {None}, wallet : Wallets \cup {None}, was : Wallets \cup {None},
          sig : TxIds \cup {None}, first : BOOLEAN, until : Nat]

Transactions == [state : {"free", "built", "landed", "failed"}, refs : SUBSET Refs,
                 from : Wallets \cup {None}, amount : 0 .. MaxU64, plain : 0 .. MaxU64,
                 calls : BOOLEAN]

FundTypes ==
  /\ opening \in [at : {"idle", "posted", "made", "done", "failed"}, goal : Nat, until : Nat,
                  row : Nat, tx : {"none", "flying", "landed", "dead"}]
  /\ db_status \in Statuses /\ db_goal \in Nat /\ db_deadline \in Nat
  /\ db_raised \in Nat /\ db_count \in Nat
  /\ DOMAIN sold \subseteq Tiers /\ sold \in [DOMAIN sold -> Nat]
  /\ request \in [Refs -> RequestRows] /\ row \in [Refs -> Wallets \cup {None}]
  /\ pc \in [Slots -> {"idle", "update", "build", "asked", "found", "claimed"}]
  /\ task \in [Slots -> Tasks]
  /\ tx \in [TxIds -> Transactions] /\ history \in Seq(TxIds)

(* What POST /campaign knows of its transaction, and what the row, and an  *)
(* edit of it under way, took from there.                                  *)
OpeningInv ==
  /\ opening.at = "idle" <=> opening.tx = "none"
  /\ opening.tx # "none" => /\ opening.goal \in Goals /\ opening.until \in Deadlines
                             /\ opening.row \in {opening.until, opening.until + 1}
  /\ opening.tx = "landed" <=> status # "None"
  /\ status # "None" =>
       agent_authority = Agent /\ goal_amount = opening.goal /\ deadline = opening.until
  /\ opening.at \in {"made", "done"} => status # "None"
  /\ db_status # "None" => opening.at = "done" /\ db_goal = opening.goal
                             /\ db_deadline <= opening.row
  /\ \A h \in Slots : pc[h] = "update" => opening.at = "done" /\ task[h].until <= opening.row

(* Transaction i pays request q. *)
Backs(i, q) == i \in TxIds /\ q \in tx[i].refs /\ Proves(i, q)

(* A request is confirmed with the row of its contribution and with the    *)
(* transaction that paid it.                                               *)
RowsAgree(q) ==
  /\ request[q].status # "none" => request[q].amount > 0
  /\ request[q].tier # None => request[q].tier \in DOMAIN sold
  /\ request[q].status = "confirmed" <=> row[q] # None
  /\ request[q].status = "confirmed" <=> request[q].sig # None
  /\ request[q].status = "confirmed" => Backs(request[q].sig, q)

(* No transaction backs two requests. *)
OwnSigs == \A p, q \in Refs : request[p].sig # None /\ request[p].sig = request[q].sig => p = q

RequestInv == (\A q \in Refs : RowsAgree(q)) /\ OwnSigs

Landed == {i \in TxIds : tx[i].state = "landed"}
TxAmounts == [i \in TxIds |-> tx[i].amount]
TxTotals == [i \in TxIds |-> tx[i].amount + tx[i].plain]

Sendable(t) == t.calls /\ t.from \in Wallets /\ t.amount > 0 /\ t.plain = 0

(* The escrow program counted what the transactions that landed contributed, *)
(* and its token account received that and what they transferred beside it. *)
NetworkInv ==
  /\ \A i \in TxIds : tx[i].state = "built" => Sendable(tx[i])
  /\ IsFiniteSet(Landed)
  /\ raised_amount = SumOver(TxAmounts, Landed)
  /\ Received = SumOver(TxTotals, Landed)

(* What a handler remembers of a request is so when it uses it: the        *)
(* transaction found is there, a claimed request is pending.               *)
Remembers(h) ==
  LET q == task[h].ref IN
  /\ pc[h] \in {"build", "asked", "found", "claimed"} =>
       q \in Refs /\ task[h].wallet \in Wallets /\ Shown(q)
  /\ pc[h] \in {"found", "claimed"} => Backs(task[h].sig, q)
  /\ pc[h] = "claimed" =>
       /\ h \in Checkers /\ request[q].status = "pending" /\ Unused(task[h].sig)
       /\ task[h].first \/ ~FirstOf(task[h].wallet)

(* A request is claimed by one handler at a time, and so is a signature. *)
ClaimedOnce ==
  \A h, k \in Slots :
    /\ pc[h] = "claimed" /\ pc[k] = "claimed"
    /\ task[h].ref = task[k].ref \/ task[h].sig = task[k].sig
    => h = k

HandlerInv == (\A h \in Slots : Remembers(h)) /\ ClaimedOnce

(* Nothing is released in this phase: a campaign closed is one that failed. *)
ClosedMissed == status = "Closed" => raised_amount < goal_amount

FundingInv ==
  /\ IInv
  /\ FundTypes
  /\ OpeningInv
  /\ RequestInv
  /\ NetworkInv
  /\ HandlerInv
  /\ TotalsAgree
  /\ ClosedMissed

-----------------------------------------------------------------------------
(* The steps: of the campaign and its page, of payments on their way, and  *)
(* of the handlers that edit the page and record payments.                 *)

CampaignStep ==
  \/ \E goal \in Goals, until \in Deadlines, kept \in 1 .. MaxTime + 1 :
       StartCreate(goal, until, kept)
  \/ CreateLands \/ CreateDies \/ CreateReply \/ CommitCreate \/ CreateGivesUp
  \/ \E t \in Tiers : CreateTier(t)
  \/ Closing \/ RowCloses \/ FundingTick \/ UNCHANGED funding

(* Somebody else's transaction i. *)
Foreign(i) ==
  \E Q \in SUBSET Refs, w \in Wallets, a, b \in 0 .. MaxU64, calls \in BOOLEAN :
    OtherTransaction(i, Q, w, a, b, calls)

PayingStep ==
  \/ \E q \in Refs, t \in Tiers \cup {None}, a \in 1 .. MaxU64 : StartPaymentRequest(q, t, a)
  \/ \E q \in Refs : InsertPaymentRequest(q)
  \/ \E h \in Payers, q \in Refs, w \in Wallets : StartPayTx(h, q, w)
  \/ \E h \in Payers : FinishPayTx(h)
  \/ \E i \in TxIds : PaymentLands(i) \/ PaymentFails(i) \/ Foreign(i)

HandlerStep ==
  \/ \E e \in Editors, until \in 1 .. MaxTime : StartUpdate(e, until)
  \/ \E e \in Editors : CommitUpdate(e)
  \/ \E h \in Checkers, q \in Refs, sig \in TxIds \cup {None} : Ask(h, q, sig)
  \/ \E h \in Checkers : Scan(h) \/ Claim(h) \/ CommitConfirm(h)
  \/ \E h \in Slots : GiveUp(h)

LEMMA FundingSteps ==
  ASSUME [FundingNext]_funding
  PROVE  CampaignStep \/ PayingStep \/ HandlerStep
BY DEF FundingNext, CampaignStep, PayingStep, HandlerStep, Foreign

-----------------------------------------------------------------------------
(* The initial states. *)

LEMMA InitFundingInv == FundingInit => FundingInv
<1> SUFFICES ASSUME FundingInit PROVE FundingInv
  OBVIOUS
<1> USE DEF FundingInit
<1>1. IInv
  BY InitIInv
<1>2. status = "None" /\ raised_amount = 0
  BY DEF Init
<1>3. FundTypes
  <2>1. DOMAIN sold = {} /\ sold \in [DOMAIN sold -> Nat]
    OBVIOUS
  <2>2. history \in Seq(TxIds)
    OBVIOUS
  <2>3. NoRequest \in RequestRows /\ NoTask \in Tasks /\ NoTx \in Transactions
    BY DEF NoRequest, NoTask, NoTx, RequestRows, Tasks, Transactions
  <2>4. request \in [Refs -> RequestRows] /\ task \in [Slots -> Tasks]
        /\ tx \in [TxIds -> Transactions]
    BY <2>3
  <2> QED BY <2>1, <2>2, <2>4 DEF FundTypes, Statuses
<1>4. OpeningInv
  BY <1>2 DEF OpeningInv
<1>5. RequestInv
  BY DEF RequestInv, RowsAgree, OwnSigs, NoRequest
<1>6. NetworkInv
  <2>1. Landed = {}
    BY DEF Landed, NoTx
  <2>2. IsFiniteSet({}) /\ SumOver(TxAmounts, {}) = 0 /\ SumOver(TxTotals, {}) = 0
    BY FS_EmptySet, SumEmpty
  <2>3. Received = 0
    BY DEF Received, Init
  <2> QED BY <1>2, <2>1, <2>2, <2>3 DEF NetworkInv, NoTx
<1>7. HandlerInv
  BY DEF HandlerInv, Remembers, ClaimedOnce
<1>8. TotalsAgree
  <2>1. Recorded = {}
    BY DEF Recorded
  <2>2. {row[q] : q \in Recorded} = {}
    BY <2>1
  <2>3. Cardinality(Recorded) = 0 /\ Cardinality({row[q] : q \in Recorded}) = 0
    BY <2>1, <2>2, FS_EmptySet
  <2>4. SumOver([q \in Refs |-> request[q].amount], Recorded) = 0
    BY <2>1, SumEmpty
  <2>5. \A t \in DOMAIN sold : FALSE
    OBVIOUS
  <2> QED BY <2>3, <2>4, <2>5 DEF TotalsAgree
<1>9. ClosedMissed
  BY <1>2 DEF ClosedMissed
<1> QED BY <1>1, <1>3, <1>4, <1>5, <1>6, <1>7, <1>8, <1>9 DEF FundingInv

-----------------------------------------------------------------------------
(* The chain. *)

(* Every step of the funding phase is an instruction of the escrow program, *)
(* somebody's deposit, time passing, or nothing on chain.                  *)
LEMMA FundingStepOnChain ==
  ASSUME FundTypes, OpeningInv, NetworkInv, [FundingNext]_funding
  PROVE  [Next]_vars
<1> USE DEF FundTypes
<1>1. CASE CreateLands
  <2>1. opening.goal \in 1 .. MaxU64 /\ opening.until \in 0 .. MaxTime
    BY <1>1 DEF CreateLands, OpeningInv
  <2>2. CreateCampaign(Agent, opening.goal, opening.until)
    BY <1>1 DEF CreateLands
  <2> QED BY <2>1, <2>2 DEF Next
<1>2. CASE Closing
  BY <1>2 DEF Closing, Next
<1>3. CASE \E i \in TxIds : PaymentLands(i)
  <2>1. PICK i \in TxIds : PaymentLands(i)
    BY <1>3
  <2>2. tx[i].from \in Wallets /\ tx[i].amount \in 1 .. MaxU64
    BY <2>1 DEF PaymentLands, NetworkInv, Sendable, Transactions
  <2>3. Contribute(tx[i].from, tx[i].amount, 0) /\ 0 \in 0 .. MaxU64
    BY <2>1 DEF PaymentLands
  <2> QED BY <2>2, <2>3 DEF Next
<1>4. CASE \E i \in TxIds : Foreign(i)
  <2>1. PICK w \in Wallets, a \in 0 .. MaxU64, b \in 0 .. MaxU64 :
          Contribute(w, a, b) \/ Deposit(b) \/ UNCHANGED vars
    BY <1>4 DEF Foreign, OtherTransaction
  <2>2. CASE Contribute(w, a, b)
    <3>1. a \in 1 .. MaxU64
      BY <2>2 DEF Contribute
    <3> QED BY <2>2, <3>1 DEF Next
  <2>3. CASE Deposit(b)
    <3>1. b \in 1 .. MaxU64
      BY <2>3 DEF Deposit
    <3> QED BY <2>3, <3>1 DEF Next
  <2> QED BY <2>1, <2>2, <2>3
<1>5. CASE FundingTick
  BY <1>5 DEF FundingTick, Next
<1>6. ASSUME CampaignStep, ~CreateLands, ~Closing, ~FundingTick
      PROVE  UNCHANGED vars
  BY <1>6 DEF CampaignStep, StartCreate, CreateDies, CreateReply, CommitCreate, CreateGivesUp,
              CreateTier, RowCloses, funding
<1>7. ASSUME PayingStep, \A i \in TxIds : ~PaymentLands(i) /\ ~Foreign(i)
      PROVE  UNCHANGED vars
  BY <1>7 DEF PayingStep, StartPaymentRequest, InsertPaymentRequest, StartPayTx, FinishPayTx,
              PaymentFails
<1>8. CASE HandlerStep
  BY <1>8 DEF HandlerStep, StartUpdate, CommitUpdate, Ask, Scan, Claim, CommitConfirm, GiveUp
<1> QED BY <1>1, <1>2, <1>3, <1>4, <1>5, <1>6, <1>7, <1>8, FundingSteps

-----------------------------------------------------------------------------
(* What was found on chain, and what later steps keep of it. *)

(* The newest of some places in a history. *)
LEMMA MaxIn ==
  ASSUME NEW N \in Nat, NEW S, S \subseteq 1 .. N, S # {}
  PROVE  Max(S) \in S
<1> DEFINE T == {N - x : x \in S}
           R == {p \in Nat \X Nat : p[1] < p[2]}
<1>0. \A x \in S : N - x \in Nat /\ N - x \in T
  OBVIOUS
<1>1. T \subseteq Nat /\ T # {}
  BY <1>0
<1>2. IsWellFoundedOn(R, Nat)
  BY NatLessThanWellFounded DEF OpToRel
<1> HIDE DEF R, T
<1>3. PICK x \in T : \A y \in T : ~ (<<y, x>> \in R)
  BY <1>1, <1>2, WFMin
<1> USE DEF R, T
<1>4. \A y \in T : ~(y < x)
  BY <1>1, <1>3
<1>5. PICK m \in S : x = N - m
  OBVIOUS
<1>6. \A y \in S : m >= y
  <2>1. \A y \in S : ~(N - y < N - m)
    BY <1>0, <1>4, <1>5
  <2> HIDE DEF R, T
  <2> QED BY <2>1
<1> QED BY <1>6 DEF Max

(* What findReferenceSignature returns pays the request it was asked about. *)
LEMMA FoundBacks ==
  ASSUME FundTypes, NEW q \in Refs, Found(q) # None
  PROVE  Backs(Found(q), q)
<1> DEFINE proofs == {n \in Listed(q) : Proves(history[n], q)}
<1>1. history \in Seq(TxIds)
  BY DEF FundTypes
<1>2. Len(history) \in Nat /\ DOMAIN history = 1 .. Len(history)
  BY <1>1
<1>3. proofs \subseteq DOMAIN history /\ \A n \in proofs : q \in tx[history[n]].refs
  BY DEF Listed, Mine
<1>4. proofs # {} /\ Found(q) = history[Max(proofs)]
  BY DEF Found
<1>5. \A n \in proofs : Proves(history[n], q)
  OBVIOUS
<1> HIDE DEF proofs
<1>6. Max(proofs) \in proofs
  BY <1>2, <1>3, <1>4, MaxIn
<1>7. history[Max(proofs)] \in TxIds
  BY <1>1, <1>3, <1>6
<1> QED BY <1>3, <1>4, <1>5, <1>6, <1>7 DEF Backs

(* No step undoes a transaction that landed, takes back a row, or changes  *)
(* the amount of a request.                                                *)
Kept ==
  /\ \A i \in TxIds : tx[i].state = "landed" => tx'[i] = tx[i]
  /\ \A q \in Refs : row[q] # None => row'[q] = row[q]
  /\ \A q \in Refs : Shown(q) => Shown(q)' /\ request'[q].amount = request[q].amount

(* A handler that stands still still remembers rightly. *)
LEMMA StillRemembers ==
  ASSUME FundTypes, Kept, NEW h \in Slots, Remembers(h),
         pc'[h] = pc[h], task'[h] = task[h],
         pc[h] = "claimed" => /\ request'[task[h].ref].status = request[task[h].ref].status
                              /\ \A q \in Refs : request'[q].sig # task[h].sig
  PROVE  Remembers(h)'
<1> DEFINE q == task[h].ref
<1>1. pc[h] \in {"build", "asked", "found", "claimed"} =>
        q \in Refs /\ task[h].wallet \in Wallets /\ Shown(q)'
  BY DEF Remembers, Kept
<1>2. pc[h] \in {"found", "claimed"} => Backs(task[h].sig, q)'
  BY DEF Remembers, Kept, Backs, Proves
<1>3. pc[h] = "claimed" =>
        /\ h \in Checkers /\ request'[q].status = "pending" /\ Unused(task[h].sig)'
        /\ task[h].first \/ ~FirstOf(task[h].wallet)
  BY DEF Remembers, Unused
<1>4. ~FirstOf(task[h].wallet) => ~FirstOf(task[h].wallet)'
  BY DEF Kept, FirstOf, Recorded
<1> QED BY <1>1, <1>2, <1>3, <1>4 DEF Remembers

(* Requests and rows left alone stay as they should be. *)
LEMMA RequestsKept ==
  ASSUME RequestInv, UNCHANGED <<request, row>>, DOMAIN sold \subseteq DOMAIN sold',
         \A i \in TxIds : tx[i].state = "landed" => tx'[i] = tx[i]
  PROVE  RequestInv'
BY DEF RequestInv, RowsAgree, OwnSigs, Backs, Proves

(* Totals depend on rows, and on what was asked by the requests recorded.  *)
LEMMA TotalsKept ==
  ASSUME TotalsAgree, UNCHANGED <<db_raised, db_count, row, sold>>,
         \A q \in Recorded : request'[q].amount = request[q].amount
                              /\ request'[q].tier = request[q].tier
  PROVE  TotalsAgree'
<1>1. Recorded' = Recorded
  BY DEF Recorded
<1>2. Recorded \subseteq Refs
  BY DEF Recorded
<1>3. SumOver([q \in Refs |-> request[q].amount], Recorded)
        = SumOver([q \in Refs |-> request'[q].amount], Recorded)
  BY <1>2, SumExt
<1>4. \A t : {q \in Recorded : request'[q].tier = t} = {q \in Recorded : request[q].tier = t}
  OBVIOUS
<1>5. {row'[q] : q \in Recorded} = {row[q] : q \in Recorded}
  OBVIOUS
<1> QED BY <1>1, <1>3, <1>4, <1>5 DEF TotalsAgree
-----------------------------------------------------------------------------
(* Steps keep the shapes of the rows, of what handlers remember and of the *)
(* transactions.                                                           *)

(* Writing a column leaves a row a row. *)
LEMMA RowWritten ==
  /\ \A r \in RequestRows, w \in Wallets \cup {None} : [r EXCEPT !.wallet = w] \in RequestRows
  /\ \A t \in Transactions : /\ [t EXCEPT !.state = "landed"] \in Transactions
                              /\ [t EXCEPT !.state = "failed"] \in Transactions
  /\ \A t \in Tasks, sig \in TxIds \cup {None} : [t EXCEPT !.sig = sig] \in Tasks
  /\ \A t \in Tasks, first \in BOOLEAN : [t EXCEPT !.first = first] \in Tasks
  /\ \A t \in Tasks, until \in Nat : [t EXCEPT !.until = until] \in Tasks
  /\ NoTask \in Tasks /\ NoRequest \in RequestRows
  /\ \A r \in RequestRows : [r EXCEPT !.status = "pending"] \in RequestRows
<1>1. \A r \in RequestRows, w \in Wallets \cup {None} : [r EXCEPT !.wallet = w] \in RequestRows
  BY DEF RequestRows
<1>2. \A t \in Transactions : /\ [t EXCEPT !.state = "landed"] \in Transactions
                              /\ [t EXCEPT !.state = "failed"] \in Transactions
  BY DEF Transactions
<1>3. \A t \in Tasks, sig \in TxIds \cup {None} : [t EXCEPT !.sig = sig] \in Tasks
  BY DEF Tasks
<1>4. \A t \in Tasks, first \in BOOLEAN : [t EXCEPT !.first = first] \in Tasks
  BY DEF Tasks
<1>5. \A t \in Tasks, until \in Nat : [t EXCEPT !.until = until] \in Tasks
  BY DEF Tasks
<1>6. NoTask \in Tasks /\ NoRequest \in RequestRows
  BY DEF NoTask, Tasks, NoRequest, RequestRows
<1>7. \A r \in RequestRows : [r EXCEPT !.status = "pending"] \in RequestRows
  BY DEF RequestRows
<1> QED BY <1>1, <1>2, <1>3, <1>4, <1>5, <1>6, <1>7

LEMMA CampaignTypes ==
  ASSUME FundTypes, TypeOK, CampaignStep
  PROVE  FundTypes'
<1> USE DEF FundTypes, campaign, payments, handlers, network, funding
<1>1. ASSUME NEW goal \in Goals, NEW until \in Deadlines, NEW kept \in 1 .. MaxTime + 1,
             StartCreate(goal, until, kept)
      PROVE  FundTypes'
  <2>1. goal \in Nat /\ until \in Nat /\ kept \in Nat
    OBVIOUS
  <2> QED BY <1>1, <2>1 DEF StartCreate
<1>2. CASE CreateLands \/ CreateDies \/ CreateReply \/ CreateGivesUp
  BY <1>2 DEF CreateLands, CreateDies, CreateReply, CreateGivesUp
<1>3. CASE CommitCreate
  BY <1>3 DEF CommitCreate, Statuses
<1>4. ASSUME NEW t \in Tiers, CreateTier(t)
      PROVE  FundTypes'
  <2>1. DOMAIN sold' = DOMAIN sold \cup {t} /\ \A u \in DOMAIN sold' : sold'[u] \in Nat
    BY <1>4 DEF CreateTier
  <2>2. DOMAIN sold' \subseteq Tiers /\ sold' \in [DOMAIN sold' -> Nat]
    BY <1>4, <2>1 DEF CreateTier
  <2> QED BY <1>4, <2>2 DEF CreateTier
<1>5. CASE Closing \/ FundingTick
  BY <1>5 DEF Closing, FundingTick
<1>6. CASE RowCloses
  BY <1>6 DEF RowCloses, TypeOK
<1>7. CASE UNCHANGED funding
  BY <1>7
<1> QED BY <1>1, <1>2, <1>3, <1>4, <1>5, <1>6, <1>7 DEF CampaignStep

LEMMA PayingTypes ==
  ASSUME FundTypes, HandlerInv, PayingStep
  PROVE  FundTypes'
<1> USE DEF FundTypes, campaign, payments, handlers, network, Goto
<1>1. ASSUME NEW q \in Refs, NEW t \in Tiers \cup {None}, NEW a \in 1 .. MaxU64,
             StartPaymentRequest(q, t, a)
      PROVE  FundTypes'
  <2>1. [NoRequest EXCEPT !.status = "posted", !.tier = t, !.amount = a] \in RequestRows
    <3>1. a \in 0 .. MaxU64
      OBVIOUS
    <3> QED BY <3>1 DEF NoRequest, RequestRows
  <2>2. request' \in [Refs -> RequestRows]
    BY <1>1, <2>1 DEF StartPaymentRequest
  <2> QED BY <1>1, <2>2 DEF StartPaymentRequest
<1>2. ASSUME NEW h \in Payers, NEW q \in Refs, NEW w \in Wallets, StartPayTx(h, q, w)
      PROVE  FundTypes'
  <2>1. [NoTask EXCEPT !.ref = q, !.wallet = w, !.was = request[q].wallet] \in Tasks
    BY DEF NoTask, Tasks, RequestRows
  <2>2. task' \in [Slots -> Tasks]
    BY <1>2, <2>1 DEF StartPayTx, Slots
  <2> QED BY <1>2, <2>2 DEF StartPayTx
<1>3. ASSUME NEW h \in Payers, FinishPayTx(h)
      PROVE  FundTypes'
  <2> DEFINE q == task[h].ref
             w == task[h].wallet
  <2>1. q \in Refs /\ w \in Wallets
    BY <1>3 DEF FinishPayTx, HandlerInv, Remembers, Slots
  <2>2. request' \in [Refs -> RequestRows]
    <3>1. [request[q] EXCEPT !.wallet = w] \in RequestRows
      BY <2>1, RowWritten
    <3>2. \/ request' = request
          \/ request' = [request EXCEPT ![q] = [request[q] EXCEPT !.wallet = w]]
      BY <1>3, <2>1 DEF FinishPayTx
    <3> QED BY <3>1, <3>2
  <2>3. NoTask \in Tasks
    BY RowWritten
  <2>4. tx' \in [TxIds -> Transactions]
    <3>1. [state |-> "built", refs |-> {q}, from |-> w, amount |-> request[q].amount,
           plain |-> 0, calls |-> TRUE] \in Transactions
      BY <2>1 DEF Transactions, RequestRows
    <3>2. \E i \in TxIds :
            tx' = [tx EXCEPT ![i] = [state |-> "built", refs |-> {q}, from |-> w,
                                     amount |-> request[q].amount, plain |-> 0,
                                     calls |-> TRUE]]
      BY <1>3 DEF FinishPayTx
    <3> QED BY <3>1, <3>2
  <2>5. task' \in [Slots -> Tasks]
    BY <1>3, <2>3 DEF FinishPayTx
  <2> QED BY <1>3, <2>2, <2>4, <2>5 DEF FinishPayTx
<1>4. ASSUME NEW i \in TxIds, PaymentLands(i) \/ PaymentFails(i)
      PROVE  FundTypes'
  <2>1. tx' \in [TxIds -> Transactions]
    <3> DEFINE sent == [tx[i] EXCEPT !.state = "landed"]
               lost == [tx[i] EXCEPT !.state = "failed"]
    <3>1. sent \in Transactions /\ lost \in Transactions
      BY RowWritten
    <3>2. tx' = [tx EXCEPT ![i] = sent] \/ tx' = [tx EXCEPT ![i] = lost]
      BY <1>4 DEF PaymentLands, PaymentFails
    <3>3. tx \in [TxIds -> Transactions]
      OBVIOUS
    <3> HIDE DEF sent, lost, FundTypes
    <3>4. CASE tx' = [tx EXCEPT ![i] = sent]
      BY <3>1, <3>3, <3>4
    <3>5. CASE tx' = [tx EXCEPT ![i] = lost]
      BY <3>1, <3>3, <3>5
    <3> QED BY <3>2, <3>4, <3>5
  <2>2. history' \in Seq(TxIds)
    <3>1. history' = Append(history, i)
      BY <1>4 DEF PaymentLands, PaymentFails
    <3> QED BY <3>1
  <2> QED BY <1>4, <2>1, <2>2 DEF PaymentLands, PaymentFails
<1>5. ASSUME NEW i \in TxIds, Foreign(i)
      PROVE  FundTypes'
  <2>1. PICK Q \in SUBSET Refs, w \in Wallets, a \in 0 .. MaxU64, b \in 0 .. MaxU64,
             calls \in BOOLEAN : OtherTransaction(i, Q, w, a, b, calls)
    BY <1>5 DEF Foreign
  <2>2. tx' \in [TxIds -> Transactions]
    BY <2>1 DEF OtherTransaction, Transactions
  <2>3. history' \in Seq(TxIds)
    BY <2>1 DEF OtherTransaction
  <2> QED BY <2>1, <2>2, <2>3 DEF OtherTransaction
<1>6. ASSUME NEW q \in Refs, InsertPaymentRequest(q)
      PROVE  FundTypes'
  <2> DEFINE inserted == [request[q] EXCEPT !.status = "pending"]
  <2>1. inserted \in RequestRows /\ NoRequest \in RequestRows
    BY RowWritten
  <2>2. request' = [request EXCEPT ![q] = inserted] \/ request' = [request EXCEPT ![q] = NoRequest]
    BY <1>6 DEF InsertPaymentRequest
  <2> HIDE DEF inserted
  <2>3. request' \in [Refs -> RequestRows]
    BY <2>1, <2>2
  <2> QED BY <1>6, <2>3 DEF InsertPaymentRequest
<1> QED BY <1>1, <1>2, <1>3, <1>4, <1>5, <1>6 DEF PayingStep

LEMMA HandlerTypes ==
  ASSUME FundTypes, HandlerInv, HandlerStep
  PROVE  FundTypes'
<1> USE DEF FundTypes, campaign, payments, handlers, network, Goto
<1>0. NoTask \in Tasks /\ Checkers \subseteq Slots /\ Editors \subseteq Slots
  BY RowWritten DEF Slots
<1>1. ASSUME NEW e \in Editors, NEW until \in 1 .. MaxTime, StartUpdate(e, until)
      PROVE  FundTypes'
  <2>1. task' \in [Slots -> Tasks]
    <3>1. [task[e] EXCEPT !.until = until] \in Tasks
      BY <1>0, RowWritten
    <3>2. task' = [task EXCEPT ![e] = [task[e] EXCEPT !.until = until]]
      BY <1>0, <1>1 DEF StartUpdate
    <3> QED BY <3>1, <3>2
  <2> QED BY <1>1, <2>1 DEF StartUpdate
<1>2. ASSUME NEW e \in Editors, CommitUpdate(e)
      PROVE  FundTypes'
  <2>1. task[e].until \in Nat
    BY <1>0 DEF Tasks
  <2> QED BY <1>0, <1>2, <2>1 DEF CommitUpdate
<1>3. ASSUME NEW h \in Checkers, NEW q \in Refs, NEW sig \in TxIds \cup {None}, Ask(h, q, sig)
      PROVE  FundTypes'
  <2>1. [NoTask EXCEPT !.ref = q, !.wallet = request[q].wallet, !.sig = sig] \in Tasks
    BY DEF NoTask, Tasks, RequestRows
  <2> QED BY <1>3, <2>1 DEF Ask
<1>4. ASSUME NEW h \in Checkers, Scan(h)
      PROVE  FundTypes'
  <2>1. task[h].ref \in Refs
    BY <1>0, <1>4 DEF Scan, HandlerInv, Remembers
  <2>2. Found(task[h].ref) \in TxIds \cup {None}
    BY <2>1, FoundBacks DEF Backs
  <2>3. task' \in [Slots -> Tasks]
    <3> DEFINE answered == [task[h] EXCEPT !.sig = Found(task[h].ref)]
    <3>1. answered \in Tasks
      BY <1>0, <2>2, RowWritten
    <3>2. task' = [task EXCEPT ![h] = answered] \/ task' = [task EXCEPT ![h] = NoTask]
      BY <1>0, <1>4 DEF Scan
    <3>3. task \in [Slots -> Tasks]
      OBVIOUS
    <3> HIDE DEF answered, FundTypes
    <3> QED BY <1>0, <3>1, <3>2, <3>3
  <2> QED BY ZenonT(40), <1>4, <2>3 DEF Scan
<1>5. ASSUME NEW h \in Checkers, Claim(h)
      PROVE  FundTypes'
  <2>1. FirstOf(task[h].wallet) \in BOOLEAN
    BY DEF FirstOf
  <2>2. task' \in [Slots -> Tasks]
    <3> DEFINE looked == [task[h] EXCEPT !.first = FirstOf(task[h].wallet)]
    <3>1. looked \in Tasks
      BY <1>0, <2>1, RowWritten
    <3>2. task' = [task EXCEPT ![h] = looked] \/ task' = [task EXCEPT ![h] = NoTask]
      BY <1>0, <1>5 DEF Claim
    <3>3. task \in [Slots -> Tasks]
      OBVIOUS
    <3> HIDE DEF looked, FundTypes
    <3> QED BY <1>0, <3>1, <3>2, <3>3
  <2> QED BY <1>5, <2>2 DEF Claim
<1>6. ASSUME NEW h \in Checkers, CommitConfirm(h)
      PROVE  FundTypes'
  <2> DEFINE t == task[h]
             r == request[t.ref]
  <2>1. t \in Tasks /\ t.ref \in Refs /\ t.wallet \in Wallets /\ t.sig \in TxIds
    BY <1>0, <1>6 DEF CommitConfirm, HandlerInv, Remembers, Backs
  <2>2. r \in RequestRows
    BY <2>1
  <2>3. request' \in [Refs -> RequestRows]
    BY <1>6, <2>1, <2>2 DEF CommitConfirm, RequestRows
  <2>4. row' \in [Refs -> Wallets \cup {None}]
    BY <1>6, <2>1 DEF CommitConfirm
  <2>5. db_raised' \in Nat /\ db_count' \in Nat
    <3>1. r.amount \in Nat
      BY <2>2 DEF RequestRows
    <3>2. /\ db_raised' = db_raised + r.amount
          /\ db_count' = db_count + 1 \/ db_count' = db_count + 0
      BY <1>6 DEF CommitConfirm
    <3> HIDE DEF r
    <3> QED BY SMTT(20), <3>1, <3>2
  <2>6. DOMAIN sold' \subseteq Tiers /\ sold' \in [DOMAIN sold' -> Nat]
    <3>1. sold' = sold \/ sold' = [sold EXCEPT ![r.tier] = @ + 1]
      BY <1>6 DEF CommitConfirm
    <3> HIDE DEF r
    <3>2. sold \in [DOMAIN sold -> Nat] /\ DOMAIN sold \subseteq Tiers
      OBVIOUS
    <3> HIDE DEF FundTypes
    <3>3. CASE sold' = [sold EXCEPT ![r.tier] = @ + 1]
      <4>1. DOMAIN sold' = DOMAIN sold
        BY <3>2, <3>3
      <4>2. \A u \in DOMAIN sold : sold'[u] = IF u = r.tier THEN sold[u] + 1 ELSE sold[u]
        BY <3>2, <3>3
      <4>3. \A u \in DOMAIN sold : sold'[u] \in Nat
        BY <3>2, <4>2
      <4> QED BY <3>2, <3>3, <4>1, <4>3
    <3> QED BY <3>1, <3>2, <3>3
  <2>7. task' \in [Slots -> Tasks]
    BY <1>0, <1>6 DEF CommitConfirm
  <2> QED BY <1>6, <2>3, <2>4, <2>5, <2>6, <2>7 DEF CommitConfirm
<1>7. ASSUME NEW h \in Slots, GiveUp(h)
      PROVE  FundTypes'
  BY <1>0, <1>7 DEF GiveUp
<1> QED BY <1>1, <1>2, <1>3, <1>4, <1>5, <1>6, <1>7 DEF HandlerStep

-----------------------------------------------------------------------------
(* The page and its escrow. *)

(* Only the two steps that open and close it change what the escrow is.    *)
LEMMA TermsStand ==
  ASSUME FundTypes, [FundingNext]_funding, ~CreateLands
  PROVE  UNCHANGED terms /\ (~Closing => UNCHANGED status)
<1> USE DEF terms
<1>1. CASE CampaignStep
  BY <1>1 DEF CampaignStep, StartCreate, CreateDies, CreateReply, CommitCreate, CreateGivesUp,
              CreateTier, Closing, CloseCampaign, RowCloses, FundingTick, Tick, funding, vars
<1>2. CASE PayingStep
  <2>1. ASSUME NEW i \in TxIds, Foreign(i)
        PROVE  UNCHANGED <<terms, status>>
    BY <2>1 DEF Foreign, OtherTransaction, Contribute, Deposit, vars
  <2>2. ASSUME NEW i \in TxIds, PaymentLands(i) \/ PaymentFails(i)
        PROVE  UNCHANGED <<terms, status>>
    BY <2>2 DEF PaymentLands, PaymentFails, Contribute, vars
  <2>3. ASSUME \A i \in TxIds : ~PaymentLands(i) /\ ~PaymentFails(i) /\ ~Foreign(i)
        PROVE  UNCHANGED vars
    BY <1>2, <2>3 DEF PayingStep, StartPaymentRequest, InsertPaymentRequest, StartPayTx,
                      FinishPayTx
  <2> QED BY <2>1, <2>2, <2>3 DEF vars
<1>3. CASE HandlerStep
  BY <1>3 DEF HandlerStep, StartUpdate, CommitUpdate, Ask, Scan, Claim, CommitConfirm, GiveUp, vars
<1> QED BY <1>1, <1>2, <1>3, FundingSteps

LEMMA CampaignOpening ==
  ASSUME FundTypes, OpeningInv, CampaignStep
  PROVE  OpeningInv'
<1> USE DEF FundTypes, OpeningInv, campaign, payments, handlers, network
<1>1. ASSUME NEW goal \in Goals, NEW until \in Deadlines, NEW kept \in 1 .. MaxTime + 1,
             StartCreate(goal, until, kept)
      PROVE  OpeningInv'
  BY <1>1 DEF StartCreate, vars, terms
<1>2. CASE CreateLands
  BY <1>2 DEF CreateLands, CreateCampaign
<1>3. CASE CreateDies \/ CreateReply \/ CreateGivesUp
  BY <1>3 DEF CreateDies, CreateReply, CreateGivesUp, AccountExists, vars, terms
<1>4. CASE CommitCreate
  BY <1>4 DEF CommitCreate, vars, terms
<1>5. CASE Closing
  BY <1>5 DEF Closing, CloseCampaign, StatusAtClose, terms
<1>6. CASE RowCloses
  BY <1>6 DEF RowCloses, vars, terms
<1>7. ASSUME NEW t \in Tiers, CreateTier(t)
      PROVE  OpeningInv'
  BY <1>7 DEF CreateTier, vars, terms
<1>8. CASE FundingTick \/ UNCHANGED funding
  BY <1>8 DEF FundingTick, Tick, funding, vars, terms
<1> QED BY <1>1, <1>2, <1>3, <1>4, <1>5, <1>6, <1>7, <1>8 DEF CampaignStep

LEMMA PayingOpening ==
  ASSUME FundTypes, OpeningInv, PayingStep, UNCHANGED <<status, terms>>
  PROVE  OpeningInv'
<1>1. /\ UNCHANGED <<opening, db_status, db_goal, db_deadline>>
      /\ \A h \in Slots : pc'[h] = "update" => pc[h] = "update" /\ task'[h] = task[h]
  <2> USE DEF campaign, handlers, Goto, FundTypes
  <2>1. ASSUME NEW h \in Payers,
               FinishPayTx(h) \/ \E q \in Refs, w \in Wallets : StartPayTx(h, q, w)
        PROVE  /\ UNCHANGED <<opening, db_status, db_goal, db_deadline>>
               /\ \A k \in Slots : pc'[k] = "update" => pc[k] = "update" /\ task'[k] = task[k]
    BY <2>1 DEF StartPayTx, FinishPayTx
  <2>2. ASSUME \A h \in Payers :
                 ~FinishPayTx(h) /\ \A q \in Refs, w \in Wallets : ~StartPayTx(h, q, w)
        PROVE  UNCHANGED <<opening, db_status, db_goal, db_deadline, pc, task>>
    BY <2>2 DEF PayingStep, StartPaymentRequest, InsertPaymentRequest, PaymentLands,
                PaymentFails, Foreign, OtherTransaction
  <2> QED BY <2>1, <2>2
<1> QED BY <1>1 DEF OpeningInv, terms

LEMMA HandlerOpening ==
  ASSUME FundTypes, OpeningInv, HandlerStep, UNCHANGED <<status, terms>>
  PROVE  OpeningInv'
<1> USE DEF FundTypes, campaign, Goto
<1>1. ASSUME NEW e \in Editors, NEW until \in 1 .. MaxTime, StartUpdate(e, until)
      PROVE  OpeningInv'
  <2>1. /\ UNCHANGED <<opening, db_status, db_goal, db_deadline>>
        /\ opening.at = "done" /\ until <= opening.row
    BY <1>1 DEF StartUpdate, OpeningInv
  <2>2. \A h \in Slots : IF h = e THEN task'[h].until = until
                         ELSE pc'[h] = pc[h] /\ task'[h] = task[h]
    BY <1>1 DEF StartUpdate, Tasks
  <2> QED BY <2>1, <2>2 DEF OpeningInv, terms
<1>2. ASSUME NEW e \in Editors, CommitUpdate(e)
      PROVE  OpeningInv'
  <2>1. e \in Slots /\ task[e].until <= opening.row
    BY <1>2 DEF CommitUpdate, OpeningInv, Slots
  <2>2. \A h \in Slots : pc'[h] = "update" => pc[h] = "update" /\ task'[h] = task[h]
    BY <1>2 DEF CommitUpdate
  <2>3. UNCHANGED <<opening, db_status, db_goal>> /\ db_deadline' = task[e].until
    BY <1>2 DEF CommitUpdate
  <2> QED BY <2>1, <2>2, <2>3 DEF OpeningInv, terms
<1>3. CASE \/ \E h \in Checkers, q \in Refs, sig \in TxIds \cup {None} : Ask(h, q, sig)
           \/ \E h \in Checkers : Scan(h) \/ Claim(h) \/ CommitConfirm(h)
           \/ \E h \in Slots : GiveUp(h)
  <2>1. /\ UNCHANGED <<opening, db_status, db_goal, db_deadline>>
        /\ \A h \in Slots : pc'[h] = "update" => pc[h] = "update" /\ task'[h] = task[h]
    <3>1. ASSUME NEW h \in Checkers, NEW q \in Refs, NEW sig \in TxIds \cup {None}, Ask(h, q, sig)
          PROVE  /\ UNCHANGED <<opening, db_status, db_goal, db_deadline>>
                 /\ \A k \in Slots : pc'[k] = "update" => pc[k] = "update" /\ task'[k] = task[k]
      BY <3>1 DEF Ask
    <3>2. ASSUME NEW h \in Slots, Scan(h) \/ Claim(h) \/ GiveUp(h)
          PROVE  /\ UNCHANGED <<opening, db_status, db_goal, db_deadline>>
                 /\ \A k \in Slots : pc'[k] = "update" => pc[k] = "update" /\ task'[k] = task[k]
      BY <3>2 DEF Scan, Claim, GiveUp
    <3>3. ASSUME NEW h \in Slots, CommitConfirm(h)
          PROVE  /\ UNCHANGED <<opening, db_status, db_goal, db_deadline>>
                 /\ \A k \in Slots : pc'[k] = "update" => pc[k] = "update" /\ task'[k] = task[k]
      BY <3>3 DEF CommitConfirm
    <3> QED BY <1>3, <3>1, <3>2, <3>3 DEF Slots
  <2> QED BY <2>1 DEF OpeningInv, terms
<1> QED BY <1>1, <1>2, <1>3 DEF HandlerStep

LEMMA OpeningInvStep ==
  ASSUME FundTypes, OpeningInv, [FundingNext]_funding
  PROVE  OpeningInv'
<1>1. CASE CampaignStep
  BY <1>1, CampaignOpening
<1>2. ASSUME ~CampaignStep
      PROVE  UNCHANGED <<status, terms>>
  BY <1>2, TermsStand DEF CampaignStep
<1> QED BY <1>1, <1>2, PayingOpening, HandlerOpening, FundingSteps

(* Only the transactions modelled move money.                              *)
LEMMA MoneyStands ==
  ASSUME FundTypes, [FundingNext]_funding, ~CreateLands,
         \A i \in TxIds : ~PaymentLands(i) /\ ~Foreign(i)
  PROVE  UNCHANGED <<raised_amount, released_amount, refunded_amount, escrow_usdc>>
<1> USE DEF counters, tokens
<1>1. CASE CampaignStep
  BY <1>1 DEF CampaignStep, StartCreate, CreateDies, CreateReply, CommitCreate, CreateGivesUp,
              CreateTier, Closing, CloseCampaign, RowCloses, FundingTick, Tick, funding, vars
<1>2. CASE PayingStep
  BY <1>2 DEF PayingStep, StartPaymentRequest, InsertPaymentRequest, StartPayTx, FinishPayTx,
              PaymentFails, vars
<1>3. CASE HandlerStep
  BY <1>3 DEF HandlerStep, StartUpdate, CommitUpdate, Ask, Scan, Claim, CommitConfirm, GiveUp, vars
<1> QED BY <1>1, <1>2, <1>3, FundingSteps

(* A closed campaign accepts no contribution.                              *)
LEMMA ClosedRaisesNothing ==
  ASSUME [Next]_vars, status = "Closed"
  PROVE  UNCHANGED raised_amount
BY DEF Next, CreateCampaign, Contribute, Accepting, CloseCampaign, Release, Refund, Deposit, Tick,
       vars, counters

(* Contributions are accepted while the campaign collects, so what closes  *)
(* below its goal stays below it.                                          *)
LEMMA ClosedMissedStep ==
  ASSUME FundTypes, OpeningInv, NetworkInv, ClosedMissed, [FundingNext]_funding
  PROVE  ClosedMissed'
<1>1. CASE CreateLands
  BY <1>1 DEF CreateLands, CreateCampaign, ClosedMissed
<1>2. CASE Closing
  BY <1>2 DEF Closing, CloseCampaign, StatusAtClose, ClosedMissed, counters, terms
<1>3. ASSUME ~CreateLands, ~Closing
      PROVE  ClosedMissed'
  <2>1. UNCHANGED <<status, goal_amount>>
    BY <1>3, TermsStand DEF terms
  <2>2. status = "Closed" => UNCHANGED raised_amount
    BY FundingStepOnChain, ClosedRaisesNothing
  <2> QED BY <2>1, <2>2 DEF ClosedMissed
<1> QED BY <1>1, <1>2, <1>3

-----------------------------------------------------------------------------
(* Payments: the transactions, and what is remembered of them. *)

(* Handing out a transaction writes at most the account of its request.    *)
LEMMA WalletWritten ==
  ASSUME FundTypes, HandlerInv, NEW h \in Payers, FinishPayTx(h)
  PROVE  \A q \in Refs : /\ request'[q].status = request[q].status
                          /\ request'[q].amount = request[q].amount
                          /\ request'[q].tier = request[q].tier
                          /\ request'[q].sig = request[q].sig
<1> DEFINE p == task[h].ref
           written == [request[p] EXCEPT !.wallet = task[h].wallet]
<1>1. request \in [Refs -> RequestRows] /\ p \in Refs
  BY DEF FinishPayTx, HandlerInv, Remembers, Slots, FundTypes
<1>2. request' = request \/ request' = [request EXCEPT ![p] = written]
  BY DEF FinishPayTx
<1>3. /\ written.status = request[p].status /\ written.amount = request[p].amount
      /\ written.tier = request[p].tier /\ written.sig = request[p].sig
  BY <1>1 DEF RequestRows
<1> HIDE DEF written, p
<1>4. CASE request' = [request EXCEPT ![p] = written]
  <2>1. \A q \in Refs : request'[q] = IF q = p THEN written ELSE request[q]
    BY <1>1, <1>4
  <2> QED BY <1>3, <2>1
<1> QED BY <1>2, <1>4

LEMMA StepKept ==
  ASSUME FundTypes, RequestInv, HandlerInv, [FundingNext]_funding
  PROVE  Kept
<1> USE DEF FundTypes, Kept, campaign, payments, handlers, network
<1>1. CASE CampaignStep
  BY <1>1 DEF CampaignStep, StartCreate, CreateLands, CreateDies, CreateReply, CommitCreate,
              CreateGivesUp, CreateTier, Closing, RowCloses, FundingTick, funding, Shown
<1>2. ASSUME NEW q \in Refs, NEW t \in Tiers \cup {None}, NEW a \in 1 .. MaxU64,
             StartPaymentRequest(q, t, a)
      PROVE  Kept
  BY <1>2 DEF StartPaymentRequest, Shown
<1>11. ASSUME NEW q \in Refs, InsertPaymentRequest(q)
      PROVE  Kept
  BY <1>11 DEF InsertPaymentRequest, Shown
<1>3. ASSUME NEW h \in Payers, NEW q \in Refs, NEW w \in Wallets, StartPayTx(h, q, w)
      PROVE  Kept
  BY <1>3 DEF StartPayTx, Shown
<1>4. ASSUME NEW h \in Payers, FinishPayTx(h)
      PROVE  Kept
  <2>1. \A p \in Refs : request'[p].status = request[p].status
                        /\ request'[p].amount = request[p].amount
    BY <1>4, WalletWritten
  <2>2. \A i \in TxIds : tx[i].state = "landed" => tx'[i] = tx[i]
    BY <1>4 DEF FinishPayTx
  <2> QED BY <1>4, <2>1, <2>2 DEF FinishPayTx, Shown
<1>5. ASSUME NEW i \in TxIds, PaymentLands(i) \/ PaymentFails(i)
      PROVE  Kept
  BY <1>5 DEF PaymentLands, PaymentFails, Shown
<1>6. ASSUME NEW i \in TxIds, Foreign(i)
      PROVE  Kept
  BY <1>6 DEF Foreign, OtherTransaction, Shown
<1>7. ASSUME NEW h \in Checkers, CommitConfirm(h)
      PROVE  Kept
  <2> DEFINE q == task[h].ref
  <2>1. h \in Slots /\ q \in Refs /\ row[q] = None
    BY <1>7 DEF CommitConfirm, HandlerInv, Remembers, RequestInv, RowsAgree, Slots
  <2>2. \A p \in Refs : Shown(p) => Shown(p)' /\ request'[p].amount = request[p].amount
    BY <1>7, <2>1 DEF CommitConfirm, RequestRows, Shown
  <2>3. \A p \in Refs : row[p] # None => row'[p] = row[p]
    BY <1>7, <2>1 DEF CommitConfirm
  <2> QED BY <1>7, <2>2, <2>3 DEF CommitConfirm
<1>8. ASSUME NEW h \in Slots,
             \/ \E until \in 1 .. MaxTime : StartUpdate(h, until)
             \/ \E q \in Refs, sig \in TxIds \cup {None} : Ask(h, q, sig)
             \/ CommitUpdate(h) \/ Scan(h) \/ Claim(h) \/ GiveUp(h)
      PROVE  Kept
  BY <1>8 DEF StartUpdate, Ask, CommitUpdate, Scan, Claim, GiveUp, Shown
<1>9. CASE PayingStep
  BY <1>2, <1>3, <1>4, <1>5, <1>6, <1>9, <1>11 DEF PayingStep
<1>10. CASE HandlerStep
  BY <1>7, <1>8, <1>10 DEF HandlerStep, Slots
<1> QED BY <1>1, <1>9, <1>10, FundingSteps

(* Steps by which no transaction lands leave what the escrow holds alone.  *)
LEMMA NetworkKept ==
  ASSUME NetworkInv, Landed' = Landed, \A i \in Landed : tx'[i] = tx[i],
         UNCHANGED raised_amount, Received' = Received,
         \A i \in TxIds : tx'[i].state = "built" => Sendable(tx'[i])
  PROVE  NetworkInv'
<1>1. \A i \in Landed : TxAmounts'[i] = TxAmounts[i] /\ TxTotals'[i] = TxTotals[i]
  BY DEF TxAmounts, TxTotals, Landed
<1>2. /\ SumOver(TxAmounts', Landed) = SumOver(TxAmounts, Landed)
      /\ SumOver(TxTotals', Landed) = SumOver(TxTotals, Landed)
  BY <1>1, SumExt
<1> QED BY <1>2 DEF NetworkInv, Sendable

(* A transaction that lands is counted. *)
LEMMA NetworkGrows ==
  ASSUME NetworkInv, tx \in [TxIds -> Transactions], NEW i \in TxIds, tx[i].state # "landed",
         tx'[i].state = "landed", \A j \in TxIds \ {i} : tx'[j] = tx[j],
         NEW a \in Nat, NEW b \in Nat, tx'[i].amount = a, tx'[i].plain = b,
         raised_amount' = raised_amount + a, Received' = Received + a + b
  PROVE  NetworkInv'
<1>1. Landed' = Landed \cup {i} /\ i \notin Landed /\ Landed \subseteq TxIds
  BY DEF Landed
<1>2. /\ IsFiniteSet(Landed) /\ IsFiniteSet({i}) /\ IsFiniteSet(Landed \cup {i})
      /\ Landed \cap {i} = {}
  <2>1. IsFiniteSet(Landed)
    BY DEF NetworkInv
  <2>2. IsFiniteSet(Landed \cup {i}) /\ IsFiniteSet({i})
    BY <2>1, FS_Singleton, FS_AddElement
  <2> QED BY <1>1, <2>1, <2>2
<1>3. \A j \in Landed : /\ TxAmounts'[j] = TxAmounts[j] /\ TxTotals'[j] = TxTotals[j]
                        /\ TxAmounts[j] \in Nat /\ TxTotals[j] \in Nat
  BY <1>1 DEF TxAmounts, TxTotals, Transactions
<1>4. TxAmounts'[i] = a /\ TxTotals'[i] = a + b
  BY DEF TxAmounts, TxTotals
<1>5. \A j \in Landed \cup {i} : TxAmounts'[j] \in Nat /\ TxTotals'[j] \in Nat
  BY <1>3, <1>4
<1>6. /\ SumOver(TxAmounts', Landed) = SumOver(TxAmounts, Landed)
      /\ SumOver(TxTotals', Landed) = SumOver(TxTotals, Landed)
  BY <1>3, SumExt
<1>7. SumOver(TxAmounts', {i}) = a /\ SumOver(TxTotals', {i}) = a + b
  BY <1>4, <1>5, SumSingle
<1>8. SumOver(TxAmounts', Landed \cup {i}) = SumOver(TxAmounts', Landed) + SumOver(TxAmounts', {i})
  BY <1>2, <1>5, SumDisjoint
<1>9. SumOver(TxTotals', Landed \cup {i}) = SumOver(TxTotals', Landed) + SumOver(TxTotals', {i})
  BY <1>2, <1>5, SumDisjoint
<1>10. SumOver(TxTotals, Landed) \in Nat
  BY <1>2, <1>3, SumType
<1>11. raised_amount' = SumOver(TxAmounts', Landed')
  BY <1>1, <1>6, <1>7, <1>8 DEF NetworkInv
<1>12. Received' = SumOver(TxTotals', Landed')
  BY <1>1, <1>6, <1>7, <1>9, <1>10 DEF NetworkInv
<1>13. \A j \in TxIds : tx'[j].state = "built" => Sendable(tx'[j])
  BY DEF NetworkInv
<1> QED BY <1>1, <1>2, <1>11, <1>12, <1>13 DEF NetworkInv, Sendable

LEMMA NetworkStep ==
  ASSUME IInv, FundTypes, RequestInv, HandlerInv, NetworkInv, [FundingNext]_funding
  PROVE  NetworkInv'
<1> USE DEF FundTypes, campaign, payments, handlers, network
<1>0. /\ escrow_usdc \in Nat /\ released_amount \in Nat /\ refunded_amount \in Nat
  BY DEF IInv, TypeOK
<1>1. CASE CreateLands
  <2>1. UNCHANGED <<tx, escrow_usdc, raised_amount>> /\ released_amount' = 0 /\ refunded_amount' = 0
    BY <1>1 DEF CreateLands, CreateCampaign, IInv, StatusFacts, tokens
  <2>2. released_amount = 0 /\ refunded_amount = 0
    BY <1>1, SumEmpty DEF CreateLands, CreateCampaign, IInv, StatusFacts, CountersAgree
  <2> QED BY <2>1, <2>2, NetworkKept DEF Landed, NetworkInv, Received
<1>2. ASSUME NEW i \in TxIds, PaymentLands(i)
      PROVE  NetworkInv'
  <2> DEFINE a == tx[i].amount
             b == tx[i].plain
  <2>1. /\ tx[i].state = "built" /\ a \in Nat /\ b = 0
        /\ Contribute(tx[i].from, a, 0)
        /\ tx' = [tx EXCEPT ![i].state = "landed"]
    BY <1>2 DEF PaymentLands, NetworkInv, Sendable, Transactions
  <2>2. raised_amount' = raised_amount + a /\ Received' = Received + a + b
    <3> HIDE DEF FundTypes, a, b
    <3> QED BY <1>0, <2>1 DEF Contribute, Pay, Received
  <2>3. /\ tx'[i].state = "landed" /\ tx'[i].amount = a /\ tx'[i].plain = b
        /\ \A j \in TxIds \ {i} : tx'[j] = tx[j]
    BY <2>1 DEF Transactions
  <2>4. b \in Nat /\ tx[i].state # "landed"
    BY <2>1
  <2>5. tx \in [TxIds -> Transactions]
    OBVIOUS
  <2> HIDE DEF a, b, FundTypes
  <2> QED BY <2>1, <2>2, <2>3, <2>4, <2>5, NetworkGrows
<1>3. ASSUME NEW h \in Payers, FinishPayTx(h)
      PROVE  NetworkInv'
  <2> DEFINE t == task[h]
  <2>1. t.ref \in Refs /\ t.wallet \in Wallets /\ request[t.ref].amount > 0
    BY <1>3 DEF FinishPayTx, HandlerInv, Remembers, Shown, RequestInv, RowsAgree, Slots
  <2>2. PICK i \in TxIds :
          /\ tx[i].state = "free"
          /\ tx' = [tx EXCEPT ![i] = [state |-> "built", refs |-> {t.ref}, from |-> t.wallet,
                                       amount |-> request[t.ref].amount, plain |-> 0,
                                       calls |-> TRUE]]
    BY <1>3 DEF FinishPayTx
  <2>3. /\ tx'[i].state = "built" /\ Sendable(tx'[i])
        /\ \A j \in TxIds \ {i} : tx'[j] = tx[j]
    BY <2>1, <2>2 DEF Sendable
  <2>4. Landed' = Landed /\ i \notin Landed
    BY <2>2, <2>3 DEF Landed
  <2>5. UNCHANGED raised_amount /\ Received' = Received
    BY <1>3 DEF FinishPayTx, vars, counters, tokens, Received
  <2> QED BY <2>3, <2>4, <2>5, NetworkKept DEF NetworkInv, Landed
<1>4. ASSUME NEW i \in TxIds, PaymentFails(i)
      PROVE  NetworkInv'
  <2>1. /\ tx[i].state = "built" /\ tx'[i].state = "failed"
        /\ \A j \in TxIds \ {i} : tx'[j] = tx[j]
    BY <1>4 DEF PaymentFails, Transactions
  <2>2. Landed' = Landed /\ i \notin Landed
    <3>1. \A j \in TxIds : tx'[j].state = "landed" <=> tx[j].state = "landed"
      BY <2>1
    <3> QED BY <2>1, <3>1 DEF Landed
  <2>3. UNCHANGED raised_amount /\ Received' = Received
    BY <1>4 DEF PaymentFails, vars, counters, tokens, Received
  <2> QED BY <2>1, <2>2, <2>3, NetworkKept DEF NetworkInv, Landed
<1>5. ASSUME NEW i \in TxIds, Foreign(i)
      PROVE  NetworkInv'
  <2>1. PICK Q \in SUBSET Refs, w \in Wallets, a \in 0 .. MaxU64, b \in 0 .. MaxU64,
             calls \in BOOLEAN : OtherTransaction(i, Q, w, a, b, calls)
    BY <1>5 DEF Foreign
  <2>2. a \in Nat /\ b \in Nat
    OBVIOUS
  <2>3. /\ tx[i].state = "free" /\ tx'[i].state = "landed"
        /\ tx'[i].amount = a /\ tx'[i].plain = b
        /\ \A j \in TxIds \ {i} : tx'[j] = tx[j]
    BY <2>1 DEF OtherTransaction
  <2>4. raised_amount' = raised_amount + a /\ Received' = Received + a + b
    <3>1. raised_amount \in Nat
      BY DEF IInv, TypeOK
    <3> HIDE DEF FundTypes
    <3>2. CASE Contribute(w, a, b)
      BY <1>0, <2>2, <3>2 DEF Contribute, Pay, Received
    <3>3. CASE a = 0 /\ Deposit(b)
      BY <1>0, <2>2, <3>1, <3>3 DEF Deposit, counters, Received
    <3>4. CASE a = 0 /\ b = 0 /\ UNCHANGED vars
      BY <1>0, <3>1, <3>4 DEF vars, counters, tokens, Received
    <3> QED BY <2>1, <3>2, <3>3, <3>4 DEF OtherTransaction
  <2> QED BY <2>2, <2>3, <2>4, NetworkGrows
<1>6. ASSUME ~CreateLands, \A i \in TxIds : ~PaymentLands(i) /\ ~PaymentFails(i) /\ ~Foreign(i),
             \A h \in Payers : ~FinishPayTx(h)
      PROVE  NetworkInv'
  <2>1. UNCHANGED raised_amount /\ Received' = Received
    BY <1>6, MoneyStands DEF Received
  <2>2. UNCHANGED tx
    <3>1. CASE CampaignStep
      BY <1>6, <3>1 DEF CampaignStep, StartCreate, CreateDies, CreateReply, CommitCreate,
                        CreateGivesUp, CreateTier, Closing, RowCloses, FundingTick, funding
    <3>2. CASE PayingStep
      BY <1>6, <3>2 DEF PayingStep, StartPaymentRequest, InsertPaymentRequest, StartPayTx
    <3>3. CASE HandlerStep
      BY <3>3 DEF HandlerStep, StartUpdate, CommitUpdate, Ask, Scan, Claim, CommitConfirm, GiveUp
    <3> QED BY <3>1, <3>2, <3>3, FundingSteps
  <2> QED BY <2>1, <2>2, NetworkKept DEF Landed, NetworkInv
<1> QED BY <1>1, <1>2, <1>3, <1>4, <1>5, <1>6

-----------------------------------------------------------------------------
(* Requests. *)

LEMMA RequestStep ==
  ASSUME FundTypes, RequestInv, HandlerInv, [FundingNext]_funding
  PROVE  RequestInv'
<1> USE DEF FundTypes, campaign, payments, handlers, network
<1>0. Kept
  BY StepKept
<1>1. ASSUME NEW t \in Tiers, CreateTier(t)
      PROVE  RequestInv'
  BY <1>0, <1>1, RequestsKept DEF CreateTier, Kept
<1>2. ASSUME NEW q \in Refs, NEW t \in Tiers \cup {None}, NEW a \in 1 .. MaxU64,
             StartPaymentRequest(q, t, a)
      PROVE  RequestInv'
  <2>1. /\ request[q].status = "none" /\ (t = None \/ t \in DOMAIN sold)
        /\ UNCHANGED <<row, sold, tx>>
        /\ row[q] = None /\ a > 0
    BY <1>2 DEF StartPaymentRequest, RequestInv, RowsAgree
  <2>2. /\ request'[q].status = "posted" /\ request'[q].amount = a /\ request'[q].tier = t
        /\ request'[q].sig = None
        /\ \A p \in Refs \ {q} : request'[p] = request[p]
    BY <1>2 DEF StartPaymentRequest, NoRequest
  <2>3. RowsAgree(q)'
    BY <2>1, <2>2 DEF RowsAgree
  <2>4. \A p \in Refs \ {q} : RowsAgree(p) => RowsAgree(p)'
    BY <2>1, <2>2 DEF RowsAgree, Backs, Proves
  <2> QED BY <2>2, <2>3, <2>4 DEF RequestInv, OwnSigs
<1>6. ASSUME NEW q \in Refs, InsertPaymentRequest(q)
      PROVE  RequestInv'
  <2>1. /\ request[q].status = "posted" /\ UNCHANGED <<row, sold, tx>>
        /\ row[q] = None /\ request[q].sig = None
    BY <1>6 DEF InsertPaymentRequest, RequestInv, RowsAgree
  <2>2. /\ request'[q].sig = None
        /\ \/ request'[q].status = "none" /\ request'[q].tier = None
           \/ /\ request'[q].status = "pending" /\ request'[q].amount = request[q].amount
              /\ request'[q].tier = request[q].tier
        /\ \A p \in Refs \ {q} : request'[p] = request[p]
    BY <1>6, <2>1 DEF InsertPaymentRequest, NoRequest, RequestRows
  <2>3. RowsAgree(q)'
    BY <2>1, <2>2 DEF RowsAgree, RequestInv
  <2>4. \A p \in Refs \ {q} : RowsAgree(p) => RowsAgree(p)'
    BY <2>1, <2>2 DEF RowsAgree, Backs, Proves
  <2>5. OwnSigs'
    <3>1. OwnSigs
      BY DEF RequestInv
    <3>2. \A p \in Refs : request'[p].sig \in {request[p].sig, None}
      BY <2>1, <2>2
    <3> HIDE DEF FundTypes
    <3> QED BY <3>1, <3>2 DEF OwnSigs
  <2> QED BY <2>3, <2>4, <2>5 DEF RequestInv
<1>3. ASSUME NEW h \in Payers, FinishPayTx(h)
      PROVE  RequestInv'
  <2>1. UNCHANGED <<row, sold>>
    BY <1>3 DEF FinishPayTx
  <2>2. \A p \in Refs : /\ request'[p].status = request[p].status
                        /\ request'[p].amount = request[p].amount
                        /\ request'[p].tier = request[p].tier
                        /\ request'[p].sig = request[p].sig
    BY <1>3, WalletWritten
  <2>3. \A p \in Refs : RowsAgree(p) => RowsAgree(p)'
    BY <1>0, <2>1, <2>2 DEF RowsAgree, Kept, Backs, Proves
  <2>4. OwnSigs'
    BY <2>2 DEF RequestInv, OwnSigs
  <2> QED BY <2>3, <2>4 DEF RequestInv
<1>4. ASSUME NEW h \in Checkers, CommitConfirm(h)
      PROVE  RequestInv'
  <2>1. PICK q \in Refs, i \in TxIds, w \in Wallets :
          /\ q = task[h].ref /\ i = task[h].sig /\ w = task[h].wallet
          /\ Backs(i, q) /\ request[q].status = "pending" /\ Unused(i)
    BY <1>4 DEF CommitConfirm, HandlerInv, Remembers, Backs, Slots
  <2>2. /\ row'[q] = w /\ \A p \in Refs \ {q} : row'[p] = row[p]
        /\ UNCHANGED tx /\ DOMAIN sold' = DOMAIN sold
    BY <1>4, <2>1 DEF CommitConfirm
  <2>3. /\ request'[q].status = "confirmed" /\ request'[q].sig = i
        /\ request'[q].amount = request[q].amount /\ request'[q].tier = request[q].tier
        /\ \A p \in Refs \ {q} : request'[p] = request[p]
    <3>1. request' = [request EXCEPT ![q].status = "confirmed", ![q].sig = i]
      BY <1>4, <2>1 DEF CommitConfirm
    <3> QED BY <3>1 DEF RequestRows
  <2>4. RowsAgree(q) => RowsAgree(q)'
    BY <2>1, <2>2, <2>3 DEF RowsAgree, Backs, Proves
  <2>5. \A p \in Refs \ {q} : RowsAgree(p) => RowsAgree(p)'
    BY <2>2, <2>3 DEF RowsAgree, Backs, Proves
  <2>6. OwnSigs'
    BY <2>1, <2>3 DEF RequestInv, OwnSigs, Unused
  <2> QED BY <2>4, <2>5, <2>6 DEF RequestInv
<1>5. ASSUME \A t \in Tiers : ~CreateTier(t),
             \A q \in Refs, t \in Tiers \cup {None}, a \in 1 .. MaxU64 :
               ~StartPaymentRequest(q, t, a),
             \A h \in Payers : ~FinishPayTx(h), \A h \in Checkers : ~CommitConfirm(h),
             \A q \in Refs : ~InsertPaymentRequest(q)
      PROVE  RequestInv'
  <2>1. UNCHANGED <<request, row, sold>>
    <3>1. CASE CampaignStep
      BY <1>5, <3>1 DEF CampaignStep, StartCreate, CreateLands, CreateDies, CreateReply,
                        CommitCreate, CreateGivesUp, Closing, RowCloses, FundingTick, funding
    <3>2. CASE PayingStep
      BY <1>5, <3>2 DEF PayingStep, StartPayTx, PaymentLands, PaymentFails, Foreign,
                        OtherTransaction
    <3>3. CASE HandlerStep
      BY <1>5, <3>3 DEF HandlerStep, StartUpdate, CommitUpdate, Ask, Scan, Claim, GiveUp
    <3> QED BY <3>1, <3>2, <3>3, FundingSteps
  <2> QED BY <1>0, <2>1, RequestsKept DEF Kept
<1> QED BY <1>1, <1>2, <1>3, <1>4, <1>5, <1>6

-----------------------------------------------------------------------------
(* Handlers. *)

(* A step of one handler concerns the others only through the requests.    *)
LEMMA OneHandlerMoves ==
  ASSUME FundTypes, HandlerInv, Kept, NEW h \in Slots,
         \A k \in Slots \ {h} :
           /\ pc'[k] = pc[k] /\ task'[k] = task[k]
           /\ pc[k] = "claimed" => /\ request'[task[k].ref].status = request[task[k].ref].status
                                   /\ \A q \in Refs : request'[q].sig # task[k].sig,
         Remembers(h)',
         pc'[h] = "claimed" =>
           \A k \in Slots \ {h} : pc[k] = "claimed" =>
             task[k].ref # task'[h].ref /\ task[k].sig # task'[h].sig
  PROVE  HandlerInv'
<1>1. ASSUME NEW k \in Slots
      PROVE  Remembers(k)'
  <2>1. CASE k # h
    BY <2>1, StillRemembers DEF HandlerInv
  <2> QED BY <2>1
<1>2. ClaimedOnce'
  BY DEF HandlerInv, ClaimedOnce
<1> QED BY <1>1, <1>2 DEF HandlerInv

(* A signature in use by a handler stays unused by requests, as long as no *)
(* request is given a signature.                                           *)
LEMMA UnusedKept ==
  ASSUME HandlerInv, \A q \in Refs : request'[q].sig \in {request[q].sig, None}
  PROVE  \A k \in Slots : pc[k] = "claimed" => \A q \in Refs : request'[q].sig # task[k].sig
<1> SUFFICES ASSUME NEW k \in Slots, pc[k] = "claimed"
             PROVE  \A q \in Refs : request'[q].sig # task[k].sig
  OBVIOUS
<1>1. Unused(task[k].sig) /\ task[k].sig \in TxIds
  BY DEF HandlerInv, Remembers, Backs
<1> QED BY <1>1 DEF Unused

(* Steps of no handler concern them only through the requests. *)
LEMMA NoHandlerMoves ==
  ASSUME FundTypes, HandlerInv, Kept, UNCHANGED handlers,
         \A q \in Refs : /\ request[q].status = "pending" => request'[q].status = "pending"
                         /\ request'[q].sig \in {request[q].sig, None}
  PROVE  HandlerInv'
<1>1. ASSUME NEW k \in Slots
      PROVE  Remembers(k)'
  <2>1. pc'[k] = pc[k] /\ task'[k] = task[k]
    BY DEF handlers
  <2>2. pc[k] = "claimed" => request'[task[k].ref].status = request[task[k].ref].status
    BY DEF HandlerInv, Remembers
  <2>3. pc[k] = "claimed" => \A q \in Refs : request'[q].sig # task[k].sig
    BY UnusedKept
  <2> QED BY <2>1, <2>2, <2>3, StillRemembers DEF HandlerInv
<1>2. ClaimedOnce'
  BY DEF HandlerInv, ClaimedOnce, handlers
<1> QED BY <1>1, <1>2 DEF HandlerInv

LEMMA HandlerInvStep ==
  ASSUME FundTypes, RequestInv, HandlerInv, [FundingNext]_funding
  PROVE  HandlerInv'
<1> USE DEF FundTypes, campaign, payments, handlers, network, Goto
<1>0. Kept /\ Payers \subseteq Slots /\ Checkers \subseteq Slots /\ Editors \subseteq Slots
  BY StepKept DEF Slots
<1>a. UNCHANGED request =>
        \A k \in Slots : pc[k] = "claimed" => \A q \in Refs : request'[q].sig # task[k].sig
  BY UnusedKept
<1>1. CASE CampaignStep
  <2>1. UNCHANGED <<handlers, request>>
    BY <1>1 DEF CampaignStep, StartCreate, CreateLands, CreateDies, CreateReply, CommitCreate,
                CreateGivesUp, CreateTier, Closing, RowCloses, FundingTick, funding
  <2> QED BY <1>0, <2>1, NoHandlerMoves
<1>2. ASSUME NEW q \in Refs, NEW t \in Tiers \cup {None}, NEW a \in 1 .. MaxU64,
             StartPaymentRequest(q, t, a)
      PROVE  HandlerInv'
  <2>1. UNCHANGED handlers
        /\ \A p \in Refs : /\ request[p].status = "pending" => request'[p].status = "pending"
                           /\ request'[p].sig \in {request[p].sig, None}
    BY <1>2 DEF StartPaymentRequest, NoRequest
  <2> QED BY <1>0, <2>1, NoHandlerMoves
<1>13. ASSUME NEW q \in Refs, InsertPaymentRequest(q)
      PROVE  HandlerInv'
  <2>1. UNCHANGED handlers
        /\ \A p \in Refs : /\ request[p].status = "pending" => request'[p].status = "pending"
                           /\ request'[p].sig \in {request[p].sig, None}
    <3>1. request[q].status = "posted" /\ \A p \in Refs \ {q} : request'[p] = request[p]
      BY <1>13 DEF InsertPaymentRequest
    <3>2. request'[q].sig \in {request[q].sig, None}
      BY <1>13 DEF InsertPaymentRequest, NoRequest, RequestRows
    <3>3. UNCHANGED handlers
      BY <1>13 DEF InsertPaymentRequest
    <3> QED BY <3>1, <3>2, <3>3
  <2> QED BY <1>0, <2>1, NoHandlerMoves
<1>3. ASSUME NEW h \in Payers, NEW q \in Refs, NEW w \in Wallets, StartPayTx(h, q, w)
      PROVE  HandlerInv'
  <2>1. /\ request[q].status = "pending" /\ UNCHANGED <<request, row, tx>>
        /\ pc'[h] = "build" /\ task'[h].ref = q /\ task'[h].wallet = w
        /\ \A k \in Slots \ {h} : pc'[k] = pc[k] /\ task'[k] = task[k]
    BY <1>0, <1>3 DEF StartPayTx, NoTask
  <2>2. Remembers(h)'
    BY <2>1 DEF Remembers, Shown
  <2> QED BY <1>0, <1>a, <2>1, <2>2, OneHandlerMoves
<1>4. ASSUME NEW h \in Payers, FinishPayTx(h)
      PROVE  HandlerInv'
  <2>1. /\ pc'[h] = "idle"
        /\ \A k \in Slots \ {h} : pc'[k] = pc[k] /\ task'[k] = task[k]
    BY <1>0, <1>4 DEF FinishPayTx
  <2>2. \A k \in Slots : pc[k] = "claimed" =>
          request'[task[k].ref].status = request[task[k].ref].status
    BY <1>4, WalletWritten DEF HandlerInv, Remembers
  <2>4. \A k \in Slots : pc[k] = "claimed" => \A q \in Refs : request'[q].sig # task[k].sig
    BY <1>4, WalletWritten, UnusedKept
  <2>3. Remembers(h)'
    BY <2>1 DEF Remembers
  <2> QED BY <1>0, <2>1, <2>2, <2>3, <2>4, OneHandlerMoves
<1>5. ASSUME NEW i \in TxIds, PaymentLands(i) \/ PaymentFails(i) \/ Foreign(i)
      PROVE  HandlerInv'
  <2>1. UNCHANGED <<handlers, request>>
    BY <1>5 DEF PaymentLands, PaymentFails, Foreign, OtherTransaction
  <2> QED BY <1>0, <2>1, NoHandlerMoves
<1>6. ASSUME NEW h \in Slots,
             (\E until \in 1 .. MaxTime : StartUpdate(h, until)) \/ CommitUpdate(h) \/ GiveUp(h)
      PROVE  HandlerInv'
  <2>1. /\ pc'[h] \in {"idle", "update"} /\ UNCHANGED request
        /\ \A k \in Slots \ {h} : pc'[k] = pc[k] /\ task'[k] = task[k]
    BY <1>6 DEF StartUpdate, CommitUpdate, GiveUp
  <2>2. Remembers(h)'
    BY <2>1 DEF Remembers
  <2> QED BY <1>0, <1>a, <2>1, <2>2, OneHandlerMoves
<1>7. ASSUME NEW h \in Checkers, NEW q \in Refs, NEW sig \in TxIds \cup {None}, Ask(h, q, sig)
      PROVE  HandlerInv'
  <2>1. /\ request[q].status = "pending" /\ UNCHANGED <<request, row, tx>>
        /\ pc'[h] = "asked" /\ task'[h].ref = q /\ task'[h].wallet = request[q].wallet
        /\ \A k \in Slots \ {h} : pc'[k] = pc[k] /\ task'[k] = task[k]
    BY <1>0, <1>7 DEF Ask, Askable, NoTask
  <2>2. request[q].wallet \in Wallets
    BY <1>7 DEF Ask, Askable, RequestRows
  <2>3. Remembers(h)'
    BY <2>1, <2>2 DEF Remembers, Shown
  <2> QED BY <1>0, <1>a, <2>1, <2>3, OneHandlerMoves
<1>8. ASSUME NEW h \in Checkers, Scan(h)
      PROVE  HandlerInv'
  <2>1. PICK q \in Refs, w \in Wallets :
          q = task[h].ref /\ w = task[h].wallet /\ Shown(q)
    BY <1>0, <1>8 DEF Scan, HandlerInv, Remembers
  <2>2. /\ UNCHANGED <<request, row, tx>>
        /\ \A k \in Slots \ {h} : pc'[k] = pc[k] /\ task'[k] = task[k]
    BY <1>0, <1>8 DEF Scan
  <2>3. \/ pc'[h] = "idle"
        \/ /\ Found(q) # None /\ pc'[h] = "found"
           /\ task'[h].ref = q /\ task'[h].wallet = w /\ task'[h].sig = Found(q)
    <3>1. task[h] \in Tasks /\ h \in Slots
      BY <1>0
    <3>2. CASE Found(q) # None /\ task[h].sig \in {None, Found(q)}
      <4>1. pc' = [pc EXCEPT ![h] = "found"] /\ task' = [task EXCEPT ![h].sig = Found(q)]
        BY <1>8, <2>1, <3>2 DEF Scan
      <4> QED BY <2>1, <3>1, <3>2, <4>1 DEF Tasks
    <3>3. CASE ~(Found(q) # None /\ task[h].sig \in {None, Found(q)})
      <4>1. pc' = [pc EXCEPT ![h] = "idle"]
        BY <1>8, <2>1, <3>3 DEF Scan
      <4> QED BY <3>1, <4>1
    <3> QED BY <3>2, <3>3
  <2>4. Remembers(h)'
    <3>1. CASE pc'[h] = "idle"
      BY <3>1 DEF Remembers
    <3>2. CASE /\ Found(q) # None /\ pc'[h] = "found"
               /\ task'[h].ref = q /\ task'[h].wallet = w /\ task'[h].sig = Found(q)
      <4>1. PICK i \in TxIds : i = Found(q) /\ Backs(i, q)
        BY <3>2, FoundBacks DEF Backs
      <4>2. Backs(i, q)'
        BY <2>2, <4>1 DEF Backs, Proves
      <4> QED BY <2>1, <2>2, <3>2, <4>1, <4>2 DEF Remembers, Shown
    <3> QED BY <2>3, <3>1, <3>2
  <2>5. pc'[h] # "claimed"
    BY <2>3
  <2> QED BY <1>0, <1>a, <2>2, <2>4, <2>5, OneHandlerMoves
<1>9. ASSUME NEW h \in Checkers, Claim(h)
      PROVE  HandlerInv'
  <2>1. PICK q \in Refs, i \in TxIds, w \in Wallets :
          /\ q = task[h].ref /\ i = task[h].sig /\ w = task[h].wallet
          /\ Backs(i, q) /\ Shown(q)
    BY <1>0, <1>9 DEF Claim, HandlerInv, Remembers, Backs
  <2>2. /\ UNCHANGED <<request, row, tx>>
        /\ \A k \in Slots \ {h} : pc'[k] = pc[k] /\ task'[k] = task[k]
    BY <1>0, <1>9 DEF Claim
  <2>3. \/ pc'[h] = "idle"
        \/ /\ pc'[h] = "claimed" /\ request[q].status = "pending" /\ Unused(i)
           /\ task'[h].ref = q /\ task'[h].wallet = w /\ task'[h].sig = i
           /\ task'[h].first = FirstOf(w)
    <3>1. task[h] \in Tasks /\ h \in Slots
      BY <1>0
    <3>2. CASE Claimable(task[h].ref) /\ Unused(task[h].sig)
      <4>1. /\ pc' = [pc EXCEPT ![h] = "claimed"]
            /\ task' = [task EXCEPT ![h].first = FirstOf(task[h].wallet)]
        BY <1>9, <3>2 DEF Claim
      <4>2. request[q].status = "pending" /\ Unused(i)
        BY <2>1, <3>2 DEF Claimable
      <4> QED BY <2>1, <3>1, <4>1, <4>2 DEF Tasks
    <3>3. CASE ~(Claimable(task[h].ref) /\ Unused(task[h].sig))
      BY <1>9, <3>1, <3>3 DEF Claim
    <3> QED BY <3>2, <3>3
  <2>4. Remembers(h)'
    <3>1. CASE pc'[h] = "idle"
      BY <3>1 DEF Remembers
    <3>2. CASE pc'[h] = "claimed"
      <4>1. Backs(i, q)' /\ FirstOf(w)' = FirstOf(w) /\ Unused(i)' = Unused(i)
        BY <2>1, <2>2 DEF Backs, Proves, FirstOf, Recorded, Unused
      <4> QED BY <2>1, <2>2, <2>3, <3>2, <4>1 DEF Remembers, Shown
    <3> QED BY <2>3, <3>1, <3>2
  <2>5. \A k \in Slots \ {h} : pc[k] = "claimed" => task[k].ref # q /\ task[k].sig # i
    BY <1>9, <2>1 DEF Claim, Claimed, Writing, HandlerInv, Remembers
  <2> QED BY <1>0, <1>a, <2>2, <2>3, <2>4, <2>5, OneHandlerMoves
<1>10. ASSUME NEW h \in Checkers, CommitConfirm(h)
       PROVE  HandlerInv'
  <2>1. /\ pc[h] = "claimed" /\ pc'[h] = "idle"
        /\ \A k \in Slots \ {h} : pc'[k] = pc[k] /\ task'[k] = task[k]
        /\ \A p \in Refs \ {task[h].ref} : request'[p] = request[p]
        /\ task[h].ref \in Refs /\ request'[task[h].ref].sig = task[h].sig
    BY <1>0, <1>10 DEF CommitConfirm, HandlerInv, Remembers, RequestRows
  <2>4. \A k \in Slots \ {h} : pc[k] = "claimed" => \A q \in Refs : request'[q].sig # task[k].sig
    <3> SUFFICES ASSUME NEW k \in Slots \ {h}, pc[k] = "claimed", NEW q \in Refs
                 PROVE  request'[q].sig # task[k].sig
      OBVIOUS
    <3>1. Unused(task[k].sig) /\ task[k].sig # task[h].sig
      BY <1>0, <2>1 DEF HandlerInv, Remembers, ClaimedOnce
    <3>4. task[k].sig # None
      BY <1>0, FundingAssumption DEF HandlerInv, Remembers, Backs
    <3>2. request[q].sig # task[k].sig
      BY <3>1, <3>4 DEF Unused
    <3>3. q # task[h].ref => request'[q].sig = request[q].sig
      BY <2>1
    <3> QED BY <2>1, <3>1, <3>2, <3>3
  <2>2. \A k \in Slots \ {h} : pc[k] = "claimed" => task[k].ref \in Refs \ {task[h].ref}
    BY <1>0, <2>1 DEF HandlerInv, Remembers, ClaimedOnce
  <2>3. Remembers(h)'
    BY <2>1 DEF Remembers
  <2> QED BY <1>0, <2>1, <2>2, <2>3, <2>4, OneHandlerMoves
<1>11. CASE PayingStep
  BY <1>2, <1>3, <1>4, <1>5, <1>11, <1>13 DEF PayingStep
<1>12. CASE HandlerStep
  BY <1>0, <1>6, <1>7, <1>8, <1>9, <1>10, <1>12 DEF HandlerStep
<1> QED BY <1>1, <1>11, <1>12, FundingSteps

-----------------------------------------------------------------------------
(* Totals. *)

(* Confirming a request adds it to what the totals summarise. *)
LEMMA ConfirmTotals ==
  ASSUME FundTypes, RequestInv, HandlerInv, TotalsAgree, NEW h \in Checkers, CommitConfirm(h)
  PROVE  TotalsAgree'
<1> USE DEF FundTypes
<1>1. PICK q \in Refs, w \in Wallets, r \in RequestRows :
        /\ q = task[h].ref /\ w = task[h].wallet /\ r = request[q]
        /\ r.status = "pending" /\ row[q] = None
        /\ task[h].first \/ ~FirstOf(w)
  BY DEF CommitConfirm, HandlerInv, Remembers, RequestInv, RowsAgree, Slots
<1>2. /\ row'[q] = w /\ \A p \in Refs \ {q} : row'[p] = row[p]
      /\ \A p \in Refs : request'[p].amount = request[p].amount
                         /\ request'[p].tier = request[p].tier
  BY SMTT(20), <1>1 DEF CommitConfirm, RequestRows
<1>3. /\ Recorded' = Recorded \cup {q} /\ q \notin Recorded /\ Recorded \subseteq Refs
  BY <1>1, <1>2 DEF Recorded
<1>4. /\ IsFiniteSet(Recorded) /\ IsFiniteSet(Recorded \cup {q}) /\ IsFiniteSet({q})
      /\ Cardinality(Recorded) \in Nat /\ Cardinality(Recorded \cup {q}) = Cardinality(Recorded) + 1
  BY <1>3, FS_Subset, FS_AddElement, FS_Singleton, FS_CardinalityType
<1>5. (db_raised = SumOver([p \in Refs |-> request[p].amount], Recorded))'
  <2> DEFINE f == [p \in Refs |-> request[p].amount]
  <2>1. f \in [Refs -> Nat]
    BY DEF RequestRows
  <2>2. f' = f
    BY <1>2
  <2>3. db_raised' = db_raised + f[q]
    BY <1>1 DEF CommitConfirm
  <2>4. db_raised = SumOver(f, Recorded)
    BY DEF TotalsAgree
  <2> HIDE DEF f
  <2>5. \A p \in Recorded \cup {q} : f[p] \in Nat
    BY <1>3, <2>1
  <2>6. SumOver(f, Recorded \cup {q}) = SumOver(f, Recorded) + SumOver(f, {q})
    <3>1. Recorded \cap {q} = {}
      BY <1>3
    <3> QED BY <1>4, <2>5, <3>1, SumDisjoint
  <2>7. SumOver(f, {q}) = f[q]
    BY <2>5, SumSingle
  <2>8. db_raised' = SumOver(f', Recorded')
    BY <1>3, <2>2, <2>3, <2>4, <2>6, <2>7
  <2> QED BY <2>8 DEF f
<1>6. (\A t \in DOMAIN sold : sold[t] = Cardinality({p \in Recorded : request[p].tier = t}))'
  <2> DEFINE Of(t) == {p \in Recorded : request[p].tier = t}
  <2>1. ASSUME NEW t \in DOMAIN sold
        PROVE  sold'[t] = Cardinality({p \in Recorded' : request'[p].tier = t})
    <3>1. IsFiniteSet(Of(t)) /\ Cardinality(Of(t)) \in Nat /\ sold[t] = Cardinality(Of(t))
      BY <1>4, FS_Subset, FS_CardinalityType DEF TotalsAgree
    <3>2. t # None
      OBVIOUS
    <3>3. CASE r.tier = t
      <4>1. {p \in Recorded' : request'[p].tier = t} = Of(t) \cup {q} /\ q \notin Of(t)
        BY <1>1, <1>2, <1>3, <3>3
      <4>2. sold'[t] = sold[t] + 1
        BY <1>1, <3>2, <3>3 DEF CommitConfirm
      <4> HIDE DEF Of
      <4>3. Cardinality(Of(t) \cup {q}) = Cardinality(Of(t)) + 1
        BY <3>1, <4>1, FS_AddElement
      <4> QED BY <3>1, <4>1, <4>2, <4>3
    <3>4. CASE r.tier # t
      <4>1. {p \in Recorded' : request'[p].tier = t} = Of(t)
        BY <1>1, <1>2, <1>3, <3>4
      <4>2. sold'[t] = sold[t]
        BY <1>1, <3>4 DEF CommitConfirm
      <4> QED BY <3>1, <4>1, <4>2
    <3> QED BY <3>3, <3>4
  <2>2. DOMAIN sold' = DOMAIN sold
    BY DEF CommitConfirm
  <2> QED BY <2>1, <2>2
<1>7. (/\ db_count >= Cardinality({row[p] : p \in Recorded})
       /\ db_count <= Cardinality(Recorded))'
  <2> DEFINE fans == {row[p] : p \in Recorded}
  <2>1. {row'[p] : p \in Recorded'} = fans \cup {w}
    <3>1. \A p \in Recorded : row'[p] = row[p]
      BY <1>2, <1>3
    <3>2. {row'[p] : p \in Recorded \cup {q}} = {row'[p] : p \in Recorded} \cup {w}
      BY <1>2
    <3>3. {row'[p] : p \in Recorded} = fans
      <4> DEFINE still == {row'[p] : p \in Recorded}
      <4>1. \A p \in Recorded : row'[p] \in fans
        BY <3>1
      <4>2. \A p \in Recorded : row'[p] \in still
        OBVIOUS
      <4>3. \A p \in Recorded : row[p] \in still
        BY <3>1, <4>2
      <4>4. still \subseteq fans
        <5> SUFFICES ASSUME NEW x \in still PROVE x \in fans
          OBVIOUS
        <5>1. PICK p \in Recorded : x = row'[p]
          OBVIOUS
        <5> QED BY <4>1, <5>1
      <4> HIDE DEF still
      <4>5. fans \subseteq still
        BY <4>3
      <4> HIDE DEF fans
      <4>6. still = fans
        BY <4>4, <4>5
      <4> QED BY <4>6 DEF still, fans
    <3> QED BY <1>3, <3>2, <3>3
  <2>2. fans \subseteq Wallets
    BY DEF Recorded
  <2>3. IsFiniteSet(fans) /\ Cardinality(fans) \in Nat
    BY <2>2, FS_Subset, FS_CardinalityType
  <2>4. db_count \in Nat /\ db_count >= Cardinality(fans) /\ db_count <= Cardinality(Recorded)
    BY DEF TotalsAgree
  <2>5. ~FirstOf(w) => w \in fans
    BY DEF FirstOf
  <2> HIDE DEF fans
  <2>6. Cardinality(fans \cup {w}) = IF w \in fans THEN Cardinality(fans) ELSE Cardinality(fans) + 1
    BY <2>3, FS_AddElement
  <2>7. db_count' >= Cardinality(fans \cup {w}) /\ db_count' <= Cardinality(Recorded) + 1
    <3>1. CASE task[h].first
      <4>1. db_count' = db_count + 1
        BY <3>1 DEF CommitConfirm
      <4>2. Cardinality(fans \cup {w}) <= Cardinality(fans) + 1
        BY <2>3, <2>6
      <4> HIDE DEF FundTypes
      <4> QED BY <1>4, <2>3, <2>4, <2>6, <4>1, <4>2
    <3>2. CASE ~task[h].first
      <4>1. db_count' = db_count
        BY <2>4, <3>2 DEF CommitConfirm
      <4> QED BY <1>1, <1>4, <2>3, <2>4, <2>5, <2>6, <3>2, <4>1
    <3> QED BY <3>1, <3>2
  <2> QED BY <1>3, <1>4, <2>1, <2>7
<1> QED BY <1>5, <1>6, <1>7 DEF TotalsAgree

LEMMA TotalsStep ==
  ASSUME FundTypes, RequestInv, HandlerInv, TotalsAgree, [FundingNext]_funding
  PROVE  TotalsAgree'
<1> USE DEF FundTypes, campaign, payments, handlers, network
<1>1. ASSUME NEW t \in Tiers, CreateTier(t)
      PROVE  TotalsAgree'
  <2>1. /\ UNCHANGED <<request, row, db_raised, db_count>> /\ t \notin DOMAIN sold
        /\ DOMAIN sold' = DOMAIN sold \cup {t} /\ sold'[t] = 0
        /\ \A u \in DOMAIN sold : sold'[u] = sold[u]
    BY <1>1 DEF CreateTier
  <2>2. Recorded' = Recorded /\ Recorded \subseteq Refs
    BY <2>1 DEF Recorded
  <2>3. {p \in Recorded : request[p].tier = t} = {}
    <3>1. t # None /\ \A p \in Refs : request[p].tier \in {None} \cup DOMAIN sold
      BY DEF RequestInv, RowsAgree
    <3>2. \A p \in Refs : request[p].tier # t
      <4> HIDE DEF FundTypes
      <4> QED BY <2>1, <3>1
    <3> QED BY <2>2, <3>2
  <2>4. Cardinality({p \in Recorded : request[p].tier = t}) = 0
    BY <2>3, FS_EmptySet
  <2>5. \A u \in DOMAIN sold' : sold'[u] = Cardinality({p \in Recorded : request[p].tier = u})
    <3>1. \A u \in DOMAIN sold : sold[u] = Cardinality({p \in Recorded : request[p].tier = u})
      BY DEF TotalsAgree
    <3> HIDE DEF FundTypes
    <3> QED BY <2>1, <2>4, <3>1
  <2> QED BY <2>1, <2>2, <2>5 DEF TotalsAgree
<1>2. ASSUME NEW q \in Refs, NEW t \in Tiers \cup {None}, NEW a \in 1 .. MaxU64,
             StartPaymentRequest(q, t, a)
      PROVE  TotalsAgree'
  <2>1. /\ UNCHANGED <<row, sold, db_raised, db_count>>
        /\ \A p \in Refs \ {q} : request'[p] = request[p]
    BY <1>2 DEF StartPaymentRequest
  <2>2. Recorded \subseteq Refs \ {q}
    BY <1>2 DEF StartPaymentRequest, Recorded, RequestInv, RowsAgree
  <2> QED BY <2>1, <2>2, TotalsKept
<1>5. ASSUME NEW q \in Refs, InsertPaymentRequest(q)
      PROVE  TotalsAgree'
  <2>1. /\ UNCHANGED <<row, sold, db_raised, db_count>>
        /\ \A p \in Refs \ {q} : request'[p] = request[p]
    BY <1>5 DEF InsertPaymentRequest
  <2>2. Recorded \subseteq Refs \ {q}
    BY <1>5 DEF InsertPaymentRequest, Recorded, RequestInv, RowsAgree
  <2> QED BY <2>1, <2>2, TotalsKept
<1>3. ASSUME NEW h \in Payers, FinishPayTx(h)
      PROVE  TotalsAgree'
  <2>1. UNCHANGED <<row, sold, db_raised, db_count>>
    BY <1>3 DEF FinishPayTx
  <2> QED BY <1>3, <2>1, WalletWritten, TotalsKept DEF Recorded
<1>4. ASSUME \A t \in Tiers : ~CreateTier(t),
             \A q \in Refs, t \in Tiers \cup {None}, a \in 1 .. MaxU64 :
               ~StartPaymentRequest(q, t, a),
             \A h \in Payers : ~FinishPayTx(h), \A h \in Checkers : ~CommitConfirm(h),
             \A q \in Refs : ~InsertPaymentRequest(q)
      PROVE  TotalsAgree'
  <2>1. UNCHANGED <<request, row, sold, db_raised, db_count>>
    <3>1. CASE CampaignStep
      BY <1>4, <3>1 DEF CampaignStep, StartCreate, CreateLands, CreateDies, CreateReply,
                        CommitCreate, CreateGivesUp, Closing, RowCloses, FundingTick, funding
    <3>2. CASE PayingStep
      BY <1>4, <3>2 DEF PayingStep, StartPayTx, PaymentLands, PaymentFails, Foreign,
                        OtherTransaction
    <3>3. CASE HandlerStep
      BY <1>4, <3>3 DEF HandlerStep, StartUpdate, CommitUpdate, Ask, Scan, Claim, GiveUp
    <3> QED BY <3>1, <3>2, <3>3, FundingSteps
  <2> QED BY <2>1, TotalsKept
<1> QED BY <1>1, <1>2, <1>3, <1>4, <1>5, ConfirmTotals

-----------------------------------------------------------------------------
(* The invariant holds ... *)

LEMMA FundingInvStep == FundingInv /\ [FundingNext]_funding => FundingInv'
<1> SUFFICES ASSUME FundingInv, [FundingNext]_funding
             PROVE  FundingInv'
  OBVIOUS
<1> USE DEF FundingInv
<1>1. IInv'
  BY FundingStepOnChain, StepIInv
<1>2. FundTypes'
  BY CampaignTypes, PayingTypes, HandlerTypes, FundingSteps DEF IInv
<1>3. OpeningInv' /\ ClosedMissed'
  BY OpeningInvStep, ClosedMissedStep
<1>4. RequestInv' /\ HandlerInv'
  BY RequestStep, HandlerInvStep
<1>5. NetworkInv'
  BY NetworkStep
<1>6. TotalsAgree'
  BY TotalsStep
<1> QED BY <1>1, <1>2, <1>3, <1>4, <1>5, <1>6

(* Whatever the handlers, the wallets and the network do, in whatever      *)
(* order: the base of the theorems below.                                  *)
THEOREM FundingInductive == FundingSpec => []FundingInv
BY InitFundingInv, FundingInvStep, PTL DEF FundingSpec

(* The funding phase only ever runs instructions of the escrow program, so *)
(* every theorem about that program holds of it.                           *)
THEOREM FundingDrivesEscrow == FundingSpec => Spec
<1>1. FundingInit => Init
  BY DEF FundingInit
<1>2. FundingInv /\ [FundingNext]_funding => [Next]_vars
  BY FundingStepOnChain DEF FundingInv
<1> QED BY <1>1, <1>2, FundingInductive, PTL DEF FundingSpec, Spec

(* So a campaign keeps, while it is funded, what Custody promises backers.  *)
THEOREM FundingKeepsPromise == FundingSpec => PromiseSpec
BY FundingDrivesEscrow, EscrowKeepsPromise, PTL

-----------------------------------------------------------------------------
(* ... and the properties follow. *)

(* Rows, handlers and transactions keep their shapes, and a request is     *)
(* confirmed with a Contribution row or not at all.                        *)
THEOREM FundingShapes == FundingSpec => []FundingTypeOK
<1>1. FundingInv => FundingTypeOK
  <2> SUFFICES ASSUME FundingInv PROVE FundingTypeOK
    OBVIOUS
  <2> USE DEF FundingInv, FundTypes
  <2>1. TypeOK
    BY DEF IInv
  <2>2. \A t \in DOMAIN sold : sold[t] \in Nat
    OBVIOUS
  <2>3. \A q \in Refs :
          /\ request[q].status \in {"none", "posted", "pending", "confirmed"}
          /\ request[q].wallet \in Wallets \cup {None} /\ request[q].tier \in Tiers \cup {None}
    BY DEF RequestRows
  <2>4. \A q \in Refs :
          /\ request[q].status = "confirmed" <=> row[q] # None
          /\ request[q].status = "confirmed" <=> request[q].sig # None
    BY DEF RequestInv, RowsAgree
  <2>5. \A i \in TxIds : tx[i].state \in {"free", "built", "landed", "failed"}
    BY DEF Transactions
  <2> QED BY <2>1, <2>2, <2>3, <2>4, <2>5 DEF FundingTypeOK
<1> QED BY <1>1, FundingInductive, PTL

(* A page has its escrow behind it, with the page's goal and a deadline    *)
(* less than a second before the page's, or later.                         *)
THEOREM FundingRowIsOnChain == FundingSpec => []RowIsOnChain
<1>1. FundingInv => RowIsOnChain
  <2> SUFFICES ASSUME FundingInv, db_status # "None"
               PROVE  /\ status # "None" /\ agent_authority = Agent
                      /\ db_goal = goal_amount /\ db_deadline <= deadline + 1
    BY DEF RowIsOnChain
  <2>1. /\ opening.at = "done" /\ status # "None" /\ db_goal = opening.goal
        /\ db_deadline <= opening.row /\ opening.row \in {opening.until, opening.until + 1}
        /\ agent_authority = Agent /\ goal_amount = opening.goal /\ deadline = opening.until
    BY DEF FundingInv, OpeningInv
  <2>2. db_deadline \in Nat /\ opening.until \in Nat
    BY DEF FundingInv, FundTypes
  <2> QED BY <2>1, <2>2
<1> QED BY <1>1, FundingInductive, PTL

(* The totals of the campaign and of its tiers summarise the rows.         *)
THEOREM FundingTotalsAgree == FundingSpec => []TotalsAgree
<1>1. FundingInv => TotalsAgree
  BY DEF FundingInv
<1> QED BY <1>1, FundingInductive, PTL

(* Each recorded request has a transaction of its own among those that     *)
(* landed, so the recorded total is at most what they brought, and at most *)
(* what they contributed if each contributed its amount.                   *)
LEMMA RaisedCovers ==
  ASSUME FundingInv
  PROVE  /\ db_raised <= Received
         /\ ProofsContribute => db_raised <= raised_amount
<1> DEFINE f == [q \in Refs |-> request[q].amount]
           sigs == [q \in Refs |-> request[q].sig]
<1> USE DEF FundingInv
<1>1. \A q \in Recorded : q \in Refs /\ Backs(request[q].sig, q)
  BY DEF RequestInv, RowsAgree, Recorded
<1>2. \A q \in Recorded : /\ f[q] = request[q].amount /\ f[q] \in Nat
                          /\ sigs[q] = request[q].sig
  BY <1>1 DEF FundTypes, RequestRows
<1>3. \A i \in Landed : /\ TxAmounts[i] = tx[i].amount /\ TxAmounts[i] \in Nat
                        /\ TxTotals[i] = tx[i].amount + tx[i].plain /\ TxTotals[i] \in Nat
  BY DEF Landed, TxAmounts, TxTotals, FundTypes, Transactions
<1>4. \A q \in Recorded : /\ sigs[q] \in Landed /\ f[q] <= TxTotals[sigs[q]]
                          /\ ProofsContribute => f[q] <= TxAmounts[sigs[q]]
  BY <1>1, <1>2, <1>3 DEF Backs, Proves, Landed, ProofsContribute
<1>5. \A p, q \in Recorded : sigs[p] = sigs[q] => p = q
  BY <1>1, <1>2 DEF Backs, RequestInv, OwnSigs
<1>6. db_raised = SumOver(f, Recorded)
  BY DEF TotalsAgree
<1>7. /\ IsFiniteSet(Landed) /\ raised_amount = SumOver(TxAmounts, Landed)
      /\ Received = SumOver(TxTotals, Landed)
  BY DEF NetworkInv
<1> HIDE DEF f, sigs
<1>8. \A q \in Recorded : f[q] \in Nat
  BY <1>2
<1>9. SumOver(f, Recorded) <= SumOver(TxTotals, Landed)
  BY <1>3, <1>4, <1>5, <1>7, <1>8, SumInjection
<1>10. ASSUME ProofsContribute
       PROVE  SumOver(f, Recorded) <= SumOver(TxAmounts, Landed)
  BY <1>3, <1>4, <1>5, <1>7, <1>8, <1>10, SumInjection
<1> QED BY <1>6, <1>7, <1>9, <1>10

(* What is recorded was paid by a transaction of its own, and the pages    *)
(* never show more than the campaign's token account received.             *)
THEOREM FundingRecordedIsPaid == FundingSpec => []RecordedIsPaid
<1>1. FundingInv => RecordedIsPaid
  <2> SUFFICES ASSUME FundingInv PROVE RecordedIsPaid
    OBVIOUS
  <2>1. db_raised <= Received
    BY RaisedCovers
  <2>2. \A q \in Recorded : q \in Refs /\ Backs(request[q].sig, q)
    BY DEF FundingInv, RequestInv, RowsAgree, Recorded
  <2>3. \A p, q \in Recorded : request[p].sig = request[q].sig => p = q
    BY <2>2 DEF FundingInv, RequestInv, OwnSigs, Backs
  <2> QED BY <2>1, <2>2, <2>3 DEF Backs, Proves, RecordedIsPaid
<1> QED BY <1>1, FundingInductive, PTL

(* Nobody is recorded exactly when the totals are zero, and nobody has     *)
(* contributed exactly when nothing is raised.                             *)
LEMMA NobodyIsNothing ==
  ASSUME FundingInv
  PROVE  /\ db_raised = 0 <=> db_count = 0
         /\ raised_amount = 0 <=> contributor_count = 0
<1> USE DEF FundingInv
<1> DEFINE f == [q \in Refs |-> request[q].amount]
           fans == {row[q] : q \in Recorded}
<1>1. IsFiniteSet(Recorded) /\ Recorded \subseteq Refs
  BY FS_Subset DEF Recorded
<1>2. \A q \in Recorded : f[q] \in Nat /\ f[q] > 0
  BY <1>1 DEF FundTypes, RequestInv, RowsAgree, Recorded, RequestRows
<1>3. db_raised = SumOver(f, Recorded) /\ db_raised \in Nat /\ db_count \in Nat
      /\ db_count >= Cardinality(fans) /\ db_count <= Cardinality(Recorded)
  BY DEF TotalsAgree, FundTypes
<1>4. fans \subseteq Wallets
  BY DEF Recorded, FundTypes
<1>5. IsFiniteSet(fans)
  BY <1>4, FS_Subset
<1>6. \A q \in Recorded : row[q] \in fans
  OBVIOUS
<1> HIDE DEF f, fans
<1>7. db_raised = 0 <=> db_count = 0
  <2>1. CASE Recorded = {}
    <3>1. db_raised = 0
      BY <1>3, <2>1, SumEmpty
    <3>2. db_count = 0
      BY <1>3, <2>1, FS_EmptySet
    <3> QED BY <3>1, <3>2
  <2>2. CASE Recorded # {}
    <3>1. PICK q \in Recorded : TRUE
      BY <2>2
    <3>2. f[q] <= SumOver(f, Recorded)
      BY <1>1, <1>2, SumMember
    <3>3. db_raised # 0
      BY <1>2, <1>3, <3>2
    <3>4. fans # {}
      BY <1>6, <3>1
    <3>5. Cardinality(fans) # 0 /\ Cardinality(fans) \in Nat
      BY <1>5, <3>4, FS_EmptySet, FS_CardinalityType
    <3>6. db_count # 0
      BY <1>3, <3>5
    <3> QED BY <3>3, <3>6
  <2> QED BY <2>1, <2>2
<1>8. \A w \in Wallets : amount[w] \in Nat
  BY DEF IInv, TypeOK
<1>9. IsFiniteSet(Contributors) /\ contributor_count = Cardinality(Contributors)
       /\ raised_amount = SumOver(amount, Wallets)
  BY FS_Subset DEF IInv, CountersAgree, Contributors
<1>10. CASE Contributors = {}
  <2>1. \A w \in Wallets : amount[w] = 0
    BY <1>8, <1>10 DEF Contributors
  <2> QED BY <1>7, <1>9, <1>10, <2>1, SumZero, FS_EmptySet
<1>11. CASE Contributors # {}
  <2>1. PICK w \in Wallets : amount[w] > 0
    BY <1>11 DEF Contributors
  <2>2. amount[w] <= SumOver(amount, Wallets)
    BY <1>8, SumMember
  <2>3. raised_amount # 0
    BY <1>8, <1>9, <2>1, <2>2
  <2>4. contributor_count # 0
    BY <1>9, <1>11, FS_EmptySet
  <2> QED BY <1>7, <2>3, <2>4
<1> QED BY <1>10, <1>11

(* The status shown for an overdue campaign is the one closing it brings:  *)
(* EXECUTING if what is recorded was contributed, any status once what is  *)
(* recorded adds up to what was raised.                                    *)
THEOREM FundingShownIsWhatCloses == FundingSpec => []ShownIsWhatCloses
<1>1. FundingInv => ShownIsWhatCloses
  <2> SUFFICES ASSUME FundingInv, db_status = "Funding", db_deadline <= now
               PROVE  /\ ProofsContribute /\ overdue_status = "Executing" =>
                           IF status = "Funding" THEN StatusAtClose = "Executing"
                           ELSE status = "Executing"
                      /\ status = "Funding" /\ db_raised = raised_amount =>
                           overdue_status = StatusAtClose
    BY DEF ShownIsWhatCloses
  <2>1. /\ db_raised \in Nat /\ db_goal \in Nat /\ db_count \in Nat /\ db_deadline \in Nat
        /\ raised_amount \in Nat /\ goal_amount \in Nat /\ contributor_count \in Nat
        /\ released_amount \in Nat /\ now \in Nat
    BY DEF FundingInv, FundTypes, IInv, TypeOK
  <2>2. overdue_status = IF db_raised >= db_goal THEN "Executing"
                         ELSE IF db_count > 0 THEN "Refunding" ELSE "Closed"
    BY <2>1 DEF overdue_status
  <2>3. StatusAtClose = IF raised_amount >= goal_amount THEN "Executing"
                        ELSE IF contributor_count = 0 THEN "Closed" ELSE "Refunding"
    BY <2>1 DEF StatusAtClose
  <2>4. /\ status \in Statuses /\ status # "None" /\ db_goal = goal_amount
        /\ ProofsContribute => db_raised <= raised_amount
    BY RaisedCovers DEF FundingInv, OpeningInv, IInv, TypeOK
  <2>5. raised_amount >= goal_amount => status \in {"Funding", "Executing"}
    BY <2>1, <2>4 DEF FundingInv, IInv, StatusFacts, ClosedMissed, Statuses
  <2>6. ProofsContribute /\ overdue_status = "Executing" => raised_amount >= goal_amount
    BY <2>1, <2>2, <2>4
  <2>7. db_raised = raised_amount => overdue_status = StatusAtClose
    BY <2>1, <2>2, <2>3, <2>4, NobodyIsNothing
  <2> QED BY <2>3, <2>5, <2>6, <2>7
<1> QED BY <1>1, FundingInductive, PTL
=============================================================================
