-------------------------- MODULE SettlementProofs --------------------------
(***************************************************************************)
(* Proofs about settlement for every number of handlers, proofs, wallets   *)
(* and transactions, every batch size and every set of faults.             *)
(***************************************************************************)
EXTENDS Settlement, EscrowProofs

USE EscrowAssumption, SettlementAssumption

(* Where a handler, or the sidecar call it made, pays or refunds. *)
Releasing == {"release", "join", "released", "releaseOk", "releaseErr"}
Refunding == {"refund", "batch", "sent", "tally", "refundOk", "refundErr"}

Places == Waiting \cup Answered \cup {"idle", "lock"}

RowTypes ==
  /\ db_status \in Statuses \ {"None"}
  /\ db_raised \in Nat /\ db_released \in Nat
  /\ db_refunded \in Nat /\ db_refunded_count \in Nat
  /\ held_rows \in Nat /\ marked_rows \in Nat
  /\ release_tx \in SUBSET Proofs

SlotTypes ==
  /\ pc \in [Slots -> Places] /\ proof \in [Slots -> Proofs \cup {None}]
  /\ gone \in SUBSET Slots /\ row_lock \in Slots \cup {None}
  /\ seen \in [Slots -> Answers] /\ todo \in [Slots -> SUBSET Wallets]

SidecarTypes ==
  /\ tx \in [Slots -> TxIds \cup {None}] /\ job \in [Proofs -> TxIds \cup {None}]
  /\ cache \in SUBSET Proofs /\ misled \in SUBSET Proofs
  /\ net \in [TxIds -> Transactions] /\ paid \in [Proofs -> Nat]

(* The row lock is held from a check to the commit; only a request that    *)
(* called the sidecar can be given up.                                     *)
LockInv ==
  \A r \in Slots :
    /\ row_lock = r <=> r \notin gone /\ pc[r] \in Releasing \cup Refunding
    /\ r \in gone => pc[r] \in Waiting \cup Answered
    /\ pc[r] \in Releasing => proof[r] \in Proofs

(* A transaction somebody awaits is in its place, is the one that was      *)
(* sent, and has one handler or task that awaits it.                       *)
WireInv ==
  /\ \A i \in TxIds : net[i].state # "free" =>
       net[i].op # "none" /\ (net[i].op = "release" => net[i].pays \in Proofs)
  /\ \A r \in Slots : tx[r] # None =>
       /\ net[tx[r]].state # "free"
       /\ net[tx[r]].op = IF pc[r] = "closing" THEN "close" ELSE "refund"
  /\ \A r \in Slots : tx[r] # None <=> pc[r] \in {"closing", "sent"}
  /\ \A r, q \in Slots : tx[r] = tx[q] /\ tx[r] # None => r = q
  /\ \A p \in Proofs : job[p] # None =>
       net[job[p]].state # "free" /\ net[job[p]].op = "release" /\ net[job[p]].pays = p

(* The campaign exists, and is the service's. *)
ChainInv == IInv /\ status # "None" /\ agent_authority = Agent

-----------------------------------------------------------------------------
(* The chain only moves on. *)

Forward ==
  /\ Follows(status, status')
  /\ raised_amount <= raised_amount' /\ released_amount <= released_amount'
  /\ refunded_amount <= refunded_amount' /\ refunded_count <= refunded_count'
  /\ \A w \in Wallets : amount[w] <= amount'[w]
  /\ status # "Funding" => amount' = amount
  /\ refunded \subseteq refunded'
  /\ \A p \in Proofs : paid[p] <= paid'[p]

(* Who moves it. *)
LEMMA LedgerKept ==
  SettlementNext =>
    \/ UNCHANGED ledger
    \/ \E i \in TxIds : TxLands(i)
    \/ MoneyArrives
    \/ Clock
<1>1. ASSUME NEW r \in Slots, ApiStep(r) PROVE UNCHANGED ledger
  BY <1>1 DEF ApiStep, StartClose, CommitClose, CloseFails, CommitRelease, ReleaseFails,
              StartRefund, LockRefund, CommitRefund, RefundFails
<1>2. ASSUME NEW r \in Slots, SidecarStep(r) PROVE UNCHANGED ledger
  BY <1>2 DEF SidecarStep, SidecarClose, SidecarCloseDone, SidecarCloseStatus, SidecarRelease,
              SidecarReleaseStatus, ListPending, SendBatch, BatchDone, Tally, Discard
<1>3. ASSUME NEW r \in Slots, GiveUp(r) PROVE UNCHANGED ledger
  BY <1>3 DEF GiveUp
<1>4. ASSUME NEW r \in Releasers, NEW p \in Proofs, StartRelease(r, p) PROVE UNCHANGED ledger
  BY <1>4 DEF StartRelease
<1>5. ASSUME NEW p \in Proofs, SidecarReleaseDone(p) PROVE UNCHANGED ledger
  BY <1>5 DEF SidecarReleaseDone
<1>6. ASSUME NEW i \in TxIds, TxFails(i) PROVE UNCHANGED ledger
  BY <1>6 DEF TxFails
<1>7. ASSUME NEW a \in 1 .. MaxU64, ConfirmPayment(a) PROVE UNCHANGED ledger
  BY <1>7 DEF ConfirmPayment
<1>8. ASSUME Restart PROVE UNCHANGED ledger
  BY <1>8 DEF Restart
<1> QED BY <1>1, <1>2, <1>3, <1>4, <1>5, <1>6, <1>7, <1>8 DEF SettlementNext

(* A transaction that lands is one of the program's instructions. *)
LEMMA LandsAs ==
  ASSUME SidecarTypes, WireInv, NEW i \in TxIds, TxLands(i)
  PROVE  \/ net[i].op = "close" /\ CloseCampaign(Agent) /\ UNCHANGED paid
         \/ /\ net[i].op = "release" /\ net[i].pays \in Proofs
            /\ Release(Agent, Cost[net[i].pays])
            /\ paid' = [paid EXCEPT ![net[i].pays] = @ + 1]
         \/ /\ net[i].op = "refund" /\ net[i].refunds \in SUBSET Wallets
            /\ Refund(Agent, net[i].refunds) /\ UNCHANGED paid
<1>1. net[i].state = "flying" /\ net[i] \in Transactions
  BY DEF TxLands, SidecarTypes
<1>2. net[i].op \in {"close", "release", "refund"}
  BY <1>1 DEF WireInv, Transactions
<1>3. net[i].op = "release" => net[i].pays \in Proofs
  BY <1>1 DEF WireInv
<1>4. net[i].refunds \in SUBSET Wallets
  BY <1>1 DEF Transactions
<1> QED BY <1>2, <1>3, <1>4 DEF TxLands

LEMMA ChainStep ==
  ASSUME ChainInv, SidecarTypes, WireInv, SettlementNext
  PROVE  ChainInv' /\ Forward
<1> USE DEF ChainInv
<1>1. CASE UNCHANGED ledger
  <2>1. UNCHANGED vars /\ paid' = paid
    BY <1>1 DEF ledger
  <2>2. IInv'
    BY <2>1, IdleIInv
  <2>3. UNCHANGED <<status, agent_authority, raised_amount, released_amount, refunded_amount,
                    refunded_count, amount, refunded>>
    BY <2>1 DEF vars, terms, counters
  <2>4. Forward
    BY <2>1, <2>3 DEF Forward, Follows, IInv, TypeOK, SidecarTypes
  <2> QED BY <2>2, <2>3, <2>4
<1>2. CASE CloseCampaign(Agent) /\ UNCHANGED paid
  <2>1. IInv'
    BY <1>2, CloseCampaignIInv
  <2>2. /\ status = "Funding" /\ status' \in {"Executing", "Closed", "Refunding"}
        /\ UNCHANGED <<agent_authority, raised_amount, released_amount, refunded_amount,
                       refunded_count, amount, refunded, paid>>
    BY <1>2 DEF CloseCampaign, StatusAtClose, terms, counters
  <2>3. Forward
    BY <2>2 DEF Forward, Follows, IInv, TypeOK, SidecarTypes
  <2> QED BY <2>1, <2>2, <2>3
<1>3. ASSUME NEW p \in Proofs, Release(Agent, Cost[p]), paid' = [paid EXCEPT ![p] = @ + 1]
      PROVE  ChainInv' /\ Forward
  <2>1. Cost[p] \in 1 .. MaxU64
    OBVIOUS
  <2>2. IInv'
    BY <1>3, <2>1, ReleaseIInv
  <2>3. /\ status = "Executing" /\ status' \in {"Executing", "Closed"}
        /\ released_amount' = released_amount + Cost[p]
        /\ UNCHANGED <<agent_authority, raised_amount, refunded_amount, refunded_count,
                       amount, refunded>>
    BY <1>3 DEF Release, StatusAfterRelease, terms
  <2>4. Forward
    BY <1>3, <2>1, <2>3 DEF Forward, Follows, IInv, TypeOK, SidecarTypes
  <2> QED BY <2>2, <2>3, <2>4
<1>4. ASSUME NEW S \in SUBSET Wallets, Refund(Agent, S), UNCHANGED paid
      PROVE  ChainInv' /\ Forward
  <2>1. IInv'
    BY <1>4, RefundIInv
  <2>2. SumOver(amount, S) \in Nat /\ Cardinality(S) \in Nat
    BY <1>4, RefundAdds DEF Refund, Refundable, IInv
  <2>3. /\ status = "Refunding" /\ status' \in {"Refunding", "Closed"}
        /\ refunded_amount' = refunded_amount + SumOver(amount, S)
        /\ refunded_count' = refunded_count + Cardinality(S)
        /\ refunded' = refunded \cup S
        /\ UNCHANGED <<agent_authority, raised_amount, released_amount, amount>>
    BY <1>4 DEF Refund, terms
  <2>4. Forward
    BY <1>4, <2>2, <2>3 DEF Forward, Follows, IInv, TypeOK, SidecarTypes
  <2> QED BY <2>1, <2>3, <2>4
<1>5. ASSUME NEW w \in Wallets, NEW a \in 1 .. MaxU64, NEW b \in 0 .. MaxU64,
             Contribute(w, a, b), UNCHANGED paid
      PROVE  ChainInv' /\ Forward
  <2>1. Contribute(w, a, b) /\ UNCHANGED paid
    BY <1>5
  <2>2. IInv'
    BY <2>1, ContributeIInv
  <2>3. refunded = {}
    BY <2>1 DEF Contribute, Accepting, IInv, StatusFacts
  <2>4. /\ status = "Funding" /\ raised_amount' = raised_amount + a
        /\ amount' = [amount EXCEPT ![w] = @ + a]
        /\ UNCHANGED <<status, agent_authority, released_amount, refunded_amount,
                       refunded_count>>
    BY <2>1 DEF Contribute, Accepting, terms
  <2>5. Forward
    BY <2>1, <2>3, <2>4 DEF Forward, Follows, IInv, TypeOK, SidecarTypes
  <2> QED BY <2>2, <2>4, <2>5
<1>6. CASE Clock
  <2>1. Tick /\ paid' = paid
    BY <1>6 DEF Clock
  <2>2. IInv'
    BY <2>1, IdleIInv
  <2>3. UNCHANGED <<status, agent_authority, raised_amount, released_amount, refunded_amount,
                    refunded_count, amount, refunded>>
    BY <2>1 DEF Tick, terms, counters
  <2>4. Forward
    BY <2>1, <2>3 DEF Forward, Follows, IInv, TypeOK, SidecarTypes
  <2> QED BY <2>2, <2>3, <2>4
<1>7. CASE \E i \in TxIds : TxLands(i)
  BY <1>2, <1>3, <1>4, <1>7, LandsAs
<1>8. ASSUME NEW b \in 1 .. MaxU64, Deposit(b), UNCHANGED paid
      PROVE  ChainInv' /\ Forward
  <2>1. IInv'
    BY <1>8, DepositIInv
  <2>2. UNCHANGED <<status, agent_authority, raised_amount, released_amount, refunded_amount,
                    refunded_count, amount, refunded>>
    BY <1>8 DEF Deposit, terms, counters
  <2>3. Forward
    BY <1>8, <2>2 DEF Forward, Follows, IInv, TypeOK, SidecarTypes
  <2> QED BY <2>1, <2>2, <2>3
<1>9. CASE MoneyArrives
  BY <1>5, <1>8, <1>9 DEF MoneyArrives
<1> QED BY <1>1, <1>6, <1>7, <1>9, LedgerKept

-----------------------------------------------------------------------------
(* What the sidecar's records turn into. *)

LEMMA AnswerTypes ==
  ASSUME NEW s \in Statuses
  PROVE  /\ NoAnswer \in Answers /\ NoAnswer.amount = 0 /\ NoAnswer.count = 0
         /\ [NoAnswer EXCEPT !.status = s] \in Answers
         /\ [NoAnswer EXCEPT !.status = s].status = s
         /\ [NoAnswer EXCEPT !.status = s].amount = 0
         /\ [NoAnswer EXCEPT !.status = s].count = 0
<1>1. "None" \in Statuses /\ 0 \in 0 .. MaxU64 /\ 0 \in 0 .. MaxU32
  BY DEF Statuses
<1> QED BY <1>1 DEF NoAnswer, Answers

LEMMA FreeTxType == FreeTx \in Transactions /\ FreeTx.state = "free"
BY DEF FreeTx, Transactions

LEMMA SubmitNet ==
  ASSUME SidecarTypes, NEW i \in TxIds, NEW op \in {"close", "release", "refund"},
         NEW p \in Proofs \cup {None}, NEW S \in SUBSET Wallets, Submit(i, op, p, S)
  PROVE  /\ net' \in [TxIds -> Transactions] /\ net[i].state = "free"
         /\ net'[i].state = "flying" /\ net'[i].op = op /\ net'[i].pays = p
         /\ net'[i].refunds = S
         /\ \A j \in TxIds \ {i} : net'[j] = net[j]
BY DEF SidecarTypes, Submit, Transactions

LEMMA LetGoNet ==
  ASSUME SidecarTypes, NEW i \in TxIds, LetGo(i)
  PROVE  /\ net' \in [TxIds -> Transactions]
         /\ net'[i] = IF net[i].state = "flying" THEN net[i] ELSE FreeTx
         /\ \A j \in TxIds \ {i} : net'[j] = net[j]
BY FreeTxType DEF SidecarTypes, LetGo

LEMMA SettledNet ==
  ASSUME SidecarTypes, NEW i \in TxIds, NEW outcome \in {"landed", "failed"}, Settled(i, outcome)
  PROVE  /\ net' \in [TxIds -> Transactions]
         /\ Awaited(i) =>
              /\ net'[i].state = outcome /\ net'[i].op = net[i].op
              /\ net'[i].pays = net[i].pays /\ net'[i].refunds = net[i].refunds
         /\ ~Awaited(i) => net'[i] = FreeTx
         /\ \A j \in TxIds \ {i} : net'[j] = net[j]
<1>1. net[i] \in Transactions
  BY DEF SidecarTypes
<1>2. [net[i] EXCEPT !.state = outcome] \in Transactions
  BY <1>1 DEF Transactions
<1>3. /\ [net[i] EXCEPT !.state = outcome].state = outcome
      /\ [net[i] EXCEPT !.state = outcome].op = net[i].op
      /\ [net[i] EXCEPT !.state = outcome].pays = net[i].pays
      /\ [net[i] EXCEPT !.state = outcome].refunds = net[i].refunds
  BY <1>1 DEF Transactions
<1> QED BY <1>2, <1>3, FreeTxType DEF SidecarTypes, Settled

-----------------------------------------------------------------------------
(* Types. *)

Types == RowTypes /\ SlotTypes /\ SidecarTypes

LEMMA TypesStep ==
  ASSUME ChainInv, Types, LockInv, WireInv, SettlementNext
  PROVE  Types'
<1>1. TypeOK
  BY DEF ChainInv, IInv
<1>2. \A s \in Statuses : OnchainStatus(s) \in Statuses \ {"None"}
  BY DEF OnchainStatus, Types, RowTypes, Statuses
<1>3. NoAnswer \in Answers /\ [NoAnswer EXCEPT !.status = status] \in Answers
  BY <1>1, AnswerTypes DEF TypeOK
<1>4. \A r \in Slots : seen[r].status \in Statuses /\ seen[r].amount \in Nat /\ seen[r].count \in Nat
  BY DEF Types, SlotTypes, Answers
<1> USE DEF Types
<1>5. ASSUME NEW r \in Slots, StartClose(r) \/ CloseFails(r) \/ StartRefund(r) PROVE Types'
  BY <1>5 DEF StartClose, CloseFails, StartRefund, StatusOnCloseError, AfterClose, Goto, db, calls,
              keys, ledger, RowTypes, SlotTypes, SidecarTypes, Places, Waiting
<1>6. ASSUME NEW r \in Slots, CommitClose(r) PROVE Types'
  BY <1>2, <1>3, <1>4, <1>6 DEF CommitClose, AfterClose, Goto, calls,
              keys, ledger, RowTypes, SlotTypes, SidecarTypes, Places, Waiting
<1>7. ASSUME NEW r \in Slots, CommitRelease(r) PROVE Types'
  <2>1. proof[r] \in Proofs /\ Cost[proof[r]] \in Nat
    BY <1>7 DEF CommitRelease, LockInv, Releasing
  <2> QED
  BY <1>2, <1>3, <1>4, <1>7, <2>1 DEF CommitRelease, PaidNow, Goto, calls,
              keys, ledger, RowTypes, SlotTypes, SidecarTypes, Places
<1>8. ASSUME NEW r \in Slots, ReleaseFails(r) \/ RefundFails(r) \/ LockRefund(r) \/ GiveUp(r)
      PROVE  Types'
  BY <1>8 DEF ReleaseFails, RefundFails, LockRefund, LockRow, GiveUp, Goto, db, calls,
              keys, ledger, RowTypes, SlotTypes, SidecarTypes, Places, Waiting
<1>9. ASSUME NEW r \in Slots, CommitRefund(r) PROVE Types'
  BY <1>2, <1>3, <1>4, <1>9 DEF CommitRefund, Goto, calls,
              keys, ledger, RowTypes, SlotTypes, SidecarTypes, Places
<1>10. ASSUME NEW r \in Slots, Discard(r) PROVE Types'
  BY <1>3, <1>10 DEF Discard, Goto, db, calls, keys, ledger, RowTypes, SlotTypes, SidecarTypes, Places
<1>11. ASSUME NEW r \in Slots, SidecarClose(r) PROVE Types'
  <2>1. net' \in [TxIds -> Transactions]
    BY <1>11, SubmitNet DEF SidecarClose
  <2> QED BY <1>11, <2>1 DEF SidecarClose, Goto, db, keys, ledger, RowTypes, SlotTypes, SidecarTypes,
                     Places, Waiting
<1>12. ASSUME NEW r \in Slots, SidecarCloseDone(r) \/ BatchDone(r) PROVE Types'
  <2>1. tx[r] \in TxIds /\ LetGo(tx[r])
    BY <1>12 DEF SidecarCloseDone, BatchDone, WireInv, SidecarTypes
  <2>2. net' \in [TxIds -> Transactions]
    BY <2>1, LetGoNet
  <2> QED BY <1>12, <2>2 DEF SidecarCloseDone, BatchDone, Goto, db, keys, ledger, RowTypes, SlotTypes,
                     SidecarTypes, Places, Waiting, Answered
<1>13. ASSUME NEW r \in Slots, SidecarCloseStatus(r) \/ SidecarReleaseStatus(r) PROVE Types'
  BY <1>3, <1>13 DEF SidecarCloseStatus, SidecarReleaseStatus, Goto, db, calls, keys, ledger, RowTypes,
                     SlotTypes, SidecarTypes, Places, Waiting, Answered
<1>14. ASSUME NEW r \in Slots, SidecarRelease(r) PROVE Types'
  <2>1. proof[r] \in Proofs
    BY <1>14 DEF SidecarRelease, LockInv, Releasing
  <2>2. net' \in [TxIds -> Transactions]
    BY <1>14, <2>1, SubmitNet DEF SidecarRelease, SidecarTypes
  <2>3. job' \in [Proofs -> TxIds \cup {None}]
    BY <1>14 DEF SidecarRelease, SidecarTypes
  <2> QED BY <1>14, <2>2, <2>3 DEF SidecarRelease, Goto, db, ledger, RowTypes, SlotTypes, SidecarTypes,
                     Places, Waiting
<1>15. ASSUME NEW r \in Slots, ListPending(r) PROVE Types'
  <2>1. todo' \in [Slots -> SUBSET Wallets]
    <3>1. Pending \in SUBSET Wallets
      BY DEF Pending, Refundable, Contributors
    <3> QED BY <1>15, <3>1 DEF ListPending, SlotTypes
  <2>2. pc' \in [Slots -> Places]
    BY <1>15 DEF ListPending, Goto, SlotTypes, Places, Waiting, Answered
  <2> QED BY <1>15, <2>1, <2>2 DEF ListPending, db, keys, ledger, RowTypes, SlotTypes, SidecarTypes
<1>16. ASSUME NEW r \in Slots, SendBatch(r) PROVE Types'
  <2>1. net' \in [TxIds -> Transactions]
    BY <1>16, SubmitNet DEF SendBatch, Batches, SlotTypes
  <2> QED BY <1>16, <2>1 DEF SendBatch, Goto, db, keys, ledger, RowTypes, SlotTypes, SidecarTypes,
                     Places, Waiting
<1>17. ASSUME NEW r \in Slots, Tally(r) PROVE Types'
  <2> DEFINE answer == [status |-> status, amount |-> refunded_amount,
                        count |-> refunded_count, clear |-> NonePending(r)]
  <2>1. answer \in Answers
    BY <1>1 DEF TypeOK, Answers, NonePending
  <2> HIDE DEF answer
  <2>2. seen' = seen \/ seen' = [seen EXCEPT ![r] = answer]
    BY <1>17 DEF Tally, answer
  <2>3. seen' \in [Slots -> Answers]
    BY <2>1, <2>2 DEF SlotTypes
  <2>4. /\ pc' \in [Slots -> Places] /\ todo' \in [Slots -> SUBSET Wallets]
        /\ UNCHANGED <<db, row_lock, proof, gone, tx, keys, net, ledger>>
    BY <1>17 DEF Tally, Goto, SlotTypes, Places, Answered
  <2> QED BY <2>3, <2>4 DEF db, keys, ledger, RowTypes, SlotTypes, SidecarTypes
<1>18. ASSUME NEW r \in Releasers, NEW p \in Proofs, StartRelease(r, p) PROVE Types'
  BY <1>18 DEF StartRelease, LockRow, Slots, Goto, db, calls, keys, ledger, RowTypes, SlotTypes,
               SidecarTypes, Places, Waiting
<1>19. ASSUME NEW p \in Proofs, SidecarReleaseDone(p) PROVE Types'
  <2>1. job[p] \in TxIds /\ LetGo(job[p])
    BY <1>19 DEF SidecarReleaseDone, SidecarTypes
  <2>2. net' \in [TxIds -> Transactions]
    BY <2>1, LetGoNet
  <2>3. pc' \in [Slots -> Places]
    BY <1>19 DEF SidecarReleaseDone, Joined, SlotTypes, Places, Waiting, Answered
  <2> QED BY <1>19, <2>2, <2>3 DEF SidecarReleaseDone, Remember, db, ledger, RowTypes, SlotTypes, SidecarTypes
<1>20. ASSUME NEW i \in TxIds, TxLands(i) \/ TxFails(i) PROVE Types'
  <2>1. net' \in [TxIds -> Transactions]
    BY <1>20, SettledNet DEF TxLands, TxFails
  <2>2. paid' \in [Proofs -> Nat]
    <3>1. CASE TxLands(i)
      BY <3>1, LandsAs DEF SidecarTypes
    <3>2. CASE TxFails(i)
      BY <3>2 DEF TxFails, ledger, SidecarTypes
    <3> QED BY <1>20, <3>1, <3>2
  <2>3. UNCHANGED <<db, row_lock, pc, proof, gone, seen, tx, todo, keys>>
    BY <1>20 DEF TxLands, TxFails
  <2> QED BY <2>1, <2>2, <2>3 DEF db, keys, RowTypes, SlotTypes, SidecarTypes
<1>21. ASSUME NEW a \in 1 .. MaxU64, ConfirmPayment(a) PROVE Types'
  BY <1>21 DEF ConfirmPayment, calls, keys, ledger, RowTypes, SlotTypes, SidecarTypes
<1>22. CASE MoneyArrives
  BY <1>22 DEF MoneyArrives, db, calls, keys, RowTypes, SlotTypes, SidecarTypes
<1>23. CASE Restart
  <2>1. net' \in [TxIds -> Transactions]
    BY <1>23, FreeTxType DEF Restart, SidecarTypes
  <2>2. pc' \in [Slots -> Places]
    BY <1>23 DEF Restart, SlotTypes, Places, Answered
  <2> QED BY <1>23, <2>1, <2>2 DEF Restart, db, ledger, RowTypes, SlotTypes, SidecarTypes
<1>24. CASE Clock
  BY <1>24 DEF Clock, db, calls, keys, RowTypes, SlotTypes, SidecarTypes
<1> HIDE DEF Types
<1> QED BY <1>5, <1>6, <1>7, <1>8, <1>9, <1>10, <1>11, <1>12, <1>13, <1>14, <1>15, <1>16, <1>17, <1>18,
          <1>19, <1>20, <1>21, <1>22, <1>23, <1>24 DEF SettlementNext, ApiStep, SidecarStep

-----------------------------------------------------------------------------
(* The row lock. *)

LEMMA LockStep ==
  ASSUME Types, LockInv, SettlementNext
  PROVE  LockInv'
<1> USE DEF Types, SlotTypes, Releasing, Refunding
<1>1. ASSUME NEW r \in Slots, StartClose(r) \/ CloseFails(r) \/ StartRefund(r) \/ CommitClose(r)
      PROVE  LockInv'
  BY <1>1 DEF StartClose, CloseFails, StartRefund, CommitClose, AfterClose, Goto, LockInv, Waiting,
              Answered
<1>2. ASSUME NEW r \in Slots, CommitRelease(r) \/ CommitRefund(r) \/ ReleaseFails(r) \/ RefundFails(r)
      PROVE  LockInv'
  BY <1>2 DEF CommitRelease, CommitRefund, ReleaseFails, RefundFails, Goto, LockInv
<1>3. ASSUME NEW r \in Slots, LockRefund(r) PROVE LockInv'
  BY <1>3 DEF LockRefund, LockRow, Goto, LockInv, Waiting, Answered
<1>4. ASSUME NEW r \in Slots, SidecarClose(r) \/ SidecarCloseDone(r) \/ SidecarCloseStatus(r)
      PROVE  LockInv'
  BY <1>4 DEF SidecarClose, SidecarCloseDone, SidecarCloseStatus, Goto, LockInv, Waiting, Answered
<1>5. ASSUME NEW r \in Slots, SidecarRelease(r) \/ SidecarReleaseStatus(r)
      PROVE  LockInv'
  BY <1>5 DEF SidecarRelease, SidecarReleaseStatus, Goto, LockInv, Waiting, Answered
<1>6. ASSUME NEW r \in Slots, ListPending(r) \/ SendBatch(r) \/ BatchDone(r) \/ Tally(r)
      PROVE  LockInv'
  BY <1>6 DEF ListPending, SendBatch, BatchDone, Tally, Goto, LockInv, Waiting, Answered
<1>7. ASSUME NEW r \in Slots, Discard(r) \/ GiveUp(r) PROVE LockInv'
  BY <1>7 DEF Discard, GiveUp, Goto, LockInv, Waiting, Answered
<1>8. ASSUME NEW r \in Releasers, NEW p \in Proofs, StartRelease(r, p) PROVE LockInv'
  BY <1>8 DEF StartRelease, LockRow, Slots, Goto, LockInv, Waiting, Answered
<1>9. ASSUME NEW p \in Proofs, SidecarReleaseDone(p) PROVE LockInv'
  BY <1>9 DEF SidecarReleaseDone, Joined, LockInv, Waiting, Answered
<1>10. CASE Restart
  BY <1>10 DEF Restart, LockInv, Waiting, Answered
<1>11. CASE UNCHANGED <<row_lock, pc, proof, gone>>
  BY <1>11 DEF LockInv
<1>12. ASSUME NEW i \in TxIds, TxLands(i) \/ TxFails(i) PROVE UNCHANGED <<row_lock, pc, proof, gone>>
  BY <1>12 DEF TxLands, TxFails
<1>13. ASSUME MoneyArrives \/ \E a \in 1 .. MaxU64 : ConfirmPayment(a)
       PROVE  UNCHANGED <<row_lock, pc, proof, gone>>
  BY <1>13 DEF MoneyArrives, ConfirmPayment
<1>14. Clock => UNCHANGED <<row_lock, pc, proof, gone>>
  BY DEF Clock
<1> QED BY <1>1, <1>2, <1>3, <1>4, <1>5, <1>6, <1>7, <1>8, <1>9, <1>10, <1>11, <1>12, <1>13, <1>14
        DEF SettlementNext, ApiStep, SidecarStep

-----------------------------------------------------------------------------
(* Transactions and those who await them. *)

(* A new transaction takes a place that nobody awaits. *)
LEMMA WireStep ==
  ASSUME Types, LockInv, WireInv, SettlementNext
  PROVE  WireInv'
<1> USE DEF Types, SlotTypes
<1>1. CASE /\ UNCHANGED <<tx, job, net>>
           /\ \A r \in Slots : pc[r] \in {"closing", "sent"} \/ pc'[r] \in {"closing", "sent"} => pc'[r] = pc[r]
  BY <1>1 DEF WireInv
<1>2. ASSUME NEW r \in Slots, SidecarClose(r) PROVE WireInv'
  <2>1. PICK i \in TxIds : Submit(i, "close", None, {}) /\ tx' = [tx EXCEPT ![r] = i]
    BY <1>2 DEF SidecarClose
  <2>2. /\ net[i].state = "free" /\ net'[i].state = "flying" /\ net'[i].op = "close"
        /\ \A j \in TxIds \ {i} : net'[j] = net[j]
    BY <2>1, SubmitNet
  <2>3. pc[r] = "close" /\ pc' = [pc EXCEPT ![r] = "closing"] /\ job' = job
    BY <1>2 DEF SidecarClose, Goto, keys
  <2> QED BY <2>1, <2>2, <2>3 DEF WireInv, SidecarTypes
<1>3. ASSUME NEW r \in Slots, SendBatch(r) PROVE WireInv'
  <2>1. PICK i \in TxIds, B \in SUBSET Wallets :
          Submit(i, "refund", None, B) /\ tx' = [tx EXCEPT ![r] = i]
    BY <1>3 DEF SendBatch, Batches
  <2>2. /\ net[i].state = "free" /\ net'[i].state = "flying" /\ net'[i].op = "refund"
        /\ \A j \in TxIds \ {i} : net'[j] = net[j]
    BY <2>1, SubmitNet
  <2>3. pc[r] = "batch" /\ pc' = [pc EXCEPT ![r] = "sent"] /\ job' = job
    BY <1>3 DEF SendBatch, Goto, keys
  <2> QED BY <2>1, <2>2, <2>3 DEF WireInv, SidecarTypes
<1>4. ASSUME NEW r \in Slots, SidecarRelease(r) PROVE WireInv'
  <2>1. pc[r] = "release" /\ tx' = tx /\ proof[r] \in Proofs
    BY <1>4 DEF SidecarRelease, LockInv, Releasing
  <2>2. CASE UNCHANGED <<job, net>>
    BY <1>1, <1>4, <2>1, <2>2 DEF SidecarRelease, Goto
  <2>3. ASSUME NEW i \in TxIds, Submit(i, "release", proof[r], {}),
               job' = [job EXCEPT ![proof[r]] = i], job[proof[r]] = None, Goto(r, "join")
        PROVE  WireInv'
    <3>1. /\ net[i].state = "free" /\ net'[i].state = "flying" /\ net'[i].op = "release"
          /\ net'[i].pays = proof[r] /\ \A j \in TxIds \ {i} : net'[j] = net[j]
      BY <2>1, <2>3, SubmitNet
    <3> QED BY <2>1, <2>3, <3>1 DEF WireInv, SidecarTypes, Goto
  <2> QED BY <1>4, <2>2, <2>3 DEF SidecarRelease, Inflight
<1>5. ASSUME NEW r \in Slots, SidecarCloseDone(r) \/ BatchDone(r) PROVE WireInv'
  <2>1. /\ tx[r] \in TxIds /\ LetGo(tx[r]) /\ tx' = [tx EXCEPT ![r] = None] /\ job' = job
        /\ \E where \in {"closed", "closeErr", "batch", "tally"} : pc' = [pc EXCEPT ![r] = where]
    BY <1>5 DEF SidecarCloseDone, BatchDone, Goto, keys, WireInv, SidecarTypes
  <2>2. \A j \in TxIds \ {tx[r]} : net'[j] = net[j]
    BY <2>1, LetGoNet
  <2>3. net'[tx[r]].state # "free" => net'[tx[r]] = net[tx[r]]
    BY <2>1, LetGoNet, FreeTxType
  <2>4. \A p \in Proofs : job[p] # tx[r]
    BY <2>1 DEF WireInv, SidecarTypes
  <2> QED BY <2>1, <2>2, <2>3, <2>4 DEF WireInv, SidecarTypes
<1>6. ASSUME NEW p \in Proofs, SidecarReleaseDone(p) PROVE WireInv'
  <2>1. /\ job[p] \in TxIds /\ LetGo(job[p]) /\ job' = [job EXCEPT ![p] = None] /\ tx' = tx
        /\ \E where \in {"released", "releaseErr"} : Joined(p, where)
    BY <1>6 DEF SidecarReleaseDone, SidecarTypes
  <2>2. \A j \in TxIds \ {job[p]} : net'[j] = net[j]
    BY <2>1, LetGoNet
  <2>3. net'[job[p]].state # "free" => net'[job[p]] = net[job[p]]
    BY <2>1, LetGoNet, FreeTxType
  <2>4. \A r \in Slots : tx[r] # job[p] /\ \A q \in Proofs \ {p} : job[q] # job[p]
    BY <2>1 DEF WireInv, SidecarTypes
  <2>5. \A r \in Slots : pc'[r] \in {"closing", "sent"} \/ pc[r] \in {"closing", "sent"} => pc'[r] = pc[r]
    BY <2>1 DEF Joined
  <2> QED BY <2>1, <2>2, <2>3, <2>4, <2>5 DEF WireInv, SidecarTypes
<1>7. ASSUME NEW i \in TxIds, TxLands(i) \/ TxFails(i) PROVE WireInv'
  <2>1. /\ net[i].state = "flying" /\ \E outcome \in {"landed", "failed"} : Settled(i, outcome)
        /\ UNCHANGED <<pc, tx, job>>
    BY <1>7 DEF TxLands, TxFails, keys
  <2>2. \A j \in TxIds \ {i} : net'[j] = net[j]
    BY <2>1, SettledNet
  <2>3. CASE Awaited(i)
    <3>1. /\ net'[i].state # "free" /\ net'[i].op = net[i].op /\ net'[i].pays = net[i].pays
      BY <2>1, <2>3, SettledNet
    <3> QED BY SMTT(20), <2>1, <2>2, <3>1 DEF WireInv, SidecarTypes
  <2>4. CASE ~Awaited(i)
    <3>1. net'[i].state = "free"
      BY <2>1, <2>4, SettledNet, FreeTxType
    <3> QED BY <2>1, <2>2, <2>4, <3>1 DEF WireInv, SidecarTypes, Awaited
  <2> QED BY <2>3, <2>4
<1>8. CASE Restart
  <2>1. /\ tx' = [r \in Slots |-> None] /\ job' = [p \in Proofs |-> None]
        /\ \A r \in Slots : pc'[r] \notin {"closing", "sent"}
    BY <1>8 DEF Restart
  <2>2. \A i \in TxIds : net'[i].state # "free" => net'[i] = net[i]
    BY <1>8, FreeTxType DEF Restart
  <2> QED BY <2>1, <2>2 DEF WireInv
<1> DEFINE Quiet == /\ UNCHANGED <<tx, job, net>>
                    /\ \A r \in Slots : pc[r] \in {"closing", "sent"} \/ pc'[r] \in {"closing", "sent"}
                                            => pc'[r] = pc[r]
<1>9. ASSUME NEW r \in Slots, ApiStep(r) PROVE Quiet
  BY <1>9 DEF ApiStep, StartClose, CommitClose, CloseFails, CommitRelease, ReleaseFails,
              StartRefund, LockRefund, CommitRefund, RefundFails, AfterClose, Goto, calls, keys
<1>10. ASSUME NEW r \in Slots, SidecarCloseStatus(r) \/ SidecarReleaseStatus(r) \/ ListPending(r)
                                 \/ Tally(r) \/ Discard(r) \/ GiveUp(r)
       PROVE  Quiet
  BY <1>10 DEF SidecarCloseStatus, SidecarReleaseStatus, ListPending, Tally, Discard, GiveUp, Goto,
               calls, keys, Answered
<1>11. ASSUME NEW r \in Releasers, NEW p \in Proofs, StartRelease(r, p) PROVE Quiet
  BY <1>11 DEF StartRelease, Slots, Goto, calls, keys
<1>12. ASSUME MoneyArrives \/ \E a \in 1 .. MaxU64 : ConfirmPayment(a)
       PROVE  Quiet
  BY <1>12 DEF MoneyArrives, ConfirmPayment, calls, keys
<1>13. Clock => Quiet
  BY DEF Clock, calls, keys
<1> HIDE DEF Quiet
<1>14. Quiet => WireInv'
  BY <1>1 DEF Quiet
<1> QED BY <1>2, <1>3, <1>4, <1>5, <1>6, <1>7, <1>8, <1>9, <1>10, <1>11, <1>12, <1>13, <1>14
        DEF SettlementNext, SidecarStep

-----------------------------------------------------------------------------
(* What is known to be paid was paid. *)

PaidProofs == {p \in Proofs : paid[p] > 0}

(* A transaction that landed did what it was for; a signature that is      *)
(* remembered, or about to be answered, is that of a payment.              *)
LandedInv ==
  /\ \A i \in TxIds : net[i].state = "landed" =>
       /\ net[i].op = "release" => paid[net[i].pays] > 0
       /\ net[i].op = "refund" => net[i].refunds \subseteq refunded
  /\ cache \subseteq PaidProofs
  /\ \A r \in Slots : pc[r] \in {"released", "releaseOk"} => paid[proof[r]] > 0

(* While the sidecar has not lost track of p, the only transaction that    *)
(* can pay p is the one its task awaits, and it is the first.              *)
OnceInv ==
  \A p \in Proofs \ misled :
    /\ paid[p] <= 1
    /\ paid[p] > 0 => p \in cache \/ (job[p] # None /\ net[job[p]].state = "landed")
    /\ \A i \in TxIds : net[i].state = "flying" /\ net[i].op = "release" /\ net[i].pays = p =>
         i = job[p] /\ paid[p] = 0

(* The sum the row keeps of releases, and what backs it. *)
Released ==
  /\ db_released = SumOver(Cost, release_tx) /\ release_tx \subseteq PaidProofs
  /\ SumOver(Cost, PaidProofs) <= released_amount
  /\ \A r \in Slots \ gone : pc[r] \in Releasing => proof[r] \notin release_tx

(* r closed the campaign: nobody else can, and the row still says FUNDING. *)
Won(r) == pc[r] \in {"closed", "closeOk"} \/ (pc[r] = "closing" /\ net[tx[r]].state = "landed")

StatusInv ==
  /\ Follows(db_status, status)
  /\ \A r \in Slots : Won(r) => db_status = "Funding" /\ status # "Funding"
  /\ \A r, q \in Slots : Won(r) /\ Won(q) => r = q
  /\ \A r \in Slots \ gone : /\ pc[r] \in Releasing => db_status = "Executing"
                             /\ pc[r] \in Refunding => db_status = "Refunding"
  /\ \A r \in Slots : seen[r].status # "None" => Follows(seen[r].status, status)
  /\ \A r \in Slots \ gone : pc[r] \in {"closeOk", "releaseOk", "refundOk"} =>
       seen[r].status # "None" /\ Follows(db_status, seen[r].status)

(* What refunds have been seen, and which of them are in the row.          *)
RefundInv ==
  /\ db_refunded <= refunded_amount /\ db_refunded_count <= refunded_count
  /\ \A r \in Slots : seen[r].amount <= refunded_amount /\ seen[r].count <= refunded_count
  /\ \A r \in Slots \ gone : pc[r] = "refundOk" =>
       db_refunded <= seen[r].amount /\ db_refunded_count <= seen[r].count

(* The fans a call of refund has yet to pay back are on its list. *)
MarksInv ==
  /\ marked_rows > 0 => status # "Funding" /\ Contributors \subseteq refunded
  /\ \A r \in Slots : /\ pc[r] \in Refunding => status \in {"Refunding", "Closed"}
                      /\ pc[r] \in {"batch", "sent", "tally"} => Contributors \subseteq refunded \cup todo[r]
                      /\ pc[r] = "refundOk" /\ seen[r].clear => Contributors \subseteq refunded

LEMMA LandedBy ==
  ASSUME Types, LockInv, WireInv, SettlementNext, NEW i \in TxIds, net'[i].state = "landed"
  PROVE  \/ net'[i] = net[i]
         \/ /\ TxLands(i) /\ net'[i].op = net[i].op /\ net'[i].pays = net[i].pays
            /\ net'[i].refunds = net[i].refunds
<1> USE DEF Types, SlotTypes
<1>1. ASSUME NEW r \in Slots, SidecarClose(r) \/ SendBatch(r) PROVE net'[i] = net[i]
  <2>1. PICK j \in TxIds, op \in {"close", "refund"}, B \in SUBSET Wallets : Submit(j, op, None, B)
    BY <1>1 DEF SidecarClose, SendBatch, Batches
  <2> QED BY <2>1, SubmitNet
<1>2. ASSUME NEW r \in Slots, SidecarRelease(r) PROVE net'[i] = net[i]
  <2>1. proof[r] \in Proofs
    BY <1>2 DEF SidecarRelease, LockInv, Releasing
  <2>2. CASE \E j \in TxIds : Submit(j, "release", proof[r], {})
    BY <2>1, <2>2, SubmitNet
  <2> QED BY <1>2, <2>2 DEF SidecarRelease
<1>3. ASSUME NEW j \in TxIds, LetGo(j) PROVE net'[i] = net[i]
  BY <1>3, LetGoNet, FreeTxType
<1>4. ASSUME NEW r \in Slots, SidecarCloseDone(r) \/ BatchDone(r) PROVE net'[i] = net[i]
  <2>1. tx[r] \in TxIds /\ LetGo(tx[r])
    BY <1>4 DEF SidecarCloseDone, BatchDone, WireInv, SidecarTypes
  <2> QED BY <1>3, <2>1
<1>5. ASSUME NEW p \in Proofs, SidecarReleaseDone(p) PROVE net'[i] = net[i]
  <2>1. job[p] \in TxIds /\ LetGo(job[p])
    BY <1>5 DEF SidecarReleaseDone, SidecarTypes
  <2> QED BY <1>3, <2>1
<1>6. ASSUME NEW j \in TxIds, TxFails(j) PROVE net'[i] = net[i]
  BY <1>6, SettledNet, FreeTxType DEF TxFails
<1>7. ASSUME NEW j \in TxIds, TxLands(j)
      PROVE  \/ net'[i] = net[i]
             \/ /\ TxLands(i) /\ net'[i].op = net[i].op /\ net'[i].pays = net[i].pays
                /\ net'[i].refunds = net[i].refunds
  <2>1. Settled(j, "landed")
    BY <1>7 DEF TxLands
  <2> QED BY <1>7, <2>1, SettledNet, FreeTxType
<1>8. CASE Restart
  BY <1>8, FreeTxType DEF Restart
<1>9. ASSUME NEW r \in Slots, ApiStep(r) PROVE net' = net
  BY <1>9 DEF ApiStep, StartClose, CommitClose, CloseFails, CommitRelease, ReleaseFails,
              StartRefund, LockRefund, CommitRefund, RefundFails, calls
<1>10. ASSUME NEW r \in Slots, SidecarCloseStatus(r) \/ SidecarReleaseStatus(r) \/ ListPending(r)
                                 \/ Tally(r) \/ Discard(r) \/ GiveUp(r)
       PROVE  net' = net
  BY <1>10 DEF SidecarCloseStatus, SidecarReleaseStatus, ListPending, Tally, Discard, GiveUp, calls
<1>11. ASSUME NEW r \in Releasers, NEW p \in Proofs, StartRelease(r, p) PROVE net' = net
  BY <1>11 DEF StartRelease, calls
<1>12. ASSUME MoneyArrives \/ \E a \in 1 .. MaxU64 : ConfirmPayment(a)
       PROVE  net' = net
  BY <1>12 DEF MoneyArrives, ConfirmPayment, calls
<1>13. Clock => net' = net
  BY DEF Clock, calls
<1> QED BY <1>1, <1>2, <1>4, <1>5, <1>6, <1>7, <1>8, <1>9, <1>10, <1>11, <1>12, <1>13
        DEF SettlementNext, SidecarStep

(* The steps that learn of a release.  Any other keeps what is remembered, *)
(* and who has a signature had it before.                                  *)
Learns(r) == SidecarRelease(r) \/ SidecarReleaseStatus(r)

LEMMA NothingLearnt ==
  ASSUME Types, LockInv, SettlementNext,
         ~\E r \in Slots : Learns(r), ~\E p \in Proofs : SidecarReleaseDone(p)
  PROVE  /\ cache' \subseteq cache
         /\ \A q \in Slots : pc'[q] \in {"released", "releaseOk"} =>
              pc'[q] = pc[q] /\ proof'[q] = proof[q]
<1> USE DEF Types, SlotTypes
<1> DEFINE Kept == /\ cache' \subseteq cache
                   /\ \A q \in Slots : pc'[q] \in {"released", "releaseOk"} =>
                        pc'[q] = pc[q] /\ proof'[q] = proof[q]
<1>1. ASSUME NEW r \in Slots, ApiStep(r) PROVE Kept
  BY <1>1 DEF ApiStep, StartClose, CommitClose, CloseFails, CommitRelease, ReleaseFails,
              StartRefund, LockRefund, CommitRefund, RefundFails, AfterClose, Goto, calls, keys
<1>2. ASSUME NEW r \in Slots, SidecarClose(r) \/ SidecarCloseDone(r) \/ SidecarCloseStatus(r)
      PROVE  Kept
  BY <1>2 DEF SidecarClose, SidecarCloseDone, SidecarCloseStatus, Goto, calls, keys
<1>3. ASSUME NEW r \in Slots, ListPending(r) \/ SendBatch(r) \/ BatchDone(r) \/ Tally(r) PROVE Kept
  BY <1>3 DEF ListPending, SendBatch, BatchDone, Tally, Goto, calls, keys
<1>4. ASSUME NEW r \in Slots, Discard(r) \/ GiveUp(r) PROVE Kept
  BY <1>4 DEF Discard, GiveUp, Goto, calls, keys
<1>5. ASSUME NEW r \in Releasers, NEW p \in Proofs, StartRelease(r, p) PROVE Kept
  BY <1>5 DEF StartRelease, Slots, Goto, calls, keys
<1>6. ASSUME NEW i \in TxIds, TxLands(i) \/ TxFails(i) PROVE Kept
  BY <1>6 DEF TxLands, TxFails, keys
<1>7. ASSUME MoneyArrives \/ \E a \in 1 .. MaxU64 : ConfirmPayment(a)
      PROVE  Kept
  BY <1>7 DEF MoneyArrives, ConfirmPayment, calls, keys
<1>8. Clock => Kept
  BY DEF Clock, calls, keys
<1>9. Restart => Kept
  BY DEF Restart
<1> HIDE DEF Kept
<1>10. Kept
  BY <1>1, <1>2, <1>3, <1>4, <1>5, <1>6, <1>7, <1>8, <1>9 DEF SettlementNext, SidecarStep, Learns
<1> QED BY <1>10 DEF Kept

LEMMA LandedStep ==
  ASSUME ChainInv, Types, LockInv, WireInv, LandedInv, SettlementNext
  PROVE  LandedInv'
<1>1. Forward /\ Types'
  BY ChainStep, TypesStep DEF Types
<1>2. ASSUME NEW i \in TxIds, net'[i].state = "landed"
      PROVE  /\ net'[i].op = "release" => paid'[net'[i].pays] > 0
             /\ net'[i].op = "refund" => net'[i].refunds \subseteq refunded'
  <2>1. CASE net'[i] = net[i]
    BY <1>1, <1>2, <2>1 DEF LandedInv, WireInv, Forward, Types, SidecarTypes
  <2>2. CASE /\ TxLands(i) /\ net'[i].op = net[i].op /\ net'[i].pays = net[i].pays
             /\ net'[i].refunds = net[i].refunds
    <3>1. CASE net[i].op = "release"
      BY <2>2, <3>1, LandsAs DEF Types, SidecarTypes
    <3>2. CASE net[i].op = "refund"
      BY <2>2, <3>2, LandsAs DEF Types, Refund
    <3> QED BY <2>2, <3>1, <3>2
  <2> QED BY <1>2, <2>1, <2>2, LandedBy
<1>3. PaidProofs \subseteq PaidProofs'
  BY <1>1 DEF PaidProofs, Forward, Types, SidecarTypes
<1> DEFINE Known == /\ cache' \subseteq PaidProofs
                    /\ \A r \in Slots : pc'[r] \in {"released", "releaseOk"} =>
                         proof'[r] \in Proofs /\ paid[proof'[r]] > 0
<1>4. ASSUME NEW r \in Slots, Learns(r) PROVE Known
  <2>1. /\ cache' = cache /\ proof' = proof
        /\ \/ pc[r] = "release" /\ (proof[r] \in cache \/ pc' = [pc EXCEPT ![r] = "join"])
              /\ \E where : pc' = [pc EXCEPT ![r] = where]
           \/ pc[r] = "released" /\ \E where : pc' = [pc EXCEPT ![r] = where]
    BY <1>4 DEF Learns, SidecarRelease, SidecarReleaseStatus, Goto, calls, keys
  <2> QED BY <2>1 DEF LandedInv, LockInv, PaidProofs, Releasing, Types, SlotTypes
<1>5. ASSUME NEW p \in Proofs, SidecarReleaseDone(p) PROVE Known
  <2>1. /\ proof' = proof
        /\ \/ cache' = cache \cup {p} /\ paid[p] > 0 /\ Joined(p, "released")
           \/ cache' = cache /\ Joined(p, "releaseErr")
    BY <1>5 DEF SidecarReleaseDone, Confirmed, Remember, LandedInv, WireInv, Types, SidecarTypes
  <2> QED BY <2>1 DEF Joined, LandedInv, LockInv, PaidProofs, Releasing, Types, SlotTypes
<1>6. ASSUME ~\E r \in Slots : Learns(r), ~\E p \in Proofs : SidecarReleaseDone(p) PROVE Known
  <2>1. /\ cache' \subseteq cache
        /\ \A q \in Slots : pc'[q] \in {"released", "releaseOk"} =>
             pc'[q] = pc[q] /\ proof'[q] = proof[q]
    BY <1>6, NothingLearnt
  <2> QED BY <2>1 DEF LandedInv, LockInv, Releasing
<1> HIDE DEF Known
<1>7. Known
  BY <1>4, <1>5, <1>6
<1> QED BY <1>1, <1>2, <1>3, <1>7 DEF Known, LandedInv, Forward, Types, SidecarTypes

(* Only releases pay, and the sidecar sends one for p only if it knows of  *)
(* none: neither a remembered signature nor a task.                        *)
LEMMA OnceStep ==
  ASSUME Types, LockInv, WireInv, LandedInv, OnceInv, SettlementNext
  PROVE  OnceInv'
<1> USE DEF Types, SlotTypes
<1> DEFINE Same == UNCHANGED <<net, cache, job, misled, paid>>
<1>1. ASSUME Same PROVE OnceInv'
  BY <1>1 DEF OnceInv
<1>2. ASSUME NEW r \in Slots, SidecarClose(r) \/ SendBatch(r) PROVE OnceInv'
  <2>1. PICK i \in TxIds, op \in {"close", "refund"}, B \in SUBSET Wallets : Submit(i, op, None, B)
    BY <1>2 DEF SidecarClose, SendBatch, Batches
  <2>2. /\ net[i].state = "free" /\ net'[i].op # "release"
        /\ \A j \in TxIds \ {i} : net'[j] = net[j]
    BY <2>1, SubmitNet
  <2>3. UNCHANGED <<cache, job, misled, paid>>
    BY <1>2 DEF SidecarClose, SendBatch, keys, ledger
  <2> QED BY <2>2, <2>3 DEF OnceInv, WireInv, SidecarTypes
<1>3. ASSUME NEW r \in Slots, SidecarCloseDone(r) \/ BatchDone(r) PROVE OnceInv'
  <2>1. tx[r] \in TxIds /\ LetGo(tx[r]) /\ net[tx[r]].op # "release"
    BY <1>3 DEF SidecarCloseDone, BatchDone, WireInv, SidecarTypes
  <2>2. /\ net'[tx[r]] = net[tx[r]] \/ net'[tx[r]].state = "free"
        /\ \A j \in TxIds \ {tx[r]} : net'[j] = net[j]
    BY <2>1, LetGoNet, FreeTxType
  <2>3. UNCHANGED <<cache, job, misled, paid>>
    BY <1>3 DEF SidecarCloseDone, BatchDone, keys, ledger
  <2> QED BY <2>1, <2>2, <2>3 DEF OnceInv, WireInv, SidecarTypes
<1>4. ASSUME NEW r \in Slots, SidecarRelease(r) PROVE OnceInv'
  <2>1. proof[r] \in Proofs /\ UNCHANGED <<cache, misled, paid>>
    BY <1>4 DEF SidecarRelease, LockInv, Releasing, ledger
  <2>2. CASE UNCHANGED <<job, net>>
    BY <1>1, <2>1, <2>2
  <2>3. ASSUME NEW i \in TxIds, Submit(i, "release", proof[r], {}), proof[r] \notin cache,
               job' = [job EXCEPT ![proof[r]] = i], job[proof[r]] = None
        PROVE  OnceInv'
    <3>1. /\ net[i].state = "free" /\ net'[i].state = "flying" /\ net'[i].pays = proof[r]
          /\ \A j \in TxIds \ {i} : net'[j] = net[j]
      BY <2>1, <2>3, SubmitNet
    <3> QED BY <2>1, <2>3, <3>1 DEF OnceInv, WireInv, SidecarTypes
  <2> QED BY <1>4, <2>2, <2>3 DEF SidecarRelease, Inflight
<1>5. ASSUME NEW p \in Proofs, SidecarReleaseDone(p) PROVE OnceInv'
  <2>1. /\ job[p] \in TxIds /\ LetGo(job[p]) /\ job' = [job EXCEPT ![p] = None]
        /\ paid' = paid /\ misled \subseteq misled' /\ cache \subseteq cache'
        /\ p \notin misled' /\ net[job[p]].state = "landed" => p \in cache'
        /\ p \notin misled' => net[job[p]].state # "flying"
    BY <1>5 DEF SidecarReleaseDone, Confirmed, Errored, Remember, ledger, SidecarTypes
  <2>2. /\ net'[job[p]] = net[job[p]] \/ net'[job[p]].state = "free"
        /\ \A j \in TxIds \ {job[p]} : net'[j] = net[j]
    BY <2>1, LetGoNet, FreeTxType
  <2>3. \A q \in Proofs \ {p} : job[q] # job[p]
    BY <2>1 DEF WireInv, SidecarTypes
  <2> QED BY <2>1, <2>2, <2>3 DEF OnceInv, WireInv, SidecarTypes
<1>6. ASSUME NEW i \in TxIds, TxLands(i) PROVE OnceInv'
  <2>1. net[i].state = "flying" /\ Settled(i, "landed") /\ UNCHANGED <<cache, job, misled>>
    BY <1>6 DEF TxLands, keys
  <2>2. /\ \A j \in TxIds \ {i} : net'[j] = net[j]
        /\ Awaited(i) => net'[i].state = "landed"
        /\ net'[i].state # "flying"
    BY <2>1, SettledNet, FreeTxType
  <2>3. CASE net[i].op = "release"
    <3>1. net[i].pays \in Proofs /\ paid' = [paid EXCEPT ![net[i].pays] = @ + 1]
      BY <1>6, <2>3, LandsAs
    <3>2. i = job[net[i].pays] => Awaited(i)
      BY <3>1 DEF Awaited
    <3> QED BY <2>1, <2>2, <2>3, <3>1, <3>2 DEF OnceInv, SidecarTypes
  <2>4. CASE net[i].op # "release"
    <3>1. paid' = paid
      BY <1>6, <2>4, LandsAs
    <3> QED BY <2>1, <2>2, <2>4, <3>1 DEF OnceInv, WireInv, SidecarTypes
  <2> QED BY <2>3, <2>4
<1>7. ASSUME NEW i \in TxIds, TxFails(i) PROVE OnceInv'
  <2>1. net[i].state = "flying" /\ Settled(i, "failed") /\ UNCHANGED <<cache, job, misled, paid>>
    BY <1>7 DEF TxFails, keys, ledger
  <2>2. /\ \A j \in TxIds \ {i} : net'[j] = net[j]
        /\ net'[i].state # "flying"
    BY <2>1, SettledNet, FreeTxType
  <2> QED BY <2>1, <2>2 DEF OnceInv, SidecarTypes
<1>8. CASE Restart
  <2>1. /\ misled' = misled \cup cache \cup {p \in Proofs : job[p] # None} /\ paid' = paid
        /\ \A i \in TxIds : net'[i].state = "flying" => net'[i] = net[i]
    BY <1>8, FreeTxType DEF Restart, ledger
  <2> QED BY <2>1 DEF OnceInv, SidecarTypes
<1>9. ASSUME NEW r \in Slots, ApiStep(r) PROVE Same
  BY <1>9 DEF ApiStep, StartClose, CommitClose, CloseFails, CommitRelease, ReleaseFails,
              StartRefund, LockRefund, CommitRefund, RefundFails, calls, keys, ledger
<1>10. ASSUME NEW r \in Slots, SidecarCloseStatus(r) \/ SidecarReleaseStatus(r) \/ ListPending(r)
                                 \/ Tally(r) \/ Discard(r) \/ GiveUp(r)
       PROVE  Same
  BY <1>10 DEF SidecarCloseStatus, SidecarReleaseStatus, ListPending, Tally, Discard, GiveUp,
               calls, keys, ledger
<1>11. ASSUME NEW r \in Releasers, NEW p \in Proofs, StartRelease(r, p) PROVE Same
  BY <1>11 DEF StartRelease, calls, keys, ledger
<1>12. ASSUME MoneyArrives \/ \E a \in 1 .. MaxU64 : ConfirmPayment(a)
       PROVE  Same
  BY <1>12 DEF MoneyArrives, ConfirmPayment, calls, keys, ledger
<1>13. Clock => Same
  BY DEF Clock, calls, keys
<1> HIDE DEF Same
<1> QED BY <1>1, <1>2, <1>3, <1>4, <1>5, <1>6, <1>7, <1>8, <1>9, <1>10, <1>11, <1>12, <1>13
        DEF SettlementNext, SidecarStep

-----------------------------------------------------------------------------
(* Money. *)

(* What the release that commits adds to the sum. *)
LEMMA CostAdded ==
  ASSUME NEW S \in SUBSET Proofs, NEW p \in Proofs \ S
  PROVE  SumOver(Cost, S \cup {p}) = SumOver(Cost, S) + Cost[p]
<1>1. IsFiniteSet(S) /\ IsFiniteSet({p}) /\ S \cap {p} = {}
  BY FS_Subset, FS_Singleton
<1>2. \A q \in S \cup {p} : Cost[q] \in Nat
  OBVIOUS
<1>3. SumOver(Cost, S \cup {p}) = SumOver(Cost, S) + SumOver(Cost, {p})
  BY <1>1, <1>2, SumDisjoint
<1> QED BY <1>2, <1>3, SumSingle

LEMMA CostType ==
  ASSUME NEW S \in SUBSET Proofs
  PROVE  IsFiniteSet(S) /\ SumOver(Cost, S) \in Nat
<1>1. IsFiniteSet(S) /\ \A p \in S : Cost[p] \in Nat
  BY FS_Subset
<1> QED BY <1>1, SumType

(* Only handlers of the API write the rows. *)
LEMMA DbKept ==
  SettlementNext =>
    \/ UNCHANGED db
    \/ \E r \in Slots : ApiStep(r)
    \/ \E a \in 1 .. MaxU64 : ConfirmPayment(a)
<1>1. ASSUME NEW r \in Slots, SidecarStep(r) \/ GiveUp(r) PROVE UNCHANGED db
  BY <1>1 DEF SidecarStep, SidecarClose, SidecarCloseDone, SidecarCloseStatus, SidecarRelease,
              SidecarReleaseStatus, ListPending, SendBatch, BatchDone, Tally, Discard, GiveUp
<1>2. ASSUME NEW p \in Proofs, SidecarReleaseDone(p) \/ \E r \in Releasers : StartRelease(r, p)
      PROVE  UNCHANGED db
  BY <1>2 DEF SidecarReleaseDone, StartRelease
<1>3. ASSUME NEW i \in TxIds, TxLands(i) \/ TxFails(i) PROVE UNCHANGED db
  BY <1>3 DEF TxLands, TxFails
<1>4. ASSUME Restart \/ Clock \/ MoneyArrives PROVE  UNCHANGED db
  BY <1>4 DEF Restart, Clock, MoneyArrives
<1> QED BY <1>1, <1>2, <1>3, <1>4 DEF SettlementNext

(* Who pays or refunds did so before, or has just read the row under its lock. *)
LEMMA Entered ==
  ASSUME Types, LockInv, SettlementNext, NEW r \in Slots
  PROVE  /\ pc'[r] \in Releasing =>
              \/ pc[r] \in Releasing /\ proof'[r] = proof[r] /\ (r \in gone => r \in gone')
              \/ Releasable(proof'[r]) /\ UNCHANGED db
         /\ pc'[r] \in Refunding =>
              \/ pc[r] \in Refunding /\ (r \in gone => r \in gone')
              \/ db_status = "Refunding" /\ UNCHANGED db
<1> USE DEF Types, SlotTypes
<1> DEFINE Same == r \in gone => r \in gone'
           Stays == /\ pc'[r] \in Releasing => pc[r] \in Releasing /\ proof'[r] = proof[r] /\ Same
                    /\ pc'[r] \in Refunding => pc[r] \in Refunding /\ Same
<1>1. ASSUME NEW q \in Slots, StartClose(q) \/ CommitClose(q) \/ CloseFails(q) \/ CommitRelease(q)
                               \/ ReleaseFails(q) \/ StartRefund(q) \/ CommitRefund(q) \/ RefundFails(q)
      PROVE  Stays
  BY <1>1 DEF StartClose, CommitClose, CloseFails, CommitRelease, ReleaseFails,
              StartRefund, CommitRefund, RefundFails, AfterClose, Goto, Releasing, Refunding
<1>2. ASSUME NEW q \in Slots, LockRefund(q)
      PROVE  Stays \/ (db_status = "Refunding" /\ UNCHANGED db /\ pc'[r] = "refund")
  BY <1>2 DEF LockRefund, Goto, Releasing, Refunding
<1>3. ASSUME NEW q \in Slots, SidecarClose(q) \/ SidecarCloseDone(q) \/ SidecarCloseStatus(q)
                               \/ SidecarRelease(q) \/ SidecarReleaseStatus(q)
      PROVE  Stays
  BY <1>3 DEF SidecarClose, SidecarCloseDone, SidecarCloseStatus, SidecarRelease,
              SidecarReleaseStatus, Goto, Releasing, Refunding
<1>4. ASSUME NEW q \in Slots, ListPending(q) \/ SendBatch(q) \/ BatchDone(q) \/ Tally(q)
                               \/ Discard(q) \/ GiveUp(q)
      PROVE  Stays
  BY <1>4 DEF ListPending, SendBatch, BatchDone, Tally, Discard, GiveUp, Goto, Releasing, Refunding
<1>5. ASSUME NEW q \in Releasers, NEW p \in Proofs, StartRelease(q, p)
      PROVE  Stays \/ (Releasable(proof'[r]) /\ UNCHANGED db /\ pc'[r] = "release")
  BY <1>5 DEF StartRelease, Slots, Goto, Releasing, Refunding
<1>6. ASSUME NEW p \in Proofs, SidecarReleaseDone(p) PROVE Stays
  BY <1>6 DEF SidecarReleaseDone, Joined, Releasing, Refunding
<1>7. ASSUME Restart PROVE Stays
  BY <1>7 DEF Restart, Releasing, Refunding
<1>8. ASSUME \/ \E i \in TxIds : TxLands(i) \/ TxFails(i)
             \/ MoneyArrives \/ \E a \in 1 .. MaxU64 : ConfirmPayment(a)
             \/ Clock
      PROVE  Stays
  BY <1>8 DEF TxLands, TxFails, MoneyArrives, ConfirmPayment, Clock
<1> DEFINE Enters == \/ Releasable(proof'[r]) /\ UNCHANGED db /\ pc'[r] = "release"
                     \/ db_status = "Refunding" /\ UNCHANGED db /\ pc'[r] = "refund"
<1> HIDE DEF Enters, Stays
<1>9. Stays \/ Enters
  BY <1>1, <1>2, <1>3, <1>4, <1>5, <1>6, <1>7, <1>8 DEF SettlementNext, ApiStep, SidecarStep, Enters
<1>10. CASE Stays
  BY <1>10 DEF Stays
<1>11. CASE Enters
  BY <1>11 DEF Enters, Releasing, Refunding
<1> QED BY <1>9, <1>10, <1>11

(* The escrow released at least the cost of every proof it paid. *)
LEMMA SpentStep ==
  ASSUME ChainInv, Types, WireInv, Released, SettlementNext
  PROVE  SumOver(Cost, PaidProofs)' <= released_amount'
<1>1. released_amount \in Nat
  BY DEF ChainInv, IInv, TypeOK
<1>2. CASE released_amount' = released_amount /\ paid' = paid
  BY <1>2 DEF Released, PaidProofs
<1>3. ASSUME NEW i \in TxIds, TxLands(i), net[i].op = "release"
      PROVE  SumOver(Cost, PaidProofs)' <= released_amount'
  <2>1. PICK p \in Proofs : /\ released_amount' = released_amount + Cost[p]
                            /\ paid' = [paid EXCEPT ![p] = @ + 1]
    BY <1>3, LandsAs DEF Types, Release
  <2>2. PaidProofs' = PaidProofs \cup {p}
    BY <2>1 DEF PaidProofs, Types, SidecarTypes
  <2>3. PaidProofs \in SUBSET Proofs /\ Cost[p] \in Nat
    BY DEF PaidProofs
  <2>4. SumOver(Cost, PaidProofs) \in Nat /\ SumOver(Cost, PaidProofs) <= released_amount
    BY <2>3, CostType DEF Released
  <2>5. CASE p \in PaidProofs
    <3>1. PaidProofs' = PaidProofs
      BY <2>2, <2>5
    <3> QED BY <1>1, <2>1, <2>3, <2>4, <3>1
  <2>6. CASE p \notin PaidProofs
    <3>1. SumOver(Cost, PaidProofs \cup {p}) = SumOver(Cost, PaidProofs) + Cost[p]
      BY <2>3, <2>6, CostAdded
    <3> QED BY <1>1, <2>1, <2>2, <2>3, <2>4, <3>1
  <2> QED BY <2>5, <2>6
<1>4. ASSUME NEW i \in TxIds, TxLands(i), net[i].op # "release"
      PROVE  released_amount' = released_amount /\ paid' = paid
  BY <1>4, LandsAs DEF Types, CloseCampaign, Refund, counters
<1>5. ASSUME UNCHANGED ledger \/ Clock \/ MoneyArrives
      PROVE  released_amount' = released_amount /\ paid' = paid
  BY <1>5 DEF ledger, vars, counters, Clock, Tick, MoneyArrives, Contribute, Deposit
<1> QED BY <1>2, <1>3, <1>4, <1>5, LedgerKept

LEMMA ReleasedStep ==
  ASSUME ChainInv, Types, LockInv, WireInv, LandedInv, Released, SettlementNext
  PROVE  Released' /\ db_released <= db_released' /\ release_tx \subseteq release_tx'
<1>1. Forward /\ SumOver(Cost, PaidProofs)' <= released_amount'
  BY ChainStep, SpentStep DEF Types
<1>2. PaidProofs \subseteq PaidProofs'
  BY <1>1, TypesStep DEF PaidProofs, Forward, Types, SidecarTypes
<1> DEFINE Goal == Released' /\ db_released <= db_released' /\ release_tx \subseteq release_tx'
<1>3. ASSUME NEW r \in Slots, CommitRelease(r) PROVE Goal
  <2>1. /\ pc[r] = "releaseOk" /\ r \notin gone /\ gone' = gone
        /\ release_tx' = release_tx \cup {proof[r]} /\ db_released' = db_released + Cost[proof[r]]
        /\ proof' = [proof EXCEPT ![r] = None] /\ pc' = [pc EXCEPT ![r] = "idle"]
    BY <1>3 DEF CommitRelease, PaidNow, Goto
  <2>2. proof[r] \in Proofs \ release_tx /\ proof[r] \in PaidProofs
    BY <2>1 DEF LockInv, LandedInv, Released, Releasing, PaidProofs
  <2>3. release_tx \in SUBSET Proofs
    BY DEF Types, RowTypes
  <2>4. SumOver(Cost, release_tx \cup {proof[r]}) = SumOver(Cost, release_tx) + Cost[proof[r]]
    BY <2>2, <2>3, CostAdded
  <2>5. \A q \in Slots \ gone : q # r => pc'[q] \notin Releasing
    BY <2>1 DEF LockInv, Releasing, Types, SlotTypes
  <2>6. pc'[r] \notin Releasing
    BY <2>1 DEF Releasing, Types, SlotTypes
  <2> QED BY <1>1, <1>2, <2>1, <2>2, <2>4, <2>5, <2>6 DEF Released, Types, RowTypes
<1>4. ASSUME UNCHANGED <<db_released, release_tx>> PROVE Goal
  <2>1. ASSUME NEW r \in Slots \ gone', pc'[r] \in Releasing PROVE proof'[r] \notin release_tx
    <3>1. \/ r \notin gone /\ pc[r] \in Releasing /\ proof'[r] = proof[r]
          \/ Releasable(proof'[r])
      BY <2>1, Entered
    <3> QED BY <3>1 DEF Released, Releasable
  <2> QED BY <1>1, <1>2, <1>4, <2>1 DEF Released, Types, RowTypes
<1>5. ASSUME \/ UNCHANGED db
             \/ \E a \in 1 .. MaxU64 : ConfirmPayment(a)
      PROVE  UNCHANGED <<db_released, release_tx>>
  BY <1>5 DEF db, ConfirmPayment
<1>6. ASSUME NEW r \in Slots, ApiStep(r), ~CommitRelease(r)
      PROVE  UNCHANGED <<db_released, release_tx>>
  BY <1>6 DEF ApiStep, StartClose, CommitClose, CloseFails, ReleaseFails,
              StartRefund, LockRefund, CommitRefund, RefundFails, db
<1> HIDE DEF Goal
<1>7. Goal
  BY <1>3, <1>4, <1>5, <1>6, DbKept
<1> QED BY <1>7 DEF Goal

-----------------------------------------------------------------------------
(* Status. *)

LEMMA FollowsOn ==
  ASSUME NEW a \in Statuses, NEW b \in Statuses, NEW c \in Statuses, Follows(a, b), Follows(b, c)
  PROVE  Follows(a, c)
BY DEF Follows, Statuses

(* What a handler has been told, and what it is told now. *)
Told == {"closeOk", "releaseOk", "refundOk"}

LEMMA Heard ==
  ASSUME ChainInv, Types, LockInv, SettlementNext, NEW r \in Slots
  PROVE  /\ \/ seen'[r] = seen[r] \/ seen'[r] = NoAnswer
            \/ /\ seen'[r].status = status /\ UNCHANGED <<db, ledger>>
               /\ \/ seen'[r].amount = 0 /\ seen'[r].count = 0
                  \/ seen'[r].amount = refunded_amount /\ seen'[r].count = refunded_count
         /\ pc'[r] \in Told =>
              \/ pc'[r] = pc[r] /\ seen'[r] = seen[r] /\ (r \in gone => r \in gone')
              \/ /\ seen'[r].status = status /\ UNCHANGED <<db, ledger>>
                 /\ pc'[r] = "refundOk" =>
                      /\ seen'[r].amount = refunded_amount /\ seen'[r].count = refunded_count
                      /\ pc[r] \in {"batch", "tally"} /\ (seen'[r].clear => todo[r] = {})
<1> USE DEF Types, SlotTypes
<1> DEFINE Fresh == seen'[r].status = status /\ UNCHANGED <<db, ledger>>
           AllOf == seen'[r].amount = refunded_amount /\ seen'[r].count = refunded_count
           NoneOf == seen'[r].amount = 0 /\ seen'[r].count = 0
           Still == /\ seen'[r] = seen[r] \/ (seen'[r] = NoAnswer /\ pc'[r] \notin Told)
                    /\ pc'[r] \in Told => pc'[r] = pc[r] /\ (r \in gone => r \in gone')
<1>1. ASSUME NEW q \in Slots, ApiStep(q) PROVE Still
  BY <1>1 DEF ApiStep, StartClose, CommitClose, CloseFails, CommitRelease,
              ReleaseFails, StartRefund, LockRefund, CommitRefund, RefundFails, AfterClose, Goto, Told
<1>2. ASSUME NEW q \in Slots, SidecarClose(q) \/ SidecarCloseDone(q) \/ SidecarRelease(q)
                               \/ ListPending(q) \/ SendBatch(q) \/ BatchDone(q)
      PROVE  Still
  BY <1>2 DEF SidecarClose, SidecarCloseDone, SidecarRelease, ListPending, SendBatch, BatchDone, Goto, Told
<1>3. ASSUME NEW q \in Slots, Discard(q) \/ GiveUp(q) PROVE Still
  BY <1>3 DEF Discard, GiveUp, Goto, Told
<1>4. ASSUME NEW q \in Releasers, NEW p \in Proofs, StartRelease(q, p) PROVE Still
  BY <1>4 DEF StartRelease, Slots, Goto, Told
<1>5. ASSUME NEW p \in Proofs, SidecarReleaseDone(p) PROVE Still
  BY <1>5 DEF SidecarReleaseDone, Joined, Told
<1>6. ASSUME Restart PROVE Still
  BY <1>6 DEF Restart, Told
<1>7. ASSUME \/ \E i \in TxIds : TxLands(i) \/ TxFails(i)
             \/ MoneyArrives \/ \E a \in 1 .. MaxU64 : ConfirmPayment(a)
             \/ Clock
      PROVE  Still
  BY <1>7 DEF TxLands, TxFails, MoneyArrives, ConfirmPayment, Clock
<1>8. ASSUME NEW q \in Slots, SidecarCloseStatus(q) \/ SidecarReleaseStatus(q)
      PROVE  Still \/ (Fresh /\ NoneOf /\ pc'[r] # "refundOk")
  <2>1. /\ UNCHANGED <<db, ledger, gone>>
        /\ \/ seen' = seen /\ \E where \in {"closeErr", "releaseErr"} : pc' = [pc EXCEPT ![q] = where]
           \/ /\ seen' = [seen EXCEPT ![q] = [NoAnswer EXCEPT !.status = status]]
              /\ \E where \in {"closeOk", "releaseOk"} : pc' = [pc EXCEPT ![q] = where]
    BY <1>8 DEF SidecarCloseStatus, SidecarReleaseStatus, Goto
  <2>2. status \in Statuses
    BY DEF ChainInv, IInv, TypeOK
  <2> QED BY ZenonT(40), <2>1, <2>2, AnswerTypes DEF Told
<1>9. ASSUME NEW q \in Slots, Tally(q)
      PROVE  Still \/ (/\ Fresh /\ AllOf /\ pc'[r] = "refundOk" /\ pc[r] \in {"batch", "tally"}
                       /\ seen'[r].clear => todo[r] = {})
  <2> DEFINE answer == [status |-> status, amount |-> refunded_amount,
                        count |-> refunded_count, clear |-> todo[q] = {}]
  <2>1. /\ UNCHANGED <<db, ledger, gone>> /\ pc[q] \in {"batch", "tally"}
        /\ \/ seen' = seen /\ pc' = [pc EXCEPT ![q] = "refundErr"]
           \/ /\ seen' = [seen EXCEPT ![q] = answer]
              /\ pc' = [pc EXCEPT ![q] = "refundOk"]
    BY <1>9 DEF Tally, Goto, NonePending
  <2>2. /\ answer.status = status /\ answer.amount = refunded_amount
        /\ answer.count = refunded_count /\ (answer.clear => todo[q] = {})
    OBVIOUS
  <2> HIDE DEF answer
  <2>3. CASE q = r
    BY <2>1, <2>2, <2>3 DEF Told
  <2>4. CASE q # r
    BY <2>1, <2>4 DEF Told
  <2> QED BY <2>3, <2>4
<1> HIDE DEF Still, Fresh, AllOf, NoneOf
<1>10. \/ Still \/ (Fresh /\ NoneOf /\ pc'[r] # "refundOk")
       \/ (/\ Fresh /\ AllOf /\ pc'[r] = "refundOk" /\ pc[r] \in {"batch", "tally"}
           /\ seen'[r].clear => todo[r] = {})
  BY <1>1, <1>2, <1>3, <1>4, <1>5, <1>6, <1>7, <1>8, <1>9 DEF SettlementNext, ApiStep, SidecarStep
<1>11. CASE Still
  BY <1>11 DEF Still
<1>12. CASE ~Still
  BY <1>10, <1>12 DEF Fresh, AllOf, NoneOf
<1> QED BY <1>11, <1>12

(* A close is won when its transaction lands, and stays won until the commit. *)
LandsFor(r) == /\ pc[r] = "closing" /\ TxLands(tx[r]) /\ net[tx[r]].op = "close"
               /\ tx[r] \in TxIds /\ tx' = tx /\ UNCHANGED db

LEMMA WonFrom ==
  ASSUME Types, LockInv, WireInv, SettlementNext, NEW r \in Slots, Won(r)'
  PROVE  /\ Won(r) \/ LandsFor(r)
         /\ \A q \in Slots : CommitClose(q) => r # q
<1> USE DEF Types, SlotTypes
<1> DEFINE Onto == {"closing", "closed", "closeOk"}
           Moved == \/ pc[r] = "closing" /\ pc'[r] = "closed" /\ net[tx[r]].state = "landed"
                    \/ pc[r] = "closed" /\ pc'[r] = "closeOk"
                    \/ pc'[r] = "closing" /\ tx'[r] \in TxIds /\ net'[tx'[r]].state = "flying"
           Still == pc'[r] \in Onto => pc'[r] = pc[r] /\ (pc[r] = "closing" => tx'[r] = tx[r])
<1>1. ASSUME NEW q \in Slots, SidecarClose(q) PROVE Still \/ Moved
  <2>1. PICK i \in TxIds : Submit(i, "close", None, {}) /\ tx' = [tx EXCEPT ![q] = i]
    BY <1>1 DEF SidecarClose
  <2>2. net'[i].state = "flying"
    BY <2>1, SubmitNet
  <2> QED BY <1>1, <2>1, <2>2 DEF SidecarClose, Goto, SidecarTypes
<1>2. ASSUME NEW q \in Slots, SidecarCloseDone(q) PROVE Still \/ Moved
  BY <1>2 DEF SidecarCloseDone, Confirmed, Goto, SidecarTypes
<1>3. ASSUME NEW q \in Slots, SidecarCloseStatus(q) PROVE Still \/ Moved
  BY <1>3 DEF SidecarCloseStatus, Goto, calls
<1>4. ASSUME NEW q \in Slots, ApiStep(q) PROVE Still
  BY <1>4 DEF ApiStep, StartClose, CommitClose, CloseFails, CommitRelease,
              ReleaseFails, StartRefund, LockRefund, CommitRefund, RefundFails, AfterClose, Goto, calls
<1>5. ASSUME NEW q \in Slots, SidecarRelease(q) \/ SidecarReleaseStatus(q) \/ Discard(q) \/ GiveUp(q)
      PROVE  Still
  BY <1>5 DEF SidecarRelease, SidecarReleaseStatus, Discard, GiveUp, Goto, calls
<1>6. ASSUME NEW q \in Slots, ListPending(q) \/ SendBatch(q) \/ BatchDone(q) \/ Tally(q)
      PROVE  Still
  BY <1>6 DEF ListPending, SendBatch, BatchDone, Tally, Goto, SidecarTypes
<1>7. ASSUME NEW q \in Releasers, NEW p \in Proofs, StartRelease(q, p) PROVE Still
  BY <1>7 DEF StartRelease, Slots, Goto, calls
<1>8. ASSUME NEW p \in Proofs, SidecarReleaseDone(p) PROVE Still
  BY <1>8 DEF SidecarReleaseDone, Joined
<1>9. ASSUME Restart PROVE Still
  BY <1>9 DEF Restart
<1>10. ASSUME \/ \E i \in TxIds : TxLands(i) \/ TxFails(i)
              \/ MoneyArrives \/ \E a \in 1 .. MaxU64 : ConfirmPayment(a)
              \/ Clock
       PROVE  Still
  BY <1>10 DEF TxLands, TxFails, MoneyArrives, ConfirmPayment, Clock, calls
<1> HIDE DEF Still, Moved
<1>11. Still \/ Moved
  BY <1>1, <1>2, <1>3, <1>4, <1>5, <1>6, <1>7, <1>8, <1>9, <1>10 DEF SettlementNext, SidecarStep
<1>12. ASSUME Moved PROVE Won(r)
  BY <1>12 DEF Moved, Won
<1>13. ASSUME Still PROVE Won(r) \/ LandsFor(r)
  <2>1. CASE pc'[r] = "closing"
    <3>1. pc[r] = "closing" /\ tx'[r] = tx[r] /\ tx[r] \in TxIds /\ net'[tx[r]].state = "landed"
      BY <1>13, <2>1 DEF Still, Won, WireInv, SidecarTypes
    <3>2. \/ net'[tx[r]] = net[tx[r]]
          \/ TxLands(tx[r])
      BY <3>1, LandedBy
    <3>3. net[tx[r]].op = "close"
      BY <3>1 DEF WireInv, SidecarTypes
    <3> QED BY <3>1, <3>2, <3>3 DEF Won, LandsFor, TxLands
  <2>2. CASE pc'[r] # "closing"
    BY <1>13, <2>2 DEF Still, Won
  <2> QED BY <2>1, <2>2
<1>14. \A q \in Slots : CommitClose(q) => r # q
  BY DEF CommitClose, AfterClose, Goto, Won
<1> QED BY <1>11, <1>12, <1>13, <1>14

(* Who writes the status: a handler that was told it, and is done. *)
Commits(r) == /\ r \notin gone /\ pc[r] \in Told
              /\ pc[r] = "closeOk" => row_lock = None
              /\ db_status' = OnchainStatus(seen[r].status)
              /\ UNCHANGED <<gone, ledger>>
              /\ pc'[r] \in {"idle", "lock"}

LEMMA StatusWritten ==
  ASSUME Types, SettlementNext, db_status' # db_status
  PROVE  \E r \in Slots : Commits(r)
<1> USE DEF Types, SlotTypes
<1>1. ASSUME NEW r \in Slots, CommitClose(r) \/ CommitRelease(r) \/ CommitRefund(r)
      PROVE  Commits(r)
  BY <1>1 DEF CommitClose, CommitRelease, CommitRefund, Commits, Told, AfterClose, Goto
<1>2. ASSUME NEW r \in Slots, ApiStep(r) PROVE CommitClose(r) \/ CommitRelease(r) \/ CommitRefund(r)
  BY <1>2 DEF ApiStep, StartClose, CloseFails, StatusOnCloseError, ReleaseFails, StartRefund,
              LockRefund, RefundFails, db
<1>3. ~UNCHANGED db /\ \A a \in 1 .. MaxU64 : ~ConfirmPayment(a)
  BY DEF db, ConfirmPayment
<1> QED BY <1>1, <1>2, <1>3, DbKept

LEMMA StatusStep ==
  ASSUME ChainInv, Types, LockInv, WireInv, StatusInv, SettlementNext
  PROVE  /\ StatusInv'
         /\ Follows(db_status, db_status')
<1>1. Forward /\ ChainInv' /\ Types'
  BY ChainStep, TypesStep DEF Types
<1>2. /\ status \in Statuses \ {"None"} /\ status' \in Statuses \ {"None"}
      /\ db_status \in Statuses \ {"None"} /\ db_status' \in Statuses \ {"None"}
      /\ \A r \in Slots : seen[r].status \in Statuses /\ seen'[r].status \in Statuses
  BY <1>1 DEF ChainInv, IInv, TypeOK, Types, RowTypes, SlotTypes, Answers
<1>3. /\ Follows(status, status') /\ Follows(db_status, status)
      /\ Follows(db_status, status') /\ (status # "Funding" => status' # "Funding")
  BY <1>1, <1>2, FollowsOn DEF Forward, StatusInv, Follows
(* The write. *)
<1>4. ASSUME NEW q \in Slots, Commits(q)
      PROVE  /\ db_status' = seen[q].status /\ Follows(db_status, db_status')
             /\ Follows(db_status', status') /\ status' = status
  <2>1. seen[q].status # "None" /\ Follows(db_status, seen[q].status)
        /\ Follows(seen[q].status, status)
    BY <1>4 DEF Commits, Told, StatusInv
  <2>2. db_status' = seen[q].status
    BY <1>2, <1>4, <2>1 DEF Commits, OnchainStatus, Statuses
  <2>3. status' = status
    BY <1>4 DEF Commits, ledger, vars
  <2> QED BY <2>1, <2>2, <2>3
<1>5. Follows(db_status, db_status') /\ Follows(db_status', status')
  <2>1. CASE db_status' = db_status
    BY <1>3, <2>1 DEF Follows
  <2>2. CASE db_status' # db_status
    BY <1>4, <2>2, StatusWritten
  <2> QED BY <2>1, <2>2
(* Nobody else is between a check and a commit, or has won the close. *)
<1>6. ASSUME NEW q \in Slots, Commits(q), NEW r \in Slots \ gone,
             pc[r] \in Releasing \cup Refunding
      PROVE  r = q
  BY <1>6 DEF Commits, Told, LockInv, Releasing, Refunding
<1>7. ASSUME NEW r \in Slots, LandsFor(r)
      PROVE  status = "Funding" /\ db_status = "Funding" /\ status' # "Funding"
  <2>1. CloseCampaign(Agent)
    BY <1>7, LandsAs DEF LandsFor, Types
  <2> QED BY <1>2, <1>3, <2>1 DEF CloseCampaign, StatusAtClose, Follows, Statuses
<1>8. ASSUME NEW r \in Slots, Won(r)' PROVE db_status' = "Funding" /\ status' # "Funding"
  <2>1. CASE LandsFor(r)
    BY <1>7, <2>1 DEF LandsFor, db
  <2>2. CASE Won(r)
    <3>1. db_status = "Funding" /\ status # "Funding"
      BY <2>2 DEF StatusInv
    <3>2. ASSUME NEW q \in Slots, Commits(q) PROVE FALSE
      <4>1. pc[q] = "closeOk"
        BY <3>1, <3>2 DEF Commits, Told, StatusInv, Releasing, Refunding
      <4>2. q = r
        BY <2>2, <4>1 DEF StatusInv, Won
      <4>3. pc'[r] \in {"idle", "lock"}
        BY <3>2, <4>2 DEF Commits
      <4> QED BY <1>8, <4>3 DEF Won
    <3>3. db_status' = db_status
      BY <3>2, StatusWritten
    <3> QED BY <1>3, <3>1, <3>3
  <2> QED BY <1>8, <2>1, <2>2, WonFrom
<1>9. ASSUME NEW r \in Slots, NEW q \in Slots, Won(r)', Won(q)' PROVE r = q
  <2>1. CASE Won(r) /\ Won(q)
    BY <2>1 DEF StatusInv
  <2>2. CASE LandsFor(r) /\ LandsFor(q)
    <3>1. ASSUME NEW i \in TxIds, TxLands(i)
          PROVE  /\ net[i].state = "flying" /\ net'[i].state # "flying"
                 /\ \A j \in TxIds \ {i} : net'[j] = net[j]
      <4>1. net[i].state = "flying" /\ Settled(i, "landed")
        BY <3>1 DEF TxLands
      <4> QED BY <4>1, SettledNet, FreeTxType DEF Types
    <3>2. tx[r] = tx[q]
      BY <2>2, <3>1 DEF LandsFor
    <3> QED BY <2>2, <3>2 DEF LandsFor, WireInv, SidecarTypes, Types
  <2>3. ~(Won(r) /\ LandsFor(q)) /\ ~(Won(q) /\ LandsFor(r))
    BY <1>7 DEF StatusInv
  <2> QED BY <1>9, <2>1, <2>2, <2>3, WonFrom
<1>10. ASSUME NEW r \in Slots \ gone'
       PROVE  /\ pc'[r] \in Releasing => db_status' = "Executing"
              /\ pc'[r] \in Refunding => db_status' = "Refunding"
  <2>1. ASSUME r \notin gone, pc[r] \in Releasing \cup Refunding,
               pc'[r] \in Releasing \cup Refunding
        PROVE  db_status' = db_status
    <3>1. ASSUME NEW q \in Slots, Commits(q) PROVE FALSE
      <4>1. q = r
        BY <1>6, <2>1, <3>1
      <4> QED BY <2>1, <3>1, <4>1 DEF Commits, Releasing, Refunding
    <3> QED BY <3>1, StatusWritten
  <2>2. CASE pc'[r] \in Releasing
    <3>1. \/ pc[r] \in Releasing /\ r \notin gone
          \/ Releasable(proof'[r]) /\ UNCHANGED db
      BY <1>10, <2>2, Entered
    <3> QED BY <2>1, <2>2, <3>1 DEF StatusInv, Releasable, db, Releasing, Refunding
  <2>3. CASE pc'[r] \in Refunding
    <3>1. \/ pc[r] \in Refunding /\ r \notin gone
          \/ db_status = "Refunding" /\ UNCHANGED db
      BY <1>10, <2>3, Entered
    <3> QED BY <2>1, <2>3, <3>1 DEF StatusInv, db, Releasing, Refunding
  <2> QED BY <2>2, <2>3 DEF Releasing, Refunding
<1>11. ASSUME NEW r \in Slots, seen'[r].status # "None" PROVE Follows(seen'[r].status, status')
  <2>1. seen'[r] = seen[r] \/ seen'[r] = NoAnswer \/ seen'[r].status = status
    BY Heard
  <2>2. NoAnswer.status = "None"
    BY DEF NoAnswer
  <2> QED BY <1>2, <1>3, <1>11, <2>1, <2>2, FollowsOn DEF StatusInv
<1>12. ASSUME NEW r \in Slots \ gone', pc'[r] \in Told
       PROVE  seen'[r].status # "None" /\ Follows(db_status', seen'[r].status)
  <2>1. CASE seen'[r].status = status /\ UNCHANGED db
    BY <1>2, <1>3, <2>1 DEF db
  <2>2. CASE pc'[r] = pc[r] /\ seen'[r] = seen[r] /\ r \notin gone
    <3>1. seen[r].status # "None" /\ Follows(db_status, seen[r].status)
      BY <1>12, <2>2 DEF StatusInv, Told
    <3>2. ASSUME NEW q \in Slots, Commits(q) PROVE FALSE
      <4>1. q # r
        BY <1>12, <3>2 DEF Commits, Told
      <4>2. pc[r] = "closeOk"
        BY <1>6, <1>12, <2>2, <3>2, <4>1 DEF Told, Releasing, Refunding
      <4>3. db_status = "Funding"
        BY <4>2 DEF StatusInv, Won
      <4>4. pc[q] = "closeOk"
        BY <3>2, <4>3 DEF Commits, Told, StatusInv, Releasing, Refunding
      <4> QED BY <4>1, <4>2, <4>4 DEF StatusInv, Won
    <3>3. db_status' = db_status
      BY <3>2, StatusWritten
    <3> QED BY <2>2, <3>1, <3>3
  <2>3. \/ seen'[r].status = status /\ UNCHANGED db
        \/ pc'[r] = pc[r] /\ seen'[r] = seen[r] /\ r \notin gone
    BY <1>12, Heard
  <2> QED BY <2>1, <2>2, <2>3
<1> QED BY <1>5, <1>8, <1>9, <1>10, <1>11, <1>12 DEF StatusInv, Told

-----------------------------------------------------------------------------
(* Refunds. *)

LEMMA RefundStep ==
  ASSUME ChainInv, Types, LockInv, WireInv, RefundInv, SettlementNext
  PROVE  /\ RefundInv'
         /\ db_refunded <= db_refunded' /\ db_refunded_count <= db_refunded_count'
<1>1. Forward /\ ChainInv' /\ Types'
  BY ChainStep, TypesStep DEF Types
<1>2. /\ refunded_amount \in Nat /\ refunded_amount' \in Nat
      /\ refunded_count \in Nat /\ refunded_count' \in Nat
      /\ refunded_amount <= refunded_amount' /\ refunded_count <= refunded_count'
      /\ db_refunded \in Nat /\ db_refunded_count \in Nat
      /\ db_refunded' \in Nat /\ db_refunded_count' \in Nat
      /\ \A r \in Slots : seen[r].amount \in Nat /\ seen[r].count \in Nat
  BY <1>1 DEF ChainInv, IInv, TypeOK, Types, RowTypes, SlotTypes, Answers, Forward
<1>3. NoAnswer.amount = 0 /\ NoAnswer.count = 0
  BY DEF NoAnswer
<1>4. ASSUME NEW r \in Slots
      PROVE  seen'[r].amount <= refunded_amount' /\ seen'[r].count <= refunded_count'
  <2>1. \/ seen'[r] = seen[r] \/ seen'[r] = NoAnswer
        \/ seen'[r].amount = 0 /\ seen'[r].count = 0
        \/ seen'[r].amount = refunded_amount /\ seen'[r].count = refunded_count
    BY Heard
  <2> QED BY <1>2, <1>3, <2>1 DEF RefundInv
<1>5. ASSUME NEW q \in Slots, CommitRefund(q)
      PROVE  /\ db_refunded' = seen[q].amount /\ db_refunded_count' = seen[q].count
             /\ q \notin gone /\ pc[q] = "refundOk" /\ gone' = gone /\ pc'[q] # "refundOk"
  BY <1>5 DEF CommitRefund, Goto, Types, SlotTypes
<1>6. ASSUME \A q \in Slots : ~CommitRefund(q)
      PROVE  db_refunded' = db_refunded /\ db_refunded_count' = db_refunded_count
  BY <1>6, DbKept DEF ApiStep, StartClose, CommitClose, CloseFails, CommitRelease, ReleaseFails,
                      StartRefund, LockRefund, RefundFails, ConfirmPayment, db
<1>7. /\ db_refunded <= db_refunded' /\ db_refunded' <= refunded_amount'
      /\ db_refunded_count <= db_refunded_count' /\ db_refunded_count' <= refunded_count'
  BY <1>2, <1>5, <1>6 DEF RefundInv
<1>8. ASSUME NEW r \in Slots \ gone', pc'[r] = "refundOk"
      PROVE  db_refunded' <= seen'[r].amount /\ db_refunded_count' <= seen'[r].count
  <2>1. \/ pc[r] = "refundOk" /\ seen'[r] = seen[r] /\ r \notin gone
        \/ /\ seen'[r].amount = refunded_amount /\ seen'[r].count = refunded_count
           /\ UNCHANGED db
    BY <1>8, Heard DEF Told
  <2>2. CASE UNCHANGED db /\ seen'[r].amount = refunded_amount /\ seen'[r].count = refunded_count
    BY <2>2 DEF db, RefundInv
  <2>3. CASE pc[r] = "refundOk" /\ seen'[r] = seen[r] /\ r \notin gone
    <3>1. \A q \in Slots : ~CommitRefund(q)
      BY <1>5, <1>8, <2>3 DEF LockInv, Refunding
    <3> QED BY <1>6, <2>3, <3>1 DEF RefundInv
  <2> QED BY <2>1, <2>2, <2>3
<1> QED BY <1>4, <1>7, <1>8 DEF RefundInv

(* A list is made of everybody not yet paid back, and shortened by those   *)
(* whose transaction landed.                                               *)
LEMMA Listed ==
  ASSUME Types, WireInv, LandedInv, SettlementNext,
         NEW r \in Slots, pc'[r] \in {"batch", "sent", "tally"}
  PROVE  \/ pc[r] \in {"batch", "sent", "tally"} /\ todo[r] \subseteq todo'[r] \cup refunded
         \/ todo'[r] = Contributors \ refunded
<1> USE DEF Types, SlotTypes
<1> DEFINE Kept == pc[r] \in {"batch", "sent", "tally"} /\ todo[r] \subseteq todo'[r] \cup refunded
<1>1. ASSUME NEW q \in Slots, ApiStep(q) PROVE Kept
  BY <1>1 DEF ApiStep, StartClose, CommitClose, CloseFails, CommitRelease,
              ReleaseFails, StartRefund, LockRefund, CommitRefund, RefundFails, AfterClose, Goto, calls
<1>2. ASSUME NEW q \in Slots, SidecarClose(q) \/ SidecarCloseDone(q) \/ SidecarCloseStatus(q)
                               \/ SidecarRelease(q) \/ SidecarReleaseStatus(q)
      PROVE  Kept
  BY <1>2 DEF SidecarClose, SidecarCloseDone, SidecarCloseStatus, SidecarRelease,
              SidecarReleaseStatus, Goto, calls
<1>3. ASSUME NEW q \in Slots, SendBatch(q) \/ Tally(q) \/ Discard(q) \/ GiveUp(q) PROVE Kept
  BY <1>3 DEF SendBatch, Tally, Discard, GiveUp, Goto, calls
<1>4. ASSUME NEW q \in Slots, ListPending(q) PROVE Kept \/ todo'[r] = Contributors \ refunded
  BY <1>4 DEF ListPending, Pending, Refundable, Goto
<1>5. ASSUME NEW q \in Slots, BatchDone(q) PROVE Kept
  <2>1. net[tx[q]].state = "landed" => net[tx[q]].refunds \subseteq refunded
    BY <1>5 DEF BatchDone, WireInv, LandedInv, SidecarTypes
  <2> QED BY <1>5, <2>1 DEF BatchDone, Confirmed, Goto
<1>6. ASSUME NEW q \in Releasers, NEW p \in Proofs, StartRelease(q, p) PROVE Kept
  BY <1>6 DEF StartRelease, Slots, Goto, calls
<1>7. ASSUME NEW p \in Proofs, SidecarReleaseDone(p) PROVE Kept
  BY <1>7 DEF SidecarReleaseDone, Joined
<1>8. ASSUME Restart PROVE Kept
  BY <1>8 DEF Restart
<1>9. ASSUME \/ \E i \in TxIds : TxLands(i) \/ TxFails(i)
             \/ MoneyArrives \/ \E a \in 1 .. MaxU64 : ConfirmPayment(a)
             \/ Clock
      PROVE  Kept
  BY <1>9 DEF TxLands, TxFails, MoneyArrives, ConfirmPayment, Clock, calls
<1> HIDE DEF Kept
<1>10. Kept \/ todo'[r] = Contributors \ refunded
  BY <1>1, <1>2, <1>3, <1>4, <1>5, <1>6, <1>7, <1>8, <1>9 DEF SettlementNext, SidecarStep
<1> QED BY <1>10 DEF Kept

LEMMA MarksStep ==
  ASSUME ChainInv, Types, LockInv, WireInv, LandedInv, StatusInv, MarksInv, SettlementNext
  PROVE  MarksInv' /\ marked_rows <= marked_rows'
<1>1. Forward /\ ChainInv'
  BY ChainStep DEF Types
<1>2. status \in {"Refunding", "Closed"} => status' \in {"Refunding", "Closed"}
  BY <1>1 DEF Forward, Follows
<1>3. /\ refunded \subseteq refunded'
      /\ status # "Funding" => Contributors' = Contributors
  BY <1>1 DEF Forward, Contributors
<1>4. ASSUME NEW r \in Slots, pc'[r] \in Refunding PROVE status \in {"Refunding", "Closed"}
  <2>1. pc[r] \in Refunding \/ db_status = "Refunding"
    BY <1>4, Entered
  <2> QED BY <2>1 DEF MarksInv, StatusInv, Follows
<1>5. ASSUME NEW r \in Slots, pc'[r] \in {"batch", "sent", "tally"}
      PROVE  Contributors' \subseteq refunded' \cup todo'[r]
  <2>1. Contributors \subseteq refunded \cup todo'[r]
    BY <1>5, Listed DEF MarksInv
  <2> QED BY <1>3, <1>4, <1>5, <2>1 DEF Refunding
<1>6. ASSUME NEW r \in Slots, pc'[r] = "refundOk", seen'[r].clear
      PROVE  Contributors' \subseteq refunded'
  <2>1. \/ pc[r] = "refundOk" /\ seen[r].clear
        \/ pc[r] \in {"batch", "tally"} /\ todo[r] = {}
    BY <1>6, Heard DEF Told
  <2>2. Contributors \subseteq refunded
    BY <2>1 DEF MarksInv
  <2> QED BY <1>3, <1>4, <1>6, <2>2 DEF Refunding
<1>7. /\ marked_rows <= marked_rows'
      /\ marked_rows' > 0 => status' # "Funding" /\ Contributors' \subseteq refunded'
  <2>0. marked_rows \in Nat /\ held_rows \in Nat
    BY DEF Types, RowTypes
  <2>1. ASSUME NEW q \in Slots, CommitRefund(q)
        PROVE  /\ marked_rows <= marked_rows'
               /\ marked_rows' > 0 => status # "Funding" /\ Contributors \subseteq refunded
    <3>1. pc[q] = "refundOk" /\ pc[q] \in Refunding
      BY <2>1 DEF CommitRefund, Refunding
    <3>2. CASE seen[q].clear
      <4>1. marked_rows' = marked_rows + held_rows
        BY <2>1, <3>2 DEF CommitRefund
      <4> QED BY <2>0, <3>1, <3>2, <4>1 DEF MarksInv
    <3>3. CASE ~seen[q].clear
      <4>1. marked_rows' = marked_rows
        BY <2>1, <3>3 DEF CommitRefund
      <4> QED BY <2>0, <4>1 DEF MarksInv
    <3> QED BY <3>2, <3>3
  <2>2. ASSUME \A q \in Slots : ~CommitRefund(q) PROVE marked_rows' = marked_rows
    BY <2>2, DbKept DEF ApiStep, StartClose, CommitClose, CloseFails, CommitRelease, ReleaseFails,
                        StartRefund, LockRefund, RefundFails, ConfirmPayment, db
  <2>3. status # "Funding" => status' # "Funding"
    BY <1>1 DEF Forward, Follows
  <2> QED BY <1>3, <2>0, <2>1, <2>2, <2>3 DEF MarksInv
<1> QED BY <1>2, <1>4, <1>5, <1>6, <1>7 DEF MarksInv

-----------------------------------------------------------------------------
(* The invariant, and what follows from it. *)

SInv ==
  /\ ChainInv /\ Types /\ LockInv /\ WireInv
  /\ LandedInv /\ OnceInv /\ Released /\ StatusInv /\ RefundInv /\ MarksInv

LEMMA InitChain == SettlementInit => ChainInv
<1> SUFFICES ASSUME SettlementInit PROVE ChainInv
  OBVIOUS
<1> USE DEF SettlementInit
<1>1. SumOver(amount, Wallets) = 0 /\ SumOver(amount, {}) = 0
  BY SumZero, SumEmpty
<1>2. Contributors = {}
  BY DEF Contributors
<1>3. TypeOK
  BY DEF TypeOK, Statuses
<1>4. CountersAgree
  BY <1>1, <1>2, FS_EmptySet DEF CountersAgree
<1>5. FansMadeWhole
  BY DEF FansMadeWhole
<1> QED BY <1>2, <1>3, <1>4, <1>5 DEF ChainInv, IInv, StatusFacts

LEMMA InitSInv == SettlementInit => SInv
<1> SUFFICES ASSUME SettlementInit PROVE SInv
  OBVIOUS
<1>1. ChainInv
  BY InitChain
<1> USE DEF SettlementInit
<1>2. NoAnswer \in Answers /\ FreeTx \in Transactions
  BY FreeTxType, AnswerTypes DEF Statuses
<1>3. Types
  BY <1>2 DEF Types, RowTypes, SlotTypes, SidecarTypes, Places, Statuses
<1>4. LockInv
  BY DEF LockInv, Releasing, Refunding
<1>5. WireInv
  BY DEF WireInv, FreeTx
<1>6. PaidProofs = {}
  BY DEF PaidProofs
<1>7. LandedInv /\ OnceInv
  BY DEF LandedInv, OnceInv, FreeTx
<1>9. Released
  BY <1>6, SumEmpty DEF Released, Releasing
<1>10. StatusInv
  BY DEF StatusInv, Won, Follows, NoAnswer, Releasing, Refunding
<1>11. RefundInv /\ MarksInv
  BY DEF RefundInv, MarksInv, NoAnswer, Refunding
<1> QED BY <1>1, <1>3, <1>4, <1>5, <1>7, <1>9, <1>10, <1>11 DEF SInv

(* What a step may not undo. *)
DbOn ==
  /\ Follows(db_status, db_status')
  /\ db_released <= db_released' /\ release_tx \subseteq release_tx'
  /\ db_refunded <= db_refunded' /\ db_refunded_count <= db_refunded_count'
  /\ marked_rows <= marked_rows'

LEMMA StepSInv == SInv /\ SettlementNext => SInv' /\ DbOn
<1> SUFFICES ASSUME SInv, SettlementNext PROVE SInv' /\ DbOn
  OBVIOUS
<1> USE DEF SInv
<1>1. ChainInv' /\ Types'
  BY ChainStep, TypesStep DEF Types
<1>2. LockInv' /\ WireInv' /\ LandedInv' /\ OnceInv'
  BY LockStep, WireStep, LandedStep, OnceStep
<1>3. Released' /\ StatusInv' /\ RefundInv' /\ MarksInv'
  BY ReleasedStep, StatusStep, RefundStep, MarksStep
<1>4. DbOn
  BY ReleasedStep, StatusStep, RefundStep, MarksStep DEF DbOn
<1> QED BY <1>1, <1>2, <1>3, <1>4

LEMMA IdleSInv == SInv /\ UNCHANGED everything => SInv'
<1> SUFFICES ASSUME SInv, UNCHANGED everything PROVE SInv'
  OBVIOUS
<1>1. UNCHANGED <<db, row_lock, pc, proof, gone, seen, calls, ledger>>
  BY DEF everything
<1>2. UNCHANGED <<db_status, db_raised, db_released, db_refunded, db_refunded_count,
                  held_rows, marked_rows, release_tx, tx, todo, cache, job, misled,
                  net, paid>>
  BY <1>1 DEF db, calls, keys, ledger
<1>3. UNCHANGED vars /\ UNCHANGED <<status, agent_authority, raised_amount, released_amount,
                                   refunded_amount, refunded_count, amount, refunded>>
  BY <1>1 DEF ledger, vars, terms, counters
<1>4. ChainInv'
  BY <1>3, IdleIInv DEF SInv, ChainInv
<1>5. Types' /\ LockInv' /\ WireInv'
  BY <1>1, <1>2 DEF SInv, Types, RowTypes, SlotTypes, SidecarTypes, LockInv, WireInv
<1>6. PaidProofs' = PaidProofs /\ Contributors' = Contributors
  BY <1>2, <1>3 DEF PaidProofs, Contributors
<1>7. LandedInv' /\ OnceInv' /\ Released'
  BY <1>1, <1>2, <1>3, <1>6 DEF SInv, LandedInv, OnceInv, Released
<1>8. StatusInv' /\ RefundInv' /\ MarksInv'
  BY <1>1, <1>2, <1>3, <1>6 DEF SInv, StatusInv, Won, RefundInv, MarksInv
<1> QED BY <1>4, <1>5, <1>7, <1>8 DEF SInv

(* SInv holds in every reachable state, whatever is lost, restarted or     *)
(* given up: the base of every theorem below.                              *)
THEOREM SettlementInductive == SettlementSpec => []SInv
<1>1. SInv /\ [SettlementNext]_everything => SInv'
  BY StepSInv, IdleSInv
<1> QED BY <1>1, InitSInv, PTL DEF SettlementSpec

LEMMA SInvImplies ==
  SInv => SettlementTypeOK /\ DbNeverAhead /\ NotPaidTwice /\ PaidIsRemembered /\ RefundMarksSound
<1> SUFFICES ASSUME SInv
             PROVE  SettlementTypeOK /\ DbNeverAhead /\ NotPaidTwice /\ PaidIsRemembered
                      /\ RefundMarksSound
  OBVIOUS
<1> USE DEF SInv
<1>1. SettlementTypeOK
  <2>1. TypeOK
    BY DEF ChainInv, IInv
  <2>2. \A r \in Slots :
          row_lock = r <=>
            /\ r \notin gone
            /\ pc[r] \in {"release", "join", "released", "releaseOk", "releaseErr", "refund",
                          "batch", "sent", "tally", "refundOk", "refundErr"}
    BY DEF LockInv, Releasing, Refunding
  <2> QED BY <2>1, <2>2 DEF SettlementTypeOK, Types, RowTypes, SlotTypes, SidecarTypes, Places
<1>3. db_released <= released_amount
  <2>1. PaidProofs \in SUBSET Proofs /\ release_tx \subseteq PaidProofs
    BY DEF PaidProofs, Released
  <2>2. IsFiniteSet(PaidProofs) /\ \A p \in PaidProofs : Cost[p] \in Nat /\ Cost[p] <= Cost[p]
    BY <2>1, CostType
  <2>3. SumOver(Cost, release_tx) <= SumOver(Cost, PaidProofs)
    BY <2>1, <2>2, SumMono
  <2>4. /\ SumOver(Cost, release_tx) \in Nat /\ SumOver(Cost, PaidProofs) \in Nat
        /\ released_amount \in Nat
    BY <2>1, CostType DEF ChainInv, IInv, TypeOK
  <2> QED BY <2>3, <2>4 DEF Released
<1>4. DbNeverAhead
  BY <1>3 DEF DbNeverAhead, RefundInv, Released, PaidProofs, StatusInv
<1>5. NotPaidTwice /\ PaidIsRemembered
  BY DEF OnceInv, NotPaidTwice, PaidIsRemembered
<1>6. RefundMarksSound
  BY DEF MarksInv, RefundMarksSound
<1> QED BY <1>1, <1>4, <1>5, <1>6

(* Rows, handlers, the sidecar's maps and the transactions keep their      *)
(* shapes, and the row lock is held exactly from a check to its commit.    *)
THEOREM SettlementTypes == SettlementSpec => []SettlementTypeOK
BY SettlementInductive, SInvImplies, PTL

(* The database never claims more of a settlement than the chain did: the  *)
(* released amount is the cost of proofs each paid, the refunds and the    *)
(* status are ones the sidecar has read.                                   *)
THEOREM SettlementDbNeverAhead == SettlementSpec => []DbNeverAhead
BY SettlementInductive, SInvImplies, PTL

(* A proof whose release the sidecar did not lose track of is paid at most *)
(* once, for any number of callers, timeouts and expired transactions.     *)
THEOREM SettlementNotPaidTwice == SettlementSpec => []NotPaidTwice
BY SettlementInductive, SInvImplies, PTL

(* Until it is recorded, such a payment stays in the sidecar's memory or   *)
(* with the task about to put it there.                                    *)
THEOREM SettlementPaidIsRemembered == SettlementSpec => []PaidIsRemembered
BY SettlementInductive, SInvImplies, PTL

(* Contribution rows are marked refunded only once every contribution to   *)
(* the campaign has been paid back on chain.                               *)
THEOREM SettlementMarksSound == SettlementSpec => []RefundMarksSound
BY SettlementInductive, SInvImplies, PTL

(* The campaign row only moves on: no answer of the sidecar overwrites a   *)
(* later one, although lazy_close writes without holding the row.          *)
THEOREM SettlementDbForward == SettlementSpec => DbForward
<1>1. SInv /\ [SettlementNext]_everything =>
        [/\ Follows(db_status, db_status')
         /\ db_released <= db_released' /\ release_tx \subseteq release_tx'
         /\ db_refunded <= db_refunded' /\ db_refunded_count <= db_refunded_count'
         /\ marked_rows <= marked_rows']_everything
  BY StepSInv DEF DbOn
<1> QED BY <1>1, SettlementInductive, PTL DEF SettlementSpec, DbForward

-----------------------------------------------------------------------------
(* The escrow, as the service drives it. *)

LEMMA EscrowStep == SInv /\ [SettlementNext]_everything => [Next]_vars
<1> SUFFICES ASSUME SInv, [SettlementNext]_everything PROVE Next \/ UNCHANGED vars
  OBVIOUS
<1>1. ASSUME NEW i \in TxIds, TxLands(i) PROVE Next
  <2>1. \/ CloseCampaign(Agent) \/ \E p \in Proofs : Release(Agent, Cost[p])
        \/ \E S \in SUBSET Wallets : Refund(Agent, S)
    BY <1>1, LandsAs DEF SInv, Types
  <2>2. Agent \in Keys /\ \A p \in Proofs : Cost[p] \in 1 .. MaxU64
    OBVIOUS
  <2> QED BY <2>1, <2>2 DEF Next
<1>2. MoneyArrives => Next
  BY DEF MoneyArrives, Next
<1>3. Clock => Next
  BY DEF Clock, Next
<1>4. UNCHANGED ledger => UNCHANGED vars
  BY DEF ledger
<1>5. UNCHANGED everything => UNCHANGED ledger
  BY DEF everything
<1> QED BY <1>1, <1>2, <1>3, <1>4, <1>5, LedgerKept

(* Whatever the API and the sidecar do and lose, the chain sees nothing    *)
(* but a sequence of the program's instructions.                           *)
THEOREM SettlementDrivesEscrow == SettlementSpec => [][Next]_vars
BY SettlementInductive, EscrowStep, PTL DEF SettlementSpec

(* So the escrow's promises to the fans hold of the whole service: books   *)
(* that agree, every fan out of pocket by what is recorded, enough in the  *)
(* escrow, no refund that is stuck, a closed campaign settled.             *)
THEOREM SettlementKeepsFansWhole ==
  SettlementSpec => [](CountersAgree /\ FansMadeWhole /\ EscrowCovers /\ RefundNeverStuck
                         /\ NoOverflow /\ ClosedIsSettled)
<1>1. SInv => CountersAgree /\ FansMadeWhole /\ EscrowCovers /\ RefundNeverStuck
                /\ NoOverflow /\ ClosedIsSettled
  BY CoversFromIInv, NeverStuckFromIInv, NoOverflowFromIInv, SettledFromIInv DEF SInv, ChainInv, IInv
<1> QED BY <1>1, SettlementInductive, PTL

(* ... and every step of it is one Custody allows, or none at all.         *)
THEOREM SettlementKeepsPromise == SettlementSpec => [][Promise!Next]_(Promise!vars)
<1>1. SInv /\ [SettlementNext]_everything => [Promise!Next]_(Promise!vars)
  BY EscrowStep, StepPromise DEF SInv, ChainInv
<1> QED BY <1>1, SettlementInductive, PTL DEF SettlementSpec
=============================================================================
