----------------------------- MODULE Settlement -----------------------------
(***************************************************************************)
(* Settlement of one campaign across three processes that fail separately: *)
(*                                                                         *)
(*   the API     handlers of FastAPI; each is a coroutine that reads the   *)
(*               campaign row, calls the sidecar over HTTP with a timeout  *)
(*               and then writes what the sidecar answered;                *)
(*   the sidecar chain-svc; it signs and submits transactions, waits for   *)
(*               their confirmation and remembers release signatures in    *)
(*               two in-memory maps (idempotencyCache, inflight);          *)
(*   the chain   module Escrow, plus the transactions in flight.           *)
(*                                                                         *)
(* A handler is a slot r that is one kind of request at a time; pc[r] says *)
(* how far it and the sidecar call it made have come.  A handler that gave *)
(* up waiting is "gone": its sidecar call goes on, but writes nothing.     *)
(***************************************************************************)
EXTENDS Escrow

CONSTANTS
  Agent,        \* the service's key, agent_authority of the campaign
  Proofs,       \* approved quotes of allowlisted vendors
  Cost,         \* amount of each quote
  Goals,        \* goal amounts to start from
  Deadlines,    \* deadlines to start from
  Closers,      \* slots for POST /campaign/{id}/close
  Readers,      \* slots for GET /campaign/{id} and /campaign/{id}/status
  Releasers,    \* slots for POST /settlement/{id}/release and _execute
  Refunders,    \* slots for POST /settlement/{id}/refund
  BatchSize,    \* REFUND_BATCH_SIZE
  TxIds,        \* transactions in flight at a time
  None,
  Faults        \* which of AllFaults may happen

(* timeout: a handler gives up on the sidecar, or the API restarts;        *)
(* drop:    a transaction expires without landing and the sidecar is told; *)
(* lose:    the sidecar sees an error for a transaction that landed or may *)
(*          still land (confirmation timeout, RPC connection error);       *)
(* fetch:   reading the campaign account after a transaction, or the       *)
(*          contributions before the refunds, fails;                       *)
(* restart: the sidecar restarts.                                          *)
AllFaults == {"timeout", "drop", "lose", "fetch", "restart"}

Slots == Closers \cup Readers \cup Releasers \cup Refunders

ASSUME SettlementAssumption ==
  /\ Agent \in Keys
  /\ IsFiniteSet(Proofs)
  /\ Cost \in [Proofs -> 1 .. MaxU64]
  /\ Goals \subseteq 1 .. MaxU64 /\ Deadlines \subseteq 1 .. MaxTime
  /\ BatchSize \in Nat \ {0}
  /\ Faults \subseteq AllFaults
  /\ None \notin Slots \cup Proofs \cup TxIds

VARIABLES
  db_status, db_raised, db_released, db_refunded, db_refunded_count,
                 \* the campaign row
  held_rows, marked_rows,
                 \* the number of Contribution rows of refunded = False / True
  release_tx,    \* proofs whose release_tx is set
  row_lock,      \* the handler that holds the campaign row FOR UPDATE
  pc, proof, gone, seen,
                 \* per slot: progress, proof to pay, gave up, sidecar's answer
  tx, todo,      \* per slot: transaction awaited, contributions to refund
  cache, job,    \* idempotencyCache; inflight: the transaction of each task
  misled,        \* history: proofs whose release the sidecar lost track of
  net,           \* transactions submitted
  paid           \* history: times the escrow paid each proof

db     == <<db_status, db_raised, db_released, db_refunded, db_refunded_count,
            held_rows, marked_rows, release_tx>>
keys   == <<cache, job, misled>>
calls  == <<tx, todo, keys, net>>
ledger == <<vars, paid>>
everything == <<db, row_lock, pc, proof, gone, seen, calls, ledger>>

NoAnswer == [status |-> "None", amount |-> 0, count |-> 0, clear |-> FALSE]

FreeTx == [state |-> "free", op |-> "none", pays |-> None, refunds |-> {}]

SettlementInit ==
  /\ status = "Funding" /\ agent_authority = Agent
  /\ goal_amount \in Goals /\ deadline \in Deadlines
  /\ raised_amount = 0 /\ released_amount = 0 /\ refunded_amount = 0
  /\ contributor_count = 0 /\ refunded_count = 0
  /\ amount = [w \in Wallets |-> 0] /\ refunded = {}
  /\ escrow_usdc = 0 /\ wallet_usdc = Purse /\ outside_usdc = Outside
  /\ now = 0 /\ paid = [p \in Proofs |-> 0]
  /\ db_status = "Funding" /\ db_raised = 0 /\ db_released = 0
  /\ db_refunded = 0 /\ db_refunded_count = 0
  /\ held_rows = 0 /\ marked_rows = 0
  /\ release_tx = {} /\ row_lock = None
  /\ pc = [r \in Slots |-> "idle"] /\ proof = [r \in Slots |-> None]
  /\ gone = {} /\ seen = [r \in Slots |-> NoAnswer]
  /\ tx = [r \in Slots |-> None] /\ todo = [r \in Slots |-> {}]
  /\ cache = {} /\ job = [p \in Proofs |-> None] /\ misled = {}
  /\ net = [i \in TxIds |-> FreeTx]

-----------------------------------------------------------------------------
(* Transactions on their way. *)

Goto(r, where) == pc' = [pc EXCEPT ![r] = where]

Submit(i, op, p, S) ==
  /\ net[i].state = "free"
  /\ net' = [net EXCEPT ![i] = [state |-> "flying", op |-> op, pays |-> p, refunds |-> S]]

Awaited(i) == (\E r \in Slots : tx[r] = i) \/ (\E p \in Proofs : job[p] = i)

Settled(i, outcome) ==
  net' = [net EXCEPT ![i] = IF Awaited(i) THEN [@ EXCEPT !.state = outcome] ELSE FreeTx]

(* The transaction lands: the program's instruction commits. *)
TxLands(i) ==
  /\ net[i].state = "flying"
  /\ CASE net[i].op = "close"   -> CloseCampaign(Agent) /\ UNCHANGED paid
       [] net[i].op = "release" -> /\ Release(Agent, Cost[net[i].pays])
                                   /\ paid' = [paid EXCEPT ![net[i].pays] = @ + 1]
       [] net[i].op = "refund"  -> Refund(Agent, net[i].refunds) /\ UNCHANGED paid
  /\ Settled(i, "landed")
  /\ UNCHANGED <<db, row_lock, pc, proof, gone, seen, tx, todo, keys>>

(* What the program accepts of each instruction (the converse is TxFails). *)
Acceptable(t) ==
  CASE t.op = "close"   -> status = "Funding"
    [] t.op = "release" -> /\ status = "Executing"
                           /\ Cost[t.pays] <= raised_amount - released_amount
    [] t.op = "refund"  -> status = "Refunding" /\ t.refunds \cap refunded = {}

(* The transaction fails in simulation or on chain, or expires. *)
TxFails(i) ==
  /\ net[i].state = "flying"
  /\ ~Acceptable(net[i]) \/ "drop" \in Faults
  /\ Settled(i, "failed")
  /\ UNCHANGED <<db, row_lock, pc, proof, gone, seen, tx, todo, keys, ledger>>

(* What the sidecar's await on transaction i can report. *)
Confirmed(i) == net[i].state = "landed"
Errored(i)   == \/ net[i].state = "failed"
                \/ "lose" \in Faults /\ net[i].state \in {"flying", "landed"}

(* The sidecar stops waiting for i; a transaction still flying stays so. *)
LetGo(i) == net' = [net EXCEPT ![i] = IF @.state = "flying" THEN @ ELSE FreeTx]

-----------------------------------------------------------------------------
(* Closing: POST /campaign/{id}/close, and lazy_close in the readers and   *)
(* in refund, which swallows the sidecar's failure.                        *)

Overdue == db_status = "Funding" /\ deadline <= now

StartClose(r) ==
  /\ pc[r] = "idle"
  /\ \/ r \in Closers /\ db_status = "Funding"
     \/ r \in Readers \cup Refunders /\ Overdue
  /\ Goto(r, "close")
  /\ UNCHANGED <<db, row_lock, proof, gone, seen, calls, ledger>>

SidecarClose(r) ==
  /\ pc[r] = "close"
  /\ \E i \in TxIds : Submit(i, "close", None, {}) /\ tx' = [tx EXCEPT ![r] = i]
  /\ Goto(r, "closing")
  /\ UNCHANGED <<db, row_lock, proof, gone, seen, todo, keys, ledger>>

SidecarCloseDone(r) ==
  /\ pc[r] = "closing"
  /\ \/ Confirmed(tx[r]) /\ Goto(r, "closed")
     \/ Errored(tx[r]) /\ Goto(r, "closeErr")
  /\ LetGo(tx[r]) /\ tx' = [tx EXCEPT ![r] = None]
  /\ UNCHANGED <<db, row_lock, proof, gone, seen, todo, keys, ledger>>

SidecarCloseStatus(r) ==
  /\ pc[r] = "closed"
  /\ \/ /\ Goto(r, "closeOk")
        /\ seen' = [seen EXCEPT ![r] = [NoAnswer EXCEPT !.status = status]]
     \/ "fetch" \in Faults /\ Goto(r, "closeErr") /\ UNCHANGED seen
  /\ UNCHANGED <<db, row_lock, proof, gone, calls, ledger>>

(* Where the handler goes on after lazy_close. *)
AfterClose(r) == IF r \in Refunders THEN "lock" ELSE "idle"

(* Faults: a status is missing from the table of the statuses. *)
FaultOnchainStatusRefunding(name) ==
  IF name \in {"Funding", "Executing", "Closed"} THEN name ELSE db_status
FaultOnchainStatusClosed(name) ==
  IF name \in {"Funding", "Executing", "Refunding"} THEN name ELSE db_status

(* ONCHAIN_STATUS.get(name, campaign.status) *)
OnchainStatus(name) ==
  IF name \in {"Funding", "Executing", "Refunding", "Closed"} THEN name ELSE db_status

CommitClose(r) ==
  /\ pc[r] = "closeOk" /\ r \notin gone
  /\ row_lock = None
  /\ db_status' = OnchainStatus(seen[r].status)
  /\ Goto(r, AfterClose(r))
  /\ seen' = [seen EXCEPT ![r] = NoAnswer]
  /\ UNCHANGED <<db_raised, db_released, db_refunded, db_refunded_count,
                 held_rows, marked_rows, release_tx, row_lock, proof, gone, calls, ledger>>

(* Fault: the handler reads the chain's status itself when the close failed. *)
FaultStatusOnCloseError == IF row_lock = None THEN status ELSE db_status

(* Fault: the status computed for display (overdue_status) is stored.      *)
FaultStatusOnCloseErrorGuessed ==
  IF row_lock # None THEN db_status
  ELSE CASE db_raised >= goal_amount -> "Executing"
         [] db_raised < goal_amount /\ db_raised > 0 -> "Refunding"
         [] OTHER -> "Closed"

(* A failed close leaves the row as it is. *)
StatusOnCloseError == db_status

CloseFails(r) ==
  /\ pc[r] = "closeErr" /\ r \notin gone
  /\ Goto(r, AfterClose(r))
  /\ db_status' = StatusOnCloseError
  /\ UNCHANGED <<db_raised, db_released, db_refunded, db_refunded_count,
                 held_rows, marked_rows, release_tx, row_lock, proof, gone, seen, calls,
                 ledger>>

-----------------------------------------------------------------------------
(* Release: settlement.release, under the row lock from the check to the   *)
(* commit; onceByKey in the sidecar.                                       *)

AvailableBalance == db_raised - db_released - db_refunded

(* Fault: ALREADY_RELEASED is not checked, the idempotency key has to do. *)
FaultReleasable(p) == db_status = "Executing" /\ Cost[p] <= AvailableBalance

Releasable(p) ==
  /\ p \notin release_tx
  /\ db_status = "Executing"
  /\ Cost[p] <= AvailableBalance

(* Fault: the campaign is refreshed without FOR UPDATE. *)
FaultLockRow(r) == row_lock = None /\ UNCHANGED row_lock

LockRow(r) == row_lock = None /\ row_lock' = r

StartRelease(r, p) ==
  /\ r \in Releasers /\ pc[r] = "idle"
  /\ LockRow(r)
  /\ Releasable(p)
  /\ proof' = [proof EXCEPT ![r] = p] /\ Goto(r, "release")
  /\ UNCHANGED <<db, gone, seen, calls, ledger>>

(* Fault: only finished releases are looked up, not the ones in flight. *)
FaultInflight(p) == FALSE

Inflight(p) == job[p] # None

(* onceByKey: the cached signature, the task in flight, or a new task.     *)
SidecarRelease(r) ==
  /\ pc[r] = "release"
  /\ LET p == proof[r] IN
     \/ /\ p \in cache
        /\ Goto(r, "released") /\ UNCHANGED <<job, net>>
     \/ /\ p \notin cache /\ Inflight(p)
        /\ Goto(r, "join") /\ UNCHANGED <<job, net>>
     \/ /\ p \notin cache /\ ~Inflight(p)
        /\ \E i \in TxIds : Submit(i, "release", p, {}) /\ job' = [job EXCEPT ![p] = i]
        /\ Goto(r, "join")
  /\ UNCHANGED <<db, row_lock, proof, gone, seen, tx, todo, cache, misled, ledger>>

(* Everybody who awaits the task of p goes on at once. *)
Joined(p, where) ==
  pc' = [r \in Slots |-> IF pc[r] = "join" /\ proof[r] = p THEN where ELSE pc[r]]

(* Fault: the signature is kept with the caller's reply, not by the task. *)
FaultRemember(p) ==
  cache' = IF \E r \in Slots \ gone : pc[r] = "join" /\ proof[r] = p
           THEN cache \cup {p} ELSE cache

Remember(p) == cache' = cache \cup {p}

SidecarReleaseDone(p) ==
  /\ job[p] # None
  /\ \/ /\ Confirmed(job[p])
        /\ Remember(p) /\ Joined(p, "released") /\ UNCHANGED misled
     \/ /\ Errored(job[p])
        /\ misled' = IF net[job[p]].state = "failed" THEN misled ELSE misled \cup {p}
        /\ UNCHANGED cache /\ Joined(p, "releaseErr")
  /\ LetGo(job[p]) /\ job' = [job EXCEPT ![p] = None]
  /\ UNCHANGED <<db, row_lock, proof, gone, seen, tx, todo, ledger>>

SidecarReleaseStatus(r) ==
  /\ pc[r] = "released"
  /\ \/ /\ Goto(r, "releaseOk")
        /\ seen' = [seen EXCEPT ![r] = [NoAnswer EXCEPT !.status = status]]
     \/ "fetch" \in Faults /\ Goto(r, "releaseErr") /\ UNCHANGED seen
  /\ UNCHANGED <<db, row_lock, proof, gone, calls, ledger>>

(* Fault: nothing is recorded any more once the campaign is closed. *)
FaultPaidNow(r) == IF seen[r].status = "Closed" THEN {} ELSE {proof[r]}

PaidNow(r) == {proof[r]}

CommitRelease(r) ==
  /\ pc[r] = "releaseOk" /\ r \notin gone
  /\ release_tx' = release_tx \cup PaidNow(r)
  /\ db_released' = db_released + Cost[proof[r]]
  /\ db_status' = OnchainStatus(seen[r].status)
  /\ row_lock' = None
  /\ proof' = [proof EXCEPT ![r] = None] /\ seen' = [seen EXCEPT ![r] = NoAnswer]
  /\ Goto(r, "idle")
  /\ UNCHANGED <<db_raised, db_refunded, db_refunded_count, held_rows, marked_rows,
                 gone, calls, ledger>>

(* chain.post raised: 502, and the session's rollback frees the row. *)
ReleaseFails(r) ==
  /\ pc[r] = "releaseErr" /\ r \notin gone
  /\ row_lock' = None
  /\ proof' = [proof EXCEPT ![r] = None] /\ Goto(r, "idle")
  /\ UNCHANGED <<db, gone, seen, calls, ledger>>

-----------------------------------------------------------------------------
(* Refund: lazy_close first (StartClose above), then under the row lock.   *)

StartRefund(r) ==
  /\ r \in Refunders /\ pc[r] = "idle" /\ ~Overdue
  /\ Goto(r, "lock")
  /\ UNCHANGED <<db, row_lock, proof, gone, seen, calls, ledger>>

LockRefund(r) ==
  /\ pc[r] = "lock" /\ row_lock = None
  /\ IF db_status = "Refunding"
     THEN LockRow(r) /\ Goto(r, "refund")
     ELSE UNCHANGED row_lock /\ Goto(r, "idle")
  /\ UNCHANGED <<db, proof, gone, seen, calls, ledger>>

(* Fault: the flag is tested the wrong way round. *)
FaultPending == refunded

Pending == Refundable

(* refundBatch reads the contributions once, before the first batch. *)
ListPending(r) ==
  /\ pc[r] = "refund"
  /\ \/ todo' = [todo EXCEPT ![r] = Pending] /\ Goto(r, "batch")
     \/ "fetch" \in Faults /\ Goto(r, "refundErr") /\ UNCHANGED todo
  /\ UNCHANGED <<db, row_lock, proof, gone, seen, tx, keys, net, ledger>>

Batches(S) == {B \in SUBSET S : Cardinality(B) = IF Cardinality(S) < BatchSize
                                                 THEN Cardinality(S) ELSE BatchSize}

SendBatch(r) ==
  /\ pc[r] = "batch" /\ todo[r] # {}
  /\ \E i \in TxIds, B \in Batches(todo[r]) :
       Submit(i, "refund", None, B) /\ tx' = [tx EXCEPT ![r] = i]
  /\ Goto(r, "sent")
  /\ UNCHANGED <<db, row_lock, proof, gone, seen, todo, keys, ledger>>

(* The first batch that errors ends the loop. *)
BatchDone(r) ==
  /\ pc[r] = "sent"
  /\ \/ /\ Confirmed(tx[r]) /\ Goto(r, "batch")
        /\ todo' = [todo EXCEPT ![r] = @ \ net[tx[r]].refunds]
     \/ Errored(tx[r]) /\ Goto(r, "tally") /\ UNCHANGED todo
  /\ LetGo(tx[r]) /\ tx' = [tx EXCEPT ![r] = None]
  /\ UNCHANGED <<db, row_lock, proof, gone, seen, keys, ledger>>

(* Fault: pendingCount counts the contributions that were not tried. *)
FaultNonePending(r) == TRUE

(* pendingCount = 0 *)
NonePending(r) == todo[r] = {}

Tally(r) ==
  /\ pc[r] = "tally" \/ (pc[r] = "batch" /\ todo[r] = {})
  /\ \/ /\ Goto(r, "refundOk")
        /\ seen' = [seen EXCEPT ![r] = [status |-> status, amount |-> refunded_amount,
                                        count |-> refunded_count, clear |-> NonePending(r)]]
     \/ "fetch" \in Faults /\ Goto(r, "refundErr") /\ UNCHANGED seen
  /\ todo' = [todo EXCEPT ![r] = {}]
  /\ UNCHANGED <<db, row_lock, proof, gone, tx, keys, net, ledger>>

CommitRefund(r) ==
  /\ pc[r] = "refundOk" /\ r \notin gone
  /\ db_refunded' = seen[r].amount /\ db_refunded_count' = seen[r].count
  /\ db_status' = OnchainStatus(seen[r].status)
  /\ IF seen[r].clear
     THEN marked_rows' = marked_rows + held_rows /\ held_rows' = 0
     ELSE UNCHANGED <<marked_rows, held_rows>>
  /\ row_lock' = None
  /\ seen' = [seen EXCEPT ![r] = NoAnswer] /\ Goto(r, "idle")
  /\ UNCHANGED <<db_raised, db_released, release_tx, proof, gone, calls, ledger>>

RefundFails(r) ==
  /\ pc[r] = "refundErr" /\ r \notin gone
  /\ row_lock' = None /\ Goto(r, "idle")
  /\ UNCHANGED <<db, proof, gone, seen, calls, ledger>>

-----------------------------------------------------------------------------
(* Handlers that give up, and the sidecar's restart. *)

Waiting == {"close", "closing", "closed", "closeOk", "release", "join", "released",
            "releaseOk", "refund", "batch", "sent", "tally", "refundOk"}

Answered == {"closeOk", "closeErr", "releaseOk", "releaseErr", "refundOk", "refundErr"}

(* httpx timeout, a dropped connection, or the API process dying before its *)
(* commit.  The row lock goes with the database session.                   *)
GiveUp(r) ==
  /\ "timeout" \in Faults
  /\ pc[r] \in Waiting /\ r \notin gone
  /\ gone' = gone \cup {r}
  /\ row_lock' = IF row_lock = r THEN None ELSE row_lock
  /\ UNCHANGED <<db, pc, proof, seen, calls, ledger>>

(* The sidecar call nobody waits for any more ends. *)
Discard(r) ==
  /\ r \in gone /\ pc[r] \in Answered
  /\ gone' = gone \ {r}
  /\ proof' = [proof EXCEPT ![r] = None] /\ seen' = [seen EXCEPT ![r] = NoAnswer]
  /\ Goto(r, "idle")
  /\ UNCHANGED <<db, row_lock, calls, ledger>>

(* Calls in progress break off; both maps are gone. *)
Restart ==
  /\ "restart" \in Faults
  /\ misled' = misled \cup cache \cup {p \in Proofs : job[p] # None}
  /\ cache' = {} /\ job' = [p \in Proofs |-> None]
  /\ tx' = [r \in Slots |-> None] /\ todo' = [r \in Slots |-> {}]
  /\ net' = [i \in TxIds |-> IF net[i].state = "flying" THEN net[i] ELSE FreeTx]
  /\ pc' = [r \in Slots |->
              CASE pc[r] \in {"close", "closing", "closed"} -> "closeErr"
                [] pc[r] \in {"release", "join", "released"} -> "releaseErr"
                [] pc[r] \in {"refund", "batch", "sent", "tally"} -> "refundErr"
                [] OTHER -> pc[r]]
  /\ UNCHANGED <<db, row_lock, proof, gone, seen, ledger>>

-----------------------------------------------------------------------------
(* Payments. *)

(* Fans contribute, and anybody sends USDC to the escrow's token account,  *)
(* in the same transactions or in others.                                  *)
MoneyArrives ==
  /\ \/ \E w \in Wallets, a \in 1 .. MaxU64, b \in 0 .. MaxU64 : Contribute(w, a, b)
     \/ \E b \in 1 .. MaxU64 : Deposit(b)
  /\ UNCHANGED <<db, row_lock, pc, proof, gone, seen, calls, paid>>

(* _confirm records a payment found on chain, whatever the campaign's      *)
(* status: a row for the wallet that scanned last, which need not be the   *)
(* one that paid, and an amount the token account received, which the      *)
(* escrow program need not have counted (RecordedIsPaid in Funding).       *)
ConfirmPayment(a) ==
  /\ row_lock = None
  /\ a > 0 /\ db_raised + a <= Received
  /\ held_rows' = held_rows + 1
  /\ db_raised' = db_raised + a
  /\ UNCHANGED <<db_status, db_released, db_refunded, db_refunded_count, marked_rows,
                 release_tx, row_lock, pc, proof, gone, seen, calls, ledger>>

Clock == Tick /\ UNCHANGED <<db, row_lock, pc, proof, gone, seen, calls, paid>>

ApiStep(r) ==
  \/ StartClose(r) \/ CommitClose(r) \/ CloseFails(r)
  \/ CommitRelease(r) \/ ReleaseFails(r)
  \/ StartRefund(r) \/ LockRefund(r) \/ CommitRefund(r) \/ RefundFails(r)

SidecarStep(r) ==
  \/ SidecarClose(r) \/ SidecarCloseDone(r) \/ SidecarCloseStatus(r)
  \/ SidecarRelease(r) \/ SidecarReleaseStatus(r)
  \/ ListPending(r) \/ SendBatch(r) \/ BatchDone(r) \/ Tally(r)
  \/ Discard(r)

SettlementNext ==
  \/ \E r \in Slots : ApiStep(r) \/ SidecarStep(r) \/ GiveUp(r)
  \/ \E r \in Releasers, p \in Proofs : StartRelease(r, p)
  \/ \E p \in Proofs : SidecarReleaseDone(p)
  \/ Restart
  \/ \E i \in TxIds : TxLands(i) \/ TxFails(i)
  \/ MoneyArrives
  \/ \E a \in 1 .. MaxU64 : ConfirmPayment(a)
  \/ Clock

SettlementSpec == SettlementInit /\ [][SettlementNext]_everything

(* The sidecar's event loop and the network make progress; the clock runs;  *)
(* a handler whose turn keeps coming is scheduled, and clients keep opening *)
(* the campaign page and keep asking for releases and refunds.             *)
SettlementFairness ==
  /\ \A r \in Slots : WF_everything(SidecarStep(r)) /\ SF_everything(ApiStep(r))
  /\ \A p \in Proofs : WF_everything(SidecarReleaseDone(p))
  /\ \A i \in TxIds : WF_everything(TxLands(i)) /\ WF_everything(TxFails(i))
  /\ \A r \in Releasers, p \in Proofs : SF_everything(StartRelease(r, p))
  /\ WF_everything(Clock)

FairSettlementSpec == SettlementSpec /\ SettlementFairness

-----------------------------------------------------------------------------
(* Properties. *)

Answers == [status : Statuses, amount : 0 .. MaxU64, count : 0 .. MaxU32, clear : BOOLEAN]

Transactions == [state : {"free", "flying", "landed", "failed"},
                 op : {"none", "close", "release", "refund"},
                 pays : Proofs \cup {None}, refunds : SUBSET Wallets]

(* Rows, slots, maps and transactions have the shapes the code gives them,  *)
(* and the row lock is held exactly by the handler between its check and    *)
(* its commit.                                                             *)
SettlementTypeOK ==
  /\ TypeOK
  /\ db_status \in Statuses \ {"None"}
  /\ db_raised \in Nat /\ db_released \in Nat
  /\ db_refunded \in Nat /\ db_refunded_count \in Nat
  /\ held_rows \in Nat /\ marked_rows \in Nat
  /\ release_tx \in SUBSET Proofs /\ cache \in SUBSET Proofs /\ misled \in SUBSET Proofs
  /\ pc \in [Slots -> Waiting \cup Answered \cup {"idle", "lock"}]
  /\ proof \in [Slots -> Proofs \cup {None}] /\ gone \in SUBSET Slots
  /\ seen \in [Slots -> Answers]
  /\ tx \in [Slots -> TxIds \cup {None}] /\ todo \in [Slots -> SUBSET Wallets]
  /\ job \in [Proofs -> TxIds \cup {None}]
  /\ net \in [TxIds -> Transactions]
  /\ paid \in [Proofs -> Nat]
  /\ \A r \in Slots :
       row_lock = r <=>
         /\ r \notin gone
         /\ pc[r] \in {"release", "join", "released", "releaseOk", "releaseErr", "refund",
                       "batch", "sent", "tally", "refundOk", "refundErr"}

(* b is where a campaign in status a is, or can still get to. *)
Follows(a, b) ==
  \/ a = b
  \/ a = "Funding" /\ b \in {"Executing", "Refunding", "Closed"}
  \/ a \in {"Executing", "Refunding"} /\ b = "Closed"

(* The database never claims more of a settlement than the chain did,      *)
(* whatever is lost, restarted or given up: no money spent or handed back  *)
(* that was not, no proof settled that was not paid, no status the campaign *)
(* has not reached.  (It may lag: the pages then show an older state.)     *)
DbNeverAhead ==
  /\ db_released <= released_amount
  /\ db_refunded <= refunded_amount /\ db_refunded_count <= refunded_count
  /\ \A p \in release_tx : paid[p] > 0
  /\ Follows(db_status, status)

(* The campaign row never goes back: answers of the sidecar are written in *)
(* an order in which no later one is overwritten by an earlier one, though *)
(* lazy_close writes without having locked or re-read the row.             *)
DbForward ==
  [][/\ Follows(db_status, db_status')
     /\ db_released <= db_released' /\ release_tx \subseteq release_tx'
     /\ db_refunded <= db_refunded' /\ db_refunded_count <= db_refunded_count'
     /\ marked_rows <= marked_rows']_everything

(* A proof is paid at most once, however often releases are asked for.     *)
PaidAtMostOnce == \A p \in Proofs : paid[p] <= 1

(* A proof is paid at most once as long as the sidecar has not lost track  *)
(* of its release, by a restart or by an error reported for a transaction  *)
(* that landed or still may: however often handlers give up and ask again  *)
(* while the first transaction is on its way, expires or cannot be read.   *)
NotPaidTwice == \A p \in Proofs \ misled : paid[p] <= 1

(* Under the same condition, a payment the database does not know of is    *)
(* still known to the sidecar, as a remembered signature or a task about   *)
(* to remember it, so that asking again records it instead of paying again. *)
PaidIsRemembered ==
  \A p \in Proofs \ misled :
    paid[p] > 0 /\ p \notin release_tx =>
      p \in cache \/ (job[p] # None /\ net[job[p]].state = "landed")

(* Contribution rows are marked refunded only when every contribution to   *)
(* the campaign has been refunded on chain, whoever the rows name, though  *)
(* overlapping handlers refund batches that each of them listed on its own. *)
RefundMarksSound == marked_rows > 0 => Contributors \ refunded = {}

(* A campaign past its deadline does not stay in FUNDING: the next readers *)
(* close it.                                                               *)
OverdueCloses == (db_status = "Funding" /\ deadline <= now) ~> db_status # "Funding"

(* Once the database knows the campaign is refunding, repeated calls of    *)
(* POST /refund bring every fan's money back, even if every handler gives  *)
(* up on the sidecar and calls overlap.                                    *)
RefundsReachFans == db_status = "Refunding" ~> wallet_usdc = Purse

(* ... and, if handlers get their answers, the row to CLOSED, and mark the *)
(* Contribution rows of every payment recorded by then.  (The commit that  *)
(* writes CLOSED is the last chance to mark them: refund is refused after.) *)
RefundsAreRecorded ==
  /\ db_status = "Refunding" ~> db_status = "Closed"
  /\ (db_status = "Refunding" /\ db_raised = raised_amount) ~> held_rows = 0

(* A release that was paid is recorded, if the release keeps being asked for. *)
PaidGetsRecorded == \A p \in Proofs : paid[p] > 0 ~> p \in release_tx
=============================================================================
