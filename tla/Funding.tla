------------------------------ MODULE Funding ------------------------------
(***************************************************************************)
(* The funding phase of one campaign: opening it, its reward tiers and     *)
(* terms, and the path of a payment from the QR code to the Contribution   *)
(* row.  A payment request is identified by its reference, a fresh public  *)
(* key that the contribute transaction carries; the sidecar finds the      *)
(* transaction on chain by it, and a payment is recorded when a handler    *)
(* that asked the sidecar claims the request (compare-and-set on status).  *)
(*                                                                         *)
(* A tick of the clock is a second.  The chain keeps deadlines in whole    *)
(* seconds, the campaign row keeps the fraction too: it stands here        *)
(* rounded up.                                                             *)
(*                                                                         *)
(* Handlers are slots, as in Settlement: task[h] is what a handler read    *)
(* before the await it is in.  Each commit is one action; _confirm is two, *)
(* because other transactions run between its queries.                     *)
(***************************************************************************)
EXTENDS Escrow, Sequences, FiniteSetsExt

CONSTANTS
  Agent,
  Goals, Deadlines,    \* of POST /campaign
  Tiers, Price, Limit, \* reward tiers; Limit[t] = None: unlimited
  Amounts,             \* amounts of requests without a tier
  Refs,                \* references
  Payers,              \* slots for POST /solana-pay/tx
  Checkers,            \* slots for GET /solana-pay/{ref}/status and POST /contribute
  Editors,             \* slots for POST /campaign/{id}
  TxIds,               \* signatures; bounds the transactions ever built
  ScanLimit,           \* limit of getSignaturesForAddress
  None,
  GivingUp             \* TRUE: handlers may time out or die before their commit

Slots == Payers \cup Checkers \cup Editors

ASSUME FundingAssumption ==
  /\ Agent \in Keys /\ GivingUp \in BOOLEAN
  /\ Goals \subseteq 1 .. MaxU64 /\ Deadlines \subseteq 1 .. MaxTime
  /\ Amounts \subseteq 1 .. MaxU64
  /\ Price \in [Tiers -> 1 .. MaxU64] /\ Limit \in [Tiers -> {None} \cup (Nat \ {0})]
  /\ IsFiniteSet(Refs) /\ ScanLimit \in Nat \ {0}
  /\ None \notin Slots \cup Tiers \cup Refs \cup TxIds \cup Wallets \cup Nat

VARIABLES
  opening,         \* POST /campaign: progress, goal, deadline sent (until) and kept (row)
  db_status, db_goal, db_deadline, db_raised, db_count,
                   \* the campaign row ("None": no row)
  sold,            \* sold_count of the tiers that exist
  request,         \* PaymentRequest rows
  row,             \* wallet_address of the Contribution row of a reference
  pc, task,        \* per slot
  tx,              \* transactions handed to wallets or made by others
  history          \* signatures the RPC node lists, oldest first

campaign == <<db_status, db_goal, db_deadline, db_raised, db_count>>
payments == <<request, row, sold>>
handlers == <<pc, task>>
network  == <<tx, history>>
funding  == <<opening, campaign, payments, handlers, network, vars>>

NoRequest == [status |-> "none", amount |-> 0, tier |-> None, wallet |-> None, sig |-> None]
NoTask == [ref |-> None, wallet |-> None, was |-> None, sig |-> None, first |-> FALSE, until |-> 0]

(* amount is contributed by `from`, plain is transferred beside it; refs are *)
(* the references carried; calls: an instruction is the escrow program's.  *)
NoTx == [state |-> "free", refs |-> {}, from |-> None, amount |-> 0, plain |-> 0,
         calls |-> FALSE]

FundingInit ==
  /\ Init
  /\ opening = [at |-> "idle", goal |-> 0, until |-> 0, row |-> 0, tx |-> "none"]
  /\ db_status = "None" /\ db_goal = 0 /\ db_deadline = 0 /\ db_raised = 0 /\ db_count = 0
  /\ sold = <<>>
  /\ request = [q \in Refs |-> NoRequest] /\ row = [q \in Refs |-> None]
  /\ pc = [h \in Slots |-> "idle"] /\ task = [h \in Slots |-> NoTask]
  /\ tx = [i \in TxIds |-> NoTx] /\ history = <<>>

-----------------------------------------------------------------------------
(* POST /campaign: the account is created on chain first, then the row.    *)

(* The deadline of the request is checked and kept as it is; the chain is  *)
(* sent its whole seconds.                                                 *)
StartCreate(goal, until, deadline_kept) ==
  /\ opening.at = "idle"
  /\ deadline_kept \in {until, until + 1} /\ deadline_kept > now
  /\ opening' = [at |-> "posted", goal |-> goal, until |-> until, row |-> deadline_kept,
                 tx |-> "flying"]
  /\ UNCHANGED <<campaign, payments, handlers, network, vars>>

CreateLands ==
  /\ opening.tx = "flying"
  /\ CreateCampaign(Agent, opening.goal, opening.until)
  /\ opening' = [opening EXCEPT !.tx = "landed"]
  /\ UNCHANGED <<campaign, payments, handlers, network>>

CreateDies ==
  /\ opening.tx = "flying"
  /\ opening' = [opening EXCEPT !.tx = "dead"]
  /\ UNCHANGED <<campaign, payments, handlers, network, vars>>

(* Fault: an error of the transaction is taken for "exists already". *)
FaultAccountExists == TRUE

AccountExists == status # "None"

(* .rpc() returns when the transaction is confirmed; when it throws, which  *)
(* it may do for a transaction that landed or still will, the sidecar looks *)
(* for the account before it passes the error on.                          *)
CreateReply ==
  /\ opening.at = "posted"
  /\ \/ /\ opening.tx = "landed"
        /\ opening' = [opening EXCEPT !.at = "made"]
     \/ opening' = [opening EXCEPT !.at = IF AccountExists THEN "made" ELSE "failed"]
  /\ UNCHANGED <<campaign, payments, handlers, network, vars>>

CommitCreate ==
  /\ opening.at = "made"
  /\ opening' = [opening EXCEPT !.at = "done"]
  /\ db_status' = "Funding" /\ db_goal' = opening.goal /\ db_deadline' = opening.row
  /\ UNCHANGED <<db_raised, db_count, payments, handlers, network, vars>>

CreateGivesUp ==
  /\ GivingUp /\ opening.at \in {"posted", "made"}
  /\ opening' = [opening EXCEPT !.at = "failed"]
  /\ UNCHANGED <<campaign, payments, handlers, network, vars>>

-----------------------------------------------------------------------------
(* Tiers and terms. *)

(* _open_campaign *)
OpenCampaign == db_status = "Funding" /\ db_deadline > now

CreateTier(t) ==
  /\ db_status = "Funding" /\ t \notin DOMAIN sold
  /\ sold' = [u \in DOMAIN sold \cup {t} |-> IF u = t THEN 0 ELSE sold[u]]
  /\ UNCHANGED <<opening, campaign, request, row, handlers, network, vars>>

Goto(h, where) == pc' = [pc EXCEPT ![h] = where]

(* update_campaign checks the row it read (the deadline it already has is  *)
(* accepted too, and writes nothing) ...                                   *)
StartUpdate(e, until) ==
  /\ pc[e] = "idle"
  /\ db_status = "Funding" /\ db_raised = 0
  /\ until > now /\ until < db_deadline
  /\ task' = [task EXCEPT ![e].until = until] /\ Goto(e, "update")
  /\ UNCHANGED <<opening, campaign, payments, network, vars>>

(* ... and writes to the row as it is by then. *)
CommitUpdate(e) ==
  /\ pc[e] = "update"
  /\ db_deadline' = task[e].until
  /\ task' = [task EXCEPT ![e] = NoTask] /\ Goto(e, "idle")
  /\ UNCHANGED <<opening, db_status, db_goal, db_raised, db_count, payments, network, vars>>

(* Outside this module (Settlement has the details): the sidecar closes the *)
(* campaign, and the handler that asked for it writes the status it saw.   *)
Closing ==
  /\ db_status # "None"
  /\ CloseCampaign(Agent)
  /\ UNCHANGED <<opening, campaign, payments, handlers, network>>

RowCloses ==
  /\ db_status = "Funding" /\ status # "Funding"
  /\ db_status' = status
  /\ UNCHANGED <<opening, db_goal, db_deadline, db_raised, db_count, payments, handlers,
                 network, vars>>

(* Fault: a campaign that missed its goal is always shown as refunding. *)
FaultOverdueStatus ==
  IF db_status # "Funding" \/ db_deadline > now THEN db_status
  ELSE IF db_raised >= db_goal THEN "Executing" ELSE "Refunding"

(* The status the pages show: that of the row, or what its totals call for. *)
overdue_status ==
  CASE db_status # "Funding" \/ db_deadline > now -> db_status
    [] OTHER -> CASE db_raised >= db_goal                  -> "Executing"
                  [] db_raised < db_goal /\ db_count > 0 -> "Refunding"
                  [] OTHER                               -> "Closed"

-----------------------------------------------------------------------------
(* Payment requests and the transactions built for them. *)

SoldOut(t) == Limit[t] # None /\ sold[t] >= Limit[t]

(* create_payment_request checks the campaign and the tier, has the sidecar *)
(* make a reference ...                                                    *)
StartPaymentRequest(q, t, a) ==
  /\ request[q].status = "none"
  /\ OpenCampaign
  /\ \/ t = None /\ a \in Amounts
     \/ t \in DOMAIN sold /\ ~SoldOut(t) /\ a = Price[t]
  /\ request' = [request EXCEPT ![q] = [NoRequest EXCEPT !.status = "posted",
                                                       !.tier = t, !.amount = a]]
  /\ UNCHANGED <<opening, campaign, row, sold, handlers, network, vars>>

(* ... and inserts the row, unless the call or the handler fails.  Nobody  *)
(* knows the reference before.                                             *)
InsertPaymentRequest(q) ==
  /\ request[q].status = "posted"
  /\ \/ request' = [request EXCEPT ![q].status = "pending"]
     \/ GivingUp /\ request' = [request EXCEPT ![q] = NoRequest]
  /\ UNCHANGED <<opening, campaign, row, sold, handlers, network, vars>>

Shown(q) == request[q].status \in {"pending", "confirmed"}

(* solana_pay_transaction: a wallet scanned the QR code. *)
StartPayTx(h, q, w) ==
  /\ pc[h] = "idle"
  /\ request[q].status = "pending"
  /\ OpenCampaign
  /\ task' = [task EXCEPT ![h] = [NoTask EXCEPT !.ref = q, !.wallet = w,
                                               !.was = request[q].wallet]]
  /\ Goto(h, "build")
  /\ UNCHANGED <<opening, campaign, payments, network, vars>>

(* The row of request q is locked by a _confirm in progress. *)
Claimed(q) == \E h \in Checkers : pc[h] = "claimed" /\ task[h].ref = q

(* The sidecar has built the transaction and signed it for the fees; the   *)
(* handler stores the account, if it changed since it read the row, and    *)
(* hands the transaction to the wallet.                                    *)
FinishPayTx(h) ==
  /\ pc[h] = "build"
  /\ LET t == task[h] IN
     /\ IF t.wallet = t.was THEN UNCHANGED request
        ELSE ~Claimed(t.ref) /\ request' = [request EXCEPT ![t.ref].wallet = t.wallet]
     /\ \E i \in TxIds :
          /\ tx[i].state = "free"
          /\ tx' = [tx EXCEPT ![i] = [state |-> "built", refs |-> {t.ref}, from |-> t.wallet,
                                       amount |-> request[t.ref].amount, plain |-> 0,
                                       calls |-> TRUE]]
  /\ task' = [task EXCEPT ![h] = NoTask] /\ Goto(h, "idle")
  /\ UNCHANGED <<opening, campaign, row, sold, history, vars>>

(* The wallet signs and sends it; the agent's signature holds it to what   *)
(* the sidecar built ...                                                   *)
PaymentLands(i) ==
  /\ tx[i].state = "built"
  /\ Contribute(tx[i].from, tx[i].amount, 0)
  /\ tx' = [tx EXCEPT ![i].state = "landed"] /\ history' = Append(history, i)
  /\ UNCHANGED <<opening, campaign, payments, handlers>>

(* ... or it fails on chain and is listed with an error. *)
PaymentFails(i) ==
  /\ tx[i].state = "built"
  /\ ~(Accepting /\ tx[i].amount <= wallet_usdc[tx[i].from])
  /\ tx' = [tx EXCEPT ![i].state = "failed"] /\ history' = Append(history, i)
  /\ UNCHANGED <<opening, campaign, payments, handlers, vars>>

(* A transaction the sidecar did not build.  It may carry any references   *)
(* that have been shown, contribute a (Contribute asks for no particular   *)
(* agent_authority), transfer b beside it, do either without the other, or *)
(* call the program about another campaign; one contribution at most.      *)
OtherTransaction(i, Q, w, a, b, calls) ==
  /\ tx[i].state = "free" /\ \A q \in Q : Shown(q)
  /\ \/ calls /\ Contribute(w, a, b)
     \/ a = 0 /\ Deposit(b)
     \/ a = 0 /\ b = 0 /\ UNCHANGED vars
  /\ tx' = [tx EXCEPT ![i] = [state |-> "landed", refs |-> Q, from |-> None, amount |-> a,
                              plain |-> b, calls |-> calls]]
  /\ history' = Append(history, i)
  /\ UNCHANGED <<opening, campaign, payments, handlers>>

-----------------------------------------------------------------------------
(* Recording a payment: payment_status and contribute. *)

(* Fault: the status endpoint, too, insists on an open campaign. *)
FaultAskable(q) == request[q].status = "pending" /\ request[q].wallet # None /\ OpenCampaign

Askable(q) == request[q].status = "pending" /\ request[q].wallet # None

(* payment_status takes whatever signature is found (sig = None), contribute *)
(* only the one the client sent.                                           *)
Ask(h, q, sig) ==
  /\ pc[h] = "idle" /\ Askable(q)
  /\ task' = [task EXCEPT ![h] = [NoTask EXCEPT !.ref = q, !.wallet = request[q].wallet,
                                               !.sig = sig]]
  /\ Goto(h, "asked")
  /\ UNCHANGED <<opening, campaign, payments, network, vars>>

(* Fault: callsEscrowProgram is not asked. *)
FaultProves(i, q) ==
  tx[i].state = "landed" /\ tx[i].amount + tx[i].plain >= request[q].amount

(* A transaction without error, that calls the escrow program, and after   *)
(* which the escrow's token account holds at least the amount more than    *)
(* before: by what it contributes and by what it transfers together.       *)
Proves(i, q) ==
  /\ tx[i].state = "landed"
  /\ tx[i].calls
  /\ tx[i].amount + tx[i].plain >= request[q].amount

(* Where the newest ScanLimit signatures of a reference stand in history. *)
Mine(q) == {n \in DOMAIN history : q \in tx[history[n]].refs}
Listed(q) == {n \in Mine(q) : Cardinality({m \in Mine(q) : m > n}) < ScanLimit}

(* findReferenceSignature: the newest one that proves the payment. *)
Found(q) ==
  LET proofs == {n \in Listed(q) : Proves(history[n], q)}
  IN  IF proofs = {} THEN None ELSE history[Max(proofs)]

(* Fault: the answer is used without a look at its status. *)
FaultScan(h) ==
  /\ pc[h] = "asked"
  /\ task' = [task EXCEPT ![h].sig = Found(task[h].ref)] /\ Goto(h, "found")
  /\ UNCHANGED <<opening, campaign, payments, network, vars>>

Scan(h) ==
  /\ pc[h] = "asked"
  /\ LET sig == Found(task[h].ref) IN
     IF sig # None /\ task[h].sig \in {None, sig}
     THEN task' = [task EXCEPT ![h].sig = sig] /\ Goto(h, "found")
     ELSE task' = [task EXCEPT ![h] = NoTask] /\ Goto(h, "idle")
  /\ UNCHANGED <<opening, campaign, payments, network, vars>>

(* Fault: the update of the status has no WHERE status = pending. *)
FaultClaimable(q) == TRUE

Claimable(q) == request[q].status = "pending"

Recorded == {q \in Refs : row[q] # None}

FirstOf(w) == ~\E q \in Recorded : row[q] = w

(* tx_signature is unique: a second request with it is an IntegrityError;  *)
(* rows without one do not clash.                                          *)
Unused(sig) == sig = None \/ ~\E q \in Refs : request[q].sig = sig

(* Writing the signature waits for an uncommitted one that is the same.    *)
Writing(sig) == \E h \in Checkers : pc[h] = "claimed" /\ task[h].sig = sig

(* _confirm up to its first read: the row is claimed, invisibly to others  *)
(* until the commit, and earlier contributions of the wallet are looked up. *)
Claim(h) ==
  /\ pc[h] = "found" /\ ~Claimed(task[h].ref) /\ ~Writing(task[h].sig)
  /\ IF Claimable(task[h].ref) /\ Unused(task[h].sig)
     THEN task' = [task EXCEPT ![h].first = FirstOf(task[h].wallet)] /\ Goto(h, "claimed")
     ELSE task' = [task EXCEPT ![h] = NoTask] /\ Goto(h, "idle")
  /\ UNCHANGED <<opening, campaign, payments, network, vars>>

CommitConfirm(h) ==
  /\ pc[h] = "claimed"
  /\ LET t == task[h]
         r == request[t.ref] IN
     /\ request' = [request EXCEPT ![t.ref].status = "confirmed", ![t.ref].sig = t.sig]
     /\ row' = [row EXCEPT ![t.ref] = t.wallet]
     /\ db_raised' = db_raised + r.amount
     /\ db_count' = db_count + IF t.first THEN 1 ELSE 0
     /\ IF r.tier = None THEN UNCHANGED sold ELSE sold' = [sold EXCEPT ![r.tier] = @ + 1]
  /\ task' = [task EXCEPT ![h] = NoTask] /\ Goto(h, "idle")
  /\ UNCHANGED <<opening, db_status, db_goal, db_deadline, network, vars>>

(* A timeout of the sidecar or the death of a handler: what it had not     *)
(* committed is rolled back.                                               *)
GiveUp(h) ==
  /\ GivingUp /\ pc[h] # "idle"
  /\ task' = [task EXCEPT ![h] = NoTask] /\ Goto(h, "idle")
  /\ UNCHANGED <<opening, campaign, payments, network, vars>>

FundingTick == Tick /\ UNCHANGED <<opening, campaign, payments, handlers, network>>

FundingNext ==
  \/ \E goal \in Goals, until \in Deadlines, kept \in 1 .. MaxTime + 1 :
       StartCreate(goal, until, kept)
  \/ CreateLands \/ CreateDies \/ CreateReply \/ CommitCreate \/ CreateGivesUp
  \/ \E t \in Tiers : CreateTier(t)
  \/ \E e \in Editors, until \in 1 .. MaxTime : StartUpdate(e, until)
  \/ \E e \in Editors : CommitUpdate(e)
  \/ Closing \/ RowCloses
  \/ \E q \in Refs, t \in Tiers \cup {None}, a \in 1 .. MaxU64 : StartPaymentRequest(q, t, a)
  \/ \E q \in Refs : InsertPaymentRequest(q)
  \/ \E h \in Payers, q \in Refs, w \in Wallets : StartPayTx(h, q, w)
  \/ \E h \in Payers : FinishPayTx(h)
  \/ \E i \in TxIds : PaymentLands(i) \/ PaymentFails(i)
  \/ \E i \in TxIds, Q \in SUBSET Refs, w \in Wallets, a, b \in 0 .. MaxU64, calls \in BOOLEAN :
       OtherTransaction(i, Q, w, a, b, calls)
  \/ \E h \in Checkers, q \in Refs, sig \in TxIds \cup {None} : Ask(h, q, sig)
  \/ \E h \in Checkers : Scan(h) \/ Claim(h) \/ CommitConfirm(h)
  \/ \E h \in Slots : GiveUp(h)
  \/ FundingTick

FundingSpec == FundingInit /\ [][FundingNext]_funding

(* The sidecar's answer to a poll for reference q. *)
Answer(h, q) == task[h].ref = q /\ task[h].sig = None /\ Scan(h)

(* The page of a payment polls its status until it is confirmed, and not   *)
(* every poll of a payment is cut off; the sidecar's calls end.  The       *)
(* campaign, the wallets and the clock owe nothing.                        *)
Polling ==
  /\ \A h \in Checkers, q \in Refs : SF_funding(Ask(h, q, None)) /\ SF_funding(Answer(h, q))
  /\ \A h \in Checkers : /\ WF_funding(Scan(h))
                          /\ SF_funding(Claim(h)) /\ SF_funding(CommitConfirm(h))

FairFundingSpec == FundingSpec /\ Polling

-----------------------------------------------------------------------------
(* Properties. *)

(* Rows, slots and transactions have the shapes the code gives them, and a *)
(* confirmed request is one with a Contribution row.                       *)
FundingTypeOK ==
  /\ TypeOK
  /\ opening \in [at : {"idle", "posted", "made", "done", "failed"}, goal : Nat, until : Nat,
                  row : Nat, tx : {"none", "flying", "landed", "dead"}]
  /\ db_status \in Statuses /\ db_goal \in Nat /\ db_deadline \in Nat
  /\ db_raised \in Nat /\ db_count \in Nat
  /\ DOMAIN sold \subseteq Tiers /\ \A t \in DOMAIN sold : sold[t] \in Nat
  /\ row \in [Refs -> Wallets \cup {None}]
  /\ \A q \in Refs :
       /\ request[q].status \in {"none", "posted", "pending", "confirmed"}
       /\ request[q].wallet \in Wallets \cup {None} /\ request[q].tier \in Tiers \cup {None}
       /\ request[q].status = "confirmed" <=> row[q] # None
       /\ request[q].status = "confirmed" <=> request[q].sig # None
  /\ pc \in [Slots -> {"idle", "update", "build", "asked", "found", "claimed"}]
  /\ \A i \in TxIds : tx[i].state \in {"free", "built", "landed", "failed"}

(* A campaign page never exists without its escrow, and shows the goal the *)
(* escrow enforces and a deadline that is, edited or not, at most the      *)
(* fraction of a second after the escrow's which the chain does not keep,  *)
(* whatever became of the transaction, the reply and the handler that      *)
(* opened the campaign.                                                    *)
RowIsOnChain ==
  db_status # "None" =>
    /\ status # "None" /\ agent_authority = Agent
    /\ db_goal = goal_amount /\ db_deadline <= deadline + 1

(* What is recorded was paid: each confirmed request has a transaction of  *)
(* its own on chain that calls the escrow program, carries its reference   *)
(* and brought its amount, even if transactions carry several references   *)
(* and handlers confirm them at once; so the pages never show more money   *)
(* than the campaign's token account received.  (What the escrow program   *)
(* counted may be less: a transaction may bring the amount without         *)
(* contributing it.)                                                       *)
RecordedIsPaid ==
  /\ \A q \in Recorded :
       /\ request[q].sig \in TxIds
       /\ LET t == tx[request[q].sig] IN
            /\ t.state = "landed" /\ t.calls /\ q \in t.refs
            /\ t.amount + t.plain >= request[q].amount
  /\ \A p, q \in Recorded : request[p].sig = request[q].sig => p = q
  /\ db_raised <= Received

(* The totals of the campaign and of its tiers agree with the rows they    *)
(* summarise, however many handlers confirm the same or other payments at  *)
(* once, and the contributor count is zero exactly when nobody contributed *)
(* (overdue_status depends on it).                                         *)
TotalsAgree ==
  /\ db_raised = SumOver([q \in Refs |-> request[q].amount], Recorded)
  /\ \A t \in DOMAIN sold : sold[t] = Cardinality({q \in Recorded : request[q].tier = t})
  /\ db_count >= Cardinality({row[q] : q \in Recorded})
  /\ db_count <= Cardinality(Recorded)

(* The transactions that proved payments contributed them, as those the    *)
(* sidecar builds do, and did not merely bring the amount.                 *)
ProofsContribute == \A q \in Recorded : tx[request[q].sig].amount >= request[q].amount

(* What the pages show of an overdue campaign that nobody has closed yet is *)
(* what closing will decide: as long as every payment recorded was         *)
(* contributed, EXECUTING is not shown in error, even if payments are      *)
(* still to be recorded; and whenever what is recorded adds up to what was *)
(* raised, the status shown is the one to come.                            *)
ShownIsWhatCloses ==
  db_status = "Funding" /\ db_deadline <= now =>
    /\ ProofsContribute /\ overdue_status = "Executing" =>
         IF status = "Funding" THEN StatusAtClose = "Executing" ELSE status = "Executing"
    /\ status = "Funding" /\ db_raised = raised_amount => overdue_status = StatusAtClose

(* A payment that the sidecar can find is recorded, also when the campaign *)
(* closes in between and when polls are cut off; unless, before a poll gets *)
(* through, newer transactions that carry the reference push it out of the *)
(* window of signatures looked at, or another request is confirmed with    *)
(* the same transaction.                                                   *)
PaymentGetsRecorded ==
  \A q \in Refs :
    Askable(q) /\ Found(q) # None
      ~> \/ request[q].status = "confirmed"
         \/ Found(q) = None
         \/ \E p \in Refs \ {q} : request[p].sig = Found(q)

(* A tier is not sold beyond its limit. *)
SoldWithinLimit == \A t \in DOMAIN sold : Limit[t] = None \/ sold[t] <= Limit[t]
=============================================================================
