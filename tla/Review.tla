------------------------------- MODULE Review -------------------------------
(***************************************************************************)
(* From a vendor's quote to its payment: vendors and their allowlist,      *)
(* quotes and receipts, the review of a quote (rules, budget, model, fee), *)
(* the release that follows an approval in the same request, releases      *)
(* asked for directly, and the audit of what was released.                 *)
(*                                                                         *)
(* A slot of Reviewers also serves POST /settlement/{id}/release; at[h]    *)
(* says where a handler is and task[h] holds what it read and keeps.  The  *)
(* session does not expire rows on commit, so a vendor read before the     *)
(* model was asked is the one release still sees; and it writes only what  *)
(* differs from what it read, so a verdict that repeats the status read at *)
(* the start does not undo one given meanwhile.  Each commit is one action. *)
(* The money spent on the model is module Rails; the sidecar and the chain *)
(* are reduced to what Settlement shows of them: a key pays a proof once   *)
(* and its reply may be lost.                                              *)
(***************************************************************************)
EXTENDS Rails, Policy

CONSTANTS
  Vendors, Category,  \* vendors, and the category of each
  Organiser,          \* vendors registered with the organiser's own wallet
  Proofs,             \* ids of proofs: quotes and receipts
  Baskets,            \* items a vendor may submit
  Terms, Home, Goal,  \* policy, category and goal of the campaign
  Pledged,            \* raised_amount on chain
  Auditors            \* slots for POST /agent/audit

ASSUME ReviewAssumption ==
  /\ Organiser \subseteq Vendors /\ IsFiniteSet(Proofs)
  /\ Goal \in Nat \ {0} /\ Pledged \in Nat /\ Goal <= Pledged
  /\ None \notin Reviewers \cup Proofs
  /\ Terms.maxPerCategory \in Nat \cup {NoLimit}
  /\ \A c \in DOMAIN Terms.categories : Terms.categories[c].maxTotal \in Nat \cup {NoLimit}

VARIABLES
  registered, allowlisted,         \* vendor rows
  proof,                           \* proof rows, but for
  release_tx,                      \* those whose release_tx is set
  verdict,                         \* last AgentDecision of the orchestrator on a proof
  c_status, c_raised, c_released,  \* the campaign row
  row_lock,                        \* the handler that holds the row FOR UPDATE
  at, task,                        \* per slot of Reviewers
  audit,                           \* per auditor: what it found
  paid,                            \* proofs the escrow paid
  contested                        \* history: proofs two reviews judged at once

vendors  == <<registered, allowlisted>>
proofs   == <<proof, release_tx, verdict>>
campaign == <<c_status, c_raised, c_released, row_lock>>
handlers == <<at, task>>
review   == <<vendors, proofs, campaign, handlers, audit, paid, contested, rails>>

NoProof == [kind |-> "none", vendor |-> None, items |-> <<>>, amount |-> 0, status |-> "none"]
NoTask  == [proof |-> None, listed |-> FALSE, seen |-> "none"]
NoAudit == [at |-> "idle", released |-> {}, block |-> {}, approve |-> {}, listed |-> {}]

ReviewInit ==
  /\ RailsInit
  /\ registered = {} /\ allowlisted = {}
  /\ proof = [p \in Proofs |-> NoProof] /\ release_tx = {}
  /\ verdict = [p \in Proofs |-> "none"]
  /\ c_status = "Funding" /\ c_raised = Goal /\ c_released = 0 /\ row_lock = None
  /\ at = [h \in Reviewers |-> "idle"] /\ task = [h \in Reviewers |-> NoTask]
  /\ audit = [a \in Auditors |-> NoAudit]
  /\ paid = {} /\ contested = {}

-----------------------------------------------------------------------------
(* Vendors and what they submit. *)

(* A wallet is registered once: at most one vendor has the organiser's.    *)
RegisterVendor(v) ==
  /\ v \notin registered
  /\ v \in Organiser => registered \cap Organiser = {}
  /\ registered' = registered \cup {v}
  /\ UNCHANGED <<allowlisted, proofs, campaign, handlers, audit, paid, contested, rails>>

AddToAllowlist(v) ==
  /\ v \in registered \ allowlisted
  /\ allowlisted' = allowlisted \cup {v}
  /\ UNCHANGED <<registered, proofs, campaign, handlers, audit, paid, contested, rails>>

RemoveFromAllowlist(v) ==
  /\ v \in allowlisted
  /\ allowlisted' = allowlisted \ {v}
  /\ UNCHANGED <<registered, proofs, campaign, handlers, audit, paid, contested, rails>>

Insert(p, kind, v, items, amount) ==
  /\ proof[p].kind = "none" /\ Declared(items, amount)
  /\ proof' = [proof EXCEPT ![p] = [kind |-> kind, vendor |-> v, items |-> items,
                                    amount |-> amount, status |-> "pending"]]
  /\ UNCHANGED <<vendors, release_tx, verdict, campaign, handlers, audit, paid, contested, rails>>

SubmitQuote(p, v, items, amount) ==
  /\ v \in allowlisted
  /\ c_status # "Closed" /\ v \notin Organiser
  /\ Insert(p, "quote", v, items, amount)

SubmitReceipt(p, v, items, amount) ==
  /\ v \in allowlisted
  /\ Insert(p, "receipt", v, items, amount)

-----------------------------------------------------------------------------
(* The campaign, as Funding and Settlement move it. *)

FundingSucceeds ==
  /\ c_status = "Funding" /\ row_lock = None
  /\ c_status' = "Executing"
  /\ UNCHANGED <<c_raised, c_released, row_lock, vendors, proofs, handlers, audit, paid, contested, rails>>

(* _confirm records the payment found late; its UPDATE waits for the lock. *)
PaymentRecorded ==
  /\ c_raised < Pledged /\ row_lock = None
  /\ c_raised' = Pledged
  /\ UNCHANGED <<c_status, c_released, row_lock, vendors, proofs, handlers, audit, paid, contested, rails>>

-----------------------------------------------------------------------------
(* What the checks read. *)

Goto(h, where) == at' = [at EXCEPT ![h] = where]

Leave(h) == Goto(h, "idle") /\ task' = [task EXCEPT ![h] = NoTask]

Amounts == [p \in Proofs |-> proof[p].amount]

InCategory(category) ==
  {p \in Proofs : proof[p].kind = "quote" /\ Category[proof[p].vendor] = category}

(* Fault: only proofs that still stand approved count as released. *)
FaultReleasedIn(category) ==
  SumOver(Amounts, {p \in InCategory(category) \cap release_tx : proof[p].status = "approved"})

(* _released_in_category *)
ReleasedIn(category) == SumOver(Amounts, InCategory(category) \cap release_tx)

Broken(p) ==
  LET category == Category[proof[p].vendor]
  IN  Violations(Terms, [category |-> Home, goal |-> Goal, raised |-> c_raised],
                 category, proof[p], ReleasedIn(category))

-----------------------------------------------------------------------------
(* POST /agent/policy/evaluate. *)

Reads(p) == [proof |-> p, listed |-> proof[p].vendor \in allowlisted, seen |-> "none"]

Judging(r) == at[r] \in {"refuse", "review"}

(* Reads the quote and its vendor; a broken rule decides at once, else the *)
(* budget is checked and the model asked.                                  *)
StartReview(r, p) ==
  /\ at[r] = "idle" /\ proof[p].kind = "quote" /\ p \notin release_tx
  /\ task' = [task EXCEPT ![r] = [Reads(p) EXCEPT !.seen = proof[p].status]]
  /\ contested' = IF \E k \in Reviewers : Judging(k) /\ task[k].proof = p
                  THEN contested \cup {p} ELSE contested
  /\ IF Broken(p) # {} THEN Goto(r, "refuse") /\ UNCHANGED rails
     ELSE AskModel(r) /\ Goto(r, "review")
  /\ UNCHANGED <<vendors, proofs, campaign, audit, paid>>

(* The status is written if it is not the one read; the log always grows.  *)
Judge(r, decision) ==
  LET p == task[r].proof
      status == IF decision = "approve" THEN "approved" ELSE "rejected"
  IN  /\ proof' = IF status = task[r].seen THEN proof ELSE [proof EXCEPT ![p].status = status]
      /\ verdict' = [verdict EXCEPT ![p] = decision]

RefuseByRule(r) ==
  /\ at[r] = "refuse"
  /\ Judge(r, "reject") /\ Leave(r)
  /\ UNCHANGED <<vendors, release_tx, campaign, audit, paid, contested, rails>>

(* The model answered and the fee was paid or not: the row of the fee, the *)
(* status and the decision commit together.                                *)
CommitReview(r, decision) ==
  /\ at[r] = "review" /\ CommitPayment(r)
  /\ Judge(r, decision)
  /\ IF decision = "approve"
     THEN Goto(r, "release") /\ task' = [task EXCEPT ![r].seen = "none"]
     ELSE Leave(r)
  /\ UNCHANGED <<vendors, release_tx, campaign, audit, paid, contested>>

(* Steps of Rails; a review whose payment broke off is over. *)
PaymentStep ==
  /\ RailStep
  /\ at' = [h \in Reviewers |->
       IF at[h] = "review" /\ rail'[h].at = "idle" THEN "idle" ELSE at[h]]
  /\ task' = [h \in Reviewers |-> IF at'[h] = "idle" THEN NoTask ELSE task[h]]
  /\ UNCHANGED <<vendors, proofs, campaign, audit, paid, contested>>

-----------------------------------------------------------------------------
(* Releases. *)

(* POST /settlement/{id}/release reads the vendor and goes on to release.  *)
StartRelease(h, p) ==
  /\ at[h] = "idle" /\ proof[p].kind # "none"
  /\ task' = [task EXCEPT ![h] = Reads(p)]
  /\ Goto(h, "release")
  /\ UNCHANGED <<vendors, proofs, campaign, audit, paid, contested, rails>>

(* Fault: the proof is not refreshed; whoever calls release approved it. *)
FaultStatusSeen(h) == "approved"

StatusSeen(h) == proof[task[h].proof].status

(* check_releasable and violations. *)
Releasable(h) ==
  LET p == task[h].proof IN
  /\ proof[p].kind = "quote"
  /\ task[h].listed /\ StatusSeen(h) = "approved"
  /\ proof[p].vendor \notin Organiser
  /\ p \notin release_tx
  /\ c_status = "Executing"
  /\ proof[p].amount <= c_raised - c_released
  /\ Broken(p) = {}

(* Fault: the campaign is refreshed without FOR UPDATE. *)
FaultTakeLock(h) == UNCHANGED row_lock

TakeLock(h) == row_lock = None /\ row_lock' = h

(* One step for the refresh of the campaign, that of the proof and the     *)
(* query of what the category has had: the status is read once, by the     *)
(* second, and all else these read changes only under the lock.            *)
LockRelease(h) ==
  /\ at[h] = "release" /\ row_lock = None
  /\ IF Releasable(h) THEN TakeLock(h) /\ Goto(h, "pay") /\ UNCHANGED task
     ELSE Leave(h) /\ UNCHANGED row_lock
  /\ UNCHANGED <<vendors, proofs, c_status, c_raised, c_released, audit, paid, contested, rails>>

SpentOnChain == SumOver(Amounts, paid)

(* The sidecar pays the proof, or finds the signature it remembers; that   *)
(* it may pay twice after a restart is shown in Settlement.                *)
SidecarPays(h) ==
  LET p == task[h].proof IN
  /\ at[h] = "pay"
  /\ p \in paid \/ SpentOnChain + proof[p].amount <= Pledged
  /\ paid' = paid \cup {p}
  /\ Goto(h, "paid")
  /\ UNCHANGED <<vendors, proofs, campaign, task, audit, contested, rails>>

CommitRelease(h) ==
  LET p == task[h].proof IN
  /\ at[h] = "paid"
  /\ release_tx' = release_tx \cup {p}
  /\ c_released' = c_released + proof[p].amount
  /\ c_status' = IF SpentOnChain = Pledged THEN "Closed" ELSE "Executing"
  /\ row_lock' = None /\ Leave(h)
  /\ UNCHANGED <<c_raised, vendors, proof, verdict, audit, paid, contested, rails>>

(* The sidecar fails, its reply is lost, or the handler dies: rolled back. *)
GiveUp(h) ==
  /\ at[h] \in {"refuse", "release", "pay", "paid"}
  /\ row_lock' = IF row_lock = h THEN None ELSE row_lock
  /\ Leave(h)
  /\ UNCHANGED <<c_status, c_raised, c_released, vendors, proofs, audit, paid, contested, rails>>

-----------------------------------------------------------------------------
(* POST /agent/audit. *)

(* Fault: any receipt of the vendor will do. *)
FaultReceiptsFor(q) ==
  {r \in Proofs : proof[r].kind = "receipt" /\ proof[r].vendor = proof[q].vendor}

(* The receipts that match a released quote. *)
ReceiptsFor(q) ==
  {r \in Proofs : /\ proof[r].kind = "receipt" /\ proof[r].vendor = proof[q].vendor
                  /\ proof[r].amount = proof[q].amount}

(* Of several matching receipts the first one the query returned is taken. *)
StartAudit(a) ==
  LET backed == {q \in release_tx : ReceiptsFor(q) # {}} IN
  /\ audit[a].at = "idle"
  /\ \E pick \in [backed -> Proofs] :
       /\ \A q \in backed : pick[q] \in ReceiptsFor(q)
       /\ audit' = [audit EXCEPT ![a] =
            [at |-> "found", released |-> release_tx,
             block |-> {proof[q].vendor : q \in release_tx \ backed},
             approve |-> {r \in {pick[q] : q \in backed} : proof[r].status = "pending"},
             listed |-> {}]]
  /\ UNCHANGED <<vendors, proofs, campaign, handlers, paid, contested, rails>>

(* Only a vendor that is allowlisted when it is looked up is written. *)
LookUpVendors(a) ==
  /\ audit[a].at = "found"
  /\ audit' = [audit EXCEPT ![a].at = "looked", ![a].listed = allowlisted]
  /\ UNCHANGED <<vendors, proofs, campaign, handlers, paid, contested, rails>>

CommitAudit(a) ==
  /\ audit[a].at = "looked"
  /\ allowlisted' = allowlisted \ (audit[a].block \cap audit[a].listed)
  /\ proof' = [p \in Proofs |-> IF p \in audit[a].approve
                                THEN [proof[p] EXCEPT !.status = "approved"] ELSE proof[p]]
  /\ audit' = [audit EXCEPT ![a] = NoAudit]
  /\ UNCHANGED <<registered, release_tx, verdict, campaign, handlers, paid, contested, rails>>

-----------------------------------------------------------------------------
VendorStep ==
  \E v \in Vendors :
    \/ RegisterVendor(v) \/ AddToAllowlist(v) \/ RemoveFromAllowlist(v)
    \/ \E p \in Proofs, items \in Baskets, amount \in 0 .. Pledged + 1 :
         SubmitQuote(p, v, items, amount) \/ SubmitReceipt(p, v, items, amount)

ReviewNext ==
  \/ VendorStep \/ FundingSucceeds \/ PaymentRecorded \/ PaymentStep
  \/ \E r \in Reviewers, p \in Proofs : StartReview(r, p) \/ StartRelease(r, p)
  \/ \E r \in Reviewers : RefuseByRule(r) \/ CommitReview(r, "approve") \/ CommitReview(r, "reject")
  \/ \E h \in Reviewers : LockRelease(h) \/ SidecarPays(h) \/ CommitRelease(h) \/ GiveUp(h)
  \/ \E a \in Auditors : StartAudit(a) \/ LookUpVendors(a) \/ CommitAudit(a)

ReviewSpec == ReviewInit /\ [][ReviewNext]_review

-----------------------------------------------------------------------------
(* Properties. *)

(* Rows and slots have the shapes the code gives them, the lock is held by *)
(* exactly the handler between its check and its commit, and what vendors  *)
(* declare is the total of their items.                                    *)
ReviewTypeOK ==
  /\ allowlisted \subseteq registered /\ registered \subseteq Vendors
  /\ \A p \in Proofs : /\ proof[p].kind \in {"none", "quote", "receipt"}
                       /\ proof[p].status \in {"none", "pending", "approved", "rejected"}
                       /\ proof[p].kind # "none" => Declared(proof[p].items, proof[p].amount)
  /\ release_tx \subseteq Proofs /\ paid \subseteq Proofs
  /\ verdict \in [Proofs -> {"none", "approve", "reject"}]
  /\ c_status \in {"Funding", "Executing", "Closed"} /\ c_raised \in Nat /\ c_released \in Nat
  /\ at \in [Reviewers -> {"idle", "refuse", "review", "release", "pay", "paid"}]
  /\ \A h \in Reviewers : row_lock = h <=> at[h] \in {"pay", "paid"}
  /\ \A h \in Reviewers : at[h] # "idle" <=> task[h].proof # None

(* What is recorded as released in a category stays within its cap, as the *)
(* cap stands, however reviews and releases overlap, and even if a quote   *)
(* already released is rejected by a review that was still running.        *)
CategoryWithinCap ==
  \A v \in Vendors :
    LET cap == MaxTotal(Terms, Category[v]) IN
    cap # NoLimit =>
      SumOver(Amounts, {p \in release_tx : Category[proof[p].vendor] = Category[v]})
        <= Scaled(cap, Terms, Goal, c_raised)

(* The campaign's released_amount is the sum of its released quotes, all   *)
(* of which the escrow did pay, and fits what was raised.                  *)
ReleasesAgree ==
  /\ c_released = SumOver(Amounts, release_tx)
  /\ release_tx \subseteq paid
  /\ c_released <= c_raised

(* A handler goes on to pay a quote only if its vendor was allowlisted when *)
(* the handler began (a later removal does not stop it), and if the last   *)
(* decision in the log about it, whoever made it, approves; unless two     *)
(* reviews judged the quote at once, when the log and the status may part. *)
PaidOnStandingVerdict ==
  [][\A h \in Reviewers :
       at[h] = "release" /\ at'[h] = "pay" =>
         /\ task[h].listed
         /\ verdict[task[h].proof] = "approve" \/ task[h].proof \in contested]_review

(* When an audit commits, no vendor it found allowlisted stays so if it    *)
(* was paid for a quote released before the audit began and has submitted  *)
(* no receipt of that amount, whatever was submitted or listed meanwhile.  *)
AuditBlocks ==
  [][\A a \in Auditors : audit[a].at = "looked" /\ audit'[a].at = "idle" =>
       \A q \in audit[a].released :
         /\ proof[q].vendor \in audit[a].listed
         /\ \A r \in Proofs : proof[r].kind = "receipt" /\ proof[r].vendor = proof[q].vendor
                              => proof[r].amount # proof[q].amount
         => proof[q].vendor \notin allowlisted']_review
=============================================================================
