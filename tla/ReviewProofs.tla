---------------------------- MODULE ReviewProofs ----------------------------
(***************************************************************************)
(* Theorems about module Review.  The review pipeline pays for the model   *)
(* exactly as module Rails says: a step of Review moves the Micropay rows, *)
(* the channels and the transfers by a step of Rails or not at all.  So    *)
(* every invariant of Rails is one of Review, whose own run lets the       *)
(* gateway answer for free.                                                *)
(*                                                                         *)
(* What is released is bounded, recorded and approved because of RevInv:   *)
(* only the holder of the row lock changes totals, what it checked stays   *)
(* true until its commit, the verdict in the log and the status of a quote *)
(* agree unless two reviews contested it, and what an audit has looked up  *)
(* are vendors that were paid without a receipt.                           *)
(***************************************************************************)
EXTENDS Review, RailsProofs

USE ReviewAssumption, PolicyAssumption

(* What is checked before a quote is reviewed is the budget of Rails.      *)
LEMMA StartReviewPays ==
  ASSUME NEW r \in Reviewers, NEW p \in Proofs, StartReview(r, p)
  PROVE  AskModel(r) \/ UNCHANGED rails
BY DEF StartReview

(* Submitting a proof moves no money. *)
LEMMA InsertPaysNothing ==
  ASSUME NEW p, NEW kind, NEW v, NEW items, NEW amount, Insert(p, kind, v, items, amount)
  PROVE  UNCHANGED rails
BY DEF Insert

LEMMA StepPays == ReviewNext => RailsNext \/ UNCHANGED rails
<1> SUFFICES ASSUME ReviewNext PROVE RailsNext \/ UNCHANGED rails
  OBVIOUS
<1>1. CASE VendorStep
  <2> PICK v \in Vendors :
        \/ RegisterVendor(v) \/ AddToAllowlist(v) \/ RemoveFromAllowlist(v)
        \/ \E p \in Proofs, items \in Baskets, amount \in 0 .. Pledged + 1 :
             SubmitQuote(p, v, items, amount) \/ SubmitReceipt(p, v, items, amount)
    BY <1>1 DEF VendorStep
  <2>1. CASE RegisterVendor(v) \/ AddToAllowlist(v) \/ RemoveFromAllowlist(v)
    BY <2>1 DEF RegisterVendor, AddToAllowlist, RemoveFromAllowlist
  <2>2. ASSUME NEW p \in Proofs, NEW items \in Baskets, NEW amount \in 0 .. Pledged + 1,
               SubmitQuote(p, v, items, amount) \/ SubmitReceipt(p, v, items, amount)
        PROVE  UNCHANGED rails
    BY <2>2, InsertPaysNothing DEF SubmitQuote, SubmitReceipt
  <2> QED BY <2>1, <2>2
<1>2. CASE FundingSucceeds \/ PaymentRecorded
  BY <1>2 DEF FundingSucceeds, PaymentRecorded
<1>3. CASE PaymentStep
  BY <1>3 DEF PaymentStep, RailsNext
<1>4. ASSUME NEW r \in Reviewers, NEW p \in Proofs, StartReview(r, p)
      PROVE  RailsNext \/ UNCHANGED rails
  BY <1>4, StartReviewPays DEF RailsNext
<1>5. ASSUME NEW r \in Reviewers, CommitReview(r, "approve") \/ CommitReview(r, "reject")
      PROVE  RailsNext
  <2>1. CommitPayment(r)
    BY <1>5 DEF CommitReview
  <2> QED BY <2>1 DEF RailsNext
<1>6. ASSUME NEW h \in Reviewers,
             \/ RefuseByRule(h) \/ LockRelease(h) \/ SidecarPays(h) \/ CommitRelease(h) \/ GiveUp(h)
             \/ \E p \in Proofs : StartRelease(h, p)
      PROVE  UNCHANGED rails
  BY <1>6 DEF RefuseByRule, LockRelease, SidecarPays, CommitRelease, GiveUp, StartRelease
<1>7. ASSUME NEW a \in Auditors, StartAudit(a) \/ LookUpVendors(a) \/ CommitAudit(a)
      PROVE  UNCHANGED rails
  BY <1>7 DEF StartAudit, LookUpVendors, CommitAudit
<1> QED BY <1>1, <1>2, <1>3, <1>4, <1>5, <1>6, <1>7 DEF ReviewNext

(* Whatever reviews, releases and audits do, what they pay for the model   *)
(* and what the Micropay rows say of it is a behaviour of Rails.           *)
THEOREM ReviewPaysByRails == ReviewSpec => RailsSpec
<1>1. ReviewInit => RailsInit
  BY DEF ReviewInit
<1>2. [ReviewNext]_review => [RailsNext]_rails
  <2>1. UNCHANGED review => UNCHANGED rails
    BY DEF review
  <2> QED BY <2>1, StepPays
<1> QED BY <1>1, <1>2, PTL DEF ReviewSpec, RailsSpec

-----------------------------------------------------------------------------
(* What a step of the pipeline may never break. *)

ProofRows == [kind : {"none", "quote", "receipt"}, vendor : Vendors \cup {None},
              items : Baskets \cup {<<>>}, amount : Nat,
              status : {"none", "pending", "approved", "rejected"}]

ReviewTypes ==
  /\ allowlisted \subseteq registered /\ registered \subseteq Vendors
  /\ proof \in [Proofs -> ProofRows]
  /\ release_tx \subseteq Proofs /\ paid \subseteq Proofs
  /\ verdict \in [Proofs -> {"none", "approve", "reject"}]
  /\ c_status \in {"Funding", "Executing", "Closed"} /\ c_raised \in Nat /\ c_released \in Nat
  /\ row_lock \in Reviewers \cup {None}
  /\ at \in [Reviewers -> {"idle", "refuse", "review", "release", "pay", "paid"}]
  /\ task \in [Reviewers -> [proof : Proofs \cup {None}, listed : BOOLEAN,
                             seen : {"none", "pending", "approved", "rejected"}]]
  /\ audit \in [Auditors -> [at : {"idle", "found", "looked"}, released : SUBSET Proofs,
                             block : SUBSET (Vendors \cup {None}), approve : SUBSET Proofs,
                             listed : SUBSET Vendors]]

(* Whoever submitted something declared its total. *)
Submitted ==
  \A p \in Proofs : proof[p].kind # "none" =>
    proof[p].vendor \in Vendors /\ Declared(proof[p].items, proof[p].amount)

(* A handler that is not idle is about a submitted proof, and a review     *)
(* about a quote; the lock is held from the check to the commit.           *)
TaskInv ==
  /\ \A h \in Reviewers :
       /\ row_lock = h <=> at[h] \in {"pay", "paid"}
       /\ at[h] # "idle" <=> task[h].proof # None
       /\ at[h] # "idle" => proof[task[h].proof].kind # "none"
       /\ Judging(h) => proof[task[h].proof].kind = "quote"

(* What the cap of its category leaves for quote p. *)
Fits(p) ==
  LET cap == MaxTotal(Terms, Category[proof[p].vendor]) IN
  cap # NoLimit =>
    ReleasedIn(Category[proof[p].vendor]) + proof[p].amount <= Scaled(cap, Terms, Goal, c_raised)

(* What the check under the lock found is so until the release commits. *)
Checked(h) ==
  /\ at[h] \in {"pay", "paid"} =>
       /\ task[h].proof \notin release_tx /\ proof[task[h].proof].kind = "quote"
       /\ c_released + proof[task[h].proof].amount <= c_raised
       /\ Fits(task[h].proof)
  /\ at[h] = "paid" => task[h].proof \in paid

ReleaseInv ==
  /\ \A p \in release_tx : proof[p].kind = "quote" /\ p \in paid
  /\ c_released = SumOver(Amounts, release_tx) /\ c_released <= c_raised
  /\ \A h \in Reviewers : Checked(h)

(* A review that nobody contests finds the status it read; so the status   *)
(* says "approved" only if the last decision does.                         *)
VerdictInv ==
  /\ \A p \in Proofs \ contested :
       proof[p].kind = "quote" /\ proof[p].status = "approved" => verdict[p] = "approve"
  /\ \A r \in Reviewers : Judging(r) /\ task[r].proof \notin contested =>
       proof[task[r].proof].status = task[r].seen
  /\ \A r, k \in Reviewers :
       Judging(r) /\ Judging(k) /\ r # k /\ task[r].proof = task[k].proof =>
         task[r].proof \in contested

(* A vendor that is not to be blocked has submitted a receipt. *)
AuditInv ==
  \A a \in Auditors :
    /\ \A q \in audit[a].released :
         /\ proof[q].kind = "quote"
         /\ proof[q].vendor \in audit[a].block \/ ReceiptsFor(q) # {}
    /\ \A r \in audit[a].approve : proof[r].kind = "receipt"

RevInv == ReviewTypes /\ Submitted /\ TaskInv /\ ReleaseInv /\ CategoryWithinCap /\ VerdictInv /\ AuditInv

-----------------------------------------------------------------------------
(* What vendors declared stays as it is; only the status of a row moves. *)
SameClaim(m, n) == n.kind = m.kind /\ n.vendor = m.vendor /\ n.items = m.items /\ n.amount = m.amount

Claims == \A p \in Proofs : proof[p].kind # "none" => SameClaim(proof[p], proof'[p])

LEMMA NoneIsNobody == None \notin Proofs /\ None \notin Reviewers
OBVIOUS

(* The proofs that count in a category, and their total. *)
LEMMA ReleasedType ==
  ASSUME ReviewTypes
  PROVE  /\ \A p \in Proofs : Amounts[p] = proof[p].amount /\ Amounts[p] \in Nat
         /\ \A T \in SUBSET Proofs : IsFiniteSet(T) /\ SumOver(Amounts, T) \in Nat
         /\ \A category : ReleasedIn(category) \in Nat
<1>1. \A p \in Proofs : Amounts[p] = proof[p].amount /\ Amounts[p] \in Nat
  BY DEF ReviewTypes, ProofRows, Amounts
<1>2. ASSUME NEW T \in SUBSET Proofs PROVE IsFiniteSet(T) /\ SumOver(Amounts, T) \in Nat
  <2>1. IsFiniteSet(T) /\ \A p \in T : Amounts[p] \in Nat
    BY <1>1, FS_Subset
  <2> QED BY <2>1, SumType
<1>3. ASSUME NEW category PROVE ReleasedIn(category) \in Nat
  <2>1. InCategory(category) \cap release_tx \in SUBSET Proofs
    BY DEF InCategory
  <2> QED BY <1>2, <2>1 DEF ReleasedIn
<1> QED BY <1>1, <1>2, <1>3

LEMMA FitsSame ==
  ASSUME ReviewTypes, \A p \in release_tx : proof[p].kind = "quote", Claims, UNCHANGED release_tx
  PROVE  /\ SumOver(Amounts', release_tx') = SumOver(Amounts, release_tx)
         /\ \A category : ReleasedIn(category)' = ReleasedIn(category)
<1>1. ASSUME NEW p \in release_tx
      PROVE  p \in Proofs /\ SameClaim(proof[p], proof'[p]) /\ Amounts'[p] = Amounts[p]
  BY <1>1 DEF ReviewTypes, Claims, SameClaim, Amounts
<1>2. SumOver(Amounts', release_tx') = SumOver(Amounts, release_tx)
  <2>1. \A p \in release_tx : Amounts'[p] = Amounts[p]
    BY <1>1
  <2> QED BY <2>1, SumExt
<1>3. ASSUME NEW category PROVE ReleasedIn(category)' = ReleasedIn(category)
  <2> DEFINE T == InCategory(category) \cap release_tx
  <2>1. InCategory(category)' \cap release_tx' = T
    BY <1>1 DEF InCategory, SameClaim
  <2>2. \A p \in T : Amounts'[p] = Amounts[p]
    BY <1>1
  <2>3. SumOver(Amounts', T) = SumOver(Amounts, T)
    BY <2>2, SumExt
  <2> QED BY <2>1, <2>3 DEF ReleasedIn
<1> QED BY <1>2, <1>3

(* Steps that release nothing and leave the money alone. *)
LEMMA ReleaseFrame ==
  ASSUME RevInv, Claims, UNCHANGED <<release_tx, c_released, c_raised>>, paid \subseteq paid',
         \A h \in Reviewers : at'[h] \in {"pay", "paid"} =>
           /\ at[h] \in {"pay", "paid"} /\ task'[h].proof = task[h].proof
           /\ at'[h] = "paid" => at[h] = "paid" \/ task[h].proof \in paid'
  PROVE  ReleaseInv' /\ CategoryWithinCap'
<1>1. \A p \in release_tx : proof[p].kind = "quote" /\ p \in paid /\ p \in Proofs
  BY DEF RevInv, ReleaseInv, ReviewTypes
<1>2. /\ SumOver(Amounts', release_tx') = SumOver(Amounts, release_tx)
      /\ \A category : ReleasedIn(category)' = ReleasedIn(category)
  BY <1>1, FitsSame DEF RevInv
<1>3. \A p \in release_tx' : proof'[p].kind = "quote" /\ p \in paid'
  BY <1>1 DEF Claims, SameClaim
<1>4. ASSUME NEW h \in Reviewers, at'[h] \in {"pay", "paid"} PROVE Checked(h)'
  <2> DEFINE p == task[h].proof
  <2>1. /\ at[h] \in {"pay", "paid"} /\ p \in Proofs
        /\ p \notin release_tx /\ proof[p].kind = "quote"
        /\ c_released + proof[p].amount <= c_raised /\ Fits(p)
        /\ at[h] = "paid" => p \in paid
    BY <1>4 DEF RevInv, ReviewTypes, TaskInv, ReleaseInv, Checked
  <2>2. SameClaim(proof[p], proof'[p])
    BY <2>1 DEF Claims
  <2>3. task'[h].proof = p /\ (at'[h] = "paid" => p \in paid')
    BY <1>4, <2>1
  <2> HIDE DEF p
  <2>4. Fits(task[h].proof)'
    BY <1>2, <2>1, <2>2, <2>3 DEF Fits, SameClaim
  <2> QED BY <2>1, <2>2, <2>3, <2>4 DEF SameClaim, Checked
<1>5. ReleaseInv'
  <2>1. \A h \in Reviewers : Checked(h)'
    BY <1>4 DEF Checked
  <2>2. c_released' = SumOver(Amounts', release_tx') /\ c_released' <= c_raised'
    BY <1>2 DEF RevInv, ReleaseInv
  <2> QED BY <1>3, <2>1, <2>2 DEF ReleaseInv
<1>6. CategoryWithinCap'
  <2>1. ASSUME NEW c
        PROVE  SumOver(Amounts', {p \in release_tx' : Category[proof'[p].vendor] = c})
                 = SumOver(Amounts, {p \in release_tx : Category[proof[p].vendor] = c})
    <3>1. /\ {p \in release_tx' : Category[proof'[p].vendor] = c} = InCategory(c)' \cap release_tx'
          /\ {p \in release_tx : Category[proof[p].vendor] = c} = InCategory(c) \cap release_tx
      BY <1>1, <1>3 DEF InCategory
    <3> QED BY <1>2, <3>1 DEF ReleasedIn
  <2> QED BY <2>1 DEF RevInv, CategoryWithinCap
<1> QED BY <1>5, <1>6

(* Steps that submit nothing. *)
LEMMA SubmittedFrame ==
  ASSUME RevInv, Claims, \A p \in Proofs : proof[p].kind = "none" => proof'[p].kind = "none"
  PROVE  Submitted'
BY DEF RevInv, Submitted, Claims, SameClaim, Declared, ItemsTotal

(* Steps of handler h, or of none. *)
LEMMA TaskFrame ==
  ASSUME RevInv, Claims, NEW h \in Reviewers,
         \A k \in Reviewers \ {h} :
           at'[k] = at[k] /\ task'[k] = task[k] /\ (row_lock' = k <=> row_lock = k),
         row_lock' = h <=> at'[h] \in {"pay", "paid"},
         at'[h] # "idle" <=> task'[h].proof # None,
         at'[h] # "idle" => proof'[task'[h].proof].kind # "none",
         Judging(h)' => proof'[task'[h].proof].kind = "quote"
  PROVE  TaskInv'
<1>1. ASSUME NEW k \in Reviewers
      PROVE  /\ row_lock' = k <=> at'[k] \in {"pay", "paid"}
             /\ at'[k] # "idle" <=> task'[k].proof # None
             /\ at'[k] # "idle" => proof'[task'[k].proof].kind # "none"
             /\ Judging(k)' => proof'[task'[k].proof].kind = "quote"
  <2>1. CASE k = h
    BY <2>1
  <2>2. CASE k # h
    <3>1. /\ at'[k] = at[k] /\ task'[k] = task[k] /\ (row_lock' = k <=> row_lock = k)
          /\ row_lock = k <=> at[k] \in {"pay", "paid"}
          /\ at[k] # "idle" <=> task[k].proof # None
          /\ at[k] # "idle" => proof[task[k].proof].kind # "none"
          /\ Judging(k) => proof[task[k].proof].kind = "quote"
          /\ task[k].proof \in Proofs \cup {None}
      BY <2>2 DEF RevInv, TaskInv, ReviewTypes
    <3>2. at[k] # "idle" => SameClaim(proof[task[k].proof], proof'[task[k].proof])
      BY <3>1 DEF Claims
    <3> QED BY <3>1, <3>2 DEF SameClaim, Judging
  <2> QED BY <2>1, <2>2
<1> QED BY <1>1 DEF TaskInv

LEMMA TaskStays ==
  ASSUME RevInv, Claims, UNCHANGED <<at, task, row_lock>>
  PROVE  TaskInv'
<1>1. PICK h \in Reviewers : TRUE
  BY RailsAssumption
<1>2. /\ row_lock = h <=> at[h] \in {"pay", "paid"}
      /\ at[h] # "idle" <=> task[h].proof # None
      /\ at[h] # "idle" => proof[task[h].proof].kind # "none"
      /\ Judging(h) => proof[task[h].proof].kind = "quote"
      /\ task[h].proof \in Proofs \cup {None}
  BY DEF RevInv, TaskInv, ReviewTypes
<1>3. at[h] # "idle" => SameClaim(proof[task[h].proof], proof'[task[h].proof])
  BY <1>2 DEF Claims
<1> QED BY <1>2, <1>3, TaskFrame DEF SameClaim, Judging

(* Steps that judge nothing and start no review. *)
LEMMA VerdictFrame ==
  ASSUME RevInv, Claims, UNCHANGED <<verdict, contested>>,
         \A p \in Proofs : proof'[p].kind = "quote" =>
           \/ proof'[p].status = proof[p].status /\ proof[p].kind = "quote"
           \/ proof'[p].status = "pending" /\ proof[p].kind = "none",
         \A r \in Reviewers : Judging(r)' =>
           Judging(r) /\ task'[r].proof = task[r].proof /\ task'[r].seen = task[r].seen
  PROVE  VerdictInv'
<1>1. \A p \in Proofs \ contested :
        proof'[p].kind = "quote" /\ proof'[p].status = "approved" => verdict[p] = "approve"
  BY DEF RevInv, VerdictInv
<1>2. ASSUME NEW r \in Reviewers, Judging(r)', task'[r].proof \notin contested
      PROVE  proof'[task'[r].proof].status = task'[r].seen
  <2>1. /\ Judging(r) /\ task'[r].proof = task[r].proof /\ task'[r].seen = task[r].seen
        /\ task[r].proof \in Proofs /\ proof[task[r].proof].kind = "quote"
    BY <1>2 DEF RevInv, TaskInv, ReviewTypes, Judging
  <2>2. proof'[task[r].proof].kind = "quote"
    BY <2>1 DEF Claims, SameClaim
  <2>3. proof[task[r].proof].status = task[r].seen
    BY <1>2, <2>1 DEF RevInv, VerdictInv
  <2> QED BY <2>1, <2>2, <2>3
<1>3. \A r, k \in Reviewers :
        Judging(r)' /\ Judging(k)' /\ r # k /\ task'[r].proof = task'[k].proof => task'[r].proof \in contested
  BY DEF RevInv, VerdictInv
<1> QED BY <1>1, <1>2, <1>3 DEF VerdictInv

(* Steps that start no audit. *)
LEMMA AuditFrame ==
  ASSUME RevInv, Claims,
         \A a \in Auditors :
           \/ audit'[a] = NoAudit
           \/ /\ audit'[a].released = audit[a].released /\ audit'[a].block = audit[a].block
              /\ audit'[a].approve = audit[a].approve
  PROVE  AuditInv'
<1> SUFFICES ASSUME NEW a \in Auditors
             PROVE  /\ \A q \in audit'[a].released :
                         /\ proof'[q].kind = "quote"
                         /\ proof'[q].vendor \in audit'[a].block \/ ReceiptsFor(q)' # {}
                    /\ \A r \in audit'[a].approve : proof'[r].kind = "receipt"
  BY DEF AuditInv
<1>1. CASE audit'[a] = NoAudit
  BY <1>1 DEF NoAudit
<1>2. CASE /\ audit'[a].released = audit[a].released /\ audit'[a].block = audit[a].block
           /\ audit'[a].approve = audit[a].approve
  <2>1. ASSUME NEW q \in audit[a].released
        PROVE  /\ proof'[q].kind = "quote"
               /\ proof'[q].vendor \in audit[a].block \/ ReceiptsFor(q)' # {}
    <3>1. /\ proof[q].kind = "quote" /\ q \in Proofs
          /\ proof[q].vendor \in audit[a].block \/ ReceiptsFor(q) # {}
      BY <2>1 DEF RevInv, AuditInv, ReviewTypes
    <3>2. SameClaim(proof[q], proof'[q])
      BY <3>1 DEF Claims
    <3>3. ASSUME NEW r \in ReceiptsFor(q) PROVE r \in ReceiptsFor(q)'
      <4>1. r \in Proofs /\ SameClaim(proof[r], proof'[r])
        BY <3>3 DEF ReceiptsFor, Claims
      <4> QED BY <3>2, <3>3, <4>1 DEF ReceiptsFor, SameClaim
    <3> QED BY <3>1, <3>2, <3>3 DEF SameClaim
  <2>2. ASSUME NEW r \in audit[a].approve PROVE proof'[r].kind = "receipt"
    <3>1. proof[r].kind = "receipt" /\ r \in Proofs
      BY <2>2 DEF RevInv, AuditInv, ReviewTypes
    <3> QED BY <3>1 DEF Claims, SameClaim
  <2> QED BY <1>2, <2>1, <2>2
<1> QED BY <1>1, <1>2

LEMMA SameRows ==
  ASSUME UNCHANGED proof
  PROVE  Claims
BY DEF Claims, SameClaim

-----------------------------------------------------------------------------
(* Vendors, submissions and the campaign. *)

LEMMA VendorKeeps ==
  ASSUME RevInv, NEW v \in Vendors,
         RegisterVendor(v) \/ AddToAllowlist(v) \/ RemoveFromAllowlist(v)
  PROVE  RevInv'
<1>1. /\ UNCHANGED <<proofs, campaign, handlers, audit, paid, contested>>
      /\ allowlisted' \subseteq registered' /\ registered' \subseteq Vendors
  BY DEF RegisterVendor, AddToAllowlist, RemoveFromAllowlist, RevInv, ReviewTypes
<1>2. Claims
  BY <1>1, SameRows DEF proofs
<1>3. ReviewTypes'
  BY <1>1 DEF RevInv, ReviewTypes, proofs, campaign, handlers
<1>4. Submitted' /\ TaskInv'
  BY <1>1, <1>2, SubmittedFrame, TaskStays DEF proofs, campaign, handlers
<1>5. ReleaseInv' /\ CategoryWithinCap'
  BY <1>1, <1>2, ReleaseFrame DEF proofs, campaign, handlers, RevInv, ReviewTypes
<1>6. VerdictInv' /\ AuditInv'
  BY <1>1, <1>2, VerdictFrame, AuditFrame DEF proofs, campaign, handlers, Judging
<1> QED BY <1>3, <1>4, <1>5, <1>6 DEF RevInv

LEMMA InsertKeeps ==
  ASSUME RevInv, NEW p \in Proofs, NEW v \in Vendors, NEW items \in Baskets, NEW total \in Nat,
         NEW kind \in {"quote", "receipt"}, Insert(p, kind, v, items, total)
  PROVE  RevInv'
<1> DEFINE new == [kind |-> kind, vendor |-> v, items |-> items, amount |-> total, status |-> "pending"]
<1>1. /\ proof[p].kind = "none" /\ Declared(items, total)
      /\ proof' = [proof EXCEPT ![p] = new] /\ new \in ProofRows
      /\ new.kind = kind /\ new.vendor = v /\ new.items = items /\ new.amount = total
      /\ new.status = "pending"
      /\ UNCHANGED <<vendors, release_tx, verdict, campaign, handlers, audit, paid, contested>>
  BY DEF Insert, ProofRows
<1> HIDE DEF new
<1>2. proof'[p] = new /\ \A q \in Proofs \ {p} : proof'[q] = proof[q]
  BY <1>1 DEF RevInv, ReviewTypes
<1>3. Claims
  BY <1>1, <1>2 DEF Claims, SameClaim
<1>4. ReviewTypes'
  BY <1>1 DEF RevInv, ReviewTypes, vendors, campaign, handlers
<1>5. Submitted'
  <2>1. ASSUME NEW q \in Proofs, proof'[q].kind # "none"
        PROVE  proof'[q].vendor \in Vendors /\ Declared(proof'[q].items, proof'[q].amount)
    BY <1>1, <1>2, <2>1 DEF RevInv, Submitted
  <2> QED BY <2>1 DEF Submitted, Declared
<1>6. TaskInv'
  BY <1>1, <1>3, TaskStays DEF campaign, handlers
<1>7. ReleaseInv' /\ CategoryWithinCap'
  BY <1>1, <1>3, ReleaseFrame DEF campaign, handlers, RevInv, ReviewTypes
<1>8. VerdictInv' /\ AuditInv'
  BY <1>1, <1>2, <1>3, VerdictFrame, AuditFrame DEF handlers, Judging
<1> QED BY <1>4, <1>5, <1>6, <1>7, <1>8 DEF RevInv

LEMMA SubmitKeeps ==
  ASSUME RevInv, NEW p \in Proofs, NEW v \in Vendors, NEW items \in Baskets,
         NEW total \in 0 .. Pledged + 1, SubmitQuote(p, v, items, total) \/ SubmitReceipt(p, v, items, total)
  PROVE  RevInv'
<1>1. total \in Nat
  OBVIOUS
<1> QED BY <1>1, InsertKeeps DEF SubmitQuote, SubmitReceipt

LEMMA MaxTotalType ==
  ASSUME NEW category
  PROVE  MaxTotal(Terms, category) \in Nat \cup {NoLimit}
BY DEF MaxTotal

(* The limits grow with what was raised. *)
LEMMA ScaledGrows ==
  ASSUME NEW limit \in Nat, NEW raised \in Nat, NEW more \in Nat, raised <= more
  PROVE  /\ Scaled(limit, Terms, Goal, raised) \in Nat /\ Scaled(limit, Terms, Goal, more) \in Nat
         /\ Scaled(limit, Terms, Goal, raised) <= Scaled(limit, Terms, Goal, more)
<1>1. /\ limit * raised \in Nat /\ limit * more \in Nat /\ limit * Goal \in Nat
      /\ limit * raised <= limit * more
  <2>1. more - raised \in Nat /\ limit * (more - raised) \in Nat /\ more = raised + (more - raised)
    OBVIOUS
  <2>2. limit * more = limit * raised + limit * (more - raised)
    BY <2>1
  <2> QED BY <2>1, <2>2
<1>2. ASSUME NEW a \in Nat PROVE a \div Goal \in Nat
  OBVIOUS
<1>3. ASSUME NEW a \in Nat, NEW b \in Nat, a <= b PROVE a \div Goal <= b \div Goal
  BY <1>3
<1>4. ASSUME more > Goal PROVE limit <= (limit * more) \div Goal
  <2>1. limit * Goal <= limit * more
    <3>1. more - Goal \in Nat /\ limit * (more - Goal) \in Nat /\ more = Goal + (more - Goal)
      BY <1>4
    <3>2. limit * more = limit * Goal + limit * (more - Goal)
      BY <3>1
    <3> QED BY <1>1, <3>1, <3>2
  <2>2. (limit * Goal) \div Goal = limit
    OBVIOUS
  <2> QED BY <1>1, <1>3, <2>1, <2>2
<1> QED BY <1>1, <1>2, <1>3, <1>4 DEF Scaled

(* A payment found late only widens the caps, while nobody releases. *)
LEMMA CampaignKeeps ==
  ASSUME RevInv, FundingSucceeds \/ PaymentRecorded
  PROVE  RevInv'
<1>1. /\ UNCHANGED <<vendors, proofs, handlers, audit, paid, contested, c_released, row_lock>>
      /\ row_lock = None /\ c_raised' \in Nat /\ c_raised <= c_raised'
      /\ c_status' \in {"Funding", "Executing", "Closed"}
  BY DEF FundingSucceeds, PaymentRecorded, RevInv, ReviewTypes
<1>2. UNCHANGED <<proof, release_tx, verdict, at, task, registered, allowlisted>>
  BY <1>1 DEF proofs, handlers, vendors
<1>3. Claims
  BY <1>2, SameRows
<1>4. ReviewTypes'
  BY <1>1, <1>2 DEF RevInv, ReviewTypes
<1>5. Submitted' /\ TaskInv' /\ VerdictInv' /\ AuditInv'
  BY <1>1, <1>2, <1>3, SubmittedFrame, TaskStays, VerdictFrame, AuditFrame DEF Judging
<1>6. ReleaseInv'
  <2>1. \A h \in Reviewers : at[h] \notin {"pay", "paid"}
    BY <1>1 DEF RevInv, TaskInv
  <2>2. \A h \in Reviewers : Checked(h)'
    BY <1>2, <2>1 DEF Checked
  <2>3. c_released' = SumOver(Amounts', release_tx') /\ c_released' <= c_raised'
    BY <1>1, <1>2 DEF RevInv, ReleaseInv, ReviewTypes, Amounts
  <2> QED BY <1>1, <1>2, <2>2, <2>3 DEF RevInv, ReleaseInv
<1>7. CategoryWithinCap'
  <2> SUFFICES ASSUME NEW v \in Vendors, MaxTotal(Terms, Category[v]) # NoLimit
               PROVE  SumOver(Amounts', {p \in release_tx' : Category[proof'[p].vendor] = Category[v]})
                        <= Scaled(MaxTotal(Terms, Category[v]), Terms, Goal, c_raised')
    BY DEF CategoryWithinCap, MaxTotal, Scaled
  <2> DEFINE cap == MaxTotal(Terms, Category[v])
             T == {p \in release_tx : Category[proof[p].vendor] = Category[v]}
  <2>1. SumOver(Amounts, T) <= Scaled(cap, Terms, Goal, c_raised)
    BY DEF RevInv, CategoryWithinCap
  <2>2. cap \in Nat
    BY MaxTotalType
  <2>3. T \subseteq Proofs
    BY DEF RevInv, ReviewTypes
  <2>4. SumOver(Amounts, T) \in Nat
    BY <2>3, ReleasedType DEF RevInv
  <2>5. Amounts' = Amounts /\ {p \in release_tx' : Category[proof'[p].vendor] = Category[v]} = T
    BY <1>2 DEF Amounts
  <2>6. /\ Scaled(cap, Terms, Goal, c_raised) \in Nat /\ Scaled(cap, Terms, Goal, c_raised') \in Nat
        /\ Scaled(cap, Terms, Goal, c_raised) <= Scaled(cap, Terms, Goal, c_raised')
    BY <1>1, <2>2, ScaledGrows DEF RevInv, ReviewTypes
  <2> HIDE DEF cap, T
  <2>7. SumOver(Amounts', T) <= Scaled(cap, Terms, Goal, c_raised')
    BY <2>1, <2>4, <2>5, <2>6
  <2> QED BY <2>5, <2>7 DEF cap
<1> QED BY <1>4, <1>5, <1>6, <1>7 DEF RevInv

-----------------------------------------------------------------------------
(* Reviews. *)

(* A review that starts contests those of the same quote in progress.      *)
LEMMA ReviewStarts ==
  ASSUME RevInv, NEW r \in Reviewers, NEW p \in Proofs, StartReview(r, p)
  PROVE  RevInv'
<1>1. /\ at[r] = "idle" /\ proof[p].kind = "quote"
      /\ at' \in {[at EXCEPT ![r] = "refuse"], [at EXCEPT ![r] = "review"]}
      /\ UNCHANGED <<registered, allowlisted, proof, release_tx, verdict, c_status, c_raised,
                     c_released, row_lock, audit, paid>>
      /\ contested' = IF \E k \in Reviewers : Judging(k) /\ task[k].proof = p
                      THEN contested \cup {p} ELSE contested
  BY DEF StartReview, Goto, vendors, proofs, campaign
<1>2. /\ task'[r].proof = p /\ task'[r].seen = proof[p].status
      /\ \A k \in Reviewers \ {r} : task'[k] = task[k] /\ at'[k] = at[k]
      /\ at'[r] \in {"refuse", "review"}
      /\ task' \in [Reviewers -> [proof : Proofs \cup {None}, listed : BOOLEAN,
                                  seen : {"none", "pending", "approved", "rejected"}]]
      /\ at' \in [Reviewers -> {"idle", "refuse", "review", "release", "pay", "paid"}]
  <2> DEFINE t == [Reads(p) EXCEPT !.seen = proof[p].status]
  <2>1. proof[p].status \in {"none", "pending", "approved", "rejected"}
    BY DEF RevInv, ReviewTypes, ProofRows
  <2>2. /\ t.proof = p /\ t.seen = proof[p].status
        /\ t \in [proof : Proofs \cup {None}, listed : BOOLEAN,
                  seen : {"none", "pending", "approved", "rejected"}]
    <3>1. /\ Reads(p) \in [proof : Proofs \cup {None}, listed : BOOLEAN,
                            seen : {"none", "pending", "approved", "rejected"}]
          /\ Reads(p).proof = p
      BY DEF Reads
    <3> QED BY <2>1, <3>1
  <2>3. task' = [task EXCEPT ![r] = t]
    BY DEF StartReview
  <2> HIDE DEF t
  <2> QED BY <1>1, <2>2, <2>3 DEF RevInv, ReviewTypes
<1>3. Claims
  BY <1>1, SameRows
<1>4. ReviewTypes'
  BY <1>1, <1>2 DEF RevInv, ReviewTypes
<1>5. Submitted'
  BY <1>1, <1>3, SubmittedFrame
<1>6. TaskInv'
  <2>1. row_lock # r /\ p # None
    BY <1>1, NoneIsNobody DEF RevInv, TaskInv
  <2> QED BY <1>1, <1>2, <1>3, <2>1, TaskFrame
<1>7. ReleaseInv' /\ CategoryWithinCap'
  BY <1>1, <1>2, <1>3, ReleaseFrame DEF RevInv, ReviewTypes
<1>8. VerdictInv'
  <2>1. contested \subseteq contested'
    BY <1>1
  <2>2. \A k \in Reviewers \ {r} : Judging(k)' => Judging(k)
    BY <1>2 DEF Judging
  <2>3. \A k \in Reviewers \ {r} : Judging(k)' /\ task'[k].proof = p => p \in contested'
    BY <1>1, <1>2, <2>2
  <2>4. \A q \in Proofs \ contested' :
          proof'[q].kind = "quote" /\ proof'[q].status = "approved" => verdict'[q] = "approve"
    BY <1>1, <2>1 DEF RevInv, VerdictInv
  <2>5. \A k \in Reviewers : Judging(k)' /\ task'[k].proof \notin contested' =>
          proof'[task'[k].proof].status = task'[k].seen
    BY <1>1, <1>2, <2>1, <2>2 DEF RevInv, VerdictInv
  <2>6. \A j, k \in Reviewers :
          Judging(j)' /\ Judging(k)' /\ j # k /\ task'[j].proof = task'[k].proof =>
            task'[j].proof \in contested'
    BY <1>2, <2>1, <2>2, <2>3 DEF RevInv, VerdictInv
  <2> QED BY <2>4, <2>5, <2>6 DEF VerdictInv
<1>9. AuditInv'
  BY <1>1, <1>3, AuditFrame
<1> QED BY <1>4, <1>5, <1>6, <1>7, <1>8, <1>9 DEF RevInv

LEMMA NoTaskType ==
  /\ NoTask.proof = None /\ NoTask.seen = "none"
  /\ NoTask \in [proof : Proofs \cup {None}, listed : BOOLEAN,
                 seen : {"none", "pending", "approved", "rejected"}]
BY DEF NoTask

LEMMA Judges ==
  ASSUME RevInv, NEW r \in Reviewers, NEW decision \in {"approve", "reject"},
         \/ RefuseByRule(r) /\ decision = "reject"
         \/ CommitReview(r, decision)
  PROVE  RevInv'
<1> DEFINE p == task[r].proof
           status == IF decision = "approve" THEN "approved" ELSE "rejected"
<1>1. /\ Judging(r)
      /\ proof' = IF status = task[r].seen THEN proof ELSE [proof EXCEPT ![p].status = status]
      /\ verdict' = [verdict EXCEPT ![p] = decision]
      /\ UNCHANGED <<registered, allowlisted, release_tx, c_status, c_raised, c_released, row_lock,
                     audit, paid, contested>>
  BY DEF RefuseByRule, CommitReview, Judge, Judging, vendors, campaign
<1>2. p \in Proofs /\ proof[p].kind = "quote" /\ at[r] # "idle" /\ row_lock # r
  BY <1>1 DEF RevInv, ReviewTypes, TaskInv, Judging
<1>3. /\ at'[r] \in {"idle", "release"} /\ (at'[r] = "idle" <=> task'[r].proof = None)
      /\ at'[r] # "idle" => task'[r].proof = p
      /\ \A k \in Reviewers \ {r} : task'[k] = task[k] /\ at'[k] = at[k]
      /\ task' \in [Reviewers -> [proof : Proofs \cup {None}, listed : BOOLEAN,
                                  seen : {"none", "pending", "approved", "rejected"}]]
      /\ at' \in [Reviewers -> {"idle", "refuse", "review", "release", "pay", "paid"}]
  <2>1. CASE Leave(r)
    BY <2>1, NoTaskType DEF Leave, Goto, RevInv, ReviewTypes
  <2>2. CASE Goto(r, "release") /\ task' = [task EXCEPT ![r].seen = "none"]
    BY <1>2, <2>2, NoneIsNobody DEF Goto, RevInv, ReviewTypes
  <2> QED BY <2>1, <2>2 DEF RefuseByRule, CommitReview
<1>4. /\ \A q \in Proofs : SameClaim(proof[q], proof'[q])
      /\ \A q \in Proofs \ {p} : proof'[q] = proof[q] /\ verdict'[q] = verdict[q]
      /\ proof' \in [Proofs -> ProofRows] /\ verdict' \in [Proofs -> {"none", "approve", "reject"}]
      /\ verdict'[p] = decision
      /\ proof'[p].status = IF status = task[r].seen THEN proof[p].status ELSE status
  <2>1. /\ verdict' \in [Proofs -> {"none", "approve", "reject"}] /\ verdict'[p] = decision
        /\ \A q \in Proofs \ {p} : verdict'[q] = verdict[q]
    BY <1>1, <1>2 DEF RevInv, ReviewTypes
  <2>2. CASE status = task[r].seen
    BY <1>1, <2>1, <2>2 DEF RevInv, ReviewTypes, SameClaim
  <2>3. CASE status # task[r].seen
    <3> DEFINE n == [proof[p] EXCEPT !.status = status]
    <3>1. /\ proof[p] \in ProofRows /\ status \in {"approved", "rejected"}
      BY <1>2 DEF RevInv, ReviewTypes
    <3> HIDE DEF status
    <3>2. n \in ProofRows /\ SameClaim(proof[p], n) /\ n.status = status
      BY <3>1 DEF ProofRows, SameClaim
    <3>3. proof' = [proof EXCEPT ![p] = n]
      BY <1>1, <2>3
    <3> HIDE DEF n
    <3>4. proof'[p] = n /\ \A q \in Proofs \ {p} : proof'[q] = proof[q]
      BY <1>2, <3>3 DEF RevInv, ReviewTypes
    <3>5. proof' \in [Proofs -> ProofRows]
      BY <3>2, <3>3 DEF RevInv, ReviewTypes
    <3> QED BY <2>1, <2>3, <3>2, <3>4, <3>5 DEF SameClaim
  <2> QED BY <2>2, <2>3
<1>5. Claims
  BY <1>4 DEF Claims
<1>6. ReviewTypes'
  BY <1>1, <1>3, <1>4 DEF RevInv, ReviewTypes
<1>7. Submitted'
  BY <1>4, <1>5, SubmittedFrame DEF SameClaim
<1>8. TaskInv'
  <2>1. at'[r] # "idle" => proof'[task'[r].proof].kind # "none"
    BY <1>2, <1>3, <1>4 DEF SameClaim
  <2>2. ~Judging(r)'
    BY <1>3 DEF Judging
  <2> QED BY <1>1, <1>2, <1>3, <1>5, <2>1, <2>2, TaskFrame
<1>9. ReleaseInv' /\ CategoryWithinCap'
  BY <1>1, <1>3, <1>5, ReleaseFrame DEF RevInv, ReviewTypes
<1>10. VerdictInv'
  <2>1. \A k \in Reviewers : Judging(k)' => k # r /\ Judging(k) /\ task'[k] = task[k]
    BY <1>3 DEF Judging
  <2>2. \A q \in Proofs \ contested :
          proof'[q].kind = "quote" /\ proof'[q].status = "approved" => verdict'[q] = "approve"
    <3>1. ASSUME p \notin contested, proof'[p].status = "approved" PROVE decision = "approve"
      <4>1. proof[p].status = task[r].seen
        BY <1>1, <3>1 DEF RevInv, VerdictInv
      <4> QED BY <1>4, <3>1, <4>1
    <3> QED BY <1>4, <3>1 DEF RevInv, VerdictInv
  <2>3. \A k \in Reviewers : Judging(k)' /\ task'[k].proof \notin contested =>
          proof'[task'[k].proof].status = task'[k].seen
    <3>1. ASSUME NEW k \in Reviewers, Judging(k)', task'[k].proof \notin contested
          PROVE  proof'[task'[k].proof].status = task'[k].seen
      <4>1. k # r /\ Judging(k) /\ task'[k] = task[k]
        BY <2>1, <3>1
      <4>2. task[k].proof # p
        BY <1>1, <3>1, <4>1 DEF RevInv, VerdictInv
      <4>3. task[k].proof \in Proofs
        BY <4>1 DEF RevInv, ReviewTypes, TaskInv, Judging
      <4>4. proof'[task[k].proof] = proof[task[k].proof]
        BY <1>4, <4>2, <4>3
      <4> QED BY <3>1, <4>1, <4>4 DEF RevInv, VerdictInv
    <3> QED BY <3>1
  <2>4. \A j, k \in Reviewers :
          Judging(j)' /\ Judging(k)' /\ j # k /\ task'[j].proof = task'[k].proof =>
            task'[j].proof \in contested
    BY <2>1 DEF RevInv, VerdictInv
  <2> QED BY <1>1, <2>2, <2>3, <2>4 DEF VerdictInv
<1>11. AuditInv'
  BY <1>1, <1>5, AuditFrame
<1> QED BY <1>6, <1>7, <1>8, <1>9, <1>10, <1>11 DEF RevInv

LEMMA PaymentKeeps ==
  ASSUME RevInv, PaymentStep
  PROVE  RevInv'
<1>1. /\ UNCHANGED <<registered, allowlisted, proof, release_tx, verdict, c_status, c_raised,
                     c_released, row_lock, audit, paid, contested>>
      /\ \A h \in Reviewers : at'[h] = at[h] \/ (at[h] = "review" /\ at'[h] = "idle")
      /\ \A h \in Reviewers : task'[h] = IF at'[h] = "idle" THEN NoTask ELSE task[h]
      /\ at' \in [Reviewers -> {"idle", "refuse", "review", "release", "pay", "paid"}]
  BY DEF PaymentStep, vendors, proofs, campaign, RevInv, ReviewTypes
<1>2. Claims
  BY <1>1, SameRows
<1>3. task' \in [Reviewers -> [proof : Proofs \cup {None}, listed : BOOLEAN,
                               seen : {"none", "pending", "approved", "rejected"}]]
  <2>1. task' = [h \in Reviewers |-> IF at'[h] = "idle" THEN NoTask ELSE task[h]]
    BY DEF PaymentStep
  <2> QED BY <2>1, NoTaskType DEF RevInv, ReviewTypes
<1>4. ReviewTypes'
  BY <1>1, <1>3 DEF RevInv, ReviewTypes
<1>5. Submitted'
  BY <1>1, <1>2, SubmittedFrame
<1>6. \A h \in Reviewers : at'[h] # "idle" => at'[h] = at[h] /\ task'[h] = task[h]
  BY <1>1
<1>7. TaskInv'
  <2>1. ASSUME NEW h \in Reviewers
        PROVE  /\ row_lock' = h <=> at'[h] \in {"pay", "paid"}
               /\ at'[h] # "idle" <=> task'[h].proof # None
               /\ at'[h] # "idle" => proof'[task'[h].proof].kind # "none"
               /\ Judging(h)' => proof'[task'[h].proof].kind = "quote"
    <3>1. CASE at'[h] = "idle"
      BY <1>1, <3>1, NoTaskType DEF RevInv, TaskInv, Judging
    <3>2. CASE at'[h] # "idle"
      BY <1>1, <1>6, <3>2 DEF RevInv, TaskInv, Judging
    <3> QED BY <3>1, <3>2
  <2> QED BY <2>1 DEF TaskInv
<1>8. ReleaseInv' /\ CategoryWithinCap'
  BY <1>1, <1>2, <1>6, ReleaseFrame
<1>9. VerdictInv'
  BY <1>1, <1>2, <1>6, VerdictFrame DEF Judging
<1>10. AuditInv'
  BY <1>1, <1>2, AuditFrame
<1> QED BY <1>4, <1>5, <1>7, <1>8, <1>9, <1>10 DEF RevInv

-----------------------------------------------------------------------------
(* Releases. *)

(* Steps of one handler that judge nothing, release nothing and leave the  *)
(* rows alone: starting, giving up, being refused, and paying.             *)
LEMMA HandlerFrame ==
  ASSUME RevInv, NEW h \in Reviewers,
         UNCHANGED <<vendors, proofs, c_status, c_raised, c_released, audit, contested>>,
         paid \subseteq paid', paid' \subseteq Proofs,
         row_lock' \in {row_lock, None},
         \A k \in Reviewers \ {h} :
           at'[k] = at[k] /\ task'[k] = task[k] /\ (row_lock' = k <=> row_lock = k),
         row_lock' = h <=> at'[h] \in {"pay", "paid"},
         task' \in [Reviewers -> [proof : Proofs \cup {None}, listed : BOOLEAN,
                                  seen : {"none", "pending", "approved", "rejected"}]],
         at' \in [Reviewers -> {"idle", "refuse", "review", "release", "pay", "paid"}],
         ~Judging(h)', at'[h] # "idle" <=> task'[h].proof # None,
         at'[h] # "idle" => proof'[task'[h].proof].kind # "none",
         at'[h] \in {"pay", "paid"} =>
           /\ at[h] \in {"pay", "paid"} /\ task'[h].proof = task[h].proof
           /\ at'[h] = "paid" => at[h] = "paid" \/ task[h].proof \in paid'
  PROVE  RevInv'
<1>1. UNCHANGED <<registered, allowlisted, proof, release_tx, verdict>>
  BY DEF vendors, proofs
<1>2. Claims
  BY <1>1, SameRows
<1>3. ReviewTypes'
  BY <1>1 DEF RevInv, ReviewTypes
<1>4. Submitted' /\ AuditInv'
  BY <1>1, <1>2, SubmittedFrame, AuditFrame
<1>5. TaskInv'
  BY <1>2, TaskFrame
<1>6. ReleaseInv' /\ CategoryWithinCap'
  BY <1>1, <1>2, ReleaseFrame
<1>7. VerdictInv'
  BY <1>1, <1>2, VerdictFrame DEF Judging
<1> QED BY <1>3, <1>4, <1>5, <1>6, <1>7 DEF RevInv

LEMMA ReleaseStarts ==
  ASSUME RevInv, NEW h \in Reviewers, NEW p \in Proofs, StartRelease(h, p)
  PROVE  RevInv'
<1>1. /\ at[h] = "idle" /\ proof[p].kind # "none"
      /\ at' = [at EXCEPT ![h] = "release"] /\ task' = [task EXCEPT ![h] = Reads(p)]
      /\ UNCHANGED <<vendors, proofs, c_status, c_raised, c_released, row_lock, audit, paid, contested>>
  BY DEF StartRelease, Goto, campaign
<1>2. /\ Reads(p) \in [proof : Proofs \cup {None}, listed : BOOLEAN,
                       seen : {"none", "pending", "approved", "rejected"}]
      /\ Reads(p).proof = p
  BY DEF Reads
<1>3. /\ at'[h] = "release" /\ task'[h].proof = p /\ p # None /\ row_lock # h
      /\ \A k \in Reviewers \ {h} : at'[k] = at[k] /\ task'[k] = task[k]
      /\ task' \in [Reviewers -> [proof : Proofs \cup {None}, listed : BOOLEAN,
                                  seen : {"none", "pending", "approved", "rejected"}]]
      /\ at' \in [Reviewers -> {"idle", "refuse", "review", "release", "pay", "paid"}]
  BY <1>1, <1>2, NoneIsNobody DEF RevInv, ReviewTypes, TaskInv
<1>4. ~Judging(h)' /\ proof'[p].kind # "none" /\ paid \subseteq Proofs
  BY <1>1, <1>3 DEF Judging, proofs, RevInv, ReviewTypes
<1> QED BY <1>1, <1>3, <1>4, HandlerFrame

LEMMA Leaves ==
  ASSUME RevInv, NEW h \in Reviewers, Leave(h)
  PROVE  /\ at'[h] = "idle" /\ task'[h].proof = None /\ ~Judging(h)'
         /\ \A k \in Reviewers \ {h} : at'[k] = at[k] /\ task'[k] = task[k]
         /\ task' \in [Reviewers -> [proof : Proofs \cup {None}, listed : BOOLEAN,
                                     seen : {"none", "pending", "approved", "rejected"}]]
         /\ at' \in [Reviewers -> {"idle", "refuse", "review", "release", "pay", "paid"}]
BY NoTaskType DEF Leave, Goto, RevInv, ReviewTypes, Judging

LEMMA GivesUp ==
  ASSUME RevInv, NEW h \in Reviewers,
         GiveUp(h) \/ (LockRelease(h) /\ ~Releasable(h))
  PROVE  RevInv'
<1>1. /\ Leave(h) /\ row_lock' = IF row_lock = h THEN None ELSE row_lock
      /\ UNCHANGED <<vendors, proofs, c_status, c_raised, c_released, audit, paid, contested>>
  BY NoneIsNobody DEF GiveUp, LockRelease
<1>2. /\ row_lock' \in {row_lock, None} /\ row_lock' # h
      /\ \A k \in Reviewers \ {h} : row_lock' = k <=> row_lock = k
      /\ paid \subseteq Proofs
  BY <1>1, NoneIsNobody DEF RevInv, ReviewTypes
<1> QED BY <1>1, <1>2, Leaves, HandlerFrame

LEMMA SidecarKeeps ==
  ASSUME RevInv, NEW h \in Reviewers, SidecarPays(h)
  PROVE  RevInv'
<1>1. /\ at[h] = "pay" /\ at' = [at EXCEPT ![h] = "paid"] /\ paid' = paid \cup {task[h].proof}
      /\ UNCHANGED <<vendors, proofs, c_status, c_raised, c_released, row_lock, task, audit, contested>>
  BY DEF SidecarPays, Goto, campaign
<1>2. /\ task[h].proof \in Proofs /\ row_lock = h /\ task[h].proof # None
      /\ proof[task[h].proof].kind # "none" /\ paid' \subseteq Proofs
      /\ task \in [Reviewers -> [proof : Proofs \cup {None}, listed : BOOLEAN,
                                 seen : {"none", "pending", "approved", "rejected"}]]
  BY <1>1 DEF RevInv, ReviewTypes, TaskInv
<1>3. /\ at'[h] = "paid" /\ \A k \in Reviewers \ {h} : at'[k] = at[k]
      /\ at' \in [Reviewers -> {"idle", "refuse", "review", "release", "pay", "paid"}]
  BY <1>1 DEF RevInv, ReviewTypes
<1>4. ~Judging(h)' /\ UNCHANGED proof
  BY <1>1, <1>3 DEF Judging, proofs
<1> QED BY <1>1, <1>2, <1>3, <1>4, HandlerFrame

LEMMA KeepsRules ==
  ASSUME ReviewTypes, NEW p \in Proofs, Broken(p) = {}
  PROVE  Fits(p)
<1> DEFINE category == Category[proof[p].vendor]
           rules == {"undeclared", "category", "unitPrice", "sumTotal"}
           broken == [undeclared |-> ~Declared(proof[p].items, proof[p].amount),
                      category   |-> Foreign(Terms, Home, category),
                      unitPrice  |-> /\ ~Foreign(Terms, Home, category) /\ MaxUnitPrice(Terms, category) # NoLimit
                                     /\ \E k \in DOMAIN proof[p].items :
                                          proof[p].items[k].unit_price
                                            > Scaled(MaxUnitPrice(Terms, category), Terms, Goal, c_raised),
                      sumTotal   |-> /\ ~Foreign(Terms, Home, category) /\ MaxTotal(Terms, category) # NoLimit
                                     /\ ReleasedIn(category) + proof[p].amount
                                          > Scaled(MaxTotal(Terms, category), Terms, Goal, c_raised)]
<1>1. {rule \in DOMAIN broken : broken[rule]} = {}
  BY DEF Broken, Violations
<1>2. ~broken["category"] /\ ~broken["sumTotal"]
  BY <1>1
<1>3. ASSUME MaxTotal(Terms, category) # NoLimit
      PROVE  ~(ReleasedIn(category) + proof[p].amount
                 > Scaled(MaxTotal(Terms, category), Terms, Goal, c_raised))
  BY <1>2, <1>3
<1>4. /\ ReleasedIn(category) \in Nat /\ proof[p].amount \in Nat
      /\ MaxTotal(Terms, category) # NoLimit =>
           Scaled(MaxTotal(Terms, category), Terms, Goal, c_raised) \in Nat
  <2>1. ReleasedIn(category) \in Nat
    BY ReleasedType
  <2>2. proof[p].amount \in Nat /\ c_raised \in Nat
    BY DEF ReviewTypes, ProofRows
  <2>3. MaxTotal(Terms, category) # NoLimit => MaxTotal(Terms, category) \in Nat
    BY MaxTotalType
  <2>4. ASSUME NEW limit \in Nat PROVE Scaled(limit, Terms, Goal, c_raised) \in Nat
    <3>1. c_raised <= c_raised
      BY <2>2
    <3> QED BY <2>2, <3>1, ScaledGrows
  <2> QED BY <2>1, <2>2, <2>3, <2>4
<1> QED BY <1>3, <1>4 DEF Fits

LEMMA LockKeeps ==
  ASSUME RevInv, NEW h \in Reviewers, LockRelease(h), Releasable(h)
  PROVE  RevInv'
<1> DEFINE p == task[h].proof
<1>1. /\ at[h] = "release" /\ row_lock = None /\ row_lock' = h
      /\ at' = [at EXCEPT ![h] = "pay"]
      /\ UNCHANGED <<registered, allowlisted, proof, release_tx, verdict, c_status, c_raised, c_released,
                     task, audit, paid, contested>>
  BY DEF LockRelease, TakeLock, Goto, vendors, proofs
<1>2. /\ p \in Proofs /\ p # None /\ proof[p].kind = "quote" /\ p \notin release_tx
      /\ proof[p].amount <= c_raised - c_released /\ Broken(p) = {}
  BY <1>1 DEF Releasable, RevInv, ReviewTypes, TaskInv
<1>3. /\ at'[h] = "pay" /\ \A k \in Reviewers \ {h} : at'[k] = at[k] /\ at[k] \notin {"pay", "paid"}
      /\ at' \in [Reviewers -> {"idle", "refuse", "review", "release", "pay", "paid"}]
  BY <1>1, NoneIsNobody DEF RevInv, ReviewTypes, TaskInv
<1>4. Claims
  BY <1>1, SameRows
<1>5. ReviewTypes'
  BY <1>1, <1>3 DEF RevInv, ReviewTypes
<1>6. Submitted' /\ AuditInv'
  BY <1>1, <1>4, SubmittedFrame, AuditFrame
<1>7. TaskInv'
  <2>1. ~Judging(h)'
    BY <1>3 DEF Judging
  <2>2. \A k \in Reviewers \ {h} : row_lock' = k <=> row_lock = k
    BY <1>1, NoneIsNobody
  <2> QED BY <1>1, <1>2, <1>3, <1>4, <2>1, <2>2, TaskFrame
<1>8. VerdictInv'
  BY <1>1, <1>3, <1>4, VerdictFrame DEF Judging
<1>9. ReleaseInv' /\ CategoryWithinCap'
  <2>1. /\ Amounts' = Amounts /\ \A c : InCategory(c)' = InCategory(c)
        /\ \A c : ReleasedIn(c)' = ReleasedIn(c)
    BY <1>1 DEF Amounts, InCategory, ReleasedIn
  <2>2. Fits(p)
    BY <1>2, KeepsRules DEF RevInv
  <2>3. Checked(h)'
    <3>1. Fits(task[h].proof)'
      BY <1>1, <2>1, <2>2 DEF Fits
    <3>2. c_released + proof[p].amount <= c_raised
      <4>1. proof[p].amount \in Nat /\ c_released \in Nat /\ c_raised \in Nat
        BY <1>2 DEF RevInv, ReviewTypes, ProofRows
      <4> QED BY <1>2, <4>1
    <3> QED BY <1>1, <1>2, <1>3, <3>1, <3>2 DEF Checked
  <2>4. \A k \in Reviewers : Checked(k)'
    BY <1>3, <2>3 DEF Checked
  <2>5. ReleaseInv'
    BY <1>1, <2>1, <2>4 DEF RevInv, ReleaseInv
  <2>6. CategoryWithinCap'
    BY <1>1, <2>1 DEF RevInv, CategoryWithinCap
  <2> QED BY <2>5, <2>6
<1> QED BY <1>5, <1>6, <1>7, <1>8, <1>9 DEF RevInv

LEMMA CommitKeeps ==
  ASSUME RevInv, NEW h \in Reviewers, CommitRelease(h)
  PROVE  RevInv'
<1> DEFINE p == task[h].proof
<1>1. /\ at[h] = "paid" /\ Leave(h) /\ release_tx' = release_tx \cup {p}
      /\ c_released' = c_released + proof[p].amount /\ c_status' \in {"Closed", "Executing"}
      /\ row_lock' = None
      /\ UNCHANGED <<registered, allowlisted, c_raised, proof, verdict, audit, paid, contested>>
  BY DEF CommitRelease, vendors
<1>2. /\ p \in Proofs /\ row_lock = h /\ p \notin release_tx /\ proof[p].kind = "quote"
      /\ c_released + proof[p].amount <= c_raised /\ Fits(p) /\ p \in paid /\ proof[p].amount \in Nat
      /\ proof[p].vendor \in Vendors
  BY <1>1 DEF RevInv, ReviewTypes, TaskInv, Submitted, ReleaseInv, Checked, ProofRows
<1>3. /\ at'[h] = "idle" /\ task'[h].proof = None /\ ~Judging(h)'
      /\ \A k \in Reviewers \ {h} : at'[k] = at[k] /\ task'[k] = task[k]
      /\ task' \in [Reviewers -> [proof : Proofs \cup {None}, listed : BOOLEAN,
                                  seen : {"none", "pending", "approved", "rejected"}]]
      /\ at' \in [Reviewers -> {"idle", "refuse", "review", "release", "pay", "paid"}]
  BY <1>1, Leaves
<1>4. \A k \in Reviewers : at'[k] \notin {"pay", "paid"}
  BY <1>2, <1>3 DEF RevInv, TaskInv
<1>5. Claims
  BY <1>1, SameRows
<1>6. ReviewTypes'
  BY <1>1, <1>2, <1>3 DEF RevInv, ReviewTypes
<1>7. Submitted' /\ AuditInv'
  BY <1>1, <1>5, SubmittedFrame, AuditFrame
<1>8. TaskInv'
  <2>1. row_lock' # h /\ \A k \in Reviewers \ {h} : row_lock' = k <=> row_lock = k
    BY <1>1, <1>2, NoneIsNobody
  <2> QED BY <1>3, <1>5, <2>1, TaskFrame
<1>9. VerdictInv'
  BY <1>1, <1>3, <1>5, VerdictFrame DEF Judging
<1>10. Amounts' = Amounts
  BY <1>1 DEF Amounts
(* One more quote counts, where it counts. *)
<1>11. ASSUME NEW T \in SUBSET release_tx
       PROVE  SumOver(Amounts, T \cup {p}) = SumOver(Amounts, T) + proof[p].amount
  <2>1. /\ T \subseteq Proofs /\ {p} \subseteq Proofs /\ T \cap {p} = {}
        /\ Amounts[p] = proof[p].amount /\ \A q \in T \cup {p} : Amounts[q] \in Nat
    BY <1>2, ReleasedType DEF RevInv, ReviewTypes
  <2>2. IsFiniteSet(T) /\ IsFiniteSet({p})
    BY <2>1, FS_Subset
  <2>3. SumOver(Amounts, {p}) = Amounts[p]
    BY <2>1, SumSingle
  <2> QED BY <2>1, <2>2, <2>3, SumDisjoint
<1>12. ReleaseInv'
  <2>1. c_released' = SumOver(Amounts', release_tx') /\ c_released' <= c_raised'
    BY <1>1, <1>2, <1>10, <1>11 DEF RevInv, ReleaseInv
  <2>2. \A k \in Reviewers : Checked(k)'
    BY <1>4 DEF Checked
  <2> QED BY <1>1, <1>2, <2>1, <2>2 DEF RevInv, ReleaseInv
<1>13. CategoryWithinCap'
  <2> SUFFICES ASSUME NEW v \in Vendors, MaxTotal(Terms, Category[v]) # NoLimit
               PROVE  SumOver(Amounts, {q \in release_tx' : Category[proof[q].vendor] = Category[v]})
                        <= Scaled(MaxTotal(Terms, Category[v]), Terms, Goal, c_raised)
    BY <1>1, <1>10 DEF CategoryWithinCap
  <2> DEFINE T == {q \in release_tx : Category[proof[q].vendor] = Category[v]}
             U == {q \in release_tx' : Category[proof[q].vendor] = Category[v]}
  <2>1. SumOver(Amounts, T) <= Scaled(MaxTotal(Terms, Category[v]), Terms, Goal, c_raised)
    BY DEF RevInv, CategoryWithinCap
  <2>2. CASE Category[proof[p].vendor] # Category[v]
    <3>1. U = T
      BY <1>1, <2>2
    <3> QED BY <2>1, <3>1
  <2>3. CASE Category[proof[p].vendor] = Category[v]
    <3>1. U = T \cup {p} /\ T \subseteq release_tx
      BY <1>1, <2>3
    <3>2. T = InCategory(Category[v]) \cap release_tx
      BY DEF InCategory, RevInv, ReleaseInv, ReviewTypes
    <3>3. SumOver(Amounts, T) + proof[p].amount <= Scaled(MaxTotal(Terms, Category[v]), Terms, Goal, c_raised)
      BY <1>2, <2>3, <3>2 DEF Fits, ReleasedIn
    <3> QED BY <1>11, <3>1, <3>3
  <2> QED BY <2>2, <2>3
<1> QED BY <1>6, <1>7, <1>8, <1>9, <1>12, <1>13 DEF RevInv

-----------------------------------------------------------------------------
(* Audits. *)

LEMMA NoAuditType ==
  NoAudit \in [at : {"idle", "found", "looked"}, released : SUBSET Proofs,
               block : SUBSET (Vendors \cup {None}), approve : SUBSET Proofs, listed : SUBSET Vendors]
BY DEF NoAudit

(* Steps of audits move no handler, no money and no verdict. *)
LEMMA AuditorFrame ==
  ASSUME RevInv, Claims, UNCHANGED <<registered, release_tx, verdict, campaign, handlers, paid, contested>>,
         allowlisted' \subseteq allowlisted, proof' \in [Proofs -> ProofRows],
         \A p \in Proofs : SameClaim(proof[p], proof'[p]),
         \A p \in Proofs : proof[p].kind = "quote" => proof'[p] = proof[p],
         audit' \in [Auditors -> [at : {"idle", "found", "looked"}, released : SUBSET Proofs,
                                  block : SUBSET (Vendors \cup {None}), approve : SUBSET Proofs,
                                  listed : SUBSET Vendors]],
         AuditInv'
  PROVE  RevInv'
<1>1. ReviewTypes'
  BY DEF RevInv, ReviewTypes, campaign, handlers
<1>2. Submitted'
  BY SubmittedFrame DEF SameClaim
<1>3. TaskInv' /\ ReleaseInv' /\ CategoryWithinCap'
  BY TaskStays, ReleaseFrame DEF campaign, handlers, RevInv, ReviewTypes
<1>4. VerdictInv'
  <2>1. \A p \in Proofs : proof'[p].kind = "quote" =>
          proof'[p].status = proof[p].status /\ proof[p].kind = "quote"
    BY DEF SameClaim
  <2> QED BY <2>1, VerdictFrame DEF handlers, Judging
<1> QED BY <1>1, <1>2, <1>3, <1>4 DEF RevInv

LEMMA AuditStarts ==
  ASSUME RevInv, NEW a \in Auditors, StartAudit(a)
  PROVE  RevInv'
<1> DEFINE backed == {q \in release_tx : ReceiptsFor(q) # {}}
<1>1. PICK pick \in [backed -> Proofs] :
        /\ \A q \in backed : pick[q] \in ReceiptsFor(q)
        /\ audit' = [audit EXCEPT ![a] =
             [at |-> "found", released |-> release_tx,
              block |-> {proof[q].vendor : q \in release_tx \ backed},
              approve |-> {r \in {pick[q] : q \in backed} : proof[r].status = "pending"},
              listed |-> {}]]
  BY DEF StartAudit
<1> DEFINE found == [at |-> "found", released |-> release_tx,
                     block |-> {proof[q].vendor : q \in release_tx \ backed},
                     approve |-> {r \in {pick[q] : q \in backed} : proof[r].status = "pending"},
                     listed |-> {}]
<1>2. UNCHANGED <<registered, allowlisted, proof, release_tx, verdict, campaign, handlers, paid, contested>>
  BY DEF StartAudit, vendors, proofs
<1>3. /\ found \in [at : {"idle", "found", "looked"}, released : SUBSET Proofs,
                    block : SUBSET (Vendors \cup {None}), approve : SUBSET Proofs, listed : SUBSET Vendors]
      /\ \A q \in found.released : /\ proof[q].kind = "quote"
                                   /\ proof[q].vendor \in found.block \/ ReceiptsFor(q) # {}
      /\ \A r \in found.approve : proof[r].kind = "receipt"
  <2>1. /\ release_tx \subseteq Proofs
        /\ \A q \in release_tx : proof[q].kind = "quote" /\ proof[q].vendor \in Vendors \cup {None}
    BY DEF RevInv, ReviewTypes, ReleaseInv, ProofRows
  <2>2. \A q \in release_tx \ backed : proof[q].vendor \in found.block
    OBVIOUS
  <2>3. \A r \in found.approve : r \in Proofs /\ proof[r].kind = "receipt"
    BY <1>1 DEF ReceiptsFor
  <2>4. /\ found.released = release_tx /\ found.at = "found" /\ found.listed = {}
        /\ found.block \subseteq Vendors \cup {None}
    BY <2>1
  <2> QED BY <2>1, <2>2, <2>3, <2>4
<1>4. audit' = [audit EXCEPT ![a] = found]
  BY <1>1
<1> HIDE DEF found
<1>5. audit' \in [Auditors -> [at : {"idle", "found", "looked"}, released : SUBSET Proofs,
                               block : SUBSET (Vendors \cup {None}), approve : SUBSET Proofs,
                               listed : SUBSET Vendors]]
  BY <1>3, <1>4 DEF RevInv, ReviewTypes
<1>6. AuditInv'
  <2>1. audit'[a] = found /\ \A b \in Auditors \ {a} : audit'[b] = audit[b]
    BY <1>4 DEF RevInv, ReviewTypes
  <2>2. \A q : ReceiptsFor(q)' = ReceiptsFor(q)
    BY <1>2 DEF ReceiptsFor
  <2> QED BY <1>2, <1>3, <2>1, <2>2 DEF RevInv, AuditInv
<1>7. /\ \A p \in Proofs : SameClaim(proof[p], proof'[p]) /\ proof'[p] = proof[p]
      /\ proof' \in [Proofs -> ProofRows]
  BY <1>2 DEF SameClaim, RevInv, ReviewTypes
<1> QED BY <1>2, <1>5, <1>6, <1>7, SameRows, AuditorFrame

LEMMA AuditLooks ==
  ASSUME RevInv, NEW a \in Auditors, LookUpVendors(a)
  PROVE  RevInv'
<1>1. /\ UNCHANGED <<registered, allowlisted, proof, release_tx, verdict, campaign, handlers, paid, contested>>
      /\ audit' = [audit EXCEPT ![a] = [audit[a] EXCEPT !.at = "looked", !.listed = allowlisted]]
  BY DEF LookUpVendors, vendors, proofs, RevInv, ReviewTypes
<1> DEFINE new == [audit[a] EXCEPT !.at = "looked", !.listed = allowlisted]
<1>2. /\ new \in [at : {"idle", "found", "looked"}, released : SUBSET Proofs,
                  block : SUBSET (Vendors \cup {None}), approve : SUBSET Proofs, listed : SUBSET Vendors]
      /\ new.released = audit[a].released /\ new.block = audit[a].block /\ new.approve = audit[a].approve
  <2>1. audit[a] \in [at : {"idle", "found", "looked"}, released : SUBSET Proofs,
                       block : SUBSET (Vendors \cup {None}), approve : SUBSET Proofs,
                       listed : SUBSET Vendors]
    BY DEF RevInv, ReviewTypes
  <2>2. allowlisted \in SUBSET Vendors
    BY DEF RevInv, ReviewTypes
  <2> QED BY <2>1, <2>2
<1> HIDE DEF new
<1>3. /\ audit' = [audit EXCEPT ![a] = new] /\ audit'[a] = new
      /\ \A b \in Auditors \ {a} : audit'[b] = audit[b]
      /\ audit' \in [Auditors -> [at : {"idle", "found", "looked"}, released : SUBSET Proofs,
                                  block : SUBSET (Vendors \cup {None}), approve : SUBSET Proofs,
                                  listed : SUBSET Vendors]]
  BY <1>1, <1>2 DEF RevInv, ReviewTypes, new
<1>4. AuditInv'
  BY <1>1, <1>2, <1>3, SameRows, AuditFrame
<1>5. /\ \A p \in Proofs : SameClaim(proof[p], proof'[p]) /\ proof'[p] = proof[p]
      /\ proof' \in [Proofs -> ProofRows]
  BY <1>1 DEF SameClaim, RevInv, ReviewTypes
<1> QED BY <1>1, <1>3, <1>4, <1>5, SameRows, AuditorFrame

LEMMA AuditCommits ==
  ASSUME RevInv, NEW a \in Auditors, CommitAudit(a)
  PROVE  RevInv'
<1>1. /\ UNCHANGED <<registered, release_tx, verdict, campaign, handlers, paid, contested>>
      /\ allowlisted' \subseteq allowlisted
      /\ audit' = [audit EXCEPT ![a] = NoAudit]
      /\ proof' = [p \in Proofs |-> IF p \in audit[a].approve
                                    THEN [proof[p] EXCEPT !.status = "approved"] ELSE proof[p]]
  BY DEF CommitAudit
<1>2. ASSUME NEW p \in Proofs
      PROVE  /\ proof'[p] \in ProofRows /\ SameClaim(proof[p], proof'[p])
             /\ proof[p].kind = "quote" => proof'[p] = proof[p]
  <2>1. proof[p] \in ProofRows
    BY DEF RevInv, ReviewTypes
  <2>2. CASE p \notin audit[a].approve
    <3>1. proof'[p] = proof[p]
      BY <1>1, <2>2
    <3> QED BY <2>1, <3>1 DEF SameClaim
  <2>3. CASE p \in audit[a].approve
    <3>1. proof[p].kind = "receipt"
      BY <2>3 DEF RevInv, AuditInv
    <3>2. proof'[p] = [proof[p] EXCEPT !.status = "approved"]
      BY <1>1, <2>3
    <3> QED BY <2>1, <3>1, <3>2 DEF ProofRows, SameClaim
  <2> QED BY <2>2, <2>3
<1>3. Claims /\ proof' \in [Proofs -> ProofRows]
  <2>1. proof' \in [Proofs -> ProofRows]
    BY <1>1, <1>2
  <2> QED BY <1>2, <2>1 DEF Claims
<1>4. /\ audit'[a] = NoAudit /\ \A b \in Auditors \ {a} : audit'[b] = audit[b]
      /\ audit' \in [Auditors -> [at : {"idle", "found", "looked"}, released : SUBSET Proofs,
                                  block : SUBSET (Vendors \cup {None}), approve : SUBSET Proofs,
                                  listed : SUBSET Vendors]]
  BY <1>1, NoAuditType DEF RevInv, ReviewTypes
<1>5. AuditInv'
  BY <1>3, <1>4, AuditFrame
<1>6. \A p \in Proofs : /\ SameClaim(proof[p], proof'[p])
                        /\ proof[p].kind = "quote" => proof'[p] = proof[p]
  BY <1>2
<1>7. UNCHANGED <<registered, release_tx, verdict, campaign, handlers, paid, contested>>
  BY <1>1
<1> QED BY <1>1, <1>3, <1>4, <1>5, <1>6, <1>7, AuditorFrame

-----------------------------------------------------------------------------
(* Together. *)

LEMMA RevStart == ReviewInit => RevInv
<1> SUFFICES ASSUME ReviewInit PROVE RevInv
  OBVIOUS
<1>1. /\ \A p \in Proofs : proof[p] = NoProof
      /\ \A h \in Reviewers : at[h] = "idle" /\ task[h] = NoTask
      /\ \A a \in Auditors : audit[a] = NoAudit
      /\ release_tx = {} /\ paid = {} /\ row_lock = None
      /\ c_raised = Goal /\ c_released = 0
  BY DEF ReviewInit
<1>2. NoProof \in ProofRows /\ NoProof.kind = "none"
  BY DEF NoProof, ProofRows
<1>3. ReviewTypes
  BY <1>2, NoTaskType, NoAuditType DEF ReviewInit, ReviewTypes
<1>4. Submitted /\ TaskInv /\ VerdictInv
  BY <1>1, <1>2, NoTaskType, NoneIsNobody DEF Submitted, TaskInv, VerdictInv, Judging
<1>5. AuditInv
  BY <1>1 DEF AuditInv, NoAudit
<1>6. SumOver(Amounts, {}) = 0
  BY SumEmpty
<1>7. ReleaseInv
  BY <1>1, <1>6 DEF ReleaseInv, Checked
<1>8. CategoryWithinCap
  <2> SUFFICES ASSUME NEW v \in Vendors, MaxTotal(Terms, Category[v]) # NoLimit
               PROVE  SumOver(Amounts, {p \in release_tx : Category[proof[p].vendor] = Category[v]})
                        <= Scaled(MaxTotal(Terms, Category[v]), Terms, Goal, c_raised)
    BY DEF CategoryWithinCap
  <2>1. {p \in release_tx : Category[proof[p].vendor] = Category[v]} = {}
    BY <1>1
  <2>2. MaxTotal(Terms, Category[v]) \in Nat /\ Goal <= Goal /\ c_raised = Goal
    BY <1>1, MaxTotalType
  <2>3. Scaled(MaxTotal(Terms, Category[v]), Terms, Goal, Goal) \in Nat
    BY <2>2, ScaledGrows
  <2> QED BY <1>6, <2>1, <2>2, <2>3
<1> QED BY <1>3, <1>4, <1>5, <1>7, <1>8 DEF RevInv

LEMMA RevStep ==
  ASSUME RevInv, [ReviewNext]_review
  PROVE  RevInv'
<1>1. ASSUME NEW v \in Vendors,
             \/ RegisterVendor(v) \/ AddToAllowlist(v) \/ RemoveFromAllowlist(v)
             \/ \E p \in Proofs, items \in Baskets, total \in 0 .. Pledged + 1 :
                  SubmitQuote(p, v, items, total) \/ SubmitReceipt(p, v, items, total)
      PROVE  RevInv'
  BY <1>1, VendorKeeps, SubmitKeeps
<1>2. CASE FundingSucceeds \/ PaymentRecorded
  BY <1>2, CampaignKeeps
<1>3. CASE PaymentStep
  BY <1>3, PaymentKeeps
<1>4. ASSUME NEW r \in Reviewers, NEW p \in Proofs, StartReview(r, p) \/ StartRelease(r, p) PROVE RevInv'
  BY <1>4, ReviewStarts, ReleaseStarts
<1>5. ASSUME NEW r \in Reviewers, RefuseByRule(r) \/ CommitReview(r, "approve") \/ CommitReview(r, "reject")
      PROVE  RevInv'
  BY <1>5, Judges
<1>6. ASSUME NEW h \in Reviewers, LockRelease(h) \/ SidecarPays(h) \/ CommitRelease(h) \/ GiveUp(h)
      PROVE  RevInv'
  BY <1>6, LockKeeps, GivesUp, SidecarKeeps, CommitKeeps
<1>7. ASSUME NEW a \in Auditors, StartAudit(a) \/ LookUpVendors(a) \/ CommitAudit(a) PROVE RevInv'
  BY <1>7, AuditStarts, AuditLooks, AuditCommits
<1>8. CASE UNCHANGED review
  <2>1. /\ UNCHANGED <<registered, allowlisted, proof, release_tx, verdict, campaign,
                        handlers, audit, paid, contested>>
        /\ UNCHANGED <<c_released, c_raised, at, task, row_lock>>
    BY <1>8 DEF review, vendors, proofs, campaign, handlers
  <2>2. Claims /\ \A p \in Proofs : SameClaim(proof[p], proof'[p]) /\ proof'[p] = proof[p]
    BY <2>1 DEF Claims, SameClaim
  <2>3. AuditInv'
    BY <2>1, <2>2, AuditFrame
  <2>4. /\ allowlisted' \subseteq allowlisted /\ proof' \in [Proofs -> ProofRows]
        /\ audit' \in [Auditors -> [at : {"idle", "found", "looked"}, released : SUBSET Proofs,
                                    block : SUBSET (Vendors \cup {None}), approve : SUBSET Proofs,
                                    listed : SUBSET Vendors]]
    BY <2>1 DEF RevInv, ReviewTypes
  <2> QED BY <2>1, <2>2, <2>3, <2>4, AuditorFrame
<1> QED BY <1>1, <1>2, <1>3, <1>4, <1>5, <1>6, <1>7, <1>8 DEF ReviewNext, VendorStep

(* Every behaviour of the pipeline keeps what is released within the caps, *)
(* the totals true to the rows, the log true to the status, and what an    *)
(* audit found true of the vendors it is about to block.                   *)
THEOREM ReviewInductive == ReviewSpec => []RevInv
<1>1. RevInv /\ [ReviewNext]_review => RevInv'
  BY RevStep
<1> QED BY RevStart, <1>1, PTL DEF ReviewSpec

(* Rows and slots keep their shapes, and the lock is held by exactly the   *)
(* handler between its check and its commit.                               *)
THEOREM ReviewShapes == ReviewSpec => []ReviewTypeOK
<1>1. RevInv => ReviewTypeOK
  BY DEF RevInv, ReviewTypes, ProofRows, Submitted, TaskInv, ReviewTypeOK
<1> QED BY <1>1, ReviewInductive, PTL

(* What is released in a category stays within its cap, for every policy,  *)
(* however reviews and releases overlap and late payments widen the caps.  *)
THEOREM ReviewCategoryWithinCap == ReviewSpec => []CategoryWithinCap
<1>1. RevInv => CategoryWithinCap
  BY DEF RevInv
<1> QED BY <1>1, ReviewInductive, PTL

(* released_amount is the sum of the released quotes, which the escrow did *)
(* pay, and fits what was raised.                                          *)
THEOREM ReviewReleasesAgree == ReviewSpec => []ReleasesAgree
<1>1. RevInv => ReleasesAgree
  BY DEF RevInv, ReleaseInv, ReleasesAgree
<1> QED BY <1>1, ReviewInductive, PTL

(* A quote is paid only if its vendor was allowlisted when the handler     *)
(* began and the last decision about it approves, unless it was contested. *)
THEOREM ReviewPaysOnVerdict == ReviewSpec => PaidOnStandingVerdict
<1>1. ASSUME RevInv, [ReviewNext]_review, NEW h \in Reviewers, at[h] = "release", at'[h] = "pay"
      PROVE  /\ task[h].listed
             /\ verdict[task[h].proof] = "approve" \/ task[h].proof \in contested
  <2>1. LockRelease(h) /\ Releasable(h)
    <3>1. at' # at /\ at \in [Reviewers -> {"idle", "refuse", "review", "release", "pay", "paid"}]
      BY <1>1 DEF RevInv, ReviewTypes
    <3>2. ~UNCHANGED handlers
      BY <3>1 DEF handlers
    <3>3. ~(VendorStep \/ FundingSucceeds \/ PaymentRecorded)
      BY <3>2 DEF VendorStep, RegisterVendor, AddToAllowlist, RemoveFromAllowlist, SubmitQuote,
                  SubmitReceipt, Insert, FundingSucceeds, PaymentRecorded
    <3>4. ~PaymentStep
      BY <1>1 DEF PaymentStep
    <3>5. ~\E r \in Reviewers, p \in Proofs : StartReview(r, p) \/ StartRelease(r, p)
      BY <1>1, <3>1 DEF StartReview, StartRelease, Goto
    <3>6. ~\E r \in Reviewers : \/ RefuseByRule(r) \/ CommitReview(r, "approve") \/ CommitReview(r, "reject")
                                \/ SidecarPays(r) \/ CommitRelease(r) \/ GiveUp(r)
      BY <1>1, <3>1 DEF RefuseByRule, CommitReview, SidecarPays, CommitRelease, GiveUp, Leave, Goto
    <3>7. ~\E a \in Auditors : StartAudit(a) \/ LookUpVendors(a) \/ CommitAudit(a)
      BY <3>2 DEF StartAudit, LookUpVendors, CommitAudit
    <3>8. ~UNCHANGED review
      BY <3>2 DEF review
    <3>9. PICK k \in Reviewers : LockRelease(k)
      BY <1>1, <3>3, <3>4, <3>5, <3>6, <3>7, <3>8 DEF ReviewNext
    <3>10. k = h /\ Releasable(k)
      BY <1>1, <3>1, <3>9 DEF LockRelease, Leave, Goto
    <3> QED BY <3>9, <3>10
  <2>2. task[h].listed /\ proof[task[h].proof].status = "approved" /\ proof[task[h].proof].kind = "quote"
    BY <2>1 DEF Releasable, StatusSeen
  <2>3. task[h].proof \in Proofs
    BY <1>1 DEF RevInv, ReviewTypes, TaskInv
  <2> QED BY <1>1, <2>2, <2>3 DEF RevInv, VerdictInv
<1>2. RevInv /\ [ReviewNext]_review =>
        [\A h \in Reviewers :
           at[h] = "release" /\ at'[h] = "pay" =>
             /\ task[h].listed
             /\ verdict[task[h].proof] = "approve" \/ task[h].proof \in contested]_review
  BY <1>1
<1> QED BY <1>2, ReviewInductive, PTL DEF ReviewSpec, PaidOnStandingVerdict

(* When an audit commits, a vendor it found allowlisted that was paid for  *)
(* a quote and submitted no receipt of that amount is off the allowlist.   *)
THEOREM ReviewAuditBlocks == ReviewSpec => AuditBlocks
<1>1. ASSUME RevInv, [ReviewNext]_review, NEW a \in Auditors,
             audit[a].at = "looked", audit'[a].at = "idle",
             NEW q \in audit[a].released, proof[q].vendor \in audit[a].listed,
             \A r \in Proofs : proof[r].kind = "receipt" /\ proof[r].vendor = proof[q].vendor
                               => proof[r].amount # proof[q].amount
      PROVE  proof[q].vendor \notin allowlisted'
  <2>1. CommitAudit(a)
    <3>1. audit' # audit /\ audit' # [audit EXCEPT ![a] = audit[a]]
      BY <1>1 DEF RevInv, ReviewTypes
    <3>2. ~(VendorStep \/ FundingSucceeds \/ PaymentRecorded \/ PaymentStep \/ UNCHANGED review)
      BY <3>1 DEF VendorStep, RegisterVendor, AddToAllowlist, RemoveFromAllowlist, SubmitQuote,
                  SubmitReceipt, Insert, FundingSucceeds, PaymentRecorded, PaymentStep, review
    <3>3. ~\E r \in Reviewers : \/ \E p \in Proofs : StartReview(r, p) \/ StartRelease(r, p)
                                \/ RefuseByRule(r) \/ CommitReview(r, "approve") \/ CommitReview(r, "reject")
                                \/ LockRelease(r) \/ SidecarPays(r) \/ CommitRelease(r) \/ GiveUp(r)
      BY <3>1 DEF StartReview, StartRelease, RefuseByRule, CommitReview, LockRelease, SidecarPays,
                  CommitRelease, GiveUp
    <3>4. PICK b \in Auditors : StartAudit(b) \/ LookUpVendors(b) \/ CommitAudit(b)
      BY <1>1, <3>2, <3>3 DEF ReviewNext
    <3>5. b = a
      BY <1>1, <3>4 DEF StartAudit, LookUpVendors, CommitAudit, RevInv, ReviewTypes
    <3>6. ~StartAudit(a) /\ ~LookUpVendors(a)
      BY <1>1 DEF StartAudit, LookUpVendors, RevInv, ReviewTypes
    <3> QED BY <3>4, <3>5, <3>6
  <2>2. ReceiptsFor(q) = {}
    BY <1>1 DEF ReceiptsFor
  <2>3. proof[q].vendor \in audit[a].block
    BY <1>1, <2>2 DEF RevInv, AuditInv
  <2> QED BY <1>1, <2>1, <2>3 DEF CommitAudit
<1>2. RevInv /\ [ReviewNext]_review =>
        [\A a \in Auditors : audit[a].at = "looked" /\ audit'[a].at = "idle" =>
           \A q \in audit[a].released :
             /\ proof[q].vendor \in audit[a].listed
             /\ \A r \in Proofs : proof[r].kind = "receipt" /\ proof[r].vendor = proof[q].vendor
                                  => proof[r].amount # proof[q].amount
             => proof[q].vendor \notin allowlisted']_review
  BY <1>1
<1> QED BY <1>2, ReviewInductive, PTL DEF ReviewSpec, AuditBlocks

(* The pipeline keeps the promises of the rails: what receipts count of a  *)
(* channel, what paid rows say of transfers, and by how much reviews and   *)
(* payments no check can see may exceed the budget.                        *)
THEOREM ReviewKeepsTheBill ==
  ReviewSpec => [](RailsTypeOK /\ ReceiptsCover /\ PaidIsTransferred /\ OverrunBounded)
BY ReviewPaysByRails, RailsTypes, RailsReceiptsCover, RailsPaidIsTransferred, RailsOverrunBounded, PTL
=============================================================================
