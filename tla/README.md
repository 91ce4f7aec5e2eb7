# Chongdae: models, checks and proofs

The system runs group-buying campaigns. Fans pay USDC into an escrow on Solana; an AI agent
reviews the organiser's quotes and pays vendors from the escrow; a campaign that misses its goal
is paid back. Three processes share the work and fail separately:

    API (FastAPI, src/api)  --HTTP, 60 s timeout-->  sidecar (Hono, src/chain-svc)  --RPC-->  Solana
         |                                                in-memory idempotency maps           escrow program
      Postgres                                                                                 (src/program)

The chain is the truth about money, the database is what every page shows and every check of
the API reads, and the sidecar decides what is signed. Most of what can go wrong is one of the
three believing something about another that is no longer, or not yet, so.

## Inventory

| Component | State | Operations | Hard behaviours | What makes it correct |
|---|---|---|---|---|
| Escrow program, `program/programs/escrow/src/lib.rs` | `Campaign`, `Contribution` accounts, token accounts | create_campaign, contribute, close_campaign, release, refund | any order of instructions; batches of refunds in one transaction; u64/u32 overflow; USDC sent straight to the escrow account | counters agree with accounts; money owed is there; spent or handed back, never both; no dead end |
| Settlement API, `core/settlement.py`, `routers/settlement.py`, close in `routers/campaign.py` | campaign row, `proof.release_tx`, `contribution.refunded`, row lock | close, lazy_close, release, refund | awaits between check and write, timeouts, lost replies, overlapping handlers | database never ahead of the chain, never goes back; each proof paid once and recorded; refunds finish |
| Sidecar settlement, `chain-svc/src/index.ts`, `settlement.ts` | `idempotencyCache`, `inflight` | /tx/close, /tx/release, /tx/refund-batch | restart, confirmation timeouts, failed reads after a landed transaction, partial batches | a key signs at most one release |
| Payments, `routers/payment.py`, `chain-svc/src/pay.ts` | `PaymentRequest`, `Contribution`, `RewardTier.sold_count`, campaign totals | QR request, transaction request, status poll, contribute | two handlers confirming at once, double payment, late payment, stale reads | recorded means the money came, once; totals agree with rows |
| Campaigns, `routers/campaign.py` | campaign row, tiers | create, update, create_tier, close, pages | chain call before the insert; check-then-write of terms | no page without escrow; terms only tighten |
| Policy rules, `core/policy.py` | – (pure) | items_total, violations, _scaled, category totals | scaling of caps, absent limits, foreign categories | the category cap holds over all releases |
| Review, `routers/agent.py`, `core/policy.py`, `core/gemini.py` | `proof.status`, `AgentDecision` log, budget | evaluate_policy, the release that follows an approval, audit | the model's answer takes long, and rows read before it are used after it; two reviews of one quote; an audit during edits | money goes only where the last verdict approves; the budget is overrun by overlap only; audits block unbacked vendors |
| AI rails, `core/paysh.py`, `chain-svc/src/paysh.ts`, `x402/*` | `Micropay` rows, payment channels, transfers | micropay, /ai/generate, fallback, settlement page | lost replies, dropped channels, pages that overlap, gateways that close channels late | paid means transferred; receipts never flatter the bill |
| Accounts, `routers/auth.py`, `users.py`, `core/deps.py` | users, refresh tokens, nonces, campaigns and payments that refer to users | signup, login, refresh, logout, wallet login and connect, withdraw | look-up and write in separate steps; a withdrawal that races a confirmation or a creation | sessions end; limits are exceeded by overlap only; a payment outlives its fan |
| Vendors and proofs, `routers/vendor.py`, `proof.py` | vendor and proof rows | register, allowlist, submit quote or receipt | the allowlist changes while a review or an audit runs | what was read is what decides |
| Webhook, `routers/webhook.py` | `Micropay.paid` | confirm or take back a payment | it comes in the middle of anything | budget and receipts stay right |
| Files, configuration, IDL, demo, deployment | – | – | – | not modelled: I/O, generated code, scripts |

`PROJECT.json` lists the components with their sources and the hazards with their lines.

## Modules

    Sums -+- Escrow -+- Settlement -- MCSettlement
          |    |     +- Funding ----- MCFunding
          |  Custody +- MCEscrow
          +- Rails --+- MCRails
          |          +- Review ------ MCReview
          +- Policy --+
    Accounts --------- MCAccounts

    SumTheorems -+- EscrowProofs -+- SettlementProofs
                 |                +- FundingProofs
                 +- RailsProofs ---- ReviewProofs
    AccountsProofs

A module named after another with `Proofs` at the end extends it and holds its theorems.

**Sums** defines the sum of a function over a finite set as a cardinality, without recursion, so
that the provers can reason about it; **SumTheorems** proves the laws used later (empty set,
singleton, disjoint union, update at a point, addition, monotonicity, strictness, and an injection
that never decreases an amount bounds one sum by another).

**Custody** is the abstract promise, free of counters: while open, backers only add to their
stakes; the target is compared once with what was pledged; after that the pledge is either spent,
up to its total, or handed back backer by backer, each exactly once, and the custody ends when
nothing is left to do.

**Escrow** is the Anchor program. Variables are the fields of `Campaign` under their own names,
`amount` and `refunded` for the `Contribution` accounts, and the balances of the escrow, the
wallets and everybody else. One instruction is one action, because Solana runs it alone and rolls
back on any error; `Refund(k, S)` is a transaction with one refund instruction per member of `S`,
because that is how the sidecar sends them and one failing instruction undoes all. `Deposit` is a
USDC transfer straight to the escrow's token account, of which the program learns nothing.
`Promise` instantiates Custody with the mapping phase = status, stake = amount,
repaid = refunded, spent = released_amount.

**Settlement** puts Escrow under the sidecar and the API. A handler is a slot `r`; `pc[r]` says
where the coroutine and its one outstanding sidecar call are, so each `await` is a place where
others run. The pieces:

| Code | Model |
|---|---|
| `POST /campaign/{id}/close`, `lazy_close` | StartClose, SidecarClose, SidecarCloseDone, SidecarCloseStatus, CommitClose, CloseFails |
| `settlement.release` under `SELECT ... FOR UPDATE` | StartRelease (lock, refresh, check_releasable), CommitRelease, ReleaseFails (rollback) |
| `onceByKey` with its two maps | SidecarRelease (cached / join / new task), SidecarReleaseDone, SidecarReleaseStatus; `cache`, `job` |
| `POST /settlement/{id}/refund`, `refundBatch` | StartRefund, LockRefund, ListPending, SendBatch, BatchDone, Tally, CommitRefund, RefundFails |
| httpx timeout, API restart | GiveUp: the slot is `gone`, its lock is released, the sidecar goes on; Discard ends it |
| sidecar restart | Restart: calls break off, both maps are empty |
| transactions | `net`: flying, then landed (TxLands runs the Escrow action) or failed |

The constant `Faults` says which of `timeout`, `drop`, `lose`, `fetch`, `restart` may happen. In
Node, looking a key up in the maps and registering the task are separated by a microtask only and
the API serialises releases of one campaign by its row lock, so SidecarRelease is one step.
`lazy_close` swallows the sidecar's failure; a refund handler whose close timed out goes on to the
lock and is the same as a fresh refund handler. `Proofs` are approved quotes of allowlisted
vendors that pass the policy rules: those checks are Review's and are not repeated here.
`MoneyArrives` is contributions and plain transfers to the escrow account, apart or in one
transaction. `ConfirmPayment` is `_confirm` with its effects only; Funding has its steps. The amount
it records is bounded by what the token account received, which is what `RecordedIsPaid` proves of
Funding, and not by `raised_amount`; the wallet of the row is whichever scanned last, so Settlement
counts the rows (`held_rows`, `marked_rows`) and learns nothing from them about who is owed what.
Overdue campaigns are judged by the escrow's deadline, of which the row's is at most a fraction of a
second ahead.

**Funding** is the other half of the API on top of Escrow: opening a campaign (chain first, row
second), tiers, the deadline, and a payment from QR code to Contribution row.

| Code | Model |
|---|---|
| `create_campaign`, `/tx/campaign` | StartCreate, CreateLands, CreateDies, CreateReply (with the look at the account after an error), CommitCreate, CreateGivesUp |
| `update_campaign` | StartUpdate (check), CommitUpdate (write) |
| `create_tier` | CreateTier |
| `create_payment_request` | StartPaymentRequest (campaign and tier checked), InsertPaymentRequest |
| `solana_pay_transaction`, `buildContributeTransaction` | StartPayTx, FinishPayTx; the wallet then lands it, fails it or keeps it |
| what anybody else puts on chain (external) | OtherTransaction: a contribution, a transfer or both, with any references that were shown |
| `findReferenceSignature` | Found: newest listed transaction that Proves: it succeeded, calls the program, and the token account grew by enough |
| `payment_status`, `contribute` | Ask, Scan |
| `_confirm` | Claim (compare-and-set on the status, then the unlocked look for earlier contributions), CommitConfirm |
| closing, done by Settlement | Closing, RowCloses |

A fan can have several transactions built for one reference and land them all. `Contribute` asks for
some signer as `agent_authority` but not for the campaign's (there is no `has_one`), so a wallet can
also build transactions of its own: any contribution, with any transfer beside it, under any
references. `findReferenceSignature` tests "calls the escrow program" and "the token account grew by
the amount" apart, so one that contributes little and transfers the rest proves the whole payment:
what is recorded may exceed `raised_amount`, although `src/README.md:298` says that the three checks
block faked contributions. `RecordedIsPaid` therefore says that the money arrived, and
`ShownIsWhatCloses` has `ProofsContribute` as a condition where it needs more. A transaction with
several contributions is not modelled. The row's deadline keeps the fraction of a second that
`int(deadline.timestamp())` cuts off for the chain: a tick is a second and StartCreate keeps the
row's deadline rounded up. SQLAlchemy writes only changed columns, so FinishPayTx writes the wallet
only if it differs from what the handler read.

**Rails** is what the agent pays for its own reviews, and what the `Micropay` rows say of it.

| Code | Model |
|---|---|
| `check_ai_review_budget`, `ai_review_spent`, `_charged` | WithinBudget, Spent, Charged; AskModel starts a review that passed |
| `gemini.evaluate_policy`, `_gateway`, `/ai/generate`, `fetchWithPayment` | GatewayCharges (challenge, channel, receipt row), GatewayFree, GatewayBreaks (the fallback; a channel opened by then is forgotten) |
| the gateway (external) | GatewayDraws takes a part of an open channel; GatewayCloses empties one or several in one transaction and refunds any part |
| direct model call and `paysh.micropay`, `/tx/micropay` | DirectAnswers / ClientPays (row flushed, transfer sent), TransferLands, TransferFails, ChargePaid, ChargeFails |
| commit, rollback, a handler that dies | CommitPayment, PayerDies, Discarded |
| `settle_x402` in `GET /settlement/{id}` | OpenPage, AskChannel, ClosePage, PageDies; SameClosing is the unique `tx_signature`, which fails a page that would name one transaction twice |
| `resolveSettlement` | Resolved: the channel's balance before the transaction that empties it (Rest), less the payer's gain in that transaction |
| `paysh_webhook` | PayshWebhook |

A row's id comes from a sequence and is never used again, so the sidecar never meets an idempotency
key twice and its cache needs no state here. `fetchWithPayment` authorizes whatever a challenge asks
for, and nothing compares that with `x402_review_reserve`: MaxCharge bounds asks, reserve and fee
alike. Since `resolveSettlement` sees one transaction only, a channel drawn in parts or emptied
together with another settles for less than the gateway took; `ReceiptsCover` says when the row is
exact and when it is a lower bound.

**Policy** is `core/policy.py` as operators. `Violations` returns the set of broken rules; absent
limits are `NoLimit`, and `Scaled` is the integer arithmetic of `_scaled`.

**Review** extends Rails and Policy: vendors, quotes, receipts, the review, the release it ends
with, a release asked for directly, and the audit.

| Code | Model |
|---|---|
| `routers/vendor.py`, `routers/proof.py` | RegisterVendor, AddToAllowlist, RemoveFromAllowlist, SubmitQuote, SubmitReceipt |
| `evaluate_policy` up to the model | StartReview: the checks, the rules, then `refuse` or AskModel of Rails |
| the review fee | PaymentStep: any step of Rails but AskModel and a reviewer's CommitPayment, which are parts of the review |
| the decision and its commit | RefuseByRule, CommitReview; Judge is the write of `proof.status` and of the log |
| automatic execution, `POST /settlement/{id}/release` | LockRelease (lock, refresh, check_releasable, rules), SidecarPays, CommitRelease, GiveUp |
| `POST /agent/audit` | StartAudit, LookUpVendors, CommitAudit |
| the rest of the system | FundingSucceeds, PaymentRecorded |

Two habits of the session decide much here and are modelled as they are: rows are not expired on
commit, so the vendor that release sees is the one read before the model was asked
(`task[h].listed`); and only columns that differ from what was read are written
(`task[h].seen`), so a verdict equal to the status read at the start leaves alone what another
review wrote meanwhile. LockRelease merges the refreshes of campaign and proof with the category's
query: the proof's status is read once, by its refresh, and what the others read changes only under
the campaign's row lock, which is held by then. The sidecar is reduced to what Settlement shows of
it, but pays a key once: that it may pay it twice after a lost confirmation is Settlement's subject.

**Accounts** is everything that belongs to a user.

| Code | Model |
|---|---|
| `signup`, `login`, `_token_pair` | Signup, Login, OpenSession |
| `refresh`, `logout` | StartRefresh (look-up), FinishRefresh (new access token); Logout |
| `wallet_nonce`, `_consume_nonce` with `wallet_connect`, `wallet_login` | WalletNonce; StartConnect, CommitConnect; StartWalletLogin, CommitWalletLogin |
| `create_campaign` and MAX_ACTIVE_CAMPAIGNS | StartCreate (count), InsertCampaign (the reply of the chain, and the row); Funding has the chain |
| `create_payment_request`, `payment_status` and `_confirm` | CreatePaymentRequest, FanPays, StartConfirm, CommitConfirm, with the users the rows refer to; Funding has the rest |
| `withdraw` | StartWithdraw (checks, rows read), CommitWithdraw (detach and delete, or the foreign key refuses) |

Whatever a request has between its reading and its commit can be cut off (GiveUp). The history
variables are `ended` and `raced` of a session and `uses` of a nonce; in Rails `reversed`, in Review
`contested`, in Settlement `misled`. They are read by properties only.

Operators named `Fault...` stand just before the definition they distort. No specification uses
them; each is a plausible bug under which the property listed with it in PROJECT.json fails.

## Runs

| Run | Instance | Shows |
|---|---|---|
| MCEscrow | 4 wallets, one or two units each, MaxU32 = 3, MaxU64 = 8, 2 keys, time to 2 | the inductive invariant and the invariants of the program, and its refinement of Custody |
| SettlementRelease | a closer, 2 releasers, 2 proofs, all five faults, a unit that nobody contributes | the database never ahead, never back; a proof whose release the sidecar did not lose track of (`misled`) is paid once and stays known |
| SettlementRefund | missed goal, 2 refunders and a reader, batches of one, all five faults | the same, and rows are marked only when every contributor was paid back |
| SettlementLive | one handler of each kind, no faults | overdue campaigns close, refunds end up marked and releases recorded |
| SettlementRefundLive | 2 refunders and a reader, timeouts | the money comes back |
| FundingPay | 2 references, a tier of limit 1, 2 wallets, 2 transactions (built by the sidecar or any mix of contribution, transfer and references), 2 checkers, an editor, creations that die or land late, handlers that die | no page without its escrow; recorded means paid, once; totals agree with rows; the status pages show for an overdue campaign is the one closing brings |
| FundingLive | 1 checker, 2 references, 2 transactions and a window of one (ScanLimit = 1), polls cut off, wrong signatures | a payment the sidecar can find is recorded, unless it leaves the window first |
| Rails | 2 reviewers, a client, 2 settlement pages, 3 rows and 2 channels (4 together), budget 1, reserve 1, asks and fee of 2, 4 units of USDC | receipts cover what the gateway takes; paid means transferred; the budget is overrun by at most the dearest charge for each reviewer |
| Review | 2 handlers, an auditor, a vendor, 2 proofs, a category cap of 1 that a late payment doubles | the cap holds; `released_amount` is what was paid and recorded; money follows the last verdict; audits block |
| Accounts | 2 handlers, 2 users, 1 wallet, 2 sessions, 1 nonce at a time, 3 campaigns (1 allowed), 1 payment, time to 1 | sessions end; nonces and the campaign limit are exceeded by overlap only; payments outlive accounts; unique columns and foreign keys hold |

Bounds. Four wallets let the contributor counter overflow (MaxU32 = 3) and refund batches differ in
size; amounts need only tell "below, at and above the goal" apart, which two fans with one unit
and goals of 1 and 3 do in Settlement. Two handlers per kind show any race between two; TxIds
bounds the transactions in flight (Settlement) or ever built (Funding: two are a double payment, a
payment next to somebody else's transaction, or a payment for each reference). In Funding one unit
outside the wallets lets a transaction contribute one and transfer another, or transfer the whole.
The code's window is of ten signatures; in FundingLive it is one, so that the second transaction
under a reference pushes the first out of it. The clock reaches the deadline in every run and
passes it in FundingPay, where the row's is a second later than the chain's or is not, and in
MCEscrow. MCSettlement's fans, transactions, proofs, releasers and refunders are interchangeable.

In Rails the budget pays for exactly one review at the reserve, so two that overlap overrun it, and
each costs more than the reserve; a deposit of two units lets the gateway take nothing, a part (in
one transaction or two) or all of it. Three rows are two reviews and a client's payment. The
constraint Small keeps rows and channels together at four: three rows with one channel, or two
channels (closed apart or together) with the rows of their reviews; it cuts off states that add a
third review to those. With the payers and pages at work the sum is at most six, so that two of them
meet on two channels and all three payers on three rows. Review keeps no Micropay rows (MaxRows = 0: the gateway answers for free or
the review fails), because the rails have their own run and `ReviewPaysByRails` shows that they lose
nothing inside Review; Goal = 2 and Pledged = 4 double the cap, so that one unit, then two, may be
released while quotes of one and two units compete. In Accounts an access token lives one tick and a
refresh token two, so that a refresh can come after the session ended (no refresh token expires in
the run; the theorem covers every life time); MaxActive = 1 with three campaigns lets the second
handler exceed the limit and leaves one to be refused. MaxNonces bounds the nonces in use at a time:
a place is taken again once its nonce is used or expired and no handler holds it, so a wallet that
was connected with one nonce logs in with the next (the code draws a new value for each and keeps
the old rows).

CHECK_DEADLOCK is off because all models stop legitimately: the clock, the money, the rows and the
references are finite and a closed campaign has nothing left to do. FundingPay, Rails, Review,
Accounts, SettlementRelease and SettlementRefund use symmetry of sets whose members no formula tells
apart (references, wallets, signatures, checkers; handlers, pages; proofs; emails); the runs that
check liveness use none. Review and Settlement check action properties under symmetry, which is
sound: they are preserved by the permutations, and no fairness is involved.

Two runs look for a counterexample and find it; each is a finding:

- **SettlementDoublePay**: one instance and one lost confirmation pay a proof twice.
- **FundingOversold**: a tier sells beyond its limit.

What the runs leave true but a reader may not expect:

- `OverdueCloses`, `PaidGetsRecorded` and `RefundsAreRecorded` hold only while replies and
  confirmations are not lost. Adding `lose` or `timeout` to the faults of SettlementLive gives
  counterexamples: a close whose reply is lost leaves the row in FUNDING; a release paid but not
  recorded is refused once another has moved the row to CLOSED; after a last refund batch that
  landed but reported an error the row is CLOSED and its rows unmarked.
- update_campaign can change the terms after the first payment was recorded, because it checks and
  writes in separate steps; RowIsOnChain and ShownIsWhatCloses survive that.
- `PaidOnStandingVerdict` makes no claim for a quote that two reviews judged at once
  (`contested`): the verdict logged last and the status may then disagree, and release follows
  the status.
- What is recorded may exceed what the escrow program counted, by what a proof transferred beside
  its contribution; the pages of such a campaign may show EXECUTING where closing refunds.
- In the last fraction of a second before the row's deadline the pages are open and the program
  refuses contributions.
- A payment hidden by newer transactions under its reference stays unrecorded.
- Two channels emptied by one transaction are never settled: every settlement page that finds both
  writes the same signature twice and fails.
- A fee that was transferred while its reply was lost stays unpaid in its row and is not
  counted against the budget; a channel opened before the gateway failed has no row at all.
- The category cap counts recorded releases; a release paid on chain and not yet recorded is not
  seen by it.
- An owner of a closed campaign can never withdraw: the check looks at campaigns in progress
  only, and the foreign key refuses the rest.

## Fairness

Safety runs assume none. FairSettlementSpec: the sidecar's steps and the network are weakly fair
(an event loop and a validator run whatever is ready; a transaction lands or fails), the handlers'
steps are strongly fair, because the row lock is queued and page visits and retries keep coming,
and the clock runs. Nothing obliges a fault to stop. SettlementRefundLive shows that refunds need
no more than that. FairFundingSpec: a payment's page keeps polling and not every poll of it is cut
off, the sidecar's calls end, and committing a confirmation is not put off for ever. Wallets,
clock and closing owe nothing.

## Proofs

EscrowProofs proves for all values of the constants allowed by EscrowAssumption (finitely many
wallets; the purses and the rest of the supply together fit a u64, as a mint's supply does):

1. `EscrowInductive`: `Spec => []IInv`. IInv adds to the checked properties what makes them
   inductive: the counters equal the sums and cardinalities they summarise, refunded wallets are
   contributors, escrow + released + refunded covers raised, and what each status implies about
   the counters (StatusFacts; for instance Executing means less was released than raised).
   One step per action; the sums move by `SumUpdate` and `SumDisjoint`.
2. From it: `EscrowTypes`, `EscrowCounters`, `EscrowFansMadeWhole`, `EscrowIsCovered`,
   `EscrowRefundNeverStuck`, `EscrowNoOverflow`, `EscrowClosedIsSettled`. NoOverflow needs the
   supply bound: the pledges and the purses are parts of one supply. RefundNeverStuck needs
   strictness of sums: if not everybody is refunded, money is left.
3. `EscrowKeepsPromise`: Init implies Custody's Init, and every step is a step of Custody or a
   stutter, under IInv (without it the counters could not stand for the sums).

AccountsProofs proves all five invariants of the Accounts run for every number of handlers, users,
sessions, nonces, campaigns and payments and for all life times. `Shape` (rows and slots have
their shapes, and what a handler holds fits where it is) is inductive by itself, and each
property has its own strengthening that says what is still on its way:

| Theorem | Strengthening |
|---|---|
| `AccountsSessionEnds` | SessionInv: a session that was ended without a race has no refresh in progress, and no token outlives now + AccessTTL |
| `AccountsNonceBounded` | NonceInv: the uses made and the handlers about to use a nonce together do not exceed the handlers there are; an unused nonce has no uses |
| `AccountsActiveBounded` | ActiveInv: a user's campaigns and those being created do not exceed the limit plus the handlers but one |
| `AccountsPaymentsOutliveFans` | PaymentInv: a pending request, and what a confirmation read, refer to the fan, or to nobody once he is gone |
| `AccountsTypes` | Unique and OwnersLive: a column is taken, and a user leaves, only when no live row stands in the way |

SettlementProofs proves every safety property of the Settlement runs for any number of handlers,
proofs, wallets and transactions, every batch size and every set of faults. None of them is
inductive; `SInv` is, and says, part by part, what each answer still under way is worth:

| Part of SInv | Says | For |
|---|---|---|
| ChainInv | IInv, and the campaign exists and is the service's | all |
| Types, LockInv | shapes; the row lock is held from a check to its commit, and only a request that called the sidecar is given up | `SettlementTypes` |
| WireInv | a transaction somebody awaits is the one that was sent, and one handler or task awaits it | all |
| LandedInv, OnceInv | a remembered signature is that of a payment; while the sidecar has not lost track of a key, only the transaction its task awaits can pay it, and it is the first | `SettlementNotPaidTwice`, `SettlementPaidIsRemembered` |
| Raised, Released | what backs the sums of the row, also in the hands of a handler about to commit | `SettlementDbNeverAhead` |
| StatusInv | a status that was read is one the chain has reached; the close is won by one handler, whose row still says FUNDING; what is about to be written follows on the row | `SettlementDbForward` |
| RefundInv, MarksInv | sums read are no more than the chain's; whoever a refund call has yet to pay back is still on its list | `SettlementMarksSound` |

Because every landing transaction is an instruction of Escrow and nothing else moves the chain,
`SettlementDrivesEscrow` holds, and with it `SettlementKeepsFansWhole` (the escrow's invariants hold
of the whole service) and `SettlementKeepsPromise` (every step is one of Custody or none).
Settlement starts with a campaign that exists, so the last two speak of invariants and steps, not of
Escrow's initial states.

FundingProofs does the same for a payment. `FundingDrivesEscrow` and `FundingKeepsPromise` show that
the funding phase implements Escrow and through it Custody, initial states included. The rest
follows from `FundingInv`, whose parts say what the page took from the chain (OpeningInv), which
transaction stands behind a confirmed request (RequestInv), that the escrow counted exactly the
contributions that landed and the token account everything that came with them (NetworkInv), and
what a handler still remembers rightly (HandlerInv: the signature it found proves its request, and a
request, and a signature, is claimed by one handler at a time). The argument for
`FundingRecordedIsPaid`: no step takes back a landed transaction, a Contribution row or the amount
of a request, so a signature found before an await backs its row after it; `tx_signature` is unique,
also among writers that have not committed, so different rows have different transactions even when
one carries several references; and `SumInjection` turns that into db_raised <= Received, everything
the token account ever got. `FundingShownIsWhatCloses` does the same with the amounts contributed,
as long as the proofs contributed them, compares the sum with the goal, and uses that nothing is
released while funding (ClosedMissed). `FundingRowIsOnChain` has the second that truncation may cost
in OpeningInv.

RailsProofs proves the four invariants of the Rails run for any number of reviewers, clients, pages,
rows and channels and any budget, fee, reserve and challenges. `RInv` says who holds which row
(HeldInv), what a row says of its channel (BillInv: a closed channel's refund is part of what the
payer gained), what a settlement page knows (PageInv), what was transferred (PaidInv), that the
transfers that landed and the balance add up (MoneyInv, for the sum in `RailsPaidIsTransferred`),
and for `RailsOverrunBounded` BudgetInv: the charges of committed reviews, plus MaxCharge for each
review in progress, plus the cost a check reserves, stay within the budget plus MaxCharge for each
reviewer. A reviewer that passes the check adds MaxCharge to the left while charges and cost alone
still fitted the budget.

ReviewProofs proves `ReviewPaysByRails`: ReviewSpec implies RailsSpec, because every step of Review
is a step of Rails or leaves the rails alone; `ReviewKeepsTheBill` carries the four invariants over.
`RevInv` gives the rest for every policy, number of proofs and number of handlers and auditors: what
the check under the row lock found stays so until the commit (Checked: `ReviewReleasesAgree`,
`ReviewCategoryWithinCap`; caps only grow, as c_raised does), the status of a quote nobody contested
says approved only if the last decision does (VerdictInv: `ReviewPaysOnVerdict`), and what an audit
looked up stays true until it blocks (AuditInv: `ReviewAuditBlocks`).

Each theorem rests on the assumptions of its module and of those it extends, which TLC evaluates
in the runs: amounts, limits and fees are natural numbers and positive where the schemas demand it
(`gt=0`), purses fit one u64 supply, sets that are summed or counted are finite, and None is nobody.
Three are bounds of the models and not of the code: MaxTime (deadlines lie before it), MaxCharge (no
challenge, reserve or fee exceeds it; the theorem holds for whatever the largest is), and the
finitely many rows, channels, users and sessions that the other Max constants allow.
`ReviewPaysByRails` needs none of it.

So every invariant and every action property that a passing run checks is stated by a theorem. Only
model-checked are:

- all liveness (OverdueCloses, RefundsAreRecorded, PaidGetsRecorded, RefundsReachFans,
  PaymentGetsRecorded): fairness and ENABLED are beyond the prover;
- the two findings, which are counterexamples.

The invariants SInv, FundingInv, RInv and RevInv were given to TLC on the instances of the runs
before they were proved. They are not among the runs' properties because the properties they imply
are.

## Not modelled

- **Files and storage**: an upload is written once under a fresh name and never changed.
- **Configuration, schemas, wiring, error formats**: no state of their own; the settings
  that matter are constants.
- **Generated IDL, demo, deployment**: generated, or scripts that drive the system from outside.
- **Listings and read-only pages**, edits of a campaign's title and policy, profile edits.
- **The prompt and the model**: the model's decision is an input of CommitReview.
- **Encodings**: token and password formats, signatures, Solana Pay URLs, transaction bytes,
  the x402 header. A signature that verifies is a guard.
- **Certificates**: nothing issues them; the sidecar's endpoint answers 501.
- Several campaigns at once, except in Accounts: campaigns share only the agent's purse, which
  Rails has.

## Plan

Everything the passing runs check of safety is proved. What is left:

1. How far a tier can be oversold (FundingOversold shows that it can): sold_count exceeds the limit by
   no more than the requests that were pending together, with a run and a theorem.
2. How often a proof can be paid once the sidecar lost track of it (SettlementDoublePay shows
   twice): no more often than the API asked after the loss.
3. Settlement's ConfirmPayment as an abstraction of Funding's claim and commit, so that the two
   halves meet in a theorem and not only in the comments.
4. Larger instances: Review with two categories; transactions that contribute several times.
5. A run for src/README.md:298, which mixed transactions contradict (a sum recorded beyond
   raised_amount), as a third finding.
