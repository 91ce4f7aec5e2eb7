------------------------------- MODULE Rails -------------------------------
(***************************************************************************)
(* Paying for the AI: what one campaign's reviews cost, who pays whom, and *)
(* what the Micropay rows say about it.  A review pays on one of two rails: *)
(*                                                                         *)
(*   x402   the sidecar calls the model through a gateway that asks for an *)
(*          authorization; the sidecar opens a payment channel holding     *)
(*          that much, the gateway later empties it, keeps its price and   *)
(*          refunds the rest.  The row is paid but not settled until a     *)
(*          settlement page has found the transaction that emptied it.     *)
(*   pay.sh the API calls the model itself and has the sidecar transfer a  *)
(*          fixed fee.  A review falls back to it when the gateway fails.  *)
(*                                                                         *)
(* A handler is a slot; rail[h] says how far its payment has come.  Rows   *)
(* are written in the handler's session and show when it commits.  Each    *)
(* row draws a new id, so the sidecar never sees an idempotency key again. *)
(***************************************************************************)
EXTENDS Sums

CONSTANTS
  Reviewers,    \* slots for POST /agent/policy/evaluate
  Clients,      \* slots for POST /payment/paysh/micropay
  Pages,        \* slots for GET /settlement/{id}
  MaxRows,      \* bounds the Micropay rows ever inserted
  MaxChannels,  \* bounds the channels ever opened
  Budget,       \* aiReviewBudget of the campaign's policy; None: no limit
  Gateway,      \* ai_rail = "gateway"
  Reserve, Fee, \* x402_review_reserve, paysh_gemini_cost
  Asks,         \* what a challenge of the gateway may authorize
  MaxCharge,    \* bounds what one review may be charged
  Prices,       \* amounts of POST /payment/paysh/micropay
  Float,        \* USDC of the agent
  None

Payers   == Reviewers \cup Clients
Rows     == 1 .. MaxRows
Channels == 1 .. MaxChannels

(* The reserve is meant to cover what the gateway asks for, but nothing    *)
(* compares the two: a challenge may ask for more than the reserve, and a  *)
(* review that falls back may cost more.  MaxCharge is whatever bounds all *)
(* three.                                                                  *)
ASSUME RailsAssumption ==
  /\ IsFiniteSet(Reviewers) /\ Reviewers # {} /\ Reviewers \cap Clients = {}
  /\ MaxRows \in Nat /\ MaxChannels \in Nat /\ Float \in Nat
  /\ Gateway \in BOOLEAN /\ Reserve \in Nat /\ Fee \in Nat
  /\ Budget = None \/ Budget \in Nat
  /\ MaxCharge \in Nat /\ Reserve <= MaxCharge /\ Fee <= MaxCharge
  /\ Asks \subseteq 0 .. MaxCharge /\ Prices \subseteq Nat
  /\ None \notin Nat

VARIABLES
  micropay,  \* Micropay rows: free, flushed (uncommitted), kept or gone
  rail,      \* per payer: progress, and the row it inserted
  page,      \* per settlement page: rows left to ask for, answers
  channel,   \* payment channels
  transfer,  \* the pay.sh transfer of a row
  usdc,      \* USDC of the agent's account
  reversed   \* history: rows the webhook declared unpaid

rails == <<micropay, rail, page, channel, transfer, usdc, reversed>>

NoRow == [at |-> "free", by |-> None, amount |-> 0, authorized |-> None, channel |-> None,
          paid |-> FALSE, settled |-> FALSE, signed |-> FALSE]
NoRail    == [at |-> "idle", row |-> None]
NoPage    == [at |-> "idle", todo |-> {}, found |-> [i \in Rows |-> None]]

(* What the gateway drew before the transaction that emptied the channel,  *)
(* what that one refunded to the payer for this channel and in all, and    *)
(* the channels it emptied.                                                *)
NoChannel == [at |-> "free", deposit |-> 0, drawn |-> 0, refund |-> 0, change |-> 0, with |-> {}]

RailsInit ==
  /\ micropay = [i \in Rows |-> NoRow]
  /\ rail = [h \in Payers |-> NoRail]
  /\ page = [g \in Pages |-> NoPage]
  /\ channel = [c \in Channels |-> NoChannel]
  /\ transfer = [i \in Rows |-> "none"]
  /\ usdc = Float /\ reversed = {}

-----------------------------------------------------------------------------
(* The budget. *)

(* _charged: settled rows count as what was taken, others as what may be.  *)
Charged(m) == IF m.settled \/ m.authorized = None THEN m.amount ELSE m.authorized

ChargedRows == [i \in Rows |-> Charged(micropay[i])]

Kept(i) == micropay[i].at = "kept"

(* ai_review_spent *)
Spent == SumOver(ChargedRows, {i \in Rows : Kept(i) /\ micropay[i].paid})

ReviewCost == IF Gateway THEN Reserve ELSE Fee

(* Fault: the review about to start is not counted. *)
FaultWithinBudget == Budget # None => Spent <= Budget

(* check_ai_review_budget *)
WithinBudget == Budget # None => Spent + ReviewCost <= Budget

(* A review that passed the rules and the budget goes to ask the model.    *)
AskModel(r) ==
  /\ rail[r].at = "idle"
  /\ WithinBudget
  /\ rail' = [rail EXCEPT ![r].at = IF Gateway THEN "gateway" ELSE "direct"]
  /\ UNCHANGED <<micropay, page, channel, transfer, usdc, reversed>>

-----------------------------------------------------------------------------
(* The x402 rail. *)

(* The id of a new row comes from a sequence, the channel's from a salt.   *)
Fresh(i) == micropay[i].at = "free" /\ \A j \in 1 .. i - 1 : micropay[j].at # "free"

Opens(c, a) ==
  /\ channel[c].at = "free" /\ \A d \in 1 .. c - 1 : channel[d].at # "free"
  /\ channel' = [channel EXCEPT ![c] = [NoChannel EXCEPT !.at = "open", !.deposit = a]]

(* x402_receipt *)
Receipt(r, c, a) ==
  [NoRow EXCEPT !.at = "flushed", !.by = r, !.authorized = a, !.channel = c, !.paid = TRUE]

(* fetchWithPayment was challenged, opened a channel and got an answer. *)
GatewayCharges(r) ==
  /\ rail[r].at = "gateway"
  /\ \E i \in Rows, c \in Channels, a \in Asks :
       /\ Fresh(i) /\ Opens(c, a)
       /\ micropay' = [micropay EXCEPT ![i] = Receipt(r, c, a)]
       /\ rail' = [rail EXCEPT ![r] = [at |-> "done", row |-> i]]
  /\ UNCHANGED <<page, transfer, usdc, reversed>>

(* The gateway answered without a challenge: there is nothing to record.   *)
GatewayFree(r) ==
  /\ rail[r].at = "gateway"
  /\ rail' = [rail EXCEPT ![r].at = "done"]
  /\ UNCHANGED <<micropay, page, channel, transfer, usdc, reversed>>

(* The call fails: no acceptable offer, an error status, a timeout or an   *)
(* answer that cannot be read.  If a channel was opened by then, what is   *)
(* known of it is dropped with the reply.                                  *)
GatewayBreaks(r) ==
  /\ rail[r].at = "gateway"
  /\ \/ UNCHANGED channel
     \/ \E c \in Channels, a \in Asks : Opens(c, a)
  /\ rail' = [rail EXCEPT ![r].at = "direct"]
  /\ UNCHANGED <<micropay, page, transfer, usdc, reversed>>

(* Outside the program: the gateway may take its price in parts.  The last *)
(* transaction empties the channel, perhaps several at once, and refunds   *)
(* what is left.  No transaction of the gateway opens a channel as well:   *)
(* the payer signs the opening transaction as a whole.                     *)
GatewayDraws(c, amount) ==
  /\ channel[c].at = "open" /\ amount > 0 /\ channel[c].drawn + amount < channel[c].deposit
  /\ channel' = [channel EXCEPT ![c].drawn = @ + amount]
  /\ UNCHANGED <<micropay, rail, page, transfer, usdc, reversed>>

GatewayCloses(C, refund) ==
  /\ \A c \in C : /\ channel[c].at = "open"
                   /\ channel[c].drawn + refund[c] <= channel[c].deposit
  /\ channel' = [c \in Channels |->
       IF c \notin C THEN channel[c]
       ELSE [channel[c] EXCEPT !.at = "closed", !.refund = refund[c],
                               !.change = SumOver(refund, C), !.with = C]]
  /\ UNCHANGED <<micropay, rail, page, transfer, usdc, reversed>>

-----------------------------------------------------------------------------
(* The pay.sh rail. *)

DirectFails(r) ==
  /\ rail[r].at = "direct"
  /\ rail' = [rail EXCEPT ![r] = NoRail]
  /\ UNCHANGED <<micropay, page, channel, transfer, usdc, reversed>>

(* paysh.micropay up to its call of the sidecar. *)
Charge(h, amount) ==
  \E i \in Rows :
    /\ Fresh(i)
    /\ micropay' = [micropay EXCEPT ![i] = [NoRow EXCEPT !.at = "flushed", !.by = h,
                                             !.amount = amount, !.settled = TRUE]]
    /\ transfer' = [transfer EXCEPT ![i] = "flying"]
    /\ rail' = [rail EXCEPT ![h] = [at |-> "charge", row |-> i]]
    /\ UNCHANGED <<page, channel, usdc, reversed>>

DirectAnswers(r) == rail[r].at = "direct" /\ Charge(r, Fee)

ClientPays(h, amount) == h \in Clients /\ rail[h].at = "idle" /\ Charge(h, amount)

(* The sidecar's transfer, if the agent can afford it. *)
TransferLands(i) ==
  /\ transfer[i] = "flying" /\ micropay[i].amount <= usdc
  /\ transfer' = [transfer EXCEPT ![i] = "landed"]
  /\ usdc' = usdc - micropay[i].amount
  /\ UNCHANGED <<micropay, rail, page, channel, reversed>>

(* No treasury, not enough USDC, or a transaction that expires. *)
TransferFails(i) ==
  /\ transfer[i] = "flying"
  /\ transfer' = [transfer EXCEPT ![i] = "failed"]
  /\ UNCHANGED <<micropay, rail, page, channel, usdc, reversed>>

(* Fault: any reply of the sidecar means paid. *)
FaultPaidReply(i) == transfer[i] \in {"landed", "failed"}

PaidReply(i) == transfer[i] = "landed"

ChargePaid(h) ==
  /\ rail[h].at = "charge" /\ PaidReply(rail[h].row)
  /\ micropay' = [micropay EXCEPT ![rail[h].row].paid = TRUE, ![rail[h].row].signed = TRUE]
  /\ rail' = [rail EXCEPT ![h].at = "done"]
  /\ UNCHANGED <<page, channel, transfer, usdc, reversed>>

(* Fault: a handler that breaks off leaves its row in the session. *)
FaultDiscarded(h) == micropay

(* Rolled back: the id is used up, and so is the key sent to the sidecar.   *)
Discarded(h) ==
  LET i == rail[h].row
      gone == [NoRow EXCEPT !.at = "gone", !.amount = micropay[i].amount]
  IN  IF i = None THEN micropay ELSE [micropay EXCEPT ![i] = gone]

(* Not paid, or the reply is late or lost.  evaluate_policy goes on and    *)
(* keeps the row as it is; for a client the session rolls back.            *)
ChargeFails(h) ==
  /\ rail[h].at = "charge"
  /\ \/ /\ h \in Reviewers
        /\ rail' = [rail EXCEPT ![h].at = "done"] /\ UNCHANGED micropay
     \/ /\ h \in Clients
        /\ rail' = [rail EXCEPT ![h] = NoRail] /\ micropay' = Discarded(h)
  /\ UNCHANGED <<page, channel, transfer, usdc, reversed>>

-----------------------------------------------------------------------------
(* Commits, and handlers that die before theirs. *)

CommitPayment(h) ==
  /\ rail[h].at = "done"
  /\ micropay' = IF rail[h].row = None THEN micropay
                 ELSE [micropay EXCEPT ![rail[h].row].at = "kept"]
  /\ rail' = [rail EXCEPT ![h] = NoRail]
  /\ UNCHANGED <<page, channel, transfer, usdc, reversed>>

PayerDies(h) ==
  /\ rail[h].at # "idle"
  /\ rail' = [rail EXCEPT ![h] = NoRail] /\ micropay' = Discarded(h)
  /\ UNCHANGED <<page, channel, transfer, usdc, reversed>>

(* paysh_webhook: pay.sh corrects whether a transfer was paid. *)
PayshWebhook(i, paid) ==
  /\ Kept(i) /\ micropay[i].signed /\ micropay[i].paid # paid
  /\ micropay' = [micropay EXCEPT ![i].paid = paid]
  /\ reversed' = IF paid THEN reversed ELSE reversed \cup {i}
  /\ UNCHANGED <<rail, page, channel, transfer, usdc>>

-----------------------------------------------------------------------------
(* Settlement of channels: settle_x402 in GET /settlement/{id}. *)

(* What the last transaction found in the channel. *)
Rest(c) == channel[c].deposit - channel[c].drawn

(* What of it did not reach the payer, judged by the payer's balance.      *)
Withheld(c) == IF channel[c].change < Rest(c) THEN Rest(c) - channel[c].change ELSE 0

(* A channel opened with nothing in it is never seen to be emptied. *)
Emptied(c) == channel[c].at = "closed" /\ Rest(c) > 0

(* Fault: a channel without a closing transaction counts as refunded. *)
FaultResolved(c) == IF Emptied(c) THEN Withheld(c) ELSE 0

(* resolveSettlement *)
Resolved(c) == IF Emptied(c) THEN Withheld(c) ELSE None

Unsettled == {i \in Rows : Kept(i) /\ micropay[i].paid /\ ~micropay[i].settled
                                   /\ micropay[i].channel # None}

OpenPage(g) ==
  /\ page[g].at = "idle" /\ Unsettled # {}
  /\ page' = [page EXCEPT ![g] = [NoPage EXCEPT !.at = "asking", !.todo = Unsettled]]
  /\ UNCHANGED <<micropay, rail, channel, transfer, usdc, reversed>>

(* The sidecar may fail to read a transaction or to answer at all. *)
AskChannel(g, i, answered) ==
  /\ page[g].at = "asking" /\ i \in page[g].todo
  /\ page' = [page EXCEPT ![g].todo = @ \ {i},
                          ![g].found[i] = IF answered THEN Resolved(micropay[i].channel)
                                          ELSE None]
  /\ UNCHANGED <<micropay, rail, channel, transfer, usdc, reversed>>

(* Two rows cannot name the same closing transaction: tx_signature is      *)
(* unique, and the commit of a page that would write it twice fails.       *)
SameClosing(g) ==
  \E i, j \in Rows :
    /\ i # j /\ page[g].found[i] # None
    /\ page[g].found[j] # None \/ (Kept(j) /\ micropay[j].channel # None /\ micropay[j].settled)
    /\ micropay[j].channel \in channel[micropay[i].channel].with

ClosePage(g) ==
  /\ page[g].at = "asking" /\ page[g].todo = {} /\ ~SameClosing(g)
  /\ micropay' = [i \in Rows |->
       IF page[g].found[i] = None THEN micropay[i]
       ELSE [micropay[i] EXCEPT !.amount = page[g].found[i], !.settled = TRUE, !.signed = TRUE]]
  /\ page' = [page EXCEPT ![g] = NoPage]
  /\ UNCHANGED <<rail, channel, transfer, usdc, reversed>>

PageDies(g) ==
  /\ page[g].at = "asking"
  /\ page' = [page EXCEPT ![g] = NoPage]
  /\ UNCHANGED <<micropay, rail, channel, transfer, usdc, reversed>>

-----------------------------------------------------------------------------
(* Everything but the start and the commit of a review, which are parts of *)
(* evaluate_policy (module Review).                                        *)
RailStep ==
  \/ \E r \in Reviewers : \/ GatewayCharges(r) \/ GatewayFree(r) \/ GatewayBreaks(r)
                          \/ DirectFails(r) \/ DirectAnswers(r)
  \/ \E c \in Channels, a \in 1 .. MaxCharge : GatewayDraws(c, a)
  \/ \E C \in SUBSET Channels \ {{}} : \E refund \in [C -> 0 .. MaxCharge] :
       GatewayCloses(C, refund)
  \/ \E h \in Clients, a \in Prices : ClientPays(h, a)
  \/ \E h \in Clients : CommitPayment(h)
  \/ \E h \in Payers : ChargePaid(h) \/ ChargeFails(h) \/ PayerDies(h)
  \/ \E i \in Rows : \/ TransferLands(i) \/ TransferFails(i)
                     \/ \E paid \in BOOLEAN : PayshWebhook(i, paid)
  \/ \E g \in Pages : \/ OpenPage(g) \/ ClosePage(g) \/ PageDies(g)
                      \/ \E i \in Rows, answered \in BOOLEAN : AskChannel(g, i, answered)

RailsNext ==
  \/ \E r \in Reviewers : AskModel(r) \/ CommitPayment(r)
  \/ RailStep

RailsSpec == RailsInit /\ [][RailsNext]_rails

-----------------------------------------------------------------------------
(* Properties. *)

Micropays == [at : {"free", "flushed", "kept", "gone"}, by : Payers \cup {None},
              amount : Nat, authorized : Nat \cup {None}, channel : Channels \cup {None},
              paid : BOOLEAN, settled : BOOLEAN, signed : BOOLEAN]

ChannelRecords == [at : {"free", "open", "closed"}, deposit : Nat, drawn : Nat,
                   refund : Nat, change : Nat, with : SUBSET Channels]

(* Rows, channels and slots have the shapes the code gives them, and a row *)
(* that is not committed belongs to exactly one handler in progress.       *)
RailsTypeOK ==
  /\ micropay \in [Rows -> Micropays]
  /\ rail \in [Payers -> [at : {"idle", "gateway", "direct", "charge", "done"},
                          row : Rows \cup {None}]]
  /\ page \in [Pages -> [at : {"idle", "asking"}, todo : SUBSET Rows,
                         found : [Rows -> Nat \cup {None}]]]
  /\ channel \in [Channels -> ChannelRecords]
  /\ transfer \in [Rows -> {"none", "flying", "landed", "failed"}]
  /\ usdc \in Nat /\ reversed \in SUBSET Rows
  /\ \A i \in Rows : micropay[i].at = "flushed" <=> \E h \in Payers : rail[h].row = i
  /\ \A h, k \in Payers : rail[h].row = rail[k].row /\ h # k => rail[h].row = None
  /\ \A h \in Payers : /\ rail[h].row # None => micropay[rail[h].row].by = h
                       /\ rail[h].row # None => rail[h].at \in {"charge", "done"}
                       /\ rail[h].at = "charge" => rail[h].row # None

(* What the gateway has taken of a channel. *)
Taken(c) ==
  IF channel[c].at = "closed" THEN channel[c].deposit - channel[c].refund ELSE channel[c].drawn

(* What the row of a channel counts, in whatever order the gateway empties *)
(* channels and overlapping pages ask about them.  Until the row is settled *)
(* it counts at least what the gateway took.  It is settled only once the  *)
(* channel is closed, then never counts more, and counts exactly that if   *)
(* the gateway took it in one transaction that emptied no other channel.   *)
(* (In parts, or together with others, resolveSettlement counts less.)     *)
ReceiptsCover ==
  \A i \in Rows :
    Kept(i) /\ micropay[i].channel # None =>
      LET c == micropay[i].channel IN
      IF micropay[i].settled
      THEN /\ channel[c].at = "closed" /\ Charged(micropay[i]) <= Taken(c)
           /\ channel[c].drawn = 0 /\ channel[c].with = {c} => Charged(micropay[i]) = Taken(c)
      ELSE Charged(micropay[i]) >= Taken(c)

AmountOf == [i \in Rows |-> micropay[i].amount]

PaidTransfers == {i \in Rows : Kept(i) /\ micropay[i].channel = None /\ micropay[i].paid}

(* A pay.sh row says paid only if the transfer for it landed, and what such *)
(* rows show together did leave the agent's account: no transfer is shown  *)
(* twice, whatever replies were lost and whatever pay.sh corrects later.   *)
PaidIsTransferred ==
  /\ \A i \in PaidTransfers : transfer[i] = "landed"
  /\ SumOver(AmountOf, PaidTransfers) <= Float - usdc

Reviewed == {i \in Rows : /\ Kept(i) /\ micropay[i].paid /\ micropay[i].by \in Reviewers
                          /\ i \notin reversed}

(* What the check of the budget cannot see: payments of clients, and those *)
(* that pay.sh declared unpaid and then paid after all.                    *)
Unplanned == {i \in Rows : /\ Kept(i) /\ micropay[i].paid
                           /\ micropay[i].by \in Clients \/ i \in reversed}

Reviewing == {r \in Reviewers : rail[r].at # "idle"}

(* The budget is checked with the reserve before a review and charged with *)
(* what the gateway asked for after it, so reviews that overlap exceed it  *)
(* together.  What counts as spent exceeds it by no more than the dearest  *)
(* charge for each reviewer, less the reserve; on top of that come, with   *)
(* no bound, payments of clients and those reconfirmed after a reversal.   *)
OverrunBounded ==
  Budget # None =>
    Spent + ReviewCost
      <= Budget + MaxCharge * Cardinality(Reviewers) + SumOver(ChargedRows, Unplanned)
=============================================================================
