----------------------------- MODULE RailsProofs -----------------------------
(***************************************************************************)
(* Proofs about the payment rails for every number of reviewers, clients,  *)
(* pages, rows and channels, every budget, reserve and fee.                *)
(***************************************************************************)
EXTENDS Rails, SumTheorems

USE RailsAssumption

RailTypes ==
  /\ micropay \in [Rows -> Micropays]
  /\ rail \in [Payers -> [at : {"idle", "gateway", "direct", "charge", "done"},
                          row : Rows \cup {None}]]
  /\ page \in [Pages -> [at : {"idle", "asking"}, todo : SUBSET Rows,
                         found : [Rows -> Nat \cup {None}]]]
  /\ channel \in [Channels -> ChannelRecords]
  /\ transfer \in [Rows -> {"none", "flying", "landed", "failed"}]
  /\ usdc \in Nat /\ reversed \in SUBSET Rows

(* A row that counts, now or once its handler commits. *)
Live(i) == micropay[i].at \in {"flushed", "kept"}

(* A row is flushed as long as the handler that inserted it goes on. *)
HeldInv ==
  /\ \A i \in Rows : Live(i) => micropay[i].by \in Payers
  /\ \A i \in Rows : micropay[i].at = "flushed" => rail[micropay[i].by].row = i
  /\ \A h \in Payers :
       /\ rail[h].row # None => /\ micropay[rail[h].row].at = "flushed"
                                /\ micropay[rail[h].row].by = h
                                /\ rail[h].at \in {"charge", "done"}
       /\ rail[h].at = "charge" => rail[h].row # None /\ micropay[rail[h].row].channel = None
       /\ rail[h].at = "gateway" => Gateway /\ h \in Reviewers
       /\ rail[h].at = "direct" => h \in Reviewers
       /\ rail[h].at = "done" /\ h \in Clients =>
            rail[h].row # None /\ micropay[rail[h].row].signed

(* A channel pays out no more than its deposit, and its refund is a part   *)
(* of what the payer got back at the end.                                  *)
Sound(m, c) ==
  /\ m.drawn + m.refund <= m.deposit /\ (m.at # "closed" => m.refund = 0)
  /\ m.at = "closed" => m.refund <= m.change /\ (m.with = {c} => m.refund = m.change)

(* A receipt authorizes the deposit of its channel, and settles for what   *)
(* was found withheld of it; without a channel nothing is authorized.      *)
BillInv ==
  /\ \A c \in Channels : Sound(channel[c], c)
  /\ \A i \in Rows : Live(i) =>
       IF micropay[i].channel = None THEN micropay[i].authorized = None
       ELSE LET c == micropay[i].channel IN
            /\ channel[c].at # "free" /\ micropay[i].authorized = channel[c].deposit
            /\ micropay[i].settled => micropay[i].amount = Resolved(c)
            /\ micropay[i].at = "flushed" => ~micropay[i].settled
  /\ \A i \in Rows : micropay[i].at = "flushed" /\ micropay[i].by \in Reviewers =>
       Charged(micropay[i]) <= MaxCharge

(* What a page asks for, and what it was answered, stays true. *)
PageInv ==
  \A g \in Pages, i \in Rows :
    /\ i \in page[g].todo \/ page[g].found[i] # None =>
         /\ Kept(i) /\ micropay[i].channel # None
         /\ micropay[i].paid \/ i \in reversed
    /\ page[g].found[i] # None => page[g].found[i] = Resolved(micropay[i].channel)

(* What a pay.sh row says, and who signed it. *)
PaidInv ==
  \A i \in Rows : Live(i) =>
    /\ micropay[i].channel = None /\ (micropay[i].paid \/ micropay[i].signed) =>
         transfer[i] = "landed"
    /\ micropay[i].channel = None /\ Kept(i) /\ micropay[i].by \in Clients => micropay[i].signed
    /\ micropay[i].signed => micropay[i].paid \/ i \in reversed

(* What has landed left the account; the row of a transfer has no channel. *)
Landed == [i \in Rows |-> IF transfer[i] = "landed" THEN micropay[i].amount ELSE 0]

Untransferred(i) == micropay[i].at = "free" \/ (Live(i) /\ micropay[i].channel # None)

MoneyInv ==
  /\ \A i \in Rows : Untransferred(i) => transfer[i] = "none"
  /\ usdc + SumOver(Landed, Rows) = Float

(* The reviews that count and those on their way fit the budget, except    *)
(* for the dearest charge of each reviewer, less the reserve.              *)
BudgetInv ==
  Budget # None =>
    SumOver(ChargedRows, Reviewed) + MaxCharge * Cardinality(Reviewing) + ReviewCost
      <= Budget + MaxCharge * Cardinality(Reviewers)

RowsInv == RailTypes /\ HeldInv /\ BillInv /\ PageInv /\ PaidInv

-----------------------------------------------------------------------------
(* The rows that handlers write. *)

LEMMA NoRowType ==
  /\ NoRow \in Micropays /\ NoRow.at = "free" /\ NoRow.by = None /\ NoRow.amount = 0
  /\ NoRow.authorized = None /\ NoRow.channel = None
  /\ ~NoRow.paid /\ ~NoRow.settled /\ ~NoRow.signed
BY DEF NoRow, Micropays

LEMMA ReceiptType ==
  ASSUME NEW r \in Payers, NEW c \in Channels, NEW a \in Nat
  PROVE  LET m == Receipt(r, c, a) IN
         /\ m \in Micropays /\ m.at = "flushed" /\ m.by = r /\ m.authorized = a /\ m.channel = c
         /\ m.paid /\ ~m.settled /\ ~m.signed
BY DEF Receipt, NoRow, Micropays

FeeRow(h, amount) ==
  [NoRow EXCEPT !.at = "flushed", !.by = h, !.amount = amount, !.settled = TRUE]

LEMMA FeeRowType ==
  ASSUME NEW h \in Payers, NEW amount \in Nat
  PROVE  LET m == FeeRow(h, amount) IN
         /\ m \in Micropays /\ m.at = "flushed" /\ m.by = h /\ m.amount = amount /\ m.authorized = None
         /\ m.channel = None /\ ~m.paid /\ m.settled /\ ~m.signed
BY DEF FeeRow, NoRow, Micropays

LEMMA GoneType ==
  ASSUME NEW amount \in Nat
  PROVE  LET m == [NoRow EXCEPT !.at = "gone", !.amount = amount] IN
         m \in Micropays /\ m.at = "gone"
BY DEF NoRow, Micropays

(* What a step does to the row m. *)
SameBut(m, n) == /\ n.by = m.by /\ n.authorized = m.authorized /\ n.channel = m.channel
                 /\ n \in Micropays

LEMMA PaidRow ==
  ASSUME NEW m \in Micropays, NEW n, n = [m EXCEPT !.paid = TRUE, !.signed = TRUE]
  PROVE  /\ SameBut(m, n) /\ n.at = m.at /\ n.amount = m.amount /\ n.settled = m.settled
         /\ n.paid /\ n.signed
BY DEF Micropays, SameBut

LEMMA KeptRow ==
  ASSUME NEW m \in Micropays, NEW n, n = [m EXCEPT !.at = "kept"]
  PROVE  /\ SameBut(m, n) /\ n.at = "kept" /\ n.amount = m.amount /\ n.settled = m.settled
         /\ n.paid = m.paid /\ n.signed = m.signed
BY DEF Micropays, SameBut

LEMMA FlippedRow ==
  ASSUME NEW m \in Micropays, NEW paid \in BOOLEAN, NEW n, n = [m EXCEPT !.paid = paid]
  PROVE  /\ SameBut(m, n) /\ n.at = m.at /\ n.amount = m.amount /\ n.settled = m.settled
         /\ n.paid = paid /\ n.signed = m.signed
BY DEF Micropays, SameBut

-----------------------------------------------------------------------------
(* The handlers. *)

LEMMA StartAndEnd ==
  ASSUME RowsInv, NEW r \in Reviewers, AskModel(r) \/ GatewayFree(r) \/ DirectFails(r)
  PROVE  RowsInv'
<1> USE DEF RowsInv
<1>1. /\ UNCHANGED <<micropay, page, channel, transfer, usdc, reversed>>
      /\ rail[r].at \in {"idle", "gateway", "direct"} /\ r \in Payers
      /\ \/ \E where \in {"gateway", "direct", "done"} :
              rail' = [rail EXCEPT ![r].at = where] /\ (where = "gateway" => Gateway)
         \/ rail' = [rail EXCEPT ![r] = NoRail]
  BY DEF AskModel, GatewayFree, DirectFails, Payers
<1>2. rail[r].row = None
  BY <1>1 DEF HeldInv
<1>3. /\ rail'[r].row = None /\ rail'[r].at \in {"idle", "gateway", "direct", "done"}
      /\ rail'[r].at = "gateway" => Gateway
      /\ \A h \in Payers \ {r} : rail'[h] = rail[h]
      /\ rail' \in [Payers -> [at : {"idle", "gateway", "direct", "charge", "done"},
                               row : Rows \cup {None}]]
  BY <1>1, <1>2 DEF RailTypes, NoRail
<1>4. RailTypes'
  BY <1>1, <1>3 DEF RailTypes
<1>5. HeldInv'
  BY <1>1, <1>2, <1>3 DEF HeldInv, Live, Payers
<1>6. BillInv' /\ PageInv' /\ PaidInv'
  BY <1>1 DEF BillInv, PageInv, PaidInv, Live, Kept, Resolved, Emptied, Withheld, Rest, Sound,
              Charged
<1> QED BY <1>4, <1>5, <1>6

LEMMA NoChannelType ==
  /\ NoChannel \in ChannelRecords /\ NoChannel.at = "free" /\ NoChannel.deposit = 0
  /\ NoChannel.drawn = 0 /\ NoChannel.refund = 0
BY DEF NoChannel, ChannelRecords

(* A channel that is free belongs to no row and no answer. *)
LEMMA FreshChannel ==
  ASSUME RowsInv, NEW c \in Channels, NEW a \in Nat, Opens(c, a)
  PROVE  /\ channel'[c].at = "open" /\ channel'[c].deposit = a /\ Sound(channel'[c], c)
         /\ \A d \in Channels \ {c} : channel'[d] = channel[d]
         /\ \A i \in Rows : Live(i) => micropay[i].channel # c
         /\ channel' \in [Channels -> ChannelRecords]
<1> USE DEF RowsInv
<1>1. /\ channel \in [Channels -> ChannelRecords]
      /\ channel[c].at = "free" /\ channel' =
           [channel EXCEPT ![c] = [NoChannel EXCEPT !.at = "open", !.deposit = a]]
  BY DEF RailTypes, Opens
<1>2. c # None
  BY DEF Channels
<1>3. \A i \in Rows : Live(i) => micropay[i].channel # c
  BY <1>1, <1>2 DEF BillInv
<1> DEFINE m == [NoChannel EXCEPT !.at = "open", !.deposit = a]
<1>4. /\ m \in ChannelRecords /\ m.at = "open" /\ m.deposit = a
      /\ m.drawn = 0 /\ m.refund = 0
  BY NoChannelType DEF ChannelRecords
<1> HIDE DEF m
<1>5. Sound(m, c)
  BY <1>4 DEF Sound
<1> QED BY <1>1, <1>3, <1>4, <1>5 DEF m

(* What resolveSettlement finds of a channel is no more than was taken of   *)
(* it, and no less if one transaction took it and emptied no other.        *)
LEMMA ResolvedBounds ==
  ASSUME RailTypes, BillInv, NEW c \in Channels
  PROVE  /\ Resolved(c) \in Nat \cup {None} /\ channel[c].deposit \in Nat
         /\ channel[c].drawn \in Nat /\ Taken(c) \in Nat /\ Taken(c) <= channel[c].deposit
         /\ Resolved(c) # None =>
              /\ channel[c].at = "closed" /\ Resolved(c) <= channel[c].deposit
              /\ Resolved(c) <= Taken(c)
              /\ channel[c].drawn = 0 /\ channel[c].with = {c} => Resolved(c) = Taken(c)
BY DEF RailTypes, BillInv, Sound, ChannelRecords, Resolved, Emptied, Withheld, Rest, Taken

LEMMA RowIds == None \notin Rows /\ None \notin Channels
BY DEF Rows, Channels

(* A row inserted by a handler that has none is the only one it has. *)
LEMMA InsertHeld ==
  ASSUME RowsInv, NEW h \in Payers, NEW i \in Rows, micropay[i].at = "free", rail[h].row = None,
         \A j \in Rows \ {i} : micropay'[j] = micropay[j],
         micropay'[i].at = "flushed", micropay'[i].by = h,
         NEW where \in {"charge", "done"}, rail' = [rail EXCEPT ![h] = [at |-> where, row |-> i]],
         where = "charge" => micropay'[i].channel = None, where = "done" => h \in Reviewers
  PROVE  HeldInv'
<1> USE DEF RowsInv
<1>1. /\ rail'[h].at = where /\ rail'[h].row = i
      /\ \A k \in Payers \ {h} : rail'[k] = rail[k]
  BY DEF RailTypes
<1>2. \A j \in Rows : Live(j)' => j = i \/ (Live(j) /\ micropay'[j] = micropay[j])
  BY DEF Live
<1>3. \A j \in Rows : Live(j)' => micropay'[j].by \in Payers
  BY <1>2 DEF HeldInv
<1>4. ASSUME NEW j \in Rows, micropay'[j].at = "flushed" PROVE rail'[micropay'[j].by].row = j
  <2>1. CASE j = i
    BY <1>1, <2>1
  <2>2. CASE j # i
    <3>1. rail[micropay[j].by].row = j /\ micropay[j].by \in Payers /\ j # None
      BY <1>4, <2>2, RowIds DEF HeldInv, Live
    <3> QED BY <1>1, <2>2, <3>1
  <2> QED BY <2>1, <2>2
<1>5. ASSUME NEW k \in Payers \ {h}, rail[k].row # None PROVE rail[k].row \in Rows \ {i}
  BY <1>5 DEF HeldInv, RailTypes
<1>6. h \in Clients => h \notin Reviewers
  OBVIOUS
<1> QED BY <1>1, <1>3, <1>4, <1>5, <1>6, RowIds DEF HeldInv

LEMMA Charges ==
  ASSUME RowsInv, NEW r \in Reviewers, GatewayCharges(r)
  PROVE  RowsInv'
<1> USE DEF RowsInv
<1>1. PICK i \in Rows, c \in Channels, a \in Asks :
        /\ Fresh(i) /\ Opens(c, a)
        /\ micropay' = [micropay EXCEPT ![i] = Receipt(r, c, a)]
        /\ rail' = [rail EXCEPT ![r] = [at |-> "done", row |-> i]]
  BY DEF GatewayCharges
<1>2. a \in Nat /\ a <= MaxCharge /\ r \in Payers /\ c # None /\ i # None
  BY DEF Payers, Channels, Rows
<1>3. rail[r].at = "gateway" /\ UNCHANGED <<page, transfer, usdc, reversed>>
  BY DEF GatewayCharges
<1>4. Gateway /\ rail[r].row = None
  BY <1>2, <1>3 DEF HeldInv
<1>5. LET m == micropay'[i] IN
      /\ m \in Micropays /\ m.at = "flushed" /\ m.by = r /\ m.authorized = a /\ m.channel = c
      /\ m.paid /\ ~m.settled /\ ~m.signed
  BY <1>1, <1>2, ReceiptType DEF RailTypes
<1>6. /\ micropay[i].at = "free" /\ \A j \in Rows \ {i} : micropay'[j] = micropay[j]
      /\ rail'[r].at = "done" /\ rail'[r].row = i /\ \A h \in Payers \ {r} : rail'[h] = rail[h]
  BY <1>1, <1>2 DEF RailTypes, Fresh
<1>7. RailTypes'
  BY <1>1, <1>2, <1>3, <1>5, FreshChannel DEF RailTypes
<1>8. HeldInv'
  BY <1>1, <1>2, <1>4, <1>5, <1>6, InsertHeld
<1>9. BillInv'
  <2>1. \A d \in Channels : Sound(channel'[d], d)
    BY <1>1, <1>2, FreshChannel DEF BillInv
  <2>2. ASSUME NEW j \in Rows, Live(j)', j # i
        PROVE  /\ micropay'[j] = micropay[j] /\ Live(j)
               /\ micropay[j].channel # None => channel'[micropay[j].channel] = channel[micropay[j].channel]
    <3>1. micropay'[j] = micropay[j] /\ Live(j) /\ micropay[j].channel \in Channels \cup {None}
      BY <1>6, <2>2 DEF Live, RailTypes, Micropays
    <3> QED BY <1>1, <1>2, <3>1, FreshChannel
  <2> QED BY <1>1, <1>2, <1>4, <1>5, <1>6, <2>1, <2>2, FreshChannel
     DEF BillInv, Live, Charged, Resolved, Emptied, Withheld, Rest, Sound
<1>10. PageInv'
  <2>1. ASSUME NEW j \in Rows, Kept(j), micropay[j].channel # None
        PROVE  /\ micropay'[j] = micropay[j]
               /\ channel'[micropay[j].channel] = channel[micropay[j].channel]
    <3>1. micropay'[j] = micropay[j] /\ Live(j) /\ micropay[j].channel \in Channels
      BY <1>6, <2>1 DEF Live, Kept, RailTypes, Micropays
    <3> QED BY <1>1, <1>2, <3>1, FreshChannel
  <2> QED BY <1>3, <2>1 DEF PageInv, Kept, Resolved, Emptied, Withheld, Rest, Sound
<1>11. PaidInv'
  BY <1>2, <1>3, <1>5, <1>6 DEF PaidInv, Live, Kept
<1> QED BY <1>7, <1>8, <1>9, <1>10, <1>11

(* What the gateway does to channels. *)
GatewayMoves ==
  \/ \E c \in Channels, a \in 1 .. MaxCharge : GatewayDraws(c, a)
  \/ \E C \in SUBSET Channels \ {{}} : \E refund \in [C -> 0 .. MaxCharge] :
       GatewayCloses(C, refund)

(* A channel that a row or an answer refers to only changes by being drawn *)
(* on and closing.                                                         *)
Moved(m, n) ==
  /\ m.at # "free" => n.at # "free" /\ n.deposit = m.deposit
  /\ m.at = "closed" => n = m

LEMMA Draws ==
  ASSUME RowsInv, NEW c \in Channels, NEW a \in Nat, GatewayDraws(c, a)
  PROVE  /\ channel' \in [Channels -> ChannelRecords]
         /\ \A d \in Channels : Sound(channel'[d], d) /\ Moved(channel[d], channel'[d])
<1> DEFINE n == [channel[c] EXCEPT !.drawn = @ + a]
<1>1. /\ channel \in [Channels -> ChannelRecords] /\ channel' = [channel EXCEPT ![c] = n]
      /\ channel[c].at = "open" /\ channel[c].drawn + a < channel[c].deposit
      /\ \A d \in Channels : Sound(channel[d], d)
  BY DEF GatewayDraws, RowsInv, RailTypes, BillInv
<1>2. channel[c].refund = 0
  BY <1>1 DEF Sound
<1>3. n \in ChannelRecords /\ Sound(n, c) /\ Moved(channel[c], n)
  BY <1>1, <1>2 DEF ChannelRecords, Sound, Moved
<1> HIDE DEF n
<1>4. channel'[c] = n /\ \A d \in Channels \ {c} : channel'[d] = channel[d]
  BY <1>1
<1> QED BY <1>1, <1>3, <1>4 DEF Moved

LEMMA Empties ==
  ASSUME RowsInv, NEW C \in SUBSET Channels, NEW refund \in [C -> 0 .. MaxCharge],
         GatewayCloses(C, refund)
  PROVE  /\ channel' \in [Channels -> ChannelRecords]
         /\ \A d \in Channels : Sound(channel'[d], d) /\ Moved(channel[d], channel'[d])
<1> DEFINE total == SumOver(refund, C)
           n(c) == [channel[c] EXCEPT !.at = "closed", !.refund = refund[c],
                                      !.change = total, !.with = C]
<1>1. /\ channel \in [Channels -> ChannelRecords]
      /\ \A d \in Channels : Sound(channel[d], d)
      /\ channel' = [c \in Channels |-> IF c \notin C THEN channel[c] ELSE n(c)]
      /\ \A c \in C : /\ channel[c].at = "open"
                       /\ channel[c].drawn + refund[c] <= channel[c].deposit
  BY DEF GatewayCloses, RowsInv, RailTypes, BillInv
<1>2. IsFiniteSet(C) /\ \A c \in C : refund[c] \in Nat
  <2>1. IsFiniteSet(Channels)
    BY FS_Interval DEF Channels
  <2> QED BY <2>1, FS_Subset
<1>3. /\ total \in Nat
      /\ \A c \in C : refund[c] <= total /\ (C = {c} => refund[c] = total)
  BY <1>2, SumType, SumMember, SumSingle
<1> HIDE DEF total
<1>4. ASSUME NEW c \in C
      PROVE  n(c) \in ChannelRecords /\ Sound(n(c), c) /\ Moved(channel[c], n(c))
  BY <1>1, <1>2, <1>3 DEF ChannelRecords, Sound, Moved
<1> HIDE DEF n
<1>5. \A c \in Channels : channel'[c] = IF c \notin C THEN channel[c] ELSE n(c)
  BY <1>1
<1>6. \A c \in Channels : Sound(channel'[c], c) /\ Moved(channel[c], channel'[c])
  BY <1>1, <1>4, <1>5 DEF Moved
<1>7. channel' \in [Channels -> ChannelRecords]
  BY <1>1, <1>4, <1>5
<1> QED BY <1>6, <1>7

LEMMA Channel ==
  ASSUME RowsInv, NEW r \in Reviewers,
         \/ GatewayBreaks(r) \/ GatewayMoves
  PROVE  RowsInv'
<1> USE DEF RowsInv
<1>1. UNCHANGED <<micropay, page, transfer, usdc, reversed>>
  BY DEF GatewayBreaks, GatewayMoves, GatewayDraws, GatewayCloses
<1>2. /\ rail' \in [Payers -> [at : {"idle", "gateway", "direct", "charge", "done"},
                               row : Rows \cup {None}]]
      /\ \A h \in Payers : \/ rail'[h] = rail[h]
                           \/ /\ h \in Reviewers /\ rail[h].at = "gateway"
                              /\ rail'[h].at = "direct" /\ rail'[h].row = rail[h].row
  <2>1. CASE rail' = rail
    BY <2>1 DEF RailTypes
  <2>2. CASE rail[r].at = "gateway" /\ rail' = [rail EXCEPT ![r].at = "direct"]
    <3>1. r \in Payers
      BY DEF Payers
    <3> QED BY SMTT(20), <2>2, <3>1 DEF RailTypes
  <2> QED BY <2>1, <2>2 DEF GatewayBreaks, GatewayMoves, GatewayDraws, GatewayCloses
<1>3. HeldInv'
  BY <1>1, <1>2 DEF HeldInv, Live
<1>4. /\ channel' \in [Channels -> ChannelRecords]
      /\ \A c \in Channels : Sound(channel'[c], c) /\ Moved(channel[c], channel'[c])
  <2>1. ASSUME NEW c \in Channels, NEW a \in Asks, Opens(c, a) PROVE <1>4!1 /\ <1>4!2
    <3>1. a \in Nat /\ channel[c].at = "free"
      BY <2>1 DEF Opens
    <3> QED BY <2>1, <3>1, FreshChannel DEF BillInv, Moved
  <2>2. CASE GatewayMoves
    BY <2>2, Draws, Empties DEF GatewayMoves
  <2>3. CASE UNCHANGED channel
    BY <2>3 DEF RailTypes, BillInv, Moved
  <2> QED BY <2>1, <2>2, <2>3 DEF GatewayBreaks
<1>5. RailTypes'
  BY <1>1, <1>2, <1>4 DEF RailTypes
<1>6. \A i \in Rows : micropay[i].channel \in Channels \cup {None}
  BY DEF RailTypes, Micropays
<1>7. BillInv'
  <2>1. ASSUME NEW i \in Rows, Live(i), micropay[i].channel # None
        PROVE  LET c == micropay[i].channel IN
               /\ channel'[c].at # "free" /\ micropay[i].authorized = channel'[c].deposit
               /\ micropay[i].settled => micropay[i].amount = Resolved(c)'
    <3> DEFINE c == micropay[i].channel
    <3>1. /\ c \in Channels /\ channel[c].at # "free" /\ micropay[i].amount # None
          /\ micropay[i].authorized = channel[c].deposit
          /\ micropay[i].settled => micropay[i].amount = Resolved(c)
      BY <1>6, <2>1 DEF BillInv, RailTypes, Micropays
    <3> HIDE DEF c
    <3>2. Resolved(c) # None => Resolved(c)' = Resolved(c)
      <4>1. channel[c].at = "closed" => channel'[c] = channel[c]
        BY <1>4, <3>1 DEF Moved
      <4>2. c' = c
        BY <1>1 DEF c
      <4> QED BY <4>1, <4>2 DEF Resolved, Emptied, Withheld, Rest
    <3> QED BY <1>4, <3>1, <3>2 DEF Moved, c
  <2>2. /\ \A i \in Rows : Live(i) /\ micropay[i].channel = None => micropay[i].authorized = None
        /\ \A i \in Rows : Live(i) /\ micropay[i].channel # None =>
             (micropay[i].at = "flushed" => ~micropay[i].settled)
        /\ \A i \in Rows : micropay[i].at = "flushed" /\ micropay[i].by \in Reviewers =>
             Charged(micropay[i]) <= MaxCharge
    BY DEF BillInv
  <2> QED BY <1>1, <1>4, <2>1, <2>2
          DEF BillInv, Live, Charged, Resolved, Emptied, Withheld, Rest
<1>8. PageInv' /\ PaidInv'
  BY <1>1, <1>4, <1>6 DEF PageInv, PaidInv, Live, Kept, Moved, Resolved, Emptied, Withheld,
                          Rest, Sound
<1> QED BY <1>3, <1>5, <1>7, <1>8

LEMMA ChargeStep ==
  ASSUME RowsInv, NEW h \in Payers, NEW amount \in Nat, Charge(h, amount), rail[h].row = None,
         h \in Reviewers => amount <= MaxCharge
  PROVE  RowsInv'
<1> USE DEF RowsInv
<1>1. PICK i \in Rows :
        /\ Fresh(i) /\ micropay' = [micropay EXCEPT ![i] = FeeRow(h, amount)]
        /\ transfer' = [transfer EXCEPT ![i] = "flying"]
        /\ rail' = [rail EXCEPT ![h] = [at |-> "charge", row |-> i]]
        /\ UNCHANGED <<page, channel, usdc, reversed>>
  BY DEF Charge, FeeRow
<1>2. LET m == micropay'[i] IN
      /\ m \in Micropays /\ m.at = "flushed" /\ m.by = h /\ m.amount = amount /\ m.authorized = None
      /\ m.channel = None /\ ~m.paid /\ m.settled /\ ~m.signed
  BY <1>1, FeeRowType DEF RailTypes
<1>3. micropay[i].at = "free" /\ \A j \in Rows \ {i} : micropay'[j] = micropay[j] /\ transfer'[j] = transfer[j]
  BY <1>1 DEF RailTypes, Fresh
<1>4. RailTypes'
  BY <1>1, <1>2 DEF RailTypes
<1>5. HeldInv'
  BY <1>1, <1>2, <1>3, InsertHeld
<1>6. BillInv' /\ PageInv' /\ PaidInv'
  BY <1>1, <1>2, <1>3 DEF BillInv, PageInv, PaidInv, Live, Kept, Charged, Resolved, Emptied,
                          Withheld, Rest, Sound
<1> QED BY <1>4, <1>5, <1>6

LEMMA Transfers ==
  ASSUME RowsInv, NEW i \in Rows, TransferLands(i) \/ TransferFails(i)
  PROVE  RowsInv'
<1> USE DEF RowsInv
<1>1. /\ transfer' \in [Rows -> {"none", "flying", "landed", "failed"}] /\ usdc' \in Nat
      /\ \A j \in Rows : transfer[j] = "landed" => transfer'[j] = "landed"
      /\ UNCHANGED <<micropay, rail, page, channel, reversed>>
  <2>1. micropay[i].amount \in Nat
    BY DEF RailTypes, Micropays
  <2> QED BY <2>1 DEF TransferLands, TransferFails, RailTypes
<1>2. RailTypes'
  BY <1>1 DEF RailTypes
<1>3. HeldInv' /\ BillInv' /\ PageInv' /\ PaidInv'
  BY <1>1 DEF HeldInv, BillInv, PageInv, PaidInv, Live, Kept, Resolved, Emptied, Withheld,
              Rest, Sound, Charged
<1> QED BY <1>2, <1>3

(* Rows may be edited under those who hold them. *)
LEMMA EditHeld ==
  ASSUME RowsInv,
         \A j \in Rows : /\ micropay'[j].at = micropay[j].at /\ SameBut(micropay[j], micropay'[j])
                         /\ micropay[j].signed => micropay'[j].signed,
         \A k \in Payers :
           \/ rail'[k] = rail[k]
           \/ /\ rail'[k].row = rail[k].row /\ rail'[k].at = "done"
              /\ rail[k].row \in Rows /\ micropay'[rail[k].row].signed
  PROVE  HeldInv'
<1> USE DEF RowsInv, SameBut
<1>1. \A k \in Payers : rail[k].row \in Rows \cup {None}
  BY DEF RailTypes
<1>2. \A j \in Rows : Live(j)' => micropay'[j].by \in Payers
  BY DEF HeldInv, Live
<1>3. \A j \in Rows : micropay'[j].at = "flushed" => rail'[micropay'[j].by].row = j
  BY DEF HeldInv, Live
<1>4. ASSUME NEW k \in Payers
      PROVE  /\ rail'[k].row # None => /\ micropay'[rail'[k].row].at = "flushed"
                                       /\ micropay'[rail'[k].row].by = k
                                       /\ rail'[k].at \in {"charge", "done"}
             /\ rail'[k].at = "charge" => rail'[k].row # None /\ micropay'[rail'[k].row].channel = None
             /\ rail'[k].at = "gateway" => Gateway /\ k \in Reviewers
             /\ rail'[k].at = "direct" => k \in Reviewers
             /\ rail'[k].at = "done" /\ k \in Clients =>
                  rail'[k].row # None /\ micropay'[rail'[k].row].signed
  BY <1>1, RowIds DEF HeldInv
<1> QED BY <1>2, <1>3, <1>4 DEF HeldInv

LEMMA Paid ==
  ASSUME RowsInv, NEW h \in Payers, ChargePaid(h)
  PROVE  RowsInv'
<1> USE DEF RowsInv
<1> DEFINE i == rail[h].row
<1>1. /\ i \in Rows /\ micropay[i].at = "flushed" /\ micropay[i].by = h /\ micropay[i].channel = None
      /\ rail[h].at = "charge" /\ transfer[i] = "landed"
  BY DEF ChargePaid, PaidReply, HeldInv, RailTypes
<1>2. /\ micropay' = [micropay EXCEPT ![i] = [micropay[i] EXCEPT !.paid = TRUE, !.signed = TRUE]]
      /\ rail' = [rail EXCEPT ![h].at = "done"]
      /\ UNCHANGED <<page, channel, transfer, usdc, reversed>>
  BY <1>1 DEF ChargePaid, RailTypes
<1> HIDE DEF i
<1>3. LET m == micropay[i]
          n == micropay'[i]
      IN  /\ SameBut(m, n) /\ n.at = m.at /\ n.amount = m.amount /\ n.settled = m.settled
          /\ n.paid /\ n.signed
  <2>1. micropay[i] \in Micropays /\ micropay'[i] = [micropay[i] EXCEPT !.paid = TRUE, !.signed = TRUE]
    BY <1>1, <1>2 DEF RailTypes
  <2> QED BY <2>1, PaidRow
<1>4. \A j \in Rows \ {i} : micropay'[j] = micropay[j]
  BY <1>1, <1>2 DEF RailTypes
<1>5. /\ rail'[h].at = "done" /\ rail'[h].row = i /\ \A k \in Payers \ {h} : rail'[k] = rail[k]
      /\ rail' \in [Payers -> [at : {"idle", "gateway", "direct", "charge", "done"},
                               row : Rows \cup {None}]]
  BY SMTT(20), <1>1, <1>2 DEF RailTypes, i
<1>6. RailTypes'
  BY <1>1, <1>2, <1>3, <1>5 DEF RailTypes, SameBut
<1>7. HeldInv'
  <2>1. \A j \in Rows : /\ micropay'[j].at = micropay[j].at /\ SameBut(micropay[j], micropay'[j])
                        /\ micropay[j].signed => micropay'[j].signed
    BY <1>3, <1>4 DEF SameBut, RailTypes
  <2> QED BY <1>1, <1>3, <1>5, <2>1, EditHeld DEF i
<1>8. BillInv'
  BY <1>1, <1>2, <1>3, <1>4 DEF BillInv, Live, Charged, SameBut, Resolved, Emptied, Withheld,
                                Rest, Sound
<1>9. PageInv' /\ PaidInv'
  BY <1>1, <1>2, <1>3, <1>4 DEF PageInv, PaidInv, Live, Kept, SameBut, Resolved, Emptied,
                                Withheld, Rest, Sound
<1> QED BY <1>6, <1>7, <1>8, <1>9

(* A payer that is through with its row leaves it to nobody. *)
LEMMA LetGo ==
  ASSUME RowsInv, NEW h \in Payers, rail' = [rail EXCEPT ![h] = NoRail],
         \A j \in Rows : j # rail[h].row => micropay'[j] = micropay[j],
         \A j \in Rows : j = rail[h].row => /\ micropay'[j].at # "flushed"
                                            /\ Live(j)' => micropay'[j].by = h
  PROVE  HeldInv'
<1> USE DEF RowsInv
<1>1. /\ rail'[h].row = None /\ rail'[h].at = "idle" /\ \A k \in Payers \ {h} : rail'[k] = rail[k]
  BY DEF RailTypes, NoRail
<1>2. \A k \in Payers : rail[k].row \in Rows \cup {None}
  BY DEF RailTypes
<1>3. \A j \in Rows : Live(j)' => micropay'[j].by \in Payers
  BY DEF HeldInv, Live
<1>4. ASSUME NEW j \in Rows, micropay'[j].at = "flushed" PROVE rail'[micropay'[j].by].row = j
  <2>1. j # rail[h].row /\ micropay'[j] = micropay[j]
    BY <1>4
  <2>2. rail[micropay[j].by].row = j /\ micropay[j].by \in Payers
    BY <1>4, <2>1 DEF HeldInv, Live
  <2> QED BY <1>1, <2>1, <2>2
<1>5. ASSUME NEW k \in Payers \ {h}, rail[k].row # None
      PROVE  rail[k].row \in Rows /\ rail[k].row # rail[h].row
  BY <1>2, <1>5 DEF HeldInv
<1> QED BY <1>1, <1>3, <1>4, <1>5 DEF HeldInv

LEMMA Discards ==
  ASSUME RowsInv, NEW h \in Payers, rail' = [rail EXCEPT ![h] = NoRail], micropay' = Discarded(h),
         UNCHANGED <<page, channel, transfer, usdc, reversed>>
  PROVE  RowsInv'
<1> USE DEF RowsInv
<1>1. rail[h].row \in Rows \cup {None}
  BY DEF RailTypes
<1>2. /\ \A j \in Rows : j # rail[h].row => micropay'[j] = micropay[j]
      /\ \A j \in Rows : j = rail[h].row => micropay[j].at = "flushed" /\ micropay'[j].at = "gone"
      /\ micropay' \in [Rows -> Micropays]
  <2>1. CASE rail[h].row = None
    BY <2>1, RowIds DEF Discarded, RailTypes
  <2>2. CASE rail[h].row \in Rows
    <3> DEFINE i == rail[h].row
               gone == [NoRow EXCEPT !.at = "gone", !.amount = micropay[i].amount]
    <3>1. i # None /\ micropay[i].amount \in Nat
      BY <2>2, RowIds DEF RailTypes, Micropays
    <3>2. gone \in Micropays /\ gone.at = "gone"
      BY <3>1, GoneType
    <3>3. micropay' = [micropay EXCEPT ![i] = gone]
      BY <3>1 DEF Discarded
    <3>4. micropay[i].at = "flushed"
      BY <3>1 DEF HeldInv
    <3> HIDE DEF gone
    <3> QED BY <2>2, <3>2, <3>3, <3>4 DEF RailTypes
  <2> QED BY <1>1, <2>1, <2>2
<1>3. RailTypes'
  BY <1>2 DEF RailTypes, NoRail
<1>4. \A j \in Rows : Live(j)' => micropay'[j] = micropay[j]
  BY <1>2 DEF Live
<1>5. \A j \in Rows : Kept(j) => micropay'[j] = micropay[j]
  BY <1>2 DEF Kept
<1>6. HeldInv'
  BY <1>2, LetGo DEF Live
<1>7. BillInv' /\ PaidInv'
  BY <1>4 DEF BillInv, PaidInv, Live, Kept, Charged, Resolved, Emptied, Withheld, Rest, Sound
<1>8. PageInv'
  BY <1>5 DEF PageInv, Kept, Resolved, Emptied, Withheld, Rest, Sound
<1> QED BY <1>3, <1>6, <1>7, <1>8

LEMMA Breaks ==
  ASSUME RowsInv, NEW h \in Payers, ChargeFails(h) \/ PayerDies(h)
  PROVE  RowsInv'
<1>1. CASE /\ rail[h].at = "charge" /\ h \in Reviewers
           /\ rail' = [rail EXCEPT ![h].at = "done"]
           /\ UNCHANGED <<micropay, page, channel, transfer, usdc, reversed>>
  <2> USE DEF RowsInv
  <2>1. /\ rail'[h].at = "done" /\ rail'[h].row = rail[h].row /\ h \notin Clients
        /\ \A k \in Payers \ {h} : rail'[k] = rail[k]
    BY <1>1 DEF RailTypes
  <2>2. RailTypes'
    BY <1>1 DEF RailTypes
  <2>3. HeldInv'
    BY <1>1, <2>1 DEF HeldInv, Live
  <2>4. BillInv' /\ PageInv' /\ PaidInv'
    BY <1>1 DEF BillInv, PageInv, PaidInv, Live, Kept, Charged, Resolved, Emptied, Withheld,
                Rest, Sound
  <2> QED BY <2>2, <2>3, <2>4
<1>2. CASE /\ rail' = [rail EXCEPT ![h] = NoRail] /\ micropay' = Discarded(h)
           /\ UNCHANGED <<page, channel, transfer, usdc, reversed>>
  BY <1>2, Discards
<1> QED BY <1>1, <1>2 DEF ChargeFails, PayerDies

LEMMA Commits ==
  ASSUME RowsInv, NEW h \in Payers, CommitPayment(h)
  PROVE  RowsInv'
<1> USE DEF RowsInv
<1>1. /\ rail[h].at = "done" /\ rail' = [rail EXCEPT ![h] = NoRail]
      /\ rail[h].row \in Rows \cup {None}
      /\ UNCHANGED <<page, channel, transfer, usdc, reversed>>
  BY DEF CommitPayment, RailTypes
<1>2. /\ \A j \in Rows : j # rail[h].row => micropay'[j] = micropay[j]
      /\ \A j \in Rows : j = rail[h].row =>
           LET m == micropay[j]
               n == micropay'[j]
           IN  /\ m.at = "flushed" /\ m.by = h /\ (h \in Clients => m.signed)
               /\ SameBut(m, n) /\ n.at = "kept" /\ n.amount = m.amount /\ n.settled = m.settled
               /\ n.paid = m.paid /\ n.signed = m.signed
      /\ micropay' \in [Rows -> Micropays]
  <2>1. CASE rail[h].row = None
    BY <2>1, RowIds DEF CommitPayment, RailTypes
  <2>2. CASE rail[h].row \in Rows
    <3> DEFINE i == rail[h].row
    <3>1. /\ micropay' = [micropay EXCEPT ![i] = [micropay[i] EXCEPT !.at = "kept"]]
          /\ i \in Rows /\ micropay[i] \in Micropays
      BY <2>2, RowIds DEF CommitPayment, RailTypes
    <3>2. micropay[i].at = "flushed" /\ micropay[i].by = h /\ (h \in Clients => micropay[i].signed)
      BY <1>1, <2>2, RowIds DEF HeldInv
    <3> HIDE DEF i
    <3>3. micropay'[i] = [micropay[i] EXCEPT !.at = "kept"] /\ \A j \in Rows \ {i} : micropay'[j] = micropay[j]
      BY <3>1 DEF RailTypes
    <3>4. LET m == micropay[i]
              n == micropay'[i]
          IN  /\ SameBut(m, n) /\ n.at = "kept" /\ n.amount = m.amount /\ n.settled = m.settled
              /\ n.paid = m.paid /\ n.signed = m.signed
      BY <3>1, <3>3, KeptRow
    <3>5. micropay' \in [Rows -> Micropays]
      BY <3>1, <3>4 DEF SameBut, RailTypes
    <3> QED BY <3>2, <3>3, <3>4, <3>5 DEF i
  <2> QED BY <1>1, <2>1, <2>2
<1>3. RailTypes'
  BY <1>1, <1>2 DEF RailTypes, NoRail
<1>4. HeldInv'
  <2>1. \A j \in Rows : j = rail[h].row => /\ micropay'[j].at # "flushed"
                                           /\ Live(j)' => micropay'[j].by = h
    BY <1>2 DEF SameBut
  <2> QED BY <1>1, <1>2, <2>1, LetGo
<1>5. BillInv'
  BY <1>1, <1>2 DEF BillInv, Live, Charged, Resolved, Emptied, Withheld, Rest, Sound, SameBut
<1>6. PageInv'
  BY <1>1, <1>2 DEF PageInv, Kept, Resolved, Emptied, Withheld, Rest, Sound, SameBut
<1>7. PaidInv'
  BY <1>1, <1>2, RowIds DEF PaidInv, Live, Kept, SameBut
<1> QED BY <1>3, <1>4, <1>5, <1>6, <1>7

LEMMA Webhook ==
  ASSUME RowsInv, NEW i \in Rows, NEW paid \in BOOLEAN, PayshWebhook(i, paid)
  PROVE  RowsInv'
<1> USE DEF RowsInv
<1>1. /\ micropay[i].at = "kept" /\ micropay[i].signed /\ micropay[i].paid # paid
      /\ micropay' = [micropay EXCEPT ![i] = [micropay[i] EXCEPT !.paid = paid]]
      /\ i \in reversed' \/ paid
      /\ reversed \subseteq reversed' /\ reversed' \in SUBSET Rows
      /\ UNCHANGED <<rail, page, channel, transfer, usdc>>
  BY DEF PayshWebhook, Kept, RailTypes
<1>2. micropay'[i] = [micropay[i] EXCEPT !.paid = paid] /\ micropay[i] \in Micropays
  BY <1>1 DEF RailTypes
<1>3. LET m == micropay[i]
          n == micropay'[i]
      IN  /\ SameBut(m, n) /\ n.at = m.at /\ n.amount = m.amount /\ n.settled = m.settled
          /\ n.paid = paid /\ n.signed = m.signed
  BY <1>2, FlippedRow
<1>4. \A j \in Rows \ {i} : micropay'[j] = micropay[j]
  BY <1>1 DEF RailTypes
<1>5. RailTypes'
  BY <1>1, <1>3 DEF RailTypes, SameBut
<1>6. HeldInv'
  <2>1. \A j \in Rows : /\ micropay'[j].at = micropay[j].at /\ SameBut(micropay[j], micropay'[j])
                        /\ micropay[j].signed => micropay'[j].signed
    BY <1>3, <1>4 DEF SameBut, RailTypes
  <2> QED BY <1>1, <2>1, EditHeld
<1>7. BillInv'
  BY <1>1, <1>3, <1>4 DEF BillInv, Live, Charged, SameBut, Resolved, Emptied, Withheld, Rest, Sound
<1>8. micropay[i].paid \/ i \in reversed
  BY <1>1 DEF PaidInv, Live
<1>9. PageInv'
  BY <1>1, <1>3, <1>4, <1>8 DEF PageInv, Kept, SameBut, Resolved, Emptied, Withheld, Rest, Sound
<1>10. PaidInv'
  BY <1>1, <1>3, <1>4, <1>8 DEF PaidInv, Live, Kept, SameBut
<1> QED BY <1>5, <1>6, <1>7, <1>9, <1>10

-----------------------------------------------------------------------------
(* The settlement pages. *)

LEMMA NoPageType ==
  /\ NoPage.at = "idle" /\ NoPage.todo = {} /\ \A i \in Rows : NoPage.found[i] = None
  /\ NoPage.found \in [Rows -> Nat \cup {None}]
  /\ NoPage \in [at : {"idle", "asking"}, todo : SUBSET Rows, found : [Rows -> Nat \cup {None}]]
BY DEF NoPage

(* Only page g moves, and what it has to ask for or was answered holds. *)
LEMMA PageStep ==
  ASSUME RowsInv, NEW g \in Pages, UNCHANGED <<micropay, rail, channel, transfer, usdc, reversed>>,
         NEW p \in [at : {"idle", "asking"}, todo : SUBSET Rows, found : [Rows -> Nat \cup {None}]],
         page' = [page EXCEPT ![g] = p],
         \A i \in Rows :
           /\ i \in p.todo \/ p.found[i] # None =>
                /\ Kept(i) /\ micropay[i].channel # None
                /\ micropay[i].paid \/ i \in reversed
           /\ p.found[i] # None => p.found[i] = Resolved(micropay[i].channel)
  PROVE  RowsInv'
<1> USE DEF RowsInv
<1>1. RailTypes'
  BY DEF RailTypes
<1>2. page'[g] = p /\ \A k \in Pages \ {g} : page'[k] = page[k]
  BY DEF RailTypes
<1>3. PageInv'
  BY <1>2 DEF PageInv, Kept, Resolved, Emptied, Withheld, Rest, Sound
<1>4. HeldInv' /\ BillInv' /\ PaidInv'
  BY DEF HeldInv, BillInv, PaidInv, Live, Kept, Resolved, Emptied, Withheld, Rest, Sound, Charged
<1> QED BY <1>1, <1>3, <1>4

LEMMA OpensPage ==
  ASSUME RowsInv, NEW g \in Pages, OpenPage(g)
  PROVE  RowsInv'
<1> DEFINE p == [NoPage EXCEPT !.at = "asking", !.todo = Unsettled]
<1>1. /\ p \in [at : {"idle", "asking"}, todo : SUBSET Rows, found : [Rows -> Nat \cup {None}]]
      /\ p.todo = Unsettled /\ \A i \in Rows : p.found[i] = None
  BY DEF NoPage, Unsettled
<1>2. page' = [page EXCEPT ![g] = p] /\ UNCHANGED <<micropay, rail, channel, transfer, usdc, reversed>>
  BY DEF OpenPage
<1>3. \A i \in Unsettled : Kept(i) /\ micropay[i].channel # None /\ micropay[i].paid
  BY DEF Unsettled
<1> HIDE DEF p
<1> QED BY <1>1, <1>2, <1>3, PageStep

LEMMA Asked ==
  ASSUME RowsInv, NEW g \in Pages, NEW i \in Rows, NEW answered \in BOOLEAN, AskChannel(g, i, answered)
  PROVE  RowsInv'
<1> DEFINE answer == IF answered THEN Resolved(micropay[i].channel) ELSE None
           p == [page[g] EXCEPT !.todo = @ \ {i}, !.found[i] = answer]
<1>1. /\ page[g] \in [at : {"idle", "asking"}, todo : SUBSET Rows, found : [Rows -> Nat \cup {None}]]
      /\ i \in page[g].todo /\ page[g].found \in [Rows -> Nat \cup {None}]
  BY DEF AskChannel, RowsInv, RailTypes
<1>2. Kept(i) /\ micropay[i].channel \in Channels /\ (micropay[i].paid \/ i \in reversed)
  BY <1>1 DEF RowsInv, RailTypes, PageInv, Micropays
<1>3. /\ answer # None => answer = Resolved(micropay[i].channel)
      /\ answer \in Nat \cup {None}
  BY <1>2, ResolvedBounds DEF RowsInv
<1> HIDE DEF answer
<1>4. /\ p \in [at : {"idle", "asking"}, todo : SUBSET Rows, found : [Rows -> Nat \cup {None}]]
      /\ p.todo = page[g].todo \ {i} /\ p.found[i] = answer
      /\ \A j \in Rows \ {i} : p.found[j] = page[g].found[j]
  BY <1>1, <1>3
<1>5. page' = [page EXCEPT ![g] = p] /\ UNCHANGED <<micropay, rail, channel, transfer, usdc, reversed>>
  <2>1. page' = [page EXCEPT ![g].todo = @ \ {i}, ![g].found[i] = answer]
    BY DEF AskChannel, answer
  <2> QED BY <1>1, <2>1 DEF AskChannel, RowsInv, RailTypes
<1> HIDE DEF p
<1>6. \A j \in Rows :
        /\ j \in p.todo \/ p.found[j] # None =>
             /\ Kept(j) /\ micropay[j].channel # None
             /\ micropay[j].paid \/ j \in reversed
        /\ p.found[j] # None => p.found[j] = Resolved(micropay[j].channel)
  BY <1>1, <1>2, <1>3, <1>4, RowIds DEF RowsInv, PageInv
<1> QED BY <1>4, <1>5, <1>6, PageStep

LEMMA Dies ==
  ASSUME RowsInv, NEW g \in Pages, PageDies(g)
  PROVE  RowsInv'
BY NoPageType, PageStep DEF PageDies

LEMMA Closes ==
  ASSUME RowsInv, NEW g \in Pages, ClosePage(g)
  PROVE  RowsInv'
<1> USE DEF RowsInv
<1> DEFINE Found(i) == page[g].found[i] # None
<1>0. /\ page' = [page EXCEPT ![g] = NoPage]
      /\ UNCHANGED <<rail, channel, transfer, usdc, reversed>>
  BY DEF ClosePage
<1>1. micropay' = [i \in Rows |-> IF Found(i)
                        THEN [micropay[i] EXCEPT !.amount = page[g].found[i], !.settled = TRUE,
                                                 !.signed = TRUE]
                        ELSE micropay[i]]
  BY DEF ClosePage
<1>2. \A i \in Rows : ~Found(i) => micropay'[i] = micropay[i]
  BY <1>1
<1>3. \A i \in Rows : Found(i) =>
        /\ micropay[i].at = "kept" /\ micropay[i].channel # None
        /\ micropay[i].paid \/ i \in reversed
        /\ page[g].found[i] = Resolved(micropay[i].channel)
  BY DEF PageInv, Kept
<1>4. ASSUME NEW i \in Rows, Found(i)
      PROVE  LET m == micropay[i]
                 n == micropay'[i]
             IN  /\ SameBut(m, n) /\ n.at = m.at /\ n.amount = Resolved(m.channel) /\ n.settled
                 /\ n.paid = m.paid /\ n.signed
  <2>1. micropay[i] \in Micropays /\ page[g].found[i] \in Nat
    BY <1>4 DEF RailTypes
  <2>2. micropay'[i] = [micropay[i] EXCEPT !.amount = page[g].found[i], !.settled = TRUE, !.signed = TRUE]
    BY <1>1, <1>4
  <2>3. page[g].found[i] = Resolved(micropay[i].channel)
    BY <1>3, <1>4
  <2> DEFINE amount == page[g].found[i]
             n == micropay'[i]
  <2>4. amount \in Nat /\ n = [micropay[i] EXCEPT !.amount = amount, !.settled = TRUE, !.signed = TRUE]
    BY <2>1, <2>2
  <2> HIDE DEF amount, n
  <2>5. /\ SameBut(micropay[i], n) /\ n.at = micropay[i].at /\ n.amount = amount /\ n.settled
        /\ n.paid = micropay[i].paid /\ n.signed
    BY <2>1, <2>4 DEF Micropays, SameBut
  <2> QED BY <2>3, <2>5 DEF amount, n
<1> HIDE DEF Found
<1>5. \A j \in Rows : /\ micropay'[j].at = micropay[j].at /\ SameBut(micropay[j], micropay'[j])
                      /\ micropay[j].signed => micropay'[j].signed
  BY <1>2, <1>4 DEF SameBut, RailTypes
<1>6. RailTypes'
  <2>1. micropay' \in [Rows -> Micropays]
    BY <1>1, <1>5 DEF SameBut
  <2> QED BY <1>0, <2>1, NoPageType DEF RailTypes
<1>7. HeldInv'
  BY <1>0, <1>5, EditHeld
<1>8. BillInv'
  <2>1. ASSUME NEW i \in Rows, Found(i)
        PROVE  LET n == micropay'[i] IN
               /\ n.at = "kept" /\ n.channel # None /\ n.amount = Resolved(n.channel)
               /\ channel[n.channel].at # "free" /\ n.authorized = channel[n.channel].deposit
    <3>1. /\ micropay[i].authorized = channel[micropay[i].channel].deposit
          /\ channel[micropay[i].channel].at # "free"
      BY <1>3, <2>1 DEF BillInv, Live
    <3>2. micropay'[i].at = micropay[i].at /\ micropay'[i].channel = micropay[i].channel
      BY <1>4, <2>1 DEF SameBut
    <3>3. micropay'[i].amount = Resolved(micropay[i].channel) /\ micropay'[i].authorized = micropay[i].authorized
      BY <1>4, <2>1 DEF SameBut
    <3> QED BY <1>3, <2>1, <3>1, <3>2, <3>3
  <2>2. /\ \A c \in Channels : Sound(channel'[c], c)
        /\ \A c : Resolved(c)' = Resolved(c)
    BY <1>0 DEF BillInv, Resolved, Emptied, Withheld, Rest, Sound
  <2>3. ASSUME NEW i \in Rows, Live(i)'
        PROVE  IF micropay'[i].channel = None THEN micropay'[i].authorized = None
               ELSE LET c == micropay'[i].channel IN
                    /\ channel[c].at # "free" /\ micropay'[i].authorized = channel[c].deposit
                    /\ micropay'[i].settled => micropay'[i].amount = Resolved(c)
                    /\ micropay'[i].at = "flushed" => ~micropay'[i].settled
    <3>1. CASE Found(i)
      BY <2>1, <3>1
    <3>2. CASE ~Found(i)
      BY <1>2, <2>3, <3>2 DEF BillInv, Live
    <3> QED BY <3>1, <3>2
  <2>4. ASSUME NEW i \in Rows, micropay'[i].at = "flushed", micropay'[i].by \in Reviewers
        PROVE  Charged(micropay'[i]) <= MaxCharge
    BY <1>2, <2>1, <2>4 DEF BillInv
  <2> QED BY <1>0, <2>2, <2>3, <2>4 DEF BillInv, Charged, Resolved, Emptied, Withheld, Rest, Sound
<1>9. PageInv'
  <2>1. /\ page'[g].todo = {} /\ \A i \in Rows : page'[g].found[i] = None
        /\ \A k \in Pages \ {g} : page'[k] = page[k]
    BY <1>0, NoPageType DEF RailTypes
  <2>2. \A j \in Rows : /\ micropay'[j].at = micropay[j].at
                        /\ micropay'[j].channel = micropay[j].channel
                        /\ micropay'[j].paid = micropay[j].paid
    BY <1>2, <1>4 DEF SameBut
  <2>3. ASSUME NEW k \in Pages, NEW i \in Rows, i \in page'[k].todo \/ page'[k].found[i] # None
        PROVE  k # g /\ page'[k] = page[k]
    BY <2>1, <2>3
  <2> QED BY <1>0, <2>2, <2>3 DEF PageInv, Kept, Resolved, Emptied, Withheld, Rest, Sound
<1>10. PaidInv'
  <2>1. ASSUME NEW i \in Rows, Found(i)
        PROVE  micropay'[i].channel # None /\ (micropay'[i].paid \/ i \in reversed')
    <3>1. /\ micropay'[i].channel = micropay[i].channel /\ (micropay'[i].paid = micropay[i].paid)
          /\ micropay[i].channel # None /\ (micropay[i].paid \/ i \in reversed)
      BY <1>3, <1>4, <2>1 DEF SameBut
    <3> QED BY <1>0, <3>1
  <2> QED BY <1>0, <1>2, <2>1 DEF PaidInv, Live, Kept
<1> QED BY <1>6, <1>7, <1>8, <1>9, <1>10

-----------------------------------------------------------------------------
(* Together. *)

LEMMA RowsStep ==
  ASSUME RowsInv, [RailsNext]_rails
  PROVE  RowsInv'
<1> SUFFICES ASSUME RailsNext \/ UNCHANGED rails PROVE RowsInv'
  OBVIOUS
<1>1. ASSUME NEW r \in Reviewers, AskModel(r) \/ GatewayFree(r) \/ DirectFails(r) PROVE RowsInv'
  BY <1>1, StartAndEnd
<1>2. ASSUME NEW r \in Reviewers, GatewayCharges(r) PROVE RowsInv'
  BY <1>2, Charges
<1>3. ASSUME NEW r \in Reviewers, GatewayBreaks(r) PROVE RowsInv'
  BY <1>3, Channel
<1>4. ASSUME GatewayMoves PROVE RowsInv'
  BY <1>4, Channel
<1>5. ASSUME NEW r \in Reviewers, DirectAnswers(r) PROVE RowsInv'
  <2>1. r \in Payers /\ Fee \in Nat /\ Fee <= MaxCharge
    BY DEF Payers
  <2>2. rail[r].row = None
    BY <1>5, <2>1 DEF DirectAnswers, RowsInv, HeldInv
  <2> QED BY <1>5, <2>1, <2>2, ChargeStep DEF DirectAnswers
<1>6. ASSUME NEW h \in Clients, NEW a \in Prices, ClientPays(h, a) PROVE RowsInv'
  <2>1. h \in Payers /\ a \in Nat /\ h \notin Reviewers
    BY DEF Payers
  <2>2. rail[h].row = None
    BY <1>6, <2>1 DEF ClientPays, RowsInv, HeldInv
  <2> QED BY <1>6, <2>1, <2>2, ChargeStep DEF ClientPays
<1>7. ASSUME NEW h \in Payers, CommitPayment(h) PROVE RowsInv'
  BY <1>7, Commits
<1>8. ASSUME NEW h \in Payers, ChargePaid(h) PROVE RowsInv'
  BY <1>8, Paid
<1>9. ASSUME NEW h \in Payers, ChargeFails(h) \/ PayerDies(h) PROVE RowsInv'
  BY <1>9, Breaks
<1>10. ASSUME NEW i \in Rows, TransferLands(i) \/ TransferFails(i) PROVE RowsInv'
  BY <1>10, Transfers
<1>11. ASSUME NEW i \in Rows, NEW paid \in BOOLEAN, PayshWebhook(i, paid) PROVE RowsInv'
  BY <1>11, Webhook
<1>12. ASSUME NEW g \in Pages, OpenPage(g) \/ ClosePage(g) \/ PageDies(g) PROVE RowsInv'
  BY <1>12, OpensPage, Closes, Dies
<1>13. ASSUME NEW g \in Pages, NEW i \in Rows, NEW answered \in BOOLEAN, AskChannel(g, i, answered)
       PROVE  RowsInv'
  BY <1>13, Asked
<1>14. CASE UNCHANGED rails
  BY <1>14 DEF rails, RowsInv, RailTypes, HeldInv, BillInv, PageInv, PaidInv, Live, Kept,
               Resolved, Emptied, Withheld, Rest, Sound, Charged
<1> QED BY <1>1, <1>2, <1>3, <1>4, <1>5, <1>6, <1>7, <1>8, <1>9, <1>10, <1>11, <1>12, <1>13, <1>14
        DEF RailsNext, RailStep, GatewayMoves, Payers

-----------------------------------------------------------------------------
(* The budget. *)

LEMMA CostType ==
  /\ ReviewCost \in Nat /\ MaxCharge \in Nat /\ ReviewCost <= MaxCharge
  /\ Budget # None => Budget \in Nat
BY DEF ReviewCost

LEMMA ChargedType ==
  ASSUME NEW m \in Micropays
  PROVE  Charged(m) \in Nat
BY DEF Charged, Micropays

LEMMA RowsSum ==
  ASSUME NEW f, \A i \in Rows : f[i] \in Nat, NEW T \in SUBSET Rows
  PROVE  IsFiniteSet(T) /\ SumOver(f, T) \in Nat
<1>1. IsFiniteSet(T) /\ \A i \in T : f[i] \in Nat
  <2>1. IsFiniteSet(Rows)
    BY FS_Interval DEF Rows
  <2> QED BY <2>1, FS_Subset
<1> QED BY <1>1, SumType

LEMMA ReviewingCount ==
  /\ IsFiniteSet(Reviewing) /\ Cardinality(Reviewing) \in Nat /\ Cardinality(Reviewers) \in Nat
  /\ Cardinality(Reviewing) <= Cardinality(Reviewers)
<1>1. Reviewing \subseteq Reviewers
  BY DEF Reviewing
<1> QED BY <1>1, FS_Subset, FS_CardinalityType

LEMMA CostsGrow ==
  ASSUME NEW cost \in Nat, NEW j \in Nat, NEW k \in Nat, j <= k
  PROVE  /\ cost * j \in Nat /\ cost * k \in Nat /\ cost * j <= cost * k
         /\ cost * (j + 1) = cost * j + cost
<1>1. PICK d \in Nat : k = j + d
  <2>1. k - j \in Nat /\ k = j + (k - j)
    OBVIOUS
  <2> QED BY <2>1
<1>2. cost * d \in Nat /\ cost * k = cost * j + cost * d
  BY <1>1
<1> QED BY <1>2

(* Steps that neither start nor commit a review: a review that counted     *)
(* costs no more than it did, and no review that did not count does.       *)
LEMMA BudgetMono ==
  ASSUME RailTypes, RailTypes', BudgetInv, Reviewing' \subseteq Reviewing,
         \A i \in Rows : i \in Reviewed' => /\ i \in Reviewed
                                            /\ Charged(micropay[i])' <= Charged(micropay[i])
  PROVE  BudgetInv'
<1> SUFFICES ASSUME Budget # None
             PROVE  SumOver(ChargedRows', Reviewed') + MaxCharge * Cardinality(Reviewing') + ReviewCost
                      <= Budget + MaxCharge * Cardinality(Reviewers)
  BY DEF BudgetInv, ReviewCost
<1> DEFINE f == ChargedRows
           g == ChargedRows'
<1>1. /\ \A i \in Rows : f[i] \in Nat /\ f[i] = Charged(micropay[i])
      /\ Reviewed \subseteq Rows
      /\ IsFiniteSet(Reviewed) /\ SumOver(f, Reviewed) \in Nat
  <2>1. /\ \A i \in Rows : f[i] \in Nat /\ f[i] = Charged(micropay[i])
        /\ Reviewed \subseteq Rows
    BY ChargedType DEF RailTypes, ChargedRows, Reviewed
  <2> HIDE DEF f
  <2> QED BY <2>1, RowsSum
<1>2. /\ \A i \in Rows : g[i] \in Nat /\ g[i] = Charged(micropay[i])'
      /\ Reviewed' \subseteq Rows /\ SumOver(g, Reviewed') \in Nat
  <2>1. /\ \A i \in Rows : g[i] \in Nat /\ g[i] = Charged(micropay[i])'
        /\ Reviewed' \subseteq Rows
    BY ChargedType DEF RailTypes, ChargedRows, Reviewed, Charged
  <2> HIDE DEF g
  <2> QED BY <2>1, RowsSum
<1>3. SumOver(g, Reviewed') <= SumOver(f, Reviewed)
  <2>1. Reviewed' \subseteq Reviewed /\ \A i \in Reviewed' : g[i] <= f[i]
    BY <1>1, <1>2
  <2>2. \A i \in Reviewed : g[i] \in Nat /\ f[i] \in Nat
    BY <1>1, <1>2
  <2> HIDE DEF f, g
  <2> QED BY <1>1, <2>1, <2>2, SumMono
<1>4. Cardinality(Reviewing') <= Cardinality(Reviewing) /\ Cardinality(Reviewing') \in Nat
  BY ReviewingCount, FS_Subset, FS_CardinalityType
<1>5. MaxCharge * Cardinality(Reviewing') <= MaxCharge * Cardinality(Reviewing)
  BY <1>4, ReviewingCount, CostType, CostsGrow
<1>6. /\ MaxCharge * Cardinality(Reviewing') \in Nat /\ MaxCharge * Cardinality(Reviewing) \in Nat
      /\ MaxCharge * Cardinality(Reviewers) \in Nat
  BY <1>4, ReviewingCount, CostType, CostsGrow
<1>7. SumOver(f, Reviewed) + MaxCharge * Cardinality(Reviewing) + ReviewCost
        <= Budget + MaxCharge * Cardinality(Reviewers)
  BY DEF BudgetInv
<1> HIDE DEF f
<1>8. SumOver(g, Reviewed') + MaxCharge * Cardinality(Reviewing') + ReviewCost
        <= Budget + MaxCharge * Cardinality(Reviewers)
  BY <1>1, <1>2, <1>3, <1>5, <1>6, <1>7, CostType
<1> QED BY <1>8

LEMMA BudgetStart ==
  ASSUME RailTypes, NEW r \in Reviewers, AskModel(r)
  PROVE  BudgetInv'
<1> SUFFICES ASSUME Budget # None
             PROVE  SumOver(ChargedRows, Reviewed) + MaxCharge * Cardinality(Reviewing') + ReviewCost
                      <= Budget + MaxCharge * Cardinality(Reviewers)
  <2>1. ChargedRows' = ChargedRows /\ Reviewed' = Reviewed
    BY DEF AskModel, ChargedRows, Reviewed, Kept, Charged
  <2> QED BY <2>1 DEF BudgetInv, ReviewCost
<1>1. Spent + ReviewCost <= Budget
  BY DEF AskModel, WithinBudget
<1>2. SumOver(ChargedRows, Reviewed) <= Spent /\ Spent \in Nat /\ SumOver(ChargedRows, Reviewed) \in Nat
  <2> DEFINE S == {i \in Rows : Kept(i) /\ micropay[i].paid}
  <2>1. Reviewed \subseteq S /\ S \subseteq Rows
    BY DEF Reviewed
  <2>2. \A i \in Rows : ChargedRows[i] \in Nat
    BY ChargedType DEF RailTypes, ChargedRows
  <2>3. IsFiniteSet(S) /\ SumOver(ChargedRows, S) \in Nat /\ SumOver(ChargedRows, Reviewed) \in Nat
    BY <2>1, <2>2, RowsSum
  <2> HIDE DEF S
  <2>4. SumOver(ChargedRows, Reviewed) <= SumOver(ChargedRows, S)
    <3>1. \A i \in S : ChargedRows[i] \in Nat /\ ChargedRows[i] <= ChargedRows[i]
      BY <2>1, <2>2
    <3> QED BY <2>1, <2>3, <3>1, SumMono
  <2> QED BY <2>3, <2>4 DEF Spent, S
<1>3. Cardinality(Reviewing') <= Cardinality(Reviewers) /\ Cardinality(Reviewing') \in Nat
  <2>1. Reviewing' \subseteq Reviewers
    BY DEF Reviewing
  <2> QED BY <2>1, FS_Subset, FS_CardinalityType
<1>4. /\ MaxCharge * Cardinality(Reviewing') <= MaxCharge * Cardinality(Reviewers)
      /\ MaxCharge * Cardinality(Reviewing') \in Nat /\ MaxCharge * Cardinality(Reviewers) \in Nat
  BY <1>3, ReviewingCount, CostType, CostsGrow
<1> QED BY <1>1, <1>2, <1>4, CostType

(* The review that commits was on its way, and is charged no more than     *)
(* what was kept for it.                                                   *)
LEMMA BudgetCommit ==
  ASSUME RowsInv, RowsInv', BudgetInv, NEW r \in Reviewers, CommitPayment(r)
  PROVE  BudgetInv'
<1> SUFFICES ASSUME Budget # None
             PROVE  SumOver(ChargedRows', Reviewed') + MaxCharge * Cardinality(Reviewing') + ReviewCost
                      <= Budget + MaxCharge * Cardinality(Reviewers)
  BY DEF BudgetInv, ReviewCost
<1> DEFINE row == rail[r].row
           f == ChargedRows
           g == ChargedRows'
           T == Reviewed' \ {row}
<1>1. r \in Payers /\ row \in Rows \cup {None} /\ rail[r].at = "done"
  BY DEF Payers, CommitPayment, RowsInv, RailTypes
<1>2. /\ \A i \in Rows \ {row} : micropay'[i] = micropay[i]
      /\ row # None => /\ micropay[row].at = "flushed" /\ micropay[row].by = r
                       /\ Charged(micropay'[row]) = Charged(micropay[row])
      /\ reversed' = reversed
  <2>1. \A i \in Rows \ {row} : micropay'[i] = micropay[i]
    BY <1>1 DEF CommitPayment, RowsInv, RailTypes
  <2>2. ASSUME row # None
        PROVE  /\ micropay[row].at = "flushed" /\ micropay[row].by = r
               /\ Charged(micropay'[row]) = Charged(micropay[row])
    <3>1. /\ row \in Rows /\ micropay[row] \in Micropays
          /\ micropay'[row] = [micropay[row] EXCEPT !.at = "kept"]
      BY <1>1, <2>2 DEF CommitPayment, RowsInv, RailTypes
    <3> HIDE DEF row
    <3>2. LET n == micropay'[row] IN
          SameBut(micropay[row], n) /\ n.amount = micropay[row].amount /\ n.settled = micropay[row].settled
      BY <3>1, KeptRow
    <3>3. micropay[row].at = "flushed" /\ micropay[row].by = r
      BY <1>1, <2>2 DEF RowsInv, HeldInv, row
    <3> QED BY <3>2, <3>3 DEF Charged, SameBut
  <2> QED BY <2>1, <2>2 DEF CommitPayment
<1>3. row # None => Charged(micropay[row]) <= MaxCharge
  BY <1>1, <1>2 DEF RowsInv, BillInv
<1>4. /\ \A i \in Rows : f[i] \in Nat /\ f[i] = Charged(micropay[i])
      /\ Reviewed \subseteq Rows
      /\ IsFiniteSet(Reviewed) /\ SumOver(f, Reviewed) \in Nat
  <2>1. /\ \A i \in Rows : f[i] \in Nat /\ f[i] = Charged(micropay[i])
        /\ Reviewed \subseteq Rows
    BY ChargedType DEF RowsInv, RailTypes, ChargedRows, Reviewed
  <2> HIDE DEF f
  <2> QED BY <2>1, RowsSum
<1>5. /\ \A i \in Rows : g[i] \in Nat /\ g[i] = Charged(micropay[i])'
      /\ Reviewed' \subseteq Rows /\ \A S \in SUBSET Rows : IsFiniteSet(S) /\ SumOver(g, S) \in Nat
  <2>1. /\ \A i \in Rows : g[i] \in Nat /\ g[i] = Charged(micropay[i])'
        /\ Reviewed' \subseteq Rows
    BY ChargedType DEF RowsInv, RailTypes, ChargedRows, Reviewed, Charged
  <2> HIDE DEF g
  <2> QED BY <2>1, RowsSum
<1>6. /\ IsFiniteSet(Reviewing) /\ r \in Reviewing /\ Reviewing' = Reviewing \ {r}
      /\ Cardinality(Reviewing) \in Nat
  <2>1. \A k \in Reviewers \ {r} : rail'[k] = rail[k]
    BY <1>1 DEF CommitPayment, RowsInv, RailTypes, Payers
  <2>2. rail'[r].at = "idle"
    BY <1>1 DEF CommitPayment, RowsInv, RailTypes, NoRail
  <2> QED BY <1>1, <2>1, <2>2, ReviewingCount DEF Reviewing
<1>7. Cardinality(Reviewing) = Cardinality(Reviewing') + 1 /\ Cardinality(Reviewing') \in Nat
  <2>1. Cardinality(Reviewing \ {r}) = Cardinality(Reviewing) - 1 /\ IsFiniteSet(Reviewing \ {r})
    BY <1>6, FS_RemoveElement
  <2>2. Cardinality(Reviewing \ {r}) \in Nat
    BY <2>1, FS_CardinalityType
  <2> QED BY <1>6, <2>1, <2>2
<1>8. SumOver(g, T) <= SumOver(f, Reviewed) /\ SumOver(g, T) \in Nat /\ T \subseteq Rows
  <2>1. ASSUME NEW i \in T PROVE i \in Reviewed /\ g[i] = f[i]
    <3>1. i \in Rows \ {row} /\ micropay'[i] = micropay[i]
      BY <1>2, <1>5
    <3>2. i \in Reviewed
      BY <1>2, <3>1 DEF Reviewed, Kept
    <3> QED BY <1>4, <1>5, <3>1, <3>2
  <2>2. T \subseteq Rows /\ T \subseteq Reviewed /\ \A i \in T : g[i] <= f[i]
    BY <1>4, <1>5, <2>1
  <2>3. \A i \in Reviewed : g[i] \in Nat /\ f[i] \in Nat
    BY <1>4, <1>5
  <2>4. SumOver(g, T) \in Nat
    BY <1>5, <2>2
  <2> HIDE DEF f, g, T
  <2>5. SumOver(g, T) <= SumOver(f, Reviewed)
    BY <1>4, <2>2, <2>3, SumMono
  <2> QED BY <2>2, <2>4, <2>5
<1>9. SumOver(g, Reviewed') <= SumOver(g, T) + MaxCharge /\ SumOver(g, Reviewed') \in Nat
  <2>1. SumOver(g, Reviewed') \in Nat
    BY <1>5
  <2>2. CASE row \notin Reviewed'
    <3>1. T = Reviewed'
      BY <2>2
    <3> HIDE DEF g, T
    <3> QED BY <1>8, <2>1, <3>1, CostType
  <2>3. CASE row \in Reviewed'
    <3>1. /\ Reviewed' = T \cup {row} /\ T \cap {row} = {} /\ row \in Rows /\ row # None
          /\ IsFiniteSet(T) /\ IsFiniteSet({row})
      BY <1>5, <2>3, RowIds, FS_Singleton
    <3>2. g[row] <= MaxCharge /\ g[row] \in Nat
      BY <1>2, <1>3, <1>5, <3>1
    <3>3. \A i \in T \cup {row} : g[i] \in Nat
      BY <1>5, <3>1
    <3> HIDE DEF g, T, row
    <3>4. SumOver(g, T \cup {row}) = SumOver(g, T) + SumOver(g, {row}) /\ SumOver(g, {row}) = g[row]
      BY <3>1, <3>2, <3>3, SumDisjoint, SumSingle
    <3> QED BY <1>8, <2>1, <3>1, <3>2, <3>4, CostType
  <2> QED BY <2>2, <2>3
<1>10. /\ MaxCharge * Cardinality(Reviewing) = MaxCharge * Cardinality(Reviewing') + MaxCharge
       /\ MaxCharge * Cardinality(Reviewing') \in Nat /\ MaxCharge * Cardinality(Reviewers) \in Nat
  BY <1>7, ReviewingCount, CostType, CostsGrow
<1>11. SumOver(f, Reviewed) + MaxCharge * Cardinality(Reviewing) + ReviewCost
         <= Budget + MaxCharge * Cardinality(Reviewers)
  BY DEF BudgetInv
<1> HIDE DEF f, T
<1>12. SumOver(g, Reviewed') + MaxCharge * Cardinality(Reviewing') + ReviewCost
         <= Budget + MaxCharge * Cardinality(Reviewers)
  BY <1>4, <1>8, <1>9, <1>10, <1>11, CostType
<1> QED BY <1>12

(* Whoever starts or commits nothing adds nothing to the bill. *)
LEMMA BudgetRest ==
  ASSUME RowsInv, RowsInv', BudgetInv, UNCHANGED reversed,
         \A i \in Rows : Kept(i)' => Kept(i) /\ micropay'[i] = micropay[i],
         \A h \in Reviewers : rail[h].at = "idle" => rail'[h].at = "idle"
  PROVE  BudgetInv'
<1>1. \A i \in Rows : i \in Reviewed' => i \in Reviewed /\ Charged(micropay[i])' <= Charged(micropay[i])
  <2>1. ASSUME NEW i \in Rows, i \in Reviewed'
        PROVE  i \in Reviewed /\ Charged(micropay'[i]) <= Charged(micropay[i])
    <3>1. Kept(i) /\ micropay'[i] = micropay[i]
      BY <2>1 DEF Reviewed
    <3>2. Charged(micropay[i]) \in Nat
      BY ChargedType DEF RowsInv, RailTypes
    <3> QED BY <2>1, <3>1, <3>2 DEF Reviewed
  <2> QED BY <2>1 DEF Charged
<1>2. Reviewing' \subseteq Reviewing
  BY DEF Reviewing
<1> QED BY <1>1, <1>2, BudgetMono DEF RowsInv

LEMMA BudgetPays ==
  ASSUME RowsInv, RowsInv', BudgetInv, NEW h \in Payers,
         \/ h \in Reviewers /\ (GatewayCharges(h) \/ GatewayFree(h) \/ GatewayBreaks(h)
                                \/ DirectFails(h) \/ DirectAnswers(h))
         \/ h \in Clients /\ \E a \in Prices : ClientPays(h, a)
         \/ ChargePaid(h) \/ ChargeFails(h) \/ PayerDies(h)
  PROVE  BudgetInv'
<1>1. UNCHANGED reversed
  BY DEF GatewayCharges, GatewayFree, GatewayBreaks, DirectFails, DirectAnswers, ClientPays, Charge,
         ChargePaid, ChargeFails, PayerDies
<1>2. ASSUME NEW i \in Rows, Kept(i)' PROVE Kept(i) /\ micropay'[i] = micropay[i]
  <2>1. ASSUME NEW j \in Rows, NEW m, micropay' = [micropay EXCEPT ![j] = m],
               m.at # "kept"
        PROVE  Kept(i) /\ micropay'[i] = micropay[i]
    BY <1>2, <2>1 DEF Kept, RowsInv, RailTypes
  <2>2. CASE micropay' = micropay
    BY <1>2, <2>2 DEF Kept
  <2>3. CASE GatewayCharges(h)
    <3>1. PICK j \in Rows, c \in Channels, a \in Asks : micropay' = [micropay EXCEPT ![j] = Receipt(h, c, a)]
      BY <2>3 DEF GatewayCharges
    <3>2. Receipt(h, c, a).at = "flushed"
      BY ReceiptType
    <3> QED BY <2>1, <3>1, <3>2
  <2>4. ASSUME NEW a \in Nat, Charge(h, a) PROVE Kept(i) /\ micropay'[i] = micropay[i]
    <3>1. PICK j \in Rows : micropay' = [micropay EXCEPT ![j] = FeeRow(h, a)]
      BY <2>4 DEF Charge, FeeRow
    <3>2. FeeRow(h, a).at = "flushed"
      BY FeeRowType
    <3> QED BY <2>1, <3>1, <3>2
  <2>5. CASE ChargePaid(h)
    <3> DEFINE j == rail[h].row
               m == [micropay[j] EXCEPT !.paid = TRUE, !.signed = TRUE]
    <3>1. j \in Rows /\ micropay[j].at = "flushed" /\ micropay[j] \in Micropays
      <4>1. h \in Payers /\ rail[h].at = "charge"
        BY <2>5 DEF ChargePaid
      <4>2. rail[h].row \in Rows \cup {None} /\ rail[h].row # None
        BY <4>1 DEF RowsInv, RailTypes, HeldInv
      <4>3. micropay[rail[h].row].at = "flushed"
        BY <4>1, <4>2 DEF RowsInv, HeldInv
      <4> QED BY <4>2, <4>3 DEF RowsInv, RailTypes
    <3>2. micropay' = [micropay EXCEPT ![j] = m]
      BY <2>5, <3>1 DEF ChargePaid, RowsInv, RailTypes
    <3>3. m.at = "flushed"
      BY <3>1 DEF Micropays
    <3> HIDE DEF m, j
    <3> QED BY <2>1, <3>1, <3>2, <3>3
  <2>6. CASE micropay' = Discarded(h)
    <3>1. CASE rail[h].row = None
      BY <2>2, <2>6, <3>1 DEF Discarded
    <3>2. CASE rail[h].row # None
      <4> DEFINE j == rail[h].row
                 m == [NoRow EXCEPT !.at = "gone", !.amount = micropay[j].amount]
      <4>1. j \in Rows /\ micropay[j].amount \in Nat
        BY <3>2 DEF RowsInv, RailTypes, Micropays
      <4>2. m.at = "gone" /\ micropay' = [micropay EXCEPT ![j] = m]
        BY <2>6, <3>2, <4>1, GoneType DEF Discarded
      <4> HIDE DEF m, j
      <4> QED BY <2>1, <4>1, <4>2
    <3> QED BY <3>1, <3>2
  <2> QED BY <2>2, <2>3, <2>4, <2>5, <2>6
          DEF GatewayFree, GatewayBreaks, DirectFails, DirectAnswers, ClientPays, ChargeFails, PayerDies
<1>3. ASSUME NEW k \in Reviewers, rail[k].at = "idle" PROVE rail'[k].at = "idle"
  <2>2. CASE k # h
    <3>1. \E v : rail' = [rail EXCEPT ![h] = v]
      BY DEF GatewayCharges, GatewayFree, GatewayBreaks, DirectFails, DirectAnswers, ClientPays, Charge,
             ChargePaid, ChargeFails, PayerDies
    <3> QED BY <1>3, <2>2, <3>1 DEF RowsInv, RailTypes, Payers
  <2>3. CASE k = h
    BY <1>3, <2>3 DEF GatewayCharges, GatewayFree, GatewayBreaks, DirectFails, DirectAnswers, ClientPays,
                      ChargePaid, ChargeFails, PayerDies
  <2> QED BY <2>2, <2>3
<1> QED BY <1>1, <1>2, <1>3, BudgetRest

(* A transfer that pay.sh reports paid after all was reversed before. *)
LEMMA BudgetWebhook ==
  ASSUME RowsInv, RowsInv', BudgetInv, NEW i \in Rows, NEW paid \in BOOLEAN, PayshWebhook(i, paid)
  PROVE  BudgetInv'
<1>1. /\ micropay[i].at = "kept" /\ micropay[i].signed /\ micropay[i].paid # paid
      /\ \A j \in Rows \ {i} : micropay'[j] = micropay[j]
      /\ micropay'[i] = [micropay[i] EXCEPT !.paid = paid]
      /\ reversed' = IF paid THEN reversed ELSE reversed \cup {i}
      /\ UNCHANGED rail
  BY DEF PayshWebhook, Kept, RowsInv, RailTypes
<1>2. i \in reversed'
  BY <1>1 DEF RowsInv, PaidInv, Live
<1>3. ASSUME NEW j \in Rows, j \in Reviewed'
      PROVE  j \in Reviewed /\ Charged(micropay'[j]) <= Charged(micropay[j])
  <2>1. j # i
    BY <1>2, <1>3 DEF Reviewed
  <2>2. micropay'[j] = micropay[j] /\ j \notin reversed
    BY <1>1, <1>3, <2>1 DEF Reviewed
  <2>3. Charged(micropay[j]) \in Nat
    BY ChargedType DEF RowsInv, RailTypes
  <2> QED BY <1>3, <2>2, <2>3 DEF Reviewed, Kept
<1>4. \A j \in Rows : j \in Reviewed' => j \in Reviewed /\ Charged(micropay[j])' <= Charged(micropay[j])
  BY <1>3 DEF Charged
<1>5. Reviewing' \subseteq Reviewing
  BY <1>1 DEF Reviewing
<1> QED BY <1>4, <1>5, BudgetMono DEF RowsInv

(* Settling only lowers what counts. *)
LEMMA BudgetPage ==
  ASSUME RowsInv, RowsInv', BudgetInv, NEW g \in Pages, ClosePage(g)
  PROVE  BudgetInv'
<1>1. UNCHANGED <<rail, channel, reversed>>
  BY DEF ClosePage
<1>2. ASSUME NEW i \in Rows, i \in Reviewed'
      PROVE  i \in Reviewed /\ Charged(micropay'[i]) <= Charged(micropay[i])
  <2> DEFINE m == micropay[i]
             n == micropay'[i]
             x == page[g].found[i]
  <2>1. m \in Micropays /\ n \in Micropays /\ Charged(m) \in Nat
    BY ChargedType DEF RowsInv, RailTypes
  <2>2. CASE x = None
    <3>1. n = m
      BY <2>2 DEF ClosePage
    <3> QED BY <1>1, <1>2, <2>1, <3>1 DEF Reviewed, Kept
  <2>3. CASE x # None
    <3>1. n = [m EXCEPT !.amount = x, !.settled = TRUE, !.signed = TRUE]
      BY <2>3 DEF ClosePage
    <3>2. n.amount = x /\ n.settled /\ n.paid = m.paid /\ n.at = m.at /\ n.by = m.by
      BY <2>1, <3>1 DEF Micropays
    <3>3. Live(i) /\ m.channel # None /\ x = Resolved(m.channel) /\ m.channel \in Channels
      BY <2>1, <2>3 DEF RowsInv, PageInv, Kept, Live, Micropays
    <3>4. x <= Charged(m)
      <4> DEFINE c == m.channel
      <4>1. m.authorized = channel[c].deposit /\ (m.settled => m.amount = Resolved(c))
        BY <3>3 DEF RowsInv, BillInv
      <4>2. x <= channel[c].deposit /\ x \in Nat /\ channel[c].deposit \in Nat
        BY <2>3, <3>3, ResolvedBounds DEF RowsInv
      <4> QED BY <3>3, <4>1, <4>2 DEF Charged
    <3>5. Charged(n) = x
      BY <3>2 DEF Charged
    <3>6. i \in Reviewed
      BY <1>1, <1>2, <3>2 DEF Reviewed, Kept
    <3> QED BY <3>3, <3>4, <3>5, <3>6
  <2> QED BY <2>2, <2>3
<1>3. \A i \in Rows : i \in Reviewed' => i \in Reviewed /\ Charged(micropay[i])' <= Charged(micropay[i])
  BY <1>2 DEF Charged
<1>4. Reviewing' \subseteq Reviewing
  BY <1>1 DEF Reviewing
<1> QED BY <1>3, <1>4, BudgetMono DEF RowsInv

(* What a client commits is no review. *)
LEMMA BudgetClient ==
  ASSUME RowsInv, RowsInv', BudgetInv, NEW h \in Clients, CommitPayment(h)
  PROVE  BudgetInv'
<1> DEFINE row == rail[h].row
<1>1. h \in Payers /\ h \notin Reviewers /\ UNCHANGED reversed
  BY DEF CommitPayment, Payers
<1>2. /\ \A i \in Rows \ {row} : micropay'[i] = micropay[i]
      /\ row \in Rows => micropay'[row].by \notin Reviewers
  <2>1. \A i \in Rows \ {row} : micropay'[i] = micropay[i]
    BY DEF CommitPayment, RowsInv, RailTypes
  <2>2. ASSUME row \in Rows PROVE micropay'[row].by = h
    <3>1. /\ row # None /\ micropay[row] \in Micropays
          /\ micropay'[row] = [micropay[row] EXCEPT !.at = "kept"]
      BY <2>2, RowIds DEF CommitPayment, RowsInv, RailTypes
    <3>2. micropay[row].by = h
      BY <1>1, <3>1 DEF RowsInv, HeldInv
    <3> HIDE DEF row
    <3> QED BY <3>1, <3>2, KeptRow DEF SameBut
  <2> QED BY <1>1, <2>1, <2>2
<1>3. ASSUME NEW i \in Rows, i \in Reviewed'
      PROVE  i \in Reviewed /\ Charged(micropay'[i]) <= Charged(micropay[i])
  <2>1. micropay'[i] = micropay[i]
    BY <1>2, <1>3 DEF Reviewed
  <2>2. Charged(micropay[i]) \in Nat
    BY ChargedType DEF RowsInv, RailTypes
  <2> QED BY <1>1, <1>3, <2>1, <2>2 DEF Reviewed, Kept
<1>4. \A i \in Rows : i \in Reviewed' => i \in Reviewed /\ Charged(micropay[i])' <= Charged(micropay[i])
  BY <1>3 DEF Charged
<1>5. Reviewing' \subseteq Reviewing
  BY <1>1 DEF Reviewing, CommitPayment, RowsInv, RailTypes, Payers
<1> QED BY <1>4, <1>5, BudgetMono DEF RowsInv

LEMMA BudgetStep ==
  ASSUME RowsInv, RowsInv', BudgetInv, [RailsNext]_rails
  PROVE  BudgetInv'
<1>1. ASSUME UNCHANGED <<micropay, rail, reversed>> PROVE BudgetInv'
  BY <1>1, BudgetRest DEF Kept
<1>2. ASSUME NEW r \in Reviewers, AskModel(r) PROVE BudgetInv'
  BY <1>2, BudgetStart DEF RowsInv
<1>3. ASSUME NEW h \in Payers, CommitPayment(h) PROVE BudgetInv'
  BY <1>3, BudgetCommit, BudgetClient DEF Payers
<1>4. ASSUME NEW r \in Reviewers, \/ GatewayCharges(r) \/ GatewayFree(r) \/ GatewayBreaks(r)
                                  \/ DirectFails(r) \/ DirectAnswers(r)
      PROVE  BudgetInv'
  <2>1. r \in Payers
    BY DEF Payers
  <2> QED BY <1>4, <2>1, BudgetPays
<1>5. ASSUME NEW h \in Clients, NEW a \in Prices, ClientPays(h, a) PROVE BudgetInv'
  <2>1. h \in Payers
    BY DEF Payers
  <2> QED BY <1>5, <2>1, BudgetPays
<1>6. ASSUME NEW h \in Payers, ChargePaid(h) \/ ChargeFails(h) \/ PayerDies(h) PROVE BudgetInv'
  BY <1>6, BudgetPays
<1>7. ASSUME NEW i \in Rows, NEW paid \in BOOLEAN, PayshWebhook(i, paid) PROVE BudgetInv'
  BY <1>7, BudgetWebhook
<1>8. ASSUME NEW g \in Pages, ClosePage(g) PROVE BudgetInv'
  BY <1>8, BudgetPage
<1>9. ASSUME \/ GatewayMoves
             \/ \E i \in Rows : TransferLands(i) \/ TransferFails(i)
             \/ \E g \in Pages : \/ OpenPage(g) \/ PageDies(g)
                                 \/ \E i \in Rows, answered \in BOOLEAN : AskChannel(g, i, answered)
             \/ UNCHANGED rails
      PROVE  UNCHANGED <<micropay, rail, reversed>>
  BY <1>9 DEF GatewayMoves, GatewayDraws, GatewayCloses, TransferLands, TransferFails, OpenPage, PageDies, AskChannel, rails
<1> QED BY <1>1, <1>2, <1>3, <1>4, <1>5, <1>6, <1>7, <1>8, <1>9
        DEF RailsNext, RailStep, GatewayMoves, Payers

-----------------------------------------------------------------------------
(* The agent's account. *)

LEMMA LandedType ==
  ASSUME RailTypes
  PROVE  Landed \in [Rows -> Nat] /\ SumOver(Landed, Rows) \in Nat /\ IsFiniteSet(Rows)
<1>1. Landed \in [Rows -> Nat]
  BY DEF RailTypes, Micropays, Landed
<1>2. \A i \in Rows : Landed[i] \in Nat
  BY <1>1
<1> HIDE DEF Landed
<1> QED BY <1>1, <1>2, RowsSum

(* Steps that move no transfer and leave the amounts of transfers alone. *)
LEMMA MoneyStays ==
  ASSUME MoneyInv, usdc' = usdc,
         \A i \in Rows : transfer'[i] = "landed" <=> transfer[i] = "landed",
         \A i \in Rows : transfer[i] = "landed" => micropay'[i].amount = micropay[i].amount,
         \A i \in Rows : Untransferred(i)' => Untransferred(i) /\ transfer'[i] = transfer[i]
  PROVE  MoneyInv'
<1> DEFINE f == Landed
           g == Landed'
<1>1. \A i \in Rows : g[i] = f[i]
  BY DEF Landed
<1>2. SumOver(g, Rows) = SumOver(f, Rows)
  <2> HIDE DEF f, g
  <2> QED BY <1>1, SumExt
<1>3. \A i \in Rows : Untransferred(i)' => transfer'[i] = "none"
  BY DEF MoneyInv
<1>4. usdc + SumOver(f, Rows) = Float
  BY DEF MoneyInv
<1> HIDE DEF f
<1>5. usdc' + SumOver(g, Rows) = Float
  <2> HIDE DEF g
  <2> QED BY <1>2, <1>4
<1>6. (usdc + SumOver(Landed, Rows) = Float)'
  BY <1>5 DEF Rows
<1> QED BY <1>3, <1>6 DEF MoneyInv

LEMMA MoneyLands ==
  ASSUME RailTypes, RailTypes', MoneyInv, NEW i \in Rows, TransferLands(i)
  PROVE  MoneyInv'
<1> DEFINE f == Landed
           g == Landed'
           a == micropay[i].amount
<1>1. /\ transfer[i] = "flying" /\ a <= usdc /\ a \in Nat /\ usdc \in Nat
      /\ transfer' = [transfer EXCEPT ![i] = "landed"] /\ usdc' = usdc - a
      /\ UNCHANGED micropay
  BY DEF TransferLands, RailTypes, Micropays
<1>2. f \in [Rows -> Nat] /\ g = [f EXCEPT ![i] = @ + a]
  <2>1. f \in [Rows -> Nat] /\ f[i] = 0
    BY <1>1, LandedType DEF Landed
  <2>2. /\ \A j \in Rows \ {i} : g[j] = f[j]
        /\ g[i] = a
    BY <1>1 DEF Landed, RailTypes
  <2>3. g = [j \in Rows |-> g[j]]
    BY DEF Landed, Rows
  <2> HIDE DEF f, g, a
  <2>4. f[i] + a = a
    BY <1>1, <2>1
  <2>5. [f EXCEPT ![i] = @ + a] = [j \in Rows |-> IF j = i THEN a ELSE f[j]]
    BY <2>1, <2>4
  <2>6. \A j \in Rows : g[j] = IF j = i THEN a ELSE f[j]
    BY <2>2
  <2>7. [j \in Rows |-> g[j]] = [j \in Rows |-> IF j = i THEN a ELSE f[j]]
    BY <2>6
  <2> QED BY <2>1, <2>3, <2>5, <2>7
<1>3. SumOver(g, Rows) = SumOver(f, Rows) + a /\ SumOver(f, Rows) \in Nat
  <2>1. IsFiniteSet(Rows) /\ SumOver(f, Rows) \in Nat
    BY LandedType
  <2> HIDE DEF f, g, a
  <2> QED BY <1>1, <1>2, <2>1, SumAdd
<1>4. usdc + SumOver(f, Rows) = Float
  BY DEF MoneyInv
<1> HIDE DEF f
<1>5. usdc' + SumOver(g, Rows) = Float
  <2> HIDE DEF g, a
  <2> QED BY <1>1, <1>3, <1>4
<1>6. (usdc + SumOver(Landed, Rows) = Float)'
  BY <1>5 DEF Rows
<1>7. \A j \in Rows : Untransferred(j)' => transfer'[j] = "none"
  BY <1>1 DEF MoneyInv, Untransferred, Live, RailTypes
<1> QED BY <1>6, <1>7 DEF MoneyInv

(* A new row of a channel, or with a fee that is on its way. *)
LEMMA MoneyInserts ==
  ASSUME RailTypes, MoneyInv, NEW i \in Rows, micropay[i].at = "free", usdc' = usdc,
         NEW m, micropay' = [micropay EXCEPT ![i] = m],
         \/ transfer' = transfer /\ m.channel # None
         \/ /\ transfer' = [transfer EXCEPT ![i] = "flying"]
            /\ m.at = "flushed" /\ m.channel = None
  PROVE  MoneyInv'
<1>1. transfer[i] = "none"
  BY DEF MoneyInv, Untransferred
<1>2. /\ micropay'[i] = m /\ \A j \in Rows \ {i} : micropay'[j] = micropay[j]
      /\ \A j \in Rows \ {i} : transfer'[j] = transfer[j]
      /\ transfer'[i] # "landed"
  BY <1>1 DEF RailTypes
<1>3. Untransferred(i)' => Untransferred(i) /\ transfer'[i] = transfer[i]
  BY <1>2 DEF Untransferred, Live
<1>4. \A j \in Rows : Untransferred(j)' => Untransferred(j) /\ transfer'[j] = transfer[j]
  BY <1>2, <1>3 DEF Untransferred, Live
<1> QED BY <1>1, <1>2, <1>4, MoneyStays

LEMMA MoneyDiscards ==
  ASSUME RowsInv, MoneyInv, NEW h \in Payers, micropay' = Discarded(h), UNCHANGED <<transfer, usdc>>
  PROVE  MoneyInv'
<1>1. ASSUME NEW j \in Rows
      PROVE  /\ micropay'[j].amount = micropay[j].amount
             /\ Untransferred(j)' => Untransferred(j)
  <2>1. CASE rail[h].row = None
    BY <2>1 DEF Discarded, Untransferred, Live
  <2>2. CASE rail[h].row # None
    <3> DEFINE i == rail[h].row
               m == [NoRow EXCEPT !.at = "gone", !.amount = micropay[i].amount]
    <3>1. i \in Rows /\ micropay[i].amount \in Nat
      BY <2>2 DEF RowsInv, RailTypes, Micropays
    <3>2. m.at = "gone" /\ m.amount = micropay[i].amount /\ micropay' = [micropay EXCEPT ![i] = m]
      BY <2>2, <3>1, GoneType DEF Discarded, NoRow
    <3> HIDE DEF m, i
    <3> QED BY <3>1, <3>2 DEF Untransferred, Live, RowsInv, RailTypes
  <2> QED BY <2>1, <2>2
<1> QED BY <1>1, MoneyStays

(* Edits of rows that keep what was paid for them. *)
LEMMA MoneyEdits ==
  ASSUME MoneyInv, UNCHANGED <<transfer, usdc>>,
         \A j \in Rows : /\ micropay'[j].channel = micropay[j].channel
                         /\ Live(j)' => Live(j)
                         /\ micropay'[j].at = "free" => micropay[j].at = "free"
                         /\ transfer[j] = "landed" => micropay'[j].amount = micropay[j].amount
  PROVE  MoneyInv'
<1>1. \A j \in Rows : Untransferred(j)' => Untransferred(j)
  BY DEF Untransferred
<1> QED BY <1>1, MoneyStays

LEMMA MoneyPage ==
  ASSUME RowsInv, MoneyInv, NEW g \in Pages, ClosePage(g)
  PROVE  MoneyInv'
<1>1. UNCHANGED <<transfer, usdc>>
  BY DEF ClosePage
<1>2. ASSUME NEW j \in Rows
      PROVE  LET n == micropay'[j] IN
             /\ n.channel = micropay[j].channel /\ n.at = micropay[j].at
             /\ transfer[j] = "landed" => n.amount = micropay[j].amount
  <2> DEFINE x == page[g].found[j]
  <2>1. CASE x = None
    BY <2>1 DEF ClosePage
  <2>2. CASE x # None
    <3>1. micropay'[j] = [micropay[j] EXCEPT !.amount = x, !.settled = TRUE, !.signed = TRUE]
      BY <2>2 DEF ClosePage
    <3>2. micropay[j] \in Micropays
      BY DEF RowsInv, RailTypes
    <3>3. Untransferred(j)
      BY <2>2 DEF RowsInv, PageInv, Kept, Untransferred, Live
    <3>4. transfer[j] # "landed"
      BY <3>3 DEF MoneyInv
    <3> HIDE DEF x
    <3> QED BY <3>1, <3>2, <3>4 DEF Micropays
  <2> QED BY <2>1, <2>2
<1> QED BY <1>1, <1>2, MoneyEdits DEF Live

LEMMA MoneyRows ==
  ASSUME RowsInv, MoneyInv,
         \/ \E h \in Payers : ChargePaid(h) \/ CommitPayment(h)
         \/ \E i \in Rows, paid \in BOOLEAN : PayshWebhook(i, paid)
  PROVE  MoneyInv'
<1>1. UNCHANGED <<transfer, usdc>>
  BY DEF ChargePaid, CommitPayment, PayshWebhook
<1>2. \/ \E i \in Rows : \E n :
                            /\ micropay' = [micropay EXCEPT ![i] = n]
                            /\ n.channel = micropay[i].channel /\ n.amount = micropay[i].amount
                            /\ Live(i) /\ n.at # "free"
      \/ micropay' = micropay
  <2>1. ASSUME NEW h \in Payers, rail[h].row # None
        PROVE  rail[h].row \in Rows /\ Live(rail[h].row) /\ micropay[rail[h].row] \in Micropays
    BY <2>1 DEF RowsInv, RailTypes, HeldInv, Live
  <2>2. ASSUME NEW h \in Payers, ChargePaid(h)
        PROVE  <1>2
    <3> DEFINE i == rail[h].row
               n == [micropay[i] EXCEPT !.paid = TRUE, !.signed = TRUE]
    <3>1. rail[h].row # None
      BY <2>2 DEF ChargePaid, RowsInv, HeldInv
    <3>2. i \in Rows /\ Live(i) /\ micropay[i] \in Micropays
      BY <2>1, <3>1
    <3>3. micropay' = [micropay EXCEPT ![i] = n]
      BY <2>2, <3>2 DEF ChargePaid, RowsInv, RailTypes
    <3>4. n.channel = micropay[i].channel /\ n.amount = micropay[i].amount /\ n.at # "free"
      BY <3>2 DEF Live, Micropays
    <3> HIDE DEF n, i
    <3> QED BY <3>2, <3>3, <3>4
  <2>3. ASSUME NEW h \in Payers, CommitPayment(h)
        PROVE  <1>2
    <3> DEFINE i == rail[h].row
               n == [micropay[i] EXCEPT !.at = "kept"]
    <3>1. CASE rail[h].row = None
      <4>1. micropay' = micropay
        BY <2>3, <3>1 DEF CommitPayment
      <4> QED BY <4>1
    <3>2. CASE rail[h].row # None
      <4>1. i \in Rows /\ Live(i) /\ micropay[i] \in Micropays
        BY <2>1, <3>2
      <4>2. micropay' = [micropay EXCEPT ![i] = n]
        BY <2>3, <3>2, <4>1 DEF CommitPayment, RowsInv, RailTypes
      <4>3. n.channel = micropay[i].channel /\ n.amount = micropay[i].amount /\ n.at # "free"
        BY <4>1 DEF Micropays
      <4> HIDE DEF n, i
      <4> QED BY <4>1, <4>2, <4>3
    <3> QED BY <3>1, <3>2
  <2>4. ASSUME NEW i \in Rows, NEW paid \in BOOLEAN, PayshWebhook(i, paid)
        PROVE  <1>2
    <3> DEFINE n == [micropay[i] EXCEPT !.paid = paid]
    <3>1. micropay[i] \in Micropays /\ Live(i)
      BY <2>4 DEF PayshWebhook, Kept, Live, RowsInv, RailTypes
    <3>2. micropay' = [micropay EXCEPT ![i] = n]
      BY <2>4, <3>1 DEF PayshWebhook, RowsInv, RailTypes
    <3>3. n.channel = micropay[i].channel /\ n.amount = micropay[i].amount /\ n.at # "free"
      BY <3>1 DEF Micropays, Live
    <3> HIDE DEF n
    <3> QED BY <3>1, <3>2, <3>3
  <2> QED BY <2>2, <2>3, <2>4
<1>3. \A j \in Rows : /\ micropay'[j].channel = micropay[j].channel
                      /\ Live(j)' => Live(j)
                      /\ micropay'[j].at = "free" => micropay[j].at = "free"
                      /\ micropay'[j].amount = micropay[j].amount
  BY <1>2 DEF Live, RowsInv, RailTypes
<1> QED BY <1>1, <1>3, MoneyEdits

LEMMA MoneyCharges ==
  ASSUME RowsInv, MoneyInv, NEW h \in Payers,
         GatewayCharges(h) \/ \E a \in Nat : Charge(h, a)
  PROVE  MoneyInv'
<1>1. CASE GatewayCharges(h)
  <2>1. PICK i \in Rows, c \in Channels, a \in Asks :
          Fresh(i) /\ micropay' = [micropay EXCEPT ![i] = Receipt(h, c, a)]
    BY <1>1 DEF GatewayCharges
  <2>2. a \in Nat /\ UNCHANGED <<transfer, usdc>> /\ micropay[i].at = "free"
    BY <1>1, <2>1 DEF GatewayCharges, Fresh
  <2>3. Receipt(h, c, a).channel # None
    BY <2>2, ReceiptType, RowIds
  <2> QED BY <2>1, <2>2, <2>3, MoneyInserts DEF RowsInv
<1>2. ASSUME NEW a \in Nat, Charge(h, a) PROVE MoneyInv'
  <2>1. PICK i \in Rows : /\ Fresh(i) /\ micropay' = [micropay EXCEPT ![i] = FeeRow(h, a)]
                          /\ transfer' = [transfer EXCEPT ![i] = "flying"]
    BY <1>2 DEF Charge, FeeRow
  <2>2. usdc' = usdc /\ micropay[i].at = "free"
    BY <1>2, <2>1 DEF Charge, Fresh
  <2>3. FeeRow(h, a).at = "flushed" /\ FeeRow(h, a).channel = None
    BY FeeRowType
  <2> QED BY <2>1, <2>2, <2>3, MoneyInserts DEF RowsInv
<1> QED BY <1>1, <1>2

LEMMA MoneyStep ==
  ASSUME RowsInv, RowsInv', MoneyInv, [RailsNext]_rails
  PROVE  MoneyInv'
<1>1. ASSUME UNCHANGED <<micropay, transfer, usdc>> PROVE MoneyInv'
  BY <1>1, MoneyEdits DEF Live
<1>2. ASSUME NEW r \in Reviewers, \/ AskModel(r) \/ GatewayFree(r) \/ GatewayBreaks(r) \/ DirectFails(r)
      PROVE  MoneyInv'
  BY <1>1, <1>2 DEF AskModel, GatewayFree, GatewayBreaks, DirectFails
<1>3. ASSUME NEW r \in Reviewers, GatewayCharges(r) \/ DirectAnswers(r) PROVE MoneyInv'
  BY <1>3, MoneyCharges DEF DirectAnswers, Payers
<1>4. ASSUME NEW h \in Clients, NEW a \in Prices, ClientPays(h, a) PROVE MoneyInv'
  BY <1>4, MoneyCharges DEF ClientPays, Payers
<1>5. ASSUME NEW h \in Payers, ChargeFails(h) \/ PayerDies(h) PROVE MoneyInv'
  BY <1>1, <1>5, MoneyDiscards DEF ChargeFails, PayerDies
<1>6. ASSUME \/ \E h \in Payers : ChargePaid(h) \/ CommitPayment(h)
             \/ \E i \in Rows, paid \in BOOLEAN : PayshWebhook(i, paid)
      PROVE  MoneyInv'
  BY <1>6, MoneyRows
<1>7. ASSUME NEW i \in Rows, TransferLands(i) PROVE MoneyInv'
  BY <1>7, MoneyLands DEF RowsInv
<1>8. ASSUME NEW i \in Rows, TransferFails(i) PROVE MoneyInv'
  <2>1. /\ transfer[i] = "flying" /\ transfer' = [transfer EXCEPT ![i] = "failed"]
        /\ UNCHANGED <<micropay, usdc>> /\ transfer \in [Rows -> {"none", "flying", "landed", "failed"}]
    BY <1>8 DEF TransferFails, RowsInv, RailTypes
  <2>2. \A j \in Rows : Untransferred(j)' => Untransferred(j) /\ transfer'[j] = transfer[j]
    BY <2>1 DEF MoneyInv, Untransferred, Live
  <2> QED BY <2>1, <2>2, MoneyStays
<1>9. ASSUME NEW g \in Pages, ClosePage(g) PROVE MoneyInv'
  BY <1>9, MoneyPage
<1>10. ASSUME \/ GatewayMoves
              \/ \E g \in Pages : \/ OpenPage(g) \/ PageDies(g)
                                  \/ \E i \in Rows, answered \in BOOLEAN : AskChannel(g, i, answered)
              \/ UNCHANGED rails
       PROVE  UNCHANGED <<micropay, transfer, usdc>>
  BY <1>10 DEF GatewayMoves, GatewayDraws, GatewayCloses, OpenPage, PageDies, AskChannel, rails
<1> QED BY <1>1, <1>2, <1>3, <1>4, <1>5, <1>6, <1>7, <1>8, <1>9, <1>10
        DEF RailsNext, RailStep, GatewayMoves, Payers

-----------------------------------------------------------------------------
RInv == RowsInv /\ MoneyInv /\ BudgetInv

LEMMA RailsStart == RailsInit => RInv
<1> SUFFICES ASSUME RailsInit PROVE RInv
  OBVIOUS
<1>1. /\ \A i \in Rows : micropay[i] = NoRow
      /\ \A h \in Payers : rail[h].at = "idle" /\ rail[h].row = None
      /\ \A g \in Pages : page[g] = NoPage
      /\ \A c \in Channels : channel[c] = NoChannel
      /\ \A i \in Rows : transfer[i] = "none"
      /\ reversed = {} /\ usdc = Float
  BY DEF RailsInit, NoRail
<1>2. RailTypes
  BY NoRowType, NoPageType, NoChannelType DEF RailsInit, RailTypes, NoRail
<1>3. HeldInv /\ BillInv /\ PaidInv
  <2>1. \A c \in Channels : Sound(channel[c], c)
    BY <1>1, NoChannelType DEF Sound
  <2> QED BY <1>1, <2>1, NoRowType DEF HeldInv, BillInv, PaidInv, Live, Kept
<1>4. PageInv
  BY <1>1, NoPageType DEF PageInv
<1>5. BudgetInv
  <2>1. Reviewed = {} /\ Reviewing = {}
    BY <1>1, NoRowType DEF Reviewed, Reviewing, Kept, Payers
  <2>2. SumOver(ChargedRows, Reviewed) = 0 /\ Cardinality(Reviewing) = 0
    BY <2>1, SumEmpty, FS_EmptySet
  <2>3. PICK r \in Reviewers : TRUE
    OBVIOUS
  <2>4. Cardinality(Reviewers) >= 1
    <3>1. Cardinality({r}) = 1 /\ {r} \subseteq Reviewers
      BY FS_Singleton
    <3> QED BY <3>1, FS_Subset, ReviewingCount
  <2>5. MaxCharge * 1 <= MaxCharge * Cardinality(Reviewers) /\ MaxCharge * Cardinality(Reviewers) \in Nat
    BY <2>4, ReviewingCount, CostType, CostsGrow
  <2>6. MaxCharge * 0 = 0 /\ MaxCharge * 1 = MaxCharge
    BY CostType
  <2> QED BY <2>2, <2>5, <2>6, CostType DEF BudgetInv
<1>6. MoneyInv
  <2>1. \A i \in Rows : Landed[i] = 0
    BY <1>1 DEF Landed
  <2> HIDE DEF Landed
  <2>2. SumOver(Landed, Rows) = 0
    <3>1. Units(Landed, Rows) = {}
      BY <2>1 DEF Units, UnitsOf
    <3> QED BY <3>1, FS_EmptySet DEF SumOver
  <2> QED BY <1>1, <2>2 DEF MoneyInv
<1> QED BY <1>2, <1>3, <1>4, <1>5, <1>6 DEF RInv, RowsInv

(* Every behaviour of the rails keeps the rows to those who hold them, the *)
(* receipts to their channels, what pages know to what is so, what rows    *)
(* say to what was transferred, the agent's account to what landed, and    *)
(* the reviews within the budget.                                          *)
THEOREM RailsInductive == RailsSpec => []RInv
<1>1. RInv /\ [RailsNext]_rails => RInv'
  BY RowsStep, MoneyStep, BudgetStep DEF RInv
<1> QED BY RailsStart, <1>1, PTL DEF RailsSpec

(* Rows, channels and slots keep their shapes, and a row that is not       *)
(* committed belongs to exactly one handler in progress.                   *)
THEOREM RailsTypes == RailsSpec => []RailsTypeOK
<1>1. RInv => RailsTypeOK
  <2> SUFFICES ASSUME RInv PROVE RailsTypeOK
    OBVIOUS
  <2>1. RailTypes /\ HeldInv
    BY DEF RInv, RowsInv
  <2>2. ASSUME NEW i \in Rows PROVE micropay[i].at = "flushed" <=> \E h \in Payers : rail[h].row = i
    <3>1. i # None
      BY RowIds
    <3> QED BY <2>1, <3>1 DEF HeldInv, Live
  <2>3. ASSUME NEW h \in Payers, NEW k \in Payers, rail[h].row = rail[k].row, h # k
        PROVE  rail[h].row = None
    BY <2>1, <2>3 DEF HeldInv
  <2>4. ASSUME NEW h \in Payers
        PROVE  /\ rail[h].row # None => micropay[rail[h].row].by = h
               /\ rail[h].row # None => rail[h].at \in {"charge", "done"}
               /\ rail[h].at = "charge" => rail[h].row # None
    BY <2>1 DEF HeldInv
  <2> QED BY <2>1, <2>2, <2>3, <2>4 DEF RailsTypeOK, RailTypes
<1> QED BY <1>1, RailsInductive, PTL

(* Until the row of a channel is settled it counts at least what was taken; *)
(* then the channel is closed and it counts no more than that, and exactly *)
(* that if one transaction took it and emptied no other channel, however   *)
(* closings and pages overlap.                                             *)
THEOREM RailsReceiptsCover == RailsSpec => []ReceiptsCover
<1>1. RInv => ReceiptsCover
  <2> SUFFICES ASSUME RInv, NEW i \in Rows, Kept(i), micropay[i].channel # None
               PROVE  LET c == micropay[i].channel
                          m == micropay[i]
                      IN  IF m.settled
                          THEN /\ channel[c].at = "closed" /\ Charged(m) <= Taken(c)
                               /\ channel[c].drawn = 0 /\ channel[c].with = {c} =>
                                    Charged(m) = Taken(c)
                          ELSE Charged(m) >= Taken(c)
    BY DEF ReceiptsCover
  <2> DEFINE c == micropay[i].channel
  <2>1. /\ c \in Channels /\ micropay[i].amount \in Nat
        /\ micropay[i].authorized = channel[c].deposit
        /\ micropay[i].settled => micropay[i].amount = Resolved(c)
    BY DEF RInv, RowsInv, RailTypes, Micropays, BillInv, Live, Kept
  <2> HIDE DEF c
  <2>2. /\ channel[c].deposit \in Nat /\ Taken(c) \in Nat /\ Taken(c) <= channel[c].deposit
        /\ Resolved(c) # None =>
             /\ channel[c].at = "closed" /\ Resolved(c) <= Taken(c)
             /\ channel[c].drawn = 0 /\ channel[c].with = {c} => Resolved(c) = Taken(c)
    BY <2>1, ResolvedBounds DEF RInv, RowsInv
  <2>3. micropay[i].authorized # None /\ micropay[i].amount # None
    BY <2>1, <2>2
  <2> QED BY <2>1, <2>2, <2>3 DEF Charged, c
<1> QED BY <1>1, RailsInductive, PTL

(* A pay.sh row that says paid was transferred, and what such rows show    *)
(* together has left the agent's account.                                  *)
THEOREM RailsPaidIsTransferred == RailsSpec => []PaidIsTransferred
<1>1. RInv => PaidIsTransferred
  <2> SUFFICES ASSUME RInv PROVE PaidIsTransferred
    OBVIOUS
  <2>1. \A i \in PaidTransfers : transfer[i] = "landed"
    BY DEF RInv, RowsInv, PaidInv, PaidTransfers, Live, Kept
  <2>2. \A i \in Rows : Landed[i] \in Nat /\ AmountOf[i] \in Nat
    BY DEF RInv, RowsInv, RailTypes, Micropays, Landed, AmountOf
  <2>3. PaidTransfers \subseteq Rows /\ \A i \in PaidTransfers : AmountOf[i] <= Landed[i]
    BY <2>1, <2>2 DEF PaidTransfers, Landed, AmountOf
  <2> HIDE DEF Landed, AmountOf
  <2>4. /\ SumOver(AmountOf, PaidTransfers) <= SumOver(Landed, Rows)
        /\ SumOver(AmountOf, PaidTransfers) \in Nat /\ SumOver(Landed, Rows) \in Nat
    <3>1. IsFiniteSet(Rows)
      BY FS_Interval DEF Rows
    <3> QED BY <2>2, <2>3, <3>1, SumMono, RowsSum
  <2>5. usdc + SumOver(Landed, Rows) = Float /\ usdc \in Nat
    BY DEF RInv, RowsInv, RailTypes, MoneyInv
  <2> QED BY <2>1, <2>4, <2>5 DEF PaidIsTransferred
<1> QED BY <1>1, RailsInductive, PTL

(* What counts as spent exceeds the budget by no more than the dearest     *)
(* charge for each reviewer, less the reserve, and the payments no check   *)
(* of the budget can see: clients' and those reconfirmed after a reversal. *)
THEOREM RailsOverrunBounded == RailsSpec => []OverrunBounded
<1>1. RInv => OverrunBounded
  <2> SUFFICES ASSUME RInv, Budget # None
               PROVE  Spent + ReviewCost <= Budget + MaxCharge * Cardinality(Reviewers)
                                              + SumOver(ChargedRows, Unplanned)
    BY DEF OverrunBounded
  <2> DEFINE S == {i \in Rows : Kept(i) /\ micropay[i].paid}
  <2>1. /\ \A i \in Rows : ChargedRows[i] \in Nat
        /\ Reviewed \subseteq Rows /\ Unplanned \subseteq Rows
    BY ChargedType DEF RInv, RowsInv, RailTypes, ChargedRows, Reviewed, Unplanned
  <2>2. S = Reviewed \cup Unplanned /\ Reviewed \cap Unplanned = {}
    <3>1. \A i \in Rows : Kept(i) => micropay[i].by \in Payers
      BY DEF RInv, RowsInv, HeldInv, Live, Kept
    <3> QED BY <3>1 DEF Reviewed, Unplanned, Payers
  <2>3. /\ IsFiniteSet(Reviewed) /\ SumOver(ChargedRows, Reviewed) \in Nat
        /\ IsFiniteSet(Unplanned) /\ SumOver(ChargedRows, Unplanned) \in Nat
    BY <2>1, RowsSum
  <2>4. SumOver(ChargedRows, S) = SumOver(ChargedRows, Reviewed) + SumOver(ChargedRows, Unplanned)
    <3>1. \A i \in Reviewed \cup Unplanned : ChargedRows[i] \in Nat
      BY <2>1
    <3> HIDE DEF S
    <3> QED BY <2>2, <2>3, <3>1, SumDisjoint
  <2>5. /\ MaxCharge * Cardinality(Reviewing) \in Nat /\ MaxCharge * Cardinality(Reviewers) \in Nat
    BY ReviewingCount, CostType, CostsGrow
  <2>6. SumOver(ChargedRows, Reviewed) + MaxCharge * Cardinality(Reviewing) + ReviewCost
          <= Budget + MaxCharge * Cardinality(Reviewers)
    BY DEF RInv, BudgetInv
  <2>7. Spent = SumOver(ChargedRows, S)
    BY DEF Spent
  <2> HIDE DEF S
  <2> QED BY <2>3, <2>4, <2>5, <2>6, <2>7, CostType
<1> QED BY <1>1, RailsInductive, PTL
=============================================================================
