--------------------------- MODULE AccountsProofs ---------------------------
(***************************************************************************)
(* Proofs about accounts for every number of handlers, users, sessions,    *)
(* nonces, campaigns and payments, and every life time of a token.         *)
(***************************************************************************)
EXTENDS Accounts, FiniteSetTheorems, TLAPS

USE AccountsAssumption

-----------------------------------------------------------------------------
(* The shape of the state, and what a handler has read by where it is.     *)

UserRows     == [at : {"free", "live", "gone"}, email : Emails \cup {None},
                 wallet : Wallets \cup {None}]
SessionRows  == [user : Users \cup {None}, exp : Nat, access : Nat, ended : Nat \cup {None},
                 raced : BOOLEAN]
NonceRows    == [wallet : Wallets \cup {None}, used : BOOLEAN, expires_at : Nat, uses : Nat]
CampaignRows == [at : {"free", "active", "closed"}, owner : Users \cup {None}]
PaymentRows  == [status : {"none", "pending", "confirmed"}, user : Users \cup {None},
                 fan : Users \cup {None}, paid : BOOLEAN, recorded : BOOLEAN,
                 contribution : Users \cup {None}]
Tasks        == [user : Users \cup {None}, id : Int \cup {None},
                 rows : SUBSET ({"request", "contribution"} \X Payments)]
Places       == {"idle", "refresh", "connect", "login", "create", "confirm", "withdraw"}

TaskOf(h) ==
  /\ at[h] = "refresh" => task[h].id \in Sessions
  /\ at[h] \in {"connect", "login"} => task[h].id \in Nonces /\ task[h].user \in Users
  /\ at[h] \in {"create", "withdraw"} => task[h].user \in Users
  /\ at[h] = "confirm" => task[h].id \in Payments

Rows ==
  /\ now \in 0 .. MaxTime
  /\ user \in [Users -> UserRows]
  /\ session \in [Sessions -> SessionRows]
  /\ nonce \in [Nonces -> NonceRows]
  /\ campaign \in [Campaigns -> CampaignRows]
  /\ payment \in [Payments -> PaymentRows]

Slots ==
  /\ at \in [API -> Places]
  /\ task \in [API -> Tasks]
  /\ \A h \in API : TaskOf(h)

LEMMA InitShape == AccountsInit => Rows /\ Slots
<1> SUFFICES ASSUME AccountsInit PROVE Rows /\ Slots
  OBVIOUS
<1>1. Rows
  BY DEF AccountsInit, Rows, UserRows, SessionRows, NonceRows, CampaignRows, PaymentRows,
         NoUser, NoSession, NoNonce, NoCampaign, NoPayment
<1>2. NoTask \in Tasks
  BY DEF NoTask, Tasks
<1>3. Slots
  BY <1>2 DEF AccountsInit, Slots, TaskOf, Places
<1> QED BY <1>1, <1>3

LEMMA NoTaskType == NoTask \in Tasks /\ NoTask.user = None /\ NoTask.id = None
BY DEF NoTask, Tasks

(* What the handlers begin with. *)
LEMMA IdTask ==
  ASSUME NEW i \in Int
  PROVE  [NoTask EXCEPT !.id = i] \in Tasks /\ [NoTask EXCEPT !.id = i].id = i
BY NoTaskType DEF Tasks

LEMMA UserTask ==
  ASSUME NEW u \in Users
  PROVE  [NoTask EXCEPT !.user = u] \in Tasks /\ [NoTask EXCEPT !.user = u].user = u
BY NoTaskType DEF Tasks

LEMMA BothTask ==
  ASSUME NEW u \in Users \cup {None}, NEW i \in Int
  PROVE  /\ [NoTask EXCEPT !.user = u, !.id = i] \in Tasks
         /\ [NoTask EXCEPT !.user = u, !.id = i].user = u
         /\ [NoTask EXCEPT !.user = u, !.id = i].id = i
<1> DEFINE t == [NoTask EXCEPT !.user = u]
<1>1. t \in Tasks /\ t.user = u
  BY NoTaskType DEF Tasks
<1>2. [t EXCEPT !.id = i] \in Tasks /\ [t EXCEPT !.id = i].user = u /\ [t EXCEPT !.id = i].id = i
  <2> HIDE DEF t
  <2> QED BY <1>1 DEF Tasks
<1> QED BY <1>2

(* A handler begins with a task that fits where it goes, and ends idle. *)
LEMMA BeginSlots ==
  ASSUME Slots, NEW h \in API, NEW where \in Places, NEW what \in Tasks,
         Begin(h, where, what),
         where = "refresh" => what.id \in Sessions,
         where \in {"connect", "login"} => what.id \in Nonces /\ what.user \in Users,
         where \in {"create", "withdraw"} => what.user \in Users,
         where = "confirm" => what.id \in Payments
  PROVE  Slots'
<1>1. at' \in [API -> Places] /\ task' \in [API -> Tasks]
  BY DEF Slots, Begin
<1>2. ASSUME NEW k \in API PROVE TaskOf(k)'
  BY DEF Slots, TaskOf, Begin, Places
<1> QED BY <1>1, <1>2 DEF Slots

LEMMA EndSlots ==
  ASSUME Slots, NEW h \in API, End(h)
  PROVE  Slots'
<1>1. NoTask \in Tasks
  BY NoTaskType
<1>2. at' \in [API -> Places] /\ task' \in [API -> Tasks]
  BY <1>1 DEF Slots, End, Places
<1>3. ASSUME NEW k \in API PROVE TaskOf(k)'
  BY DEF Slots, TaskOf, End
<1> QED BY <1>2, <1>3 DEF Slots

LEMMA OpenedType ==
  ASSUME Rows, NEW u \in Users
  PROVE  /\ Opened(u) \in SessionRows
         /\ Opened(u).user = u /\ Opened(u).access = now + AccessTTL
         /\ Opened(u).ended = None /\ Opened(u).raced = FALSE
<1>1. now + RefreshTTL \in Nat /\ now + AccessTTL \in Nat
  BY DEF Rows
<1>2. /\ NoSession \in SessionRows
      /\ NoSession.ended = None /\ NoSession.raced = FALSE
  BY DEF NoSession, SessionRows
<1> QED BY <1>1, <1>2 DEF Opened, SessionRows

LEMMA OpenSessions ==
  ASSUME Rows, NEW u \in Users, OpenSession(u)
  PROVE  session' \in [Sessions -> SessionRows]
BY OpenedType DEF Rows, OpenSession

(* What a withdrawal makes of a request. *)
DetachedFrom(q, u) == [payment[q] EXCEPT !.user = IF @ = u THEN None ELSE @,
                                         !.contribution = IF @ = u THEN None ELSE @]

LEMMA DetachedShape ==
  ASSUME Rows, NEW q \in Payments, NEW u
  PROVE  /\ DetachedFrom(q, u) \in PaymentRows
         /\ DetachedFrom(q, u).status = payment[q].status
         /\ DetachedFrom(q, u).paid = payment[q].paid
         /\ DetachedFrom(q, u).recorded = payment[q].recorded
         /\ DetachedFrom(q, u).fan = payment[q].fan
         /\ DetachedFrom(q, u).user = IF payment[q].user = u THEN None ELSE payment[q].user
         /\ DetachedFrom(q, u).contribution =
              IF payment[q].contribution = u THEN None ELSE payment[q].contribution
<1>1. payment[q] \in PaymentRows
  BY DEF Rows
<1> DEFINE a == IF payment[q].user = u THEN None ELSE payment[q].user
           b == IF payment[q].contribution = u THEN None ELSE payment[q].contribution
<1>2. a \in Users \cup {None} /\ b \in Users \cup {None}
  BY <1>1 DEF PaymentRows
<1>3. DetachedFrom(q, u) = [payment[q] EXCEPT !.user = a, !.contribution = b]
  BY <1>1 DEF DetachedFrom, PaymentRows
<1> HIDE DEF a, b
<1> DEFINE p == [payment[q] EXCEPT !.user = a]
<1>4. /\ p \in PaymentRows /\ p.user = a
      /\ p.status = payment[q].status /\ p.paid = payment[q].paid
      /\ p.recorded = payment[q].recorded /\ p.fan = payment[q].fan
  BY <1>1, <1>2 DEF PaymentRows
<1>5. DetachedFrom(q, u) = [p EXCEPT !.contribution = b]
  BY <1>3
<1> HIDE DEF p
<1>6. LET t == DetachedFrom(q, u) IN
        /\ t \in PaymentRows
        /\ t.status = payment[q].status /\ t.paid = payment[q].paid
        /\ t.recorded = payment[q].recorded /\ t.fan = payment[q].fan
        /\ t.user = a /\ t.contribution = b
  BY <1>2, <1>4, <1>5 DEF PaymentRows
<1> QED BY <1>6 DEF a, b

(* Every step keeps the shapes of the rows and of the slots. *)
LEMMA StepShape ==
  ASSUME Rows, Slots, AccountsNext
  PROVE  Rows' /\ Slots'
<1> USE DEF handlers
<1>1. ASSUME NEW u \in Users, NEW e \in Emails, Signup(u, e) PROVE Rows' /\ Slots'
  <2>1. session' \in [Sessions -> SessionRows]
    BY <1>1, OpenSessions DEF Signup
  <2>2. user' \in [Users -> UserRows]
    BY <1>1 DEF Signup, Rows, UserRows
  <2>3. Rows'
    BY <1>1, <2>1, <2>2 DEF Signup, Rows
  <2> QED BY <1>1, <2>3 DEF Signup, Slots, TaskOf
<1>2. ASSUME NEW u \in Users, Login(u) PROVE Rows' /\ Slots'
  <2>1. session' \in [Sessions -> SessionRows]
    BY <1>2, OpenSessions DEF Login
  <2> QED BY <1>2, <2>1 DEF Login, Rows, Slots, TaskOf
<1>3. ASSUME NEW s \in Sessions, Logout(s) PROVE Rows' /\ Slots'
  <2>1. session' \in [Sessions -> SessionRows]
    <3> DEFINE raced == \E h \in API : at[h] = "refresh" /\ task[h].id = s
    <3>1. session' = [session EXCEPT ![s].ended = now, ![s].raced = raced]
      BY <1>3 DEF Logout
    <3>2. raced \in BOOLEAN /\ now \in Nat
      BY DEF Rows
    <3> HIDE DEF raced
    <3> QED BY ZenonT(40), <3>1, <3>2 DEF Rows, SessionRows
  <2> QED BY <1>3, <2>1 DEF Logout, Rows, Slots, TaskOf
<1>4. ASSUME NEW n \in Nonces, NEW w \in Wallets, WalletNonce(n, w) PROVE Rows' /\ Slots'
  <2>1. NoNonce \in NonceRows
    BY DEF NoNonce, NonceRows
  <2>2. now + NonceTTL \in Nat
    BY DEF Rows
  <2>3. nonce' \in [Nonces -> NonceRows]
    BY <1>4, <2>1, <2>2 DEF WalletNonce, Rows, NonceRows
  <2> QED BY <1>4, <2>3 DEF WalletNonce, Rows, Slots, TaskOf
<1>5. ASSUME NEW c \in Campaigns, CampaignCloses(c) PROVE Rows' /\ Slots'
  <2>1. campaign' \in [Campaigns -> CampaignRows]
    BY <1>5 DEF CampaignCloses, Rows, CampaignRows
  <2> QED BY <1>5, <2>1 DEF CampaignCloses, Rows, Slots, TaskOf
<1>6. ASSUME NEW q \in Payments, FanPays(q) PROVE Rows' /\ Slots'
  <2>1. payment' \in [Payments -> PaymentRows]
    BY ZenonT(40), <1>6 DEF FanPays, Rows, PaymentRows
  <2> QED BY <1>6, <2>1 DEF FanPays, Rows, Slots, TaskOf
<1>7. ASSUME NEW q \in Payments, NEW u \in Users, CreatePaymentRequest(q, u)
      PROVE Rows' /\ Slots'
  <2>1. NoPayment \in PaymentRows
    BY DEF NoPayment, PaymentRows
  <2>2. payment' \in [Payments -> PaymentRows]
    BY <1>7, <2>1 DEF CreatePaymentRequest, Rows, PaymentRows
  <2> QED BY <1>7, <2>2 DEF CreatePaymentRequest, Rows, Slots, TaskOf
<1>8. ASSUME NEW h \in API, NEW s \in Sessions, StartRefresh(h, s) PROVE Rows' /\ Slots'
  <2>1. Slots'
    <3>1. s \in Int
      BY DEF Sessions
    <3>2. Begin(h, "refresh", [NoTask EXCEPT !.id = s])
      BY <1>8 DEF StartRefresh
    <3> QED BY <3>1, <3>2, IdTask, BeginSlots DEF Places
  <2> QED BY <1>8, <2>1 DEF StartRefresh, Rows
<1>9. ASSUME NEW h \in API, NEW n \in Nonces, NEW u \in Users, StartConnect(h, n, u)
      PROVE Rows' /\ Slots'
  <2>1. Slots'
    <3>1. n \in Int
      BY DEF Nonces
    <3>2. Begin(h, "connect", [NoTask EXCEPT !.user = u, !.id = n])
      BY <1>9 DEF StartConnect
    <3>3. /\ [NoTask EXCEPT !.user = u, !.id = n] \in Tasks
          /\ [NoTask EXCEPT !.user = u, !.id = n].user = u
          /\ [NoTask EXCEPT !.user = u, !.id = n].id = n
      BY <3>1, BothTask
    <3> DEFINE what == [NoTask EXCEPT !.user = u, !.id = n]
    <3> HIDE DEF what
    <3> QED BY <3>2, <3>3, BeginSlots DEF what, Places
  <2> QED BY <1>9, <2>1 DEF StartConnect, Rows
<1>10. ASSUME NEW h \in API, NEW n \in Nonces, NEW u \in Users, StartWalletLogin(h, n, u)
       PROVE Rows' /\ Slots'
  <2>1. Slots'
    <3>1. n \in Int
      BY DEF Nonces
    <3>2. Begin(h, "login", [NoTask EXCEPT !.user = u, !.id = n])
      BY <1>10 DEF StartWalletLogin
    <3>3. /\ [NoTask EXCEPT !.user = u, !.id = n] \in Tasks
          /\ [NoTask EXCEPT !.user = u, !.id = n].user = u
          /\ [NoTask EXCEPT !.user = u, !.id = n].id = n
      BY <3>1, BothTask
    <3> DEFINE what == [NoTask EXCEPT !.user = u, !.id = n]
    <3> HIDE DEF what
    <3> QED BY <3>2, <3>3, BeginSlots DEF what, Places
  <2> QED BY <1>10, <2>1 DEF StartWalletLogin, Rows
<1>11. ASSUME NEW h \in API, NEW u \in Users, StartCreate(h, u) PROVE Rows' /\ Slots'
  <2>1. Slots'
    BY <1>11, UserTask, BeginSlots DEF StartCreate, Places
  <2> QED BY <1>11, <2>1 DEF StartCreate, Rows
<1>12. ASSUME NEW h \in API, NEW u \in Users, StartWithdraw(h, u) PROVE Rows' /\ Slots'
  <2> DEFINE rows == {<<"request", q>> : q \in RequestsOf(u)} \cup
                     {<<"contribution", q>> : q \in ContributionsOf(u)}
             what == [NoTask EXCEPT !.user = u, !.rows = rows]
  <2>1. rows \in SUBSET ({"request", "contribution"} \X Payments)
    BY DEF RequestsOf, ContributionsOf
  <2>2. what \in Tasks /\ what.user = u
    BY <2>1, NoTaskType DEF Tasks
  <2>3. Begin(h, "withdraw", what)
    BY <1>12 DEF StartWithdraw
  <2>4. Slots'
    BY <2>2, <2>3, BeginSlots DEF Places
  <2> QED BY <1>12, <2>4 DEF StartWithdraw, Rows
<1>13. ASSUME NEW h \in API, NEW q \in Payments, StartConfirm(h, q) PROVE Rows' /\ Slots'
  <2>1. payment[q].user \in Users \cup {None}
    BY DEF Rows, PaymentRows
  <2>2. Slots'
    <3>1. q \in Int
      BY DEF Payments
    <3>2. Begin(h, "confirm", [NoTask EXCEPT !.user = payment[q].user, !.id = q])
      BY <1>13 DEF StartConfirm
    <3> QED BY <2>1, <3>1, <3>2, BothTask, BeginSlots DEF Places
  <2> QED BY <1>13, <2>2 DEF StartConfirm, Rows
<1>14. ASSUME NEW h \in API, FinishRefresh(h) PROVE Rows' /\ Slots'
  <2>1. task[h].id \in Sessions
    BY <1>14 DEF FinishRefresh, Slots, TaskOf
  <2>2. now + AccessTTL \in Nat
    BY DEF Rows
  <2>3. session' \in [Sessions -> SessionRows]
    BY <1>14, <2>1, <2>2 DEF FinishRefresh, Rows, SessionRows
  <2> QED BY <1>14, <2>3, EndSlots DEF FinishRefresh, Rows
<1>15. ASSUME NEW h \in API, CommitConnect(h) PROVE Rows' /\ Slots'
  <2>1. task[h].id \in Nonces /\ task[h].user \in Users
    BY <1>15 DEF CommitConnect, Slots, TaskOf
  <2>2. nonce' \in [Nonces -> NonceRows]
    BY <1>15, <2>1 DEF CommitConnect, Consumed, Rows, NonceRows
  <2>3. nonce[task[h].id].wallet \in Wallets \cup {None}
    BY <2>1 DEF Rows, NonceRows
  <2>4. user' \in [Users -> UserRows]
    BY <1>15, <2>1, <2>3 DEF CommitConnect, Rows, UserRows
  <2> QED BY <1>15, <2>2, <2>4, EndSlots DEF CommitConnect, Rows
<1>16. ASSUME NEW h \in API, CommitWalletLogin(h) PROVE Rows' /\ Slots'
  <2>1. task[h].id \in Nonces /\ task[h].user \in Users
    BY <1>16 DEF CommitWalletLogin, Slots, TaskOf
  <2>2. nonce' \in [Nonces -> NonceRows]
    BY <1>16, <2>1 DEF CommitWalletLogin, Consumed, Rows, NonceRows
  <2>3. session' \in [Sessions -> SessionRows]
    BY <1>16, <2>1, OpenSessions DEF CommitWalletLogin
  <2> QED BY <1>16, <2>2, <2>3, EndSlots DEF CommitWalletLogin, Rows
<1>17. ASSUME NEW h \in API, InsertCampaign(h) PROVE Rows' /\ Slots'
  <2>1. task[h].user \in Users
    BY <1>17 DEF InsertCampaign, Slots, TaskOf
  <2>2. campaign' \in [Campaigns -> CampaignRows]
    BY <1>17, <2>1 DEF InsertCampaign, Rows, CampaignRows
  <2> QED BY <1>17, <2>2, EndSlots DEF InsertCampaign, Rows
<1>18. ASSUME NEW h \in API, CommitConfirm(h) PROVE Rows' /\ Slots'
  <2>1. task[h].id \in Payments
    BY <1>18 DEF CommitConfirm, Slots, TaskOf
  <2>2. task[h].user \in Users \cup {None}
    BY DEF Slots, Tasks
  <2>3. payment' \in [Payments -> PaymentRows]
    <3> DEFINE q == task[h].id
               u == task[h].user
    <3>1. CASE payment' = payment
      BY <3>1 DEF Rows
    <3>2. CASE payment' = [payment EXCEPT ![q].status = "confirmed", ![q].recorded = TRUE,
                                          ![q].contribution = u]
      <4> HIDE DEF q, u
      <4> QED BY <3>2, <2>1, <2>2 DEF q, u, Rows, PaymentRows
    <3> QED BY <1>18, <3>1, <3>2 DEF CommitConfirm, Confirmed
  <2> QED BY <1>18, <2>3, EndSlots DEF CommitConfirm, Rows
<1>19. ASSUME NEW h \in API, CommitWithdraw(h) PROVE Rows' /\ Slots'
  <2>1. NoUser \in UserRows
    BY DEF NoUser, UserRows
  <2>2. user' \in [Users -> UserRows]
    <3>1. [NoUser EXCEPT !.at = "gone"] \in UserRows
      BY <2>1 DEF UserRows
    <3> QED BY <1>19, <3>1 DEF CommitWithdraw, Rows
  <2>3. payment' \in [Payments -> PaymentRows]
    <3>1. CASE payment' = payment
      BY <3>1 DEF Rows
    <3>2. CASE payment' = [q \in Payments |-> DetachedFrom(q, task[h].user)]
      BY <3>2, DetachedShape DEF Rows
    <3> QED BY <1>19, <3>1, <3>2 DEF CommitWithdraw, DetachedFrom
  <2> QED BY <1>19, <2>2, <2>3, EndSlots DEF CommitWithdraw, Rows
<1>20. ASSUME NEW h \in API, GiveUp(h) PROVE Rows' /\ Slots'
  BY <1>20, EndSlots DEF GiveUp, Rows
<1>21. ASSUME Tick PROVE Rows' /\ Slots'
  BY <1>21 DEF Tick, Rows, Slots, TaskOf
<1> QED
  BY <1>1, <1>2, <1>3, <1>4, <1>5, <1>6, <1>7, <1>8, <1>9, <1>10, <1>11, <1>12, <1>13, <1>14,
     <1>15, <1>16, <1>17, <1>18, <1>19, <1>20, <1>21 DEF AccountsNext

(* Rows and slots have their shapes in every reachable state. *)
LEMMA Shape == AccountsSpec => [](Rows /\ Slots)
<1>1. Rows /\ Slots /\ [AccountsNext]_accounts => (Rows /\ Slots)'
  BY StepShape DEF accounts, handlers, Rows, Slots, TaskOf
<1> QED BY <1>1, InitShape, PTL DEF AccountsSpec

-----------------------------------------------------------------------------
(* Sessions.  A session that was logged out, with no refresh of it on its   *)
(* way, has none later either: a refresh begins only before.               *)

Ended(s) == session[s].ended # None /\ ~session[s].raced

Refreshing(h, s) == at[h] = "refresh" /\ task[h].id = s

SessionInv ==
  \A s \in Sessions :
    /\ session[s].access <= now + AccessTTL
    /\ Ended(s) => /\ session[s].access <= session[s].ended + AccessTTL
                   /\ \A h \in API : ~Refreshing(h, s)

LEMMA SessionQuiet ==
  ASSUME Rows, SessionInv, session' = session, now' \in Nat, now <= now',
         \A h \in API : at'[h] = "refresh" => at[h] = "refresh" /\ task'[h] = task[h]
  PROVE  SessionInv'
<1> SUFFICES ASSUME NEW s \in Sessions
             PROVE  /\ session'[s].access <= now' + AccessTTL
                    /\ Ended(s)' => /\ session'[s].access <= session'[s].ended + AccessTTL
                                    /\ \A h \in API : ~Refreshing(h, s)'
  BY DEF SessionInv
<1>1. session[s].access \in Nat /\ now \in Nat /\ AccessTTL \in Nat
  BY DEF Rows, SessionRows
<1> QED BY <1>1 DEF SessionInv, Ended, Refreshing

LEMMA SessionOpens ==
  ASSUME Rows, SessionInv, NEW u \in Users, OpenSession(u), now' = now,
         \A h \in API : at'[h] = "refresh" => at[h] = "refresh" /\ task'[h] = task[h]
  PROVE  SessionInv'
<1>1. PICK s \in Sessions : session' = [session EXCEPT ![s] = Opened(u)]
  BY DEF OpenSession
<1>2. session'[s].access = now + AccessTTL /\ session'[s].ended = None
  BY <1>1, OpenedType DEF Rows
<1>3. \A r \in Sessions \ {s} : session'[r] = session[r]
  BY <1>1 DEF Rows
<1>4. now + AccessTTL \in Nat
  BY DEF Rows
<1> QED BY <1>2, <1>3, <1>4 DEF SessionInv, Ended, Refreshing

LEMMA SessionStep ==
  ASSUME Rows, Slots, SessionInv, AccountsNext
  PROVE  SessionInv'
<1> DEFINE Elsewhere == \A k \in API : at'[k] = "refresh" => at[k] = "refresh" /\ task'[k] = task[k]
           Quiet == session' = session /\ now' \in Nat /\ now <= now' /\ Elsewhere
<1>0. now \in Nat
  BY DEF Rows
<1>1. CASE \E u \in Users : OpenSession(u) /\ now' = now /\ Elsewhere
  BY <1>1, SessionOpens
<1>2. CASE Quiet
  BY <1>2, SessionQuiet
<1>3. ASSUME NEW h \in API, NEW s \in Sessions, StartRefresh(h, s) PROVE SessionInv'
  <2>1. session' = session /\ now' = now /\ session[s].ended = None
    BY <1>3 DEF StartRefresh, Refreshable
  <2>2. \A r \in Sessions \ {s}, k \in API : Refreshing(k, r)' => Refreshing(k, r)
    <3>1. s \in Int
      BY DEF Sessions
    <3>2. [NoTask EXCEPT !.id = s].id = s
      BY <3>1, IdTask
    <3> DEFINE what == [NoTask EXCEPT !.id = s]
    <3>3. Begin(h, "refresh", what)
      BY <1>3 DEF StartRefresh
    <3> HIDE DEF what
    <3> QED BY <3>2, <3>3 DEF what, Begin, Slots, Refreshing
  <2> QED BY <2>1, <2>2 DEF SessionInv, Ended
<1>4. ASSUME NEW h \in API, FinishRefresh(h) PROVE SessionInv'
  <2>1. task[h].id \in Sessions /\ Refreshing(h, task[h].id)
    BY <1>4 DEF FinishRefresh, Slots, TaskOf, Refreshing
  <2> DEFINE s == task[h].id
  <2>2. /\ session'[s].access = now + AccessTTL
        /\ session'[s].ended = session[s].ended /\ session'[s].raced = session[s].raced
        /\ \A r \in Sessions \ {s} : session'[r] = session[r]
    BY <1>4, <2>1 DEF FinishRefresh, Rows, SessionRows
  <2>3. \A r \in Sessions, k \in API : Refreshing(k, r)' => Refreshing(k, r)
    BY <1>4 DEF FinishRefresh, End, Slots, Refreshing
  <2>4. now' = now /\ now + AccessTTL \in Nat
    BY <1>4 DEF FinishRefresh, Rows
  <2> HIDE DEF s
  <2> QED BY <2>1, <2>2, <2>3, <2>4 DEF s, SessionInv, Ended
<1>5. ASSUME NEW s \in Sessions, Logout(s) PROVE SessionInv'
  <2> DEFINE raced == \E h \in API : Refreshing(h, s)
  <2>1. session' = [session EXCEPT ![s].ended = now, ![s].raced = raced]
    BY <1>5 DEF Logout, Refreshing
  <2>2. /\ session'[s].access = session[s].access /\ session'[s].ended = now
        /\ session'[s].raced = raced
        /\ \A r \in Sessions \ {s} : session'[r] = session[r]
    <3> HIDE DEF raced
    <3> QED BY <2>1 DEF Rows, SessionRows
  <2>3. UNCHANGED <<now, at, task>>
    BY <1>5 DEF Logout, handlers
  <2> QED BY <2>2, <2>3 DEF SessionInv, Ended, Refreshing
<1>6. \/ \E u \in Users : OpenSession(u) /\ now' = now /\ Elsewhere
      \/ Quiet
      \/ \E h \in API, s \in Sessions : StartRefresh(h, s)
      \/ \E h \in API : FinishRefresh(h)
      \/ \E s \in Sessions : Logout(s)
  <2>1. ASSUME NEW h \in API, NEW where \in Places \ {"refresh"}, NEW what, Begin(h, where, what)
        PROVE  Elsewhere
    BY <2>1 DEF Begin, Slots
  <2>2. ASSUME NEW h \in API, End(h) PROVE Elsewhere
    BY <2>2 DEF End, Slots
  <2>3. CASE \/ \E u \in Users, e \in Emails : Signup(u, e)
             \/ \E u \in Users : Login(u)
    BY <2>3 DEF Signup, Login, handlers
  <2>4. CASE \/ \E n \in Nonces, w \in Wallets : WalletNonce(n, w)
             \/ \E c \in Campaigns : CampaignCloses(c)
             \/ \E q \in Payments : FanPays(q) \/ \E u \in Users : CreatePaymentRequest(q, u)
             \/ Tick
    <3>1. ASSUME NEW n \in Nonces, NEW w \in Wallets, WalletNonce(n, w) PROVE Quiet
      BY <1>0, <3>1 DEF WalletNonce, handlers
    <3>2. ASSUME NEW c \in Campaigns, CampaignCloses(c) PROVE Quiet
      BY <1>0, <3>2 DEF CampaignCloses, handlers
    <3>3. ASSUME NEW q \in Payments, FanPays(q) PROVE Quiet
      BY <1>0, <3>3 DEF FanPays, handlers
    <3>4. ASSUME NEW q \in Payments, NEW u \in Users, CreatePaymentRequest(q, u) PROVE Quiet
      BY <1>0, <3>4 DEF CreatePaymentRequest, handlers
    <3>5. ASSUME Tick PROVE Quiet
      BY <1>0, <3>5 DEF Tick, handlers
    <3> HIDE DEF Quiet
    <3> QED BY <2>4, <3>1, <3>2, <3>3, <3>4, <3>5
  <2>5. ASSUME NEW h \in API, NEW n \in Nonces, NEW u \in Users,
               StartConnect(h, n, u) \/ StartWalletLogin(h, n, u)
        PROVE  Quiet
    BY <1>0, <2>1, <2>5 DEF StartConnect, StartWalletLogin, Places
  <2>6. ASSUME NEW h \in API, NEW u \in Users, StartCreate(h, u) \/ StartWithdraw(h, u)
        PROVE  Quiet
    BY <1>0, <2>1, <2>6 DEF StartCreate, StartWithdraw, Places
  <2>7. ASSUME NEW h \in API, NEW q \in Payments, StartConfirm(h, q) PROVE Quiet
    BY <1>0, <2>1, <2>7 DEF StartConfirm, Places
  <2>8. ASSUME NEW h \in API,
               CommitConnect(h) \/ InsertCampaign(h) \/ CommitConfirm(h) \/ CommitWithdraw(h)
                 \/ GiveUp(h)
        PROVE  Quiet
    <3>1. session' = session /\ now' = now /\ End(h)
      BY <2>8 DEF CommitConnect, InsertCampaign, CommitConfirm, CommitWithdraw, GiveUp
    <3> QED BY <1>0, <2>2, <3>1
  <2>9. ASSUME NEW h \in API, CommitWalletLogin(h)
        PROVE  \E u \in Users : OpenSession(u) /\ now' = now /\ Elsewhere
    BY <2>2, <2>9 DEF CommitWalletLogin, Slots, TaskOf
  <2> HIDE DEF Quiet, Elsewhere
  <2> QED BY <2>3, <2>4, <2>5, <2>6, <2>7, <2>8, <2>9 DEF AccountsNext
<1> HIDE DEF Quiet, Elsewhere
<1> QED BY <1>1, <1>2, <1>3, <1>4, <1>5, <1>6

(* For any life times: a session that was logged out ends within the life  *)
(* of one access token, unless a refresh had already looked it up.         *)
THEOREM AccountsSessionEnds == AccountsSpec => []SessionEnds
<1>1. AccountsInit => SessionInv
  BY DEF AccountsInit, NoSession, SessionInv, Ended
<1>2. Rows /\ Slots /\ SessionInv /\ [AccountsNext]_accounts => SessionInv'
  BY SessionStep DEF accounts, handlers, SessionInv, Ended, Refreshing
<1>3. SessionInv => SessionEnds
  BY DEF SessionInv, SessionEnds, Ended
<1> QED BY <1>1, <1>2, <1>3, Shape, PTL DEF AccountsSpec

-----------------------------------------------------------------------------
(* Nonces.  The uses made of one, and those still to come from the handlers *)
(* that looked it up, are never more than there are handlers: once it was   *)
(* used none looks it up.                                                  *)

LEMMA SubsetOfAPI ==
  ASSUME NEW S, S \subseteq API
  PROVE  /\ IsFiniteSet(S) /\ Cardinality(S) \in Nat /\ Cardinality(API) \in Nat
         /\ Cardinality(S) <= Cardinality(API)
BY FS_Subset, FS_CardinalityType

Using(n) == {h \in API : at[h] \in {"connect", "login"} /\ task[h].id = n}

NonceInv ==
  \A n \in Nonces :
    /\ nonce[n].uses + Cardinality(Using(n)) <= Cardinality(API)
    /\ ~nonce[n].used => nonce[n].uses = 0

LEMMA NonceQuiet ==
  ASSUME Rows, NonceInv, NEW n \in Nonces, Using(n)' \subseteq Using(n),
         nonce'[n].uses = nonce[n].uses, nonce'[n].used = nonce[n].used
  PROVE  /\ nonce'[n].uses + Cardinality(Using(n)') <= Cardinality(API)
         /\ ~nonce'[n].used => nonce'[n].uses = 0
<1>1. Using(n) \subseteq API
  BY DEF Using
<1>2. IsFiniteSet(Using(n)) /\ Cardinality(Using(n)) \in Nat /\ Cardinality(API) \in Nat
  BY <1>1, SubsetOfAPI
<1>3. Cardinality(Using(n)') <= Cardinality(Using(n)) /\ Cardinality(Using(n)') \in Nat
  BY <1>2, FS_Subset, FS_CardinalityType
<1>4. nonce[n].uses \in Nat
  BY DEF Rows, NonceRows
<1>5. /\ nonce[n].uses + Cardinality(Using(n)) <= Cardinality(API)
      /\ ~nonce[n].used => nonce[n].uses = 0
  BY DEF NonceInv
<1> QED BY <1>2, <1>3, <1>4, <1>5

LEMMA NonceUse ==
  ASSUME Rows, Slots, NonceInv, NEW h \in API, at[h] \in {"connect", "login"},
         nonce' = Consumed(task[h].id), End(h)
  PROVE  NonceInv'
<1>1. PICK m \in Nonces : m = task[h].id
  BY DEF Slots, TaskOf
<1>2. /\ nonce'[m].uses = nonce[m].uses + 1 /\ nonce'[m].used = TRUE
      /\ \A n \in Nonces \ {m} : nonce'[n] = nonce[n]
  BY <1>1 DEF Consumed, Rows, NonceRows
<1>3. \A n \in Nonces : Using(n)' = Using(n) \ {h}
  BY DEF Using, End, Slots
<1>4. h \in Using(m) /\ Using(m) \subseteq API
  BY <1>1 DEF Using
<1>5. Cardinality(Using(m)') = Cardinality(Using(m)) - 1
  BY <1>1, <1>3, <1>4, SubsetOfAPI, FS_RemoveElement
<1>6. nonce[m].uses + Cardinality(Using(m)) <= Cardinality(API)
  BY <1>1 DEF NonceInv
<1>7. /\ nonce[m].uses \in Nat /\ Cardinality(Using(m)) \in Nat /\ Cardinality(API) \in Nat
  BY <1>1, <1>4, SubsetOfAPI DEF Rows, NonceRows
<1>8. nonce'[m].uses + Cardinality(Using(m)') <= Cardinality(API)
  BY <1>2, <1>5, <1>6, <1>7
<1>9. ASSUME NEW n \in Nonces \ {m}
      PROVE  /\ nonce'[n].uses + Cardinality(Using(n)') <= Cardinality(API)
             /\ ~nonce'[n].used => nonce'[n].uses = 0
  BY <1>2, <1>3, <1>9, NonceQuiet
<1> QED BY <1>2, <1>8, <1>9 DEF NonceInv

LEMMA NonceStart ==
  ASSUME Rows, Slots, NonceInv, NEW h \in API, NEW m \in Nonces, ~nonce[m].used, nonce' = nonce,
         \A n \in Nonces \ {m} : Using(n)' \subseteq Using(n)
  PROVE  NonceInv'
<1>1. Using(m)' \subseteq API
  BY DEF Using
<1>2. Cardinality(Using(m)') <= Cardinality(API) /\ Cardinality(Using(m)') \in Nat
  BY <1>1, SubsetOfAPI
<1>3. nonce'[m].uses = 0
  BY DEF NonceInv
<1>4. nonce'[m].uses + Cardinality(Using(m)') <= Cardinality(API)
  BY <1>2, <1>3
<1>5. ASSUME NEW n \in Nonces \ {m}
      PROVE  /\ nonce'[n].uses + Cardinality(Using(n)') <= Cardinality(API)
             /\ ~nonce'[n].used => nonce'[n].uses = 0
  BY <1>5, NonceQuiet
<1> QED BY <1>3, <1>4, <1>5 DEF NonceInv

LEMMA NonceStep ==
  ASSUME Rows, Slots, NonceInv, AccountsNext
  PROVE  NonceInv'
<1> DEFINE Fewer == \A n \in Nonces : Using(n)' \subseteq Using(n)
           Quiet == nonce' = nonce /\ Fewer
<1>1. CASE Quiet
  BY <1>1, NonceQuiet DEF NonceInv
<1>2. ASSUME NEW n \in Nonces, NEW w \in Wallets, WalletNonce(n, w) PROVE NonceInv'
  <2>1. NoNonce \in NonceRows /\ NoNonce.uses = 0 /\ NoNonce.used = FALSE
    BY DEF NoNonce, NonceRows
  <2> DEFINE new == [NoNonce EXCEPT !.wallet = w, !.expires_at = now + NonceTTL]
  <2>2. new.uses = 0 /\ new.used = FALSE
    BY <2>1 DEF NonceRows
  <2>3. nonce' = [nonce EXCEPT ![n] = new] /\ UNCHANGED <<at, task>>
    BY <1>2 DEF WalletNonce, handlers
  <2> HIDE DEF new
  <2>4. Using(n)' = {}
    BY <1>2, <2>3 DEF WalletNonce, Vacant, Using
  <2>5. nonce'[n].uses = 0 /\ Cardinality(Using(n)') = 0 /\ 0 <= Cardinality(API)
    BY <2>2, <2>3, <2>4, FS_EmptySet, SubsetOfAPI DEF Rows
  <2>6. ASSUME NEW k \in Nonces \ {n}
        PROVE  /\ nonce'[k].uses + Cardinality(Using(k)') <= Cardinality(API)
               /\ ~nonce'[k].used => nonce'[k].uses = 0
    BY <2>3, NonceQuiet DEF Rows, Using
  <2> QED BY <2>5, <2>6 DEF NonceInv
<1>3. ASSUME NEW h \in API, NEW n \in Nonces, NEW u \in Users,
             StartConnect(h, n, u) \/ StartWalletLogin(h, n, u)
      PROVE  NonceInv'
  <2>1. n \in Int
    BY DEF Nonces
  <2>2. [NoTask EXCEPT !.user = u, !.id = n].id = n
    BY <2>1, BothTask
  <2> DEFINE what == [NoTask EXCEPT !.user = u, !.id = n]
  <2>3. PICK where \in {"connect", "login"} : Begin(h, where, what)
    BY <1>3 DEF StartConnect, StartWalletLogin
  <2>4. ~nonce[n].used /\ nonce' = nonce
    BY <1>3 DEF StartConnect, StartWalletLogin, Usable
  <2> HIDE DEF what
  <2>5. \A k \in Nonces \ {n} : Using(k)' \subseteq Using(k)
    BY <2>2, <2>3 DEF what, Begin, Using, Slots
  <2> QED BY <2>4, <2>5, NonceStart
<1>4. ASSUME NEW h \in API, CommitConnect(h) \/ CommitWalletLogin(h) PROVE NonceInv'
  <2>1. at[h] \in {"connect", "login"} /\ End(h) /\ (nonce' = nonce \/ nonce' = Consumed(task[h].id))
    BY <1>4 DEF CommitConnect, CommitWalletLogin
  <2>2. Fewer
    BY <2>1 DEF End, Using, Slots
  <2> HIDE DEF Fewer
  <2> QED BY <1>1, <2>1, <2>2, NonceUse
<1>5. \/ Quiet
      \/ \E n \in Nonces, w \in Wallets : WalletNonce(n, w)
      \/ \E h \in API, n \in Nonces, u \in Users : StartConnect(h, n, u) \/ StartWalletLogin(h, n, u)
      \/ \E h \in API : CommitConnect(h) \/ CommitWalletLogin(h)
  <2>1. ASSUME NEW h \in API, NEW where \in Places \ {"connect", "login"}, NEW what,
               Begin(h, where, what)
        PROVE  Fewer
    BY <2>1 DEF Begin, Using, Slots
  <2>2. ASSUME NEW h \in API, End(h) PROVE Fewer
    BY <2>2 DEF End, Using, Slots
  <2>3. ASSUME UNCHANGED handlers PROVE Fewer
    BY <2>3 DEF handlers, Using
  <2>4. CASE UNCHANGED <<nonce, handlers>>
    BY <2>3, <2>4
  <2>5. ASSUME NEW h \in API,
               \/ \E s \in Sessions : StartRefresh(h, s)
               \/ \E u \in Users : StartCreate(h, u) \/ StartWithdraw(h, u)
               \/ \E q \in Payments : StartConfirm(h, q)
        PROVE  Quiet
    <3>1. nonce' = nonce /\ \E where \in Places \ {"connect", "login"} : \E what : Begin(h, where, what)
      BY <2>5 DEF StartRefresh, StartCreate, StartWithdraw, StartConfirm, Places
    <3> QED BY <2>1, <3>1
  <2>6. ASSUME NEW h \in API,
               FinishRefresh(h) \/ InsertCampaign(h) \/ CommitConfirm(h) \/ CommitWithdraw(h)
                 \/ GiveUp(h)
        PROVE  Quiet
    <3>1. nonce' = nonce /\ End(h)
      BY <2>6 DEF FinishRefresh, InsertCampaign, CommitConfirm, CommitWithdraw, GiveUp
    <3> QED BY <2>2, <3>1
  <2>7. CASE \/ \E u \in Users, e \in Emails : Signup(u, e)
             \/ \E u \in Users : Login(u)
             \/ \E s \in Sessions : Logout(s)
             \/ \E c \in Campaigns : CampaignCloses(c)
             \/ \E q \in Payments : FanPays(q) \/ \E u \in Users : CreatePaymentRequest(q, u)
             \/ Tick
    <3>1. UNCHANGED <<nonce, handlers>>
      BY <2>7 DEF Signup, Login, Logout, CampaignCloses, FanPays, CreatePaymentRequest, Tick
    <3> QED BY <2>4, <3>1
  <2> HIDE DEF Quiet
  <2> QED BY <2>4, <2>5, <2>6, <2>7 DEF AccountsNext
<1> HIDE DEF Quiet
<1> QED BY <1>1, <1>2, <1>3, <1>4, <1>5

(* For any number of nonces, wallets and users: one nonce is used at most  *)
(* once by each handler the API runs at a time.                            *)
THEOREM AccountsNonceBounded == AccountsSpec => []NonceBounded
<1>1. AccountsInit => NonceInv
  <2> SUFFICES ASSUME AccountsInit, NEW n \in Nonces
               PROVE  nonce[n].uses + Cardinality(Using(n)) <= Cardinality(API)
                        /\ nonce[n].uses = 0
    BY DEF NonceInv
  <2>1. nonce[n].uses = 0 /\ Using(n) \subseteq API
    BY DEF AccountsInit, NoNonce, Using
  <2> QED BY <2>1, SubsetOfAPI
<1>2. Rows /\ Slots /\ NonceInv /\ [AccountsNext]_accounts => NonceInv'
  BY NonceStep DEF accounts, handlers, NonceInv, Using
<1>3. Rows /\ NonceInv => NonceBounded
  <2> SUFFICES ASSUME Rows, NonceInv, NEW n \in Nonces PROVE nonce[n].uses <= Cardinality(API)
    BY DEF NonceBounded
  <2>1. Using(n) \subseteq API
    BY DEF Using
  <2> QED BY <2>1, SubsetOfAPI DEF NonceInv, Rows, NonceRows
<1> QED BY <1>1, <1>2, <1>3, Shape, PTL DEF AccountsSpec

-----------------------------------------------------------------------------
(* Campaigns.  Those a user has, and those on their way, are never more     *)
(* than the limit and the handlers but one: the last to count them saw at   *)
(* most the limit but one.                                                 *)

Coming(u) == {h \in API : at[h] = "create" /\ task[h].user = u}

ActiveInv ==
  \A u \in Users :
    Cardinality(Active(u)) + Cardinality(Coming(u)) <= MaxActive + Cardinality(API) - 1

LEMMA SubsetOfCampaigns ==
  ASSUME NEW S, S \subseteq Campaigns
  PROVE  IsFiniteSet(S) /\ Cardinality(S) \in Nat
<1>1. IsFiniteSet(Campaigns)
  BY FS_Interval DEF Campaigns
<1> QED BY <1>1, FS_Subset, FS_CardinalityType

LEMMA ActiveQuiet ==
  ASSUME ActiveInv, NEW u \in Users, Active(u)' \subseteq Active(u), Coming(u)' \subseteq Coming(u)
  PROVE  Cardinality(Active(u)') + Cardinality(Coming(u)') <= MaxActive + Cardinality(API) - 1
<1>1. Active(u) \subseteq Campaigns /\ Coming(u) \subseteq API
  BY DEF Active, Coming
<1>2. /\ Cardinality(Active(u)') <= Cardinality(Active(u))
      /\ Cardinality(Coming(u)') <= Cardinality(Coming(u))
  BY <1>1, SubsetOfCampaigns, SubsetOfAPI, FS_Subset
<1>3. /\ Cardinality(Active(u)) \in Nat /\ Cardinality(Active(u)') \in Nat
      /\ Cardinality(Coming(u)) \in Nat /\ Cardinality(Coming(u)') \in Nat
      /\ Cardinality(API) \in Nat
  BY <1>1, SubsetOfCampaigns, SubsetOfAPI
<1>4. Cardinality(Active(u)) + Cardinality(Coming(u)) <= MaxActive + Cardinality(API) - 1
  BY DEF ActiveInv
<1> QED BY <1>2, <1>3, <1>4

LEMMA ActiveStep ==
  ASSUME Rows, Slots, ActiveInv, AccountsNext
  PROVE  ActiveInv'
<1> DEFINE Bounded(u) ==
             Cardinality(Active(u)) + Cardinality(Coming(u)) <= MaxActive + Cardinality(API) - 1
           Fewer == \A u \in Users : Coming(u)' \subseteq Coming(u)
           Quiet == campaign' = campaign /\ Fewer
<1>1. CASE Quiet
  <2>1. \A u \in Users : Active(u)' = Active(u)
    BY <1>1 DEF Active
  <2> QED BY <1>1, <2>1, ActiveQuiet DEF ActiveInv
<1>2. ASSUME NEW c \in Campaigns, CampaignCloses(c) PROVE ActiveInv'
  <2>1. UNCHANGED <<at, task>> /\ campaign' = [campaign EXCEPT ![c].at = "closed"]
    BY <1>2 DEF CampaignCloses, handlers
  <2>2. \A u \in Users : Active(u)' \subseteq Active(u) /\ Coming(u)' = Coming(u)
    BY <2>1 DEF Active, Coming, Rows, CampaignRows
  <2> QED BY <2>2, ActiveQuiet DEF ActiveInv
<1>3. ASSUME NEW h \in API, NEW u \in Users, StartCreate(h, u) PROVE ActiveInv'
  <2> DEFINE what == [NoTask EXCEPT !.user = u]
  <2>1. Begin(h, "create", what) /\ campaign' = campaign /\ Cardinality(Active(u)) < MaxActive
    BY <1>3 DEF StartCreate, MayCreate
  <2>2. what.user = u
    BY UserTask
  <2> HIDE DEF what
  <2>3. /\ \A v \in Users : Active(v)' = Active(v)
        /\ \A v \in Users \ {u} : Coming(v)' \subseteq Coming(v)
    BY <2>1, <2>2 DEF Begin, Active, Coming, Slots
  <2>4. Coming(u)' \subseteq API /\ Active(u) \subseteq Campaigns
    BY DEF Active, Coming
  <2>5. /\ Cardinality(Coming(u)') <= Cardinality(API) /\ Cardinality(Coming(u)') \in Nat
        /\ Cardinality(API) \in Nat /\ Cardinality(Active(u)) \in Nat
    BY <2>4, SubsetOfAPI, SubsetOfCampaigns
  <2>6. Cardinality(Active(u)') + Cardinality(Coming(u)') <= MaxActive + Cardinality(API) - 1
    BY <2>1, <2>3, <2>5
  <2> QED BY <2>3, <2>6, ActiveQuiet DEF ActiveInv
<1>4. ASSUME NEW h \in API, InsertCampaign(h) PROVE ActiveInv'
  <2>1. PICK u \in Users : u = task[h].user
    BY <1>4 DEF InsertCampaign, Slots, TaskOf
  <2>2. at[h] = "create" /\ End(h)
    BY <1>4 DEF InsertCampaign
  <2>3. \/ campaign' = campaign
        \/ \E c \in Campaigns : campaign' = [campaign EXCEPT ![c] = [at |-> "active", owner |-> u]]
    BY <1>4, <2>1 DEF InsertCampaign
  <2>4. PICK c \in Campaigns \cup {None} :
          /\ \A v \in Users \ {u} : Active(v)' \subseteq Active(v)
          /\ Active(u)' \subseteq Active(u) \cup {c}
    <3>1. CASE campaign' = campaign
      BY <3>1 DEF Active
    <3>2. ASSUME NEW d \in Campaigns,
                 campaign' = [campaign EXCEPT ![d] = [at |-> "active", owner |-> u]]
          PROVE  /\ \A v \in Users \ {u} : Active(v)' \subseteq Active(v)
                 /\ Active(u)' \subseteq Active(u) \cup {d}
      BY <3>2 DEF Active, Rows
    <3> QED BY <2>3, <3>1, <3>2
  <2>5. Coming(u)' = Coming(u) \ {h} /\ \A v \in Users : Coming(v)' \subseteq Coming(v)
    BY <2>2 DEF Coming, End, Slots
  <2>6. h \in Coming(u) /\ Coming(u) \subseteq API /\ Active(u) \subseteq Campaigns
    BY <2>1, <2>2 DEF Active, Coming
  <2>7. Cardinality(Active(u)') <= Cardinality(Active(u)) + 1
    <3>1. /\ IsFiniteSet(Active(u)) /\ Cardinality(Active(u)) \in Nat
      BY <2>6, SubsetOfCampaigns
    <3>2. /\ IsFiniteSet(Active(u) \cup {c})
          /\ Cardinality(Active(u) \cup {c}) <= Cardinality(Active(u)) + 1
      <4> DEFINE S == Active(u)
      <4>1. IsFiniteSet(S) /\ Cardinality(S) \in Nat
        BY <3>1
      <4> HIDE DEF S
      <4>2. /\ IsFiniteSet(S \cup {c})
            /\ Cardinality(S \cup {c}) = IF c \in S THEN Cardinality(S) ELSE Cardinality(S) + 1
        BY <4>1, FS_AddElement
      <4>3. IsFiniteSet(S \cup {c}) /\ Cardinality(S \cup {c}) <= Cardinality(S) + 1
        BY <4>1, <4>2
      <4> QED BY <4>3 DEF S
    <3>3. /\ Cardinality(Active(u)') <= Cardinality(Active(u) \cup {c})
          /\ Cardinality(Active(u)') \in Nat /\ Cardinality(Active(u) \cup {c}) \in Nat
      BY <2>4, <3>2, FS_Subset, FS_CardinalityType
    <3> QED BY <3>1, <3>2, <3>3
  <2>8. Cardinality(Coming(u)') = Cardinality(Coming(u)) - 1
    BY <2>5, <2>6, SubsetOfAPI, FS_RemoveElement
  <2>9. /\ Cardinality(Active(u)) \in Nat /\ Cardinality(Coming(u)) \in Nat
        /\ Cardinality(API) \in Nat
    BY <2>6, SubsetOfCampaigns, SubsetOfAPI
  <2>10. Cardinality(Active(u)') \in Nat
    <3>1. Active(u)' \subseteq Campaigns
      BY DEF Active
    <3> QED BY <3>1, SubsetOfCampaigns
  <2>11. Cardinality(Active(u)) + Cardinality(Coming(u)) <= MaxActive + Cardinality(API) - 1
    BY DEF ActiveInv
  <2>12. Cardinality(Active(u)') + Cardinality(Coming(u)') <= MaxActive + Cardinality(API) - 1
    BY <2>7, <2>8, <2>9, <2>10, <2>11
  <2> QED BY <2>4, <2>5, <2>12, ActiveQuiet DEF ActiveInv
<1>5. \/ Quiet
      \/ \E c \in Campaigns : CampaignCloses(c)
      \/ \E h \in API, u \in Users : StartCreate(h, u)
      \/ \E h \in API : InsertCampaign(h)
  <2>1. ASSUME NEW h \in API, NEW where \in Places \ {"create"}, NEW what,
               campaign' = campaign, Begin(h, where, what)
        PROVE  Quiet
    BY <2>1 DEF Begin, Coming, Slots
  <2>2. ASSUME NEW h \in API, campaign' = campaign, End(h) PROVE Quiet
    BY <2>2 DEF End, Coming, Slots
  <2>3. ASSUME UNCHANGED <<campaign, handlers>> PROVE Quiet
    BY <2>3 DEF handlers, Coming
  <2>4. ASSUME NEW h \in API,
               \/ \E s \in Sessions : StartRefresh(h, s)
               \/ \E n \in Nonces, u \in Users : StartConnect(h, n, u) \/ StartWalletLogin(h, n, u)
               \/ \E u \in Users : StartWithdraw(h, u)
               \/ \E q \in Payments : StartConfirm(h, q)
        PROVE  Quiet
    <3>1. /\ campaign' = campaign
          /\ \E where \in Places \ {"create"} : \E what : Begin(h, where, what)
      BY <2>4 DEF StartRefresh, StartConnect, StartWalletLogin, StartWithdraw, StartConfirm, Places
    <3> QED BY <2>1, <3>1
  <2>5. ASSUME NEW h \in API,
               FinishRefresh(h) \/ CommitConnect(h) \/ CommitWalletLogin(h) \/ CommitConfirm(h)
                 \/ CommitWithdraw(h) \/ GiveUp(h)
        PROVE  Quiet
    <3>1. campaign' = campaign /\ End(h)
      BY <2>5 DEF FinishRefresh, CommitConnect, CommitWalletLogin, CommitConfirm, CommitWithdraw,
                  GiveUp
    <3> QED BY <2>2, <3>1
  <2>6. CASE \/ \E u \in Users, e \in Emails : Signup(u, e)
             \/ \E u \in Users : Login(u)
             \/ \E s \in Sessions : Logout(s)
             \/ \E n \in Nonces, w \in Wallets : WalletNonce(n, w)
             \/ \E q \in Payments : FanPays(q) \/ \E u \in Users : CreatePaymentRequest(q, u)
             \/ Tick
    <3>1. UNCHANGED <<campaign, handlers>>
      BY <2>6 DEF Signup, Login, Logout, WalletNonce, FanPays, CreatePaymentRequest, Tick
    <3> QED BY <2>3, <3>1
  <2> HIDE DEF Quiet
  <2> QED BY <2>4, <2>5, <2>6 DEF AccountsNext
<1> HIDE DEF Quiet
<1> QED BY <1>1, <1>2, <1>3, <1>4, <1>5

(* ActiveInv holds in every reachable state. *)
LEMMA ActiveAlways == AccountsSpec => []ActiveInv
<1>1. AccountsInit => ActiveInv
  <2> SUFFICES ASSUME AccountsInit PROVE ActiveInv
    OBVIOUS
  <2>1. ASSUME NEW u \in Users
        PROVE  Cardinality(Active(u)) + Cardinality(Coming(u)) <= MaxActive + Cardinality(API) - 1
    <3>1. Active(u) = {} /\ Coming(u) = {}
      BY DEF AccountsInit, NoCampaign, Active, Coming
    <3>2. Cardinality(API) \in Nat /\ Cardinality(API) # 0
      BY SubsetOfAPI, FS_EmptySet
    <3> QED BY <3>1, <3>2, FS_EmptySet
  <2> QED BY <2>1 DEF ActiveInv
<1>2. Rows /\ Slots /\ ActiveInv /\ [AccountsNext]_accounts => ActiveInv'
  BY ActiveStep DEF accounts, handlers, ActiveInv, Active, Coming
<1> QED BY <1>1, <1>2, Shape, PTL DEF AccountsSpec

(* For any limit and any number of handlers: requests that overlap exceed   *)
(* the limit of a user by at most one campaign for each of the others.      *)
THEOREM AccountsActiveBounded == AccountsSpec => []ActiveBounded
<1>1. ActiveInv => ActiveBounded
  <2> SUFFICES ASSUME ActiveInv, NEW u \in Users
               PROVE  Cardinality(Active(u)) <= MaxActive + Cardinality(API) - 1
    BY DEF ActiveBounded
  <2>1. Active(u) \subseteq Campaigns /\ Coming(u) \subseteq API
    BY DEF Active, Coming
  <2> QED BY <2>1, SubsetOfAPI, SubsetOfCampaigns DEF ActiveInv
<1> QED BY <1>1, ActiveAlways, PTL

-----------------------------------------------------------------------------
(* Payments.  A pending request refers to its fan until he leaves; what a   *)
(* confirmation has read refers to him too, or to nobody once he has left. *)

RefersTo(who, fan) == who = fan \/ (who = None /\ ~Live(fan))

PaymentOK(q) ==
  /\ payment[q].status = "none" => ~payment[q].paid
  /\ payment[q].status # "none" => payment[q].fan \in Users /\ user[payment[q].fan].at # "free"
  /\ payment[q].status = "pending" =>
       ~payment[q].recorded /\ RefersTo(payment[q].user, payment[q].fan)
  /\ payment[q].status = "confirmed" =>
       payment[q].recorded /\
       payment[q].contribution = IF Live(payment[q].fan) THEN payment[q].fan ELSE None

ConfirmOK(h) ==
  at[h] = "confirm" => /\ payment[task[h].id].status # "none"
                       /\ RefersTo(task[h].user, payment[task[h].id].fan)

PaymentInv == (\A q \in Payments : PaymentOK(q)) /\ (\A h \in API : ConfirmOK(h))

(* Nobody who has been here becomes a user again, and nobody leaves. *)
SameUsers ==
  \A u \in Users : /\ user[u].at # "free" => user'[u].at = user[u].at
                   /\ user[u].at = "free" => user'[u].at \in {"free", "live"}

Elsewhere == \A h \in API : at'[h] = "confirm" => at[h] = "confirm" /\ task'[h] = task[h]

LEMMA PaymentQuiet ==
  ASSUME Rows, Slots, PaymentInv, payment' = payment, SameUsers, Elsewhere
  PROVE  PaymentInv'
<1>1. ASSUME NEW q \in Payments PROVE PaymentOK(q)'
  <2>1. PaymentOK(q)
    BY DEF PaymentInv
  <2>2. CASE payment[q].status = "none"
    BY <2>1, <2>2 DEF PaymentOK
  <2>3. CASE payment[q].status # "none"
    <3>1. payment[q].fan \in Users /\ user[payment[q].fan].at # "free"
      BY <2>1, <2>3 DEF PaymentOK
    <3>2. PICK fan \in Users : fan = payment[q].fan
      BY <3>1
    <3>3. user'[fan].at = user[fan].at
      BY <3>1, <3>2 DEF SameUsers
    <3>4. Live(fan)' = Live(fan)
      BY <3>3 DEF Live
    <3> QED BY <2>1, <2>3, <3>1, <3>2, <3>3, <3>4 DEF PaymentOK, RefersTo
  <2> QED BY <2>2, <2>3
<1>2. ASSUME NEW h \in API, at'[h] = "confirm" PROVE ConfirmOK(h)'
  <2>1. at[h] = "confirm" /\ task'[h] = task[h] /\ task[h].id \in Payments
    BY <1>2 DEF Elsewhere, Slots, TaskOf
  <2>2. payment[task[h].id].fan \in Users /\ user[payment[task[h].id].fan].at # "free"
    BY <2>1 DEF PaymentInv, PaymentOK, ConfirmOK
  <2> QED BY <2>1, <2>2 DEF PaymentInv, ConfirmOK, RefersTo, Live, SameUsers
<1>3. \A h \in API : ConfirmOK(h)'
  BY <1>2 DEF ConfirmOK
<1> QED BY <1>1, <1>3 DEF PaymentInv

LEMMA PaymentStep ==
  ASSUME Rows, Slots, PaymentInv, AccountsNext
  PROVE  PaymentInv'
<1> DEFINE Quiet == payment' = payment /\ SameUsers /\ Elsewhere
<1>1. CASE Quiet
  BY <1>1, PaymentQuiet
<1>2. ASSUME NEW q \in Payments, NEW u \in Users, CreatePaymentRequest(q, u) PROVE PaymentInv'
  <2>1. Live(u) /\ payment[q].status = "none" /\ UNCHANGED <<user, at, task>>
    BY <1>2 DEF CreatePaymentRequest, CurrentUser, handlers
  <2> DEFINE new == [NoPayment EXCEPT !.status = "pending", !.user = u, !.fan = u]
  <2>2. /\ new.status = "pending" /\ new.user = u /\ new.fan = u
        /\ new.paid = FALSE /\ new.recorded = FALSE
    <3>1. NoPayment \in PaymentRows /\ NoPayment.paid = FALSE /\ NoPayment.recorded = FALSE
      BY DEF NoPayment, PaymentRows
    <3> QED BY <3>1 DEF PaymentRows
  <2>3. payment' = [payment EXCEPT ![q] = new]
    BY <1>2 DEF CreatePaymentRequest
  <2> HIDE DEF new
  <2>4. PaymentOK(q)'
    <3>1. payment'[q] = new
      BY <2>3 DEF Rows
    <3>2. user'[u].at = "live"
      BY <2>1 DEF Live
    <3> QED BY <2>2, <3>1, <3>2 DEF PaymentOK, RefersTo
  <2>5. ASSUME NEW r \in Payments \ {q} PROVE PaymentOK(r)'
    BY <2>1, <2>3 DEF PaymentOK, RefersTo, Live, Rows, PaymentInv
  <2>6. ASSUME NEW h \in API PROVE ConfirmOK(h)'
    BY <2>1, <2>3 DEF ConfirmOK, RefersTo, Live, Rows, Slots, TaskOf, PaymentInv
  <2> QED BY <2>4, <2>5, <2>6 DEF PaymentInv
<1>3. ASSUME NEW q \in Payments, FanPays(q) PROVE PaymentInv'
  <2>1. /\ payment[q].status = "pending" /\ UNCHANGED <<user, at, task>>
        /\ payment' = [payment EXCEPT ![q].paid = TRUE]
    BY <1>3 DEF FanPays, handlers
  <2>2. ASSUME NEW r \in Payments PROVE PaymentOK(r)'
    BY <2>1 DEF PaymentOK, RefersTo, Live, Rows, PaymentRows, PaymentInv
  <2>3. ASSUME NEW h \in API PROVE ConfirmOK(h)'
    BY <2>1 DEF ConfirmOK, RefersTo, Live, Rows, PaymentRows, Slots, TaskOf, PaymentInv
  <2> QED BY <2>2, <2>3 DEF PaymentInv
<1>4. ASSUME NEW h \in API, NEW q \in Payments, StartConfirm(h, q) PROVE PaymentInv'
  <2>1. payment[q].user \in Users \cup {None} /\ q \in Int
    BY DEF Rows, PaymentRows, Payments
  <2> DEFINE what == [NoTask EXCEPT !.user = payment[q].user, !.id = q]
  <2>2. what.user = payment[q].user /\ what.id = q
    BY <2>1, BothTask
  <2>3. Begin(h, "confirm", what) /\ payment[q].status = "pending" /\ UNCHANGED <<user, payment>>
    BY <1>4 DEF StartConfirm
  <2> HIDE DEF what
  <2>4. ASSUME NEW r \in Payments PROVE PaymentOK(r)'
    BY <2>3 DEF PaymentOK, RefersTo, Live, PaymentInv
  <2>5. ASSUME NEW k \in API PROVE ConfirmOK(k)'
    <3>1. PaymentOK(q) /\ ConfirmOK(k)
      BY DEF PaymentInv
    <3>2. CASE k = h
      BY <2>2, <2>3, <3>1, <3>2 DEF Begin, Slots, ConfirmOK, PaymentOK, RefersTo, Live
    <3>3. CASE k # h
      BY <2>3, <3>1, <3>3 DEF Begin, Slots, ConfirmOK, RefersTo, Live
    <3> QED BY <3>2, <3>3
  <2> QED BY <2>4, <2>5 DEF PaymentInv
<1>5. ASSUME NEW h \in API, CommitConfirm(h) PROVE PaymentInv'
  <2>1. PICK q \in Payments, u \in Users \cup {None} : q = task[h].id /\ u = task[h].user
    BY <1>5 DEF CommitConfirm, Slots, TaskOf, Tasks
  <2>2. at[h] = "confirm" /\ End(h) /\ user' = user
    BY <1>5 DEF CommitConfirm
  <2>3. Elsewhere
    BY <2>2 DEF End, Elsewhere, Slots
  <2>4. CASE payment' = payment
    BY <2>2, <2>3, <2>4, PaymentQuiet DEF SameUsers, Rows, UserRows
  <2>5. CASE /\ u = None \/ Live(u)
             /\ payment[q].status = "pending"
             /\ payment' = [payment EXCEPT ![q].status = "confirmed", ![q].recorded = TRUE,
                                           ![q].contribution = u]
    <3>1. /\ payment'[q].status = "confirmed" /\ payment'[q].recorded = TRUE
          /\ payment'[q].contribution = u /\ payment'[q].fan = payment[q].fan
          /\ \A r \in Payments \ {q} : payment'[r] = payment[r]
      BY <2>5 DEF Rows, PaymentRows
    <3>2. RefersTo(u, payment[q].fan) /\ payment[q].fan \in Users
      BY <2>1, <2>2, <2>5 DEF PaymentInv, ConfirmOK, PaymentOK
    <3>3. PaymentOK(q)'
      <4>1. u = IF Live(payment[q].fan) THEN payment[q].fan ELSE None
        BY <2>5, <3>2 DEF RefersTo
      <4>2. user[payment[q].fan].at # "free"
        BY <2>5 DEF PaymentInv, PaymentOK
      <4> QED BY <2>2, <3>1, <3>2, <4>1, <4>2 DEF PaymentOK, Live
    <3>4. ASSUME NEW r \in Payments \ {q} PROVE PaymentOK(r)'
      BY <2>2, <3>1 DEF PaymentOK, RefersTo, Live, PaymentInv
    <3>5. ASSUME NEW k \in API PROVE ConfirmOK(k)'
      BY <2>2, <2>3, <3>1 DEF Elsewhere, ConfirmOK, RefersTo, Live, Slots, TaskOf, PaymentInv
    <3> QED BY <3>3, <3>4, <3>5 DEF PaymentInv
  <2> QED BY <1>5, <2>1, <2>4, <2>5 DEF CommitConfirm, Confirmed
<1>6. ASSUME NEW h \in API, CommitWithdraw(h) PROVE PaymentInv'
  <2>1. PICK u \in Users : u = task[h].user
    BY <1>6 DEF CommitWithdraw, Slots, TaskOf
  <2>2. at[h] = "withdraw" /\ End(h)
    BY <1>6 DEF CommitWithdraw
  <2>3. Elsewhere
    BY <2>2 DEF End, Elsewhere, Slots
  <2>4. CASE UNCHANGED <<user, payment>>
    BY <2>3, <2>4, PaymentQuiet DEF SameUsers, Rows, UserRows
  <2>5. CASE /\ Live(u) /\ user' = [user EXCEPT ![u] = [NoUser EXCEPT !.at = "gone"]]
             /\ payment' = [q \in Payments |-> DetachedFrom(q, u)]
    <3>1. /\ user'[u].at = "gone" /\ user[u].at = "live"
          /\ \A v \in Users \ {u} : user'[v] = user[v]
      <4>1. [NoUser EXCEPT !.at = "gone"].at = "gone"
        BY DEF NoUser
      <4> QED BY <2>5, <4>1 DEF Rows, Live
    <3>2. None \notin Users
      OBVIOUS
    <3>3. ASSUME NEW q \in Payments
          PROVE  /\ payment'[q].status = payment[q].status /\ payment'[q].paid = payment[q].paid
                 /\ payment'[q].recorded = payment[q].recorded
                 /\ payment'[q].fan = payment[q].fan
                 /\ payment'[q].user = IF payment[q].user = u THEN None ELSE payment[q].user
                 /\ payment'[q].contribution =
                      IF payment[q].contribution = u THEN None ELSE payment[q].contribution
      BY <2>5, DetachedShape
    <3>4. ASSUME NEW who, NEW fan \in Users, RefersTo(who, fan)
          PROVE  RefersTo(who, fan)' /\ RefersTo(IF who = u THEN None ELSE who, fan)'
      BY <3>1, <3>2, <3>4 DEF RefersTo, Live
    <3>5. ASSUME NEW q \in Payments PROVE PaymentOK(q)'
      <4>1. PaymentOK(q)
        BY DEF PaymentInv
      <4>2. CASE payment[q].status = "none"
        BY <4>2, <4>1, <3>3 DEF PaymentOK
      <4>3. CASE payment[q].status = "pending"
        BY <4>3, <4>1, <3>1, <3>3, <3>4 DEF PaymentOK
      <4>4. CASE payment[q].status = "confirmed"
        BY <4>4, <4>1, <3>1, <3>2, <3>3 DEF PaymentOK, Live
      <4> QED BY <4>2, <4>3, <4>4 DEF Rows, PaymentRows
    <3>6. ASSUME NEW k \in API, at'[k] = "confirm" PROVE ConfirmOK(k)'
      <4>1. at[k] = "confirm" /\ task'[k] = task[k] /\ task[k].id \in Payments /\ ConfirmOK(k)
        BY <2>3, <3>6 DEF Elsewhere, Slots, TaskOf, PaymentInv
      <4>2. PICK q \in Payments : q = task[k].id /\ PaymentOK(q)
        BY <4>1 DEF PaymentInv
      <4>3. payment[q].fan \in Users /\ payment[q].status # "none"
        BY <4>1, <4>2 DEF PaymentOK, ConfirmOK
      <4> QED BY <4>1, <4>2, <4>3, <3>3, <3>4 DEF ConfirmOK
    <3> QED BY <3>5, <3>6 DEF PaymentInv, ConfirmOK
  <2> QED BY <1>6, <2>1, <2>4, <2>5 DEF CommitWithdraw, Deletable, DetachedFrom
<1>7. \/ Quiet
      \/ \E q \in Payments, u \in Users : CreatePaymentRequest(q, u)
      \/ \E q \in Payments : FanPays(q)
      \/ \E h \in API, q \in Payments : StartConfirm(h, q)
      \/ \E h \in API : CommitConfirm(h) \/ CommitWithdraw(h)
  <2>1. ASSUME user' = user PROVE SameUsers
    BY <2>1 DEF SameUsers, Rows, UserRows
  <2>2. ASSUME NEW h \in API, NEW where \in Places \ {"confirm"}, NEW what, Begin(h, where, what)
        PROVE  Elsewhere
    BY <2>2 DEF Begin, Elsewhere, Slots
  <2>3. ASSUME NEW h \in API, End(h) PROVE Elsewhere
    BY <2>3 DEF End, Elsewhere, Slots
  <2>4. ASSUME UNCHANGED handlers PROVE Elsewhere
    BY <2>4 DEF handlers, Elsewhere
  <2>5. ASSUME NEW u \in Users, NEW e \in Emails, Signup(u, e) PROVE Quiet
    <3>1. SameUsers
      BY <2>5 DEF Signup, SameUsers, Rows, UserRows
    <3>2. payment' = payment /\ UNCHANGED handlers
      BY <2>5 DEF Signup
    <3> QED BY <2>4, <3>1, <3>2
  <2>6. ASSUME NEW h \in API, CommitConnect(h) PROVE Quiet
    <3>1. SameUsers
      BY <2>6 DEF CommitConnect, SameUsers, Rows, UserRows, Slots, TaskOf
    <3>2. payment' = payment /\ End(h)
      BY <2>6 DEF CommitConnect
    <3> QED BY <2>3, <3>1, <3>2
  <2>7. ASSUME NEW h \in API,
               \/ \E s \in Sessions : StartRefresh(h, s)
               \/ \E n \in Nonces, u \in Users : StartConnect(h, n, u) \/ StartWalletLogin(h, n, u)
               \/ \E u \in Users : StartCreate(h, u) \/ StartWithdraw(h, u)
        PROVE  Quiet
    <3>1. /\ UNCHANGED <<user, payment>>
          /\ \E where \in Places \ {"confirm"} : \E what : Begin(h, where, what)
      BY <2>7 DEF StartRefresh, StartConnect, StartWalletLogin, StartCreate, StartWithdraw, Places
    <3> QED BY <2>1, <2>2, <3>1
  <2>8. ASSUME NEW h \in API,
               FinishRefresh(h) \/ CommitWalletLogin(h) \/ InsertCampaign(h) \/ GiveUp(h)
        PROVE  Quiet
    <3>1. UNCHANGED <<user, payment>> /\ End(h)
      BY <2>8 DEF FinishRefresh, CommitWalletLogin, InsertCampaign, GiveUp
    <3> QED BY <2>1, <2>3, <3>1
  <2>10. CASE \/ \E u \in Users : Login(u)
              \/ \E s \in Sessions : Logout(s)
              \/ \E n \in Nonces, w \in Wallets : WalletNonce(n, w)
              \/ \E c \in Campaigns : CampaignCloses(c)
              \/ Tick
    <3>1. UNCHANGED <<user, payment, handlers>>
      BY <2>10 DEF Login, Logout, WalletNonce, CampaignCloses, Tick
    <3> QED BY <2>1, <2>4, <3>1
  <2> HIDE DEF Quiet
  <2> QED BY <2>5, <2>6, <2>7, <2>8, <2>10 DEF AccountsNext
<1> HIDE DEF Quiet
<1> QED BY <1>1, <1>2, <1>3, <1>4, <1>5, <1>6, <1>7

(* For any users and requests: in whatever order a fan leaves and his       *)
(* payment is confirmed, it is recorded, or still there to be found.       *)
THEOREM AccountsPaymentsOutliveFans == AccountsSpec => []PaymentsOutliveFans
<1>1. AccountsInit => PaymentInv
  BY DEF AccountsInit, NoPayment, PaymentInv, PaymentOK, ConfirmOK
<1>2. Rows /\ Slots /\ PaymentInv /\ [AccountsNext]_accounts => PaymentInv'
  BY PaymentStep
     DEF accounts, handlers, PaymentInv, PaymentOK, ConfirmOK, RefersTo, Live
<1>3. Rows /\ PaymentInv => PaymentsOutliveFans
  BY DEF PaymentInv, PaymentOK, PaymentsOutliveFans, Rows, PaymentRows
<1> QED BY <1>1, <1>2, <1>3, Shape, PTL DEF AccountsSpec

-----------------------------------------------------------------------------
(* Columns.  An email or a wallet is taken only while no other live user    *)
(* has it, and a user leaves only when no campaign refers to him.          *)

Unique ==
  \A u, v \in Users : Live(u) /\ Live(v) /\ u # v =>
    /\ user[u].email # user[v].email
    /\ user[u].wallet = user[v].wallet => user[u].wallet = None

OwnersLive ==
  \A c \in Campaigns : campaign[c].at # "free" => Live(campaign[c].owner)

LEMMA UniqueStep ==
  ASSUME Rows, Slots, Unique, AccountsNext
  PROVE  Unique'
<1>1. ASSUME NEW u \in Users, NEW e \in Emails, Signup(u, e) PROVE Unique'
  <2>1. \A v \in Users : Live(v) => user[v].email # e /\ v # u
    BY <1>1 DEF Signup, Live
  <2>2. user' = [user EXCEPT ![u] = [at |-> "live", email |-> e, wallet |-> None]]
    BY <1>1 DEF Signup
  <2>3. /\ user'[u].email = e /\ user'[u].wallet = None
        /\ \A v \in Users \ {u} : user'[v] = user[v]
    BY <2>2 DEF Rows
  <2> QED BY <2>1, <2>3 DEF Unique, Live
<1>2. ASSUME NEW h \in API, CommitConnect(h) PROVE Unique'
  <2>1. PICK u \in Users, n \in Nonces : u = task[h].user /\ n = task[h].id
    BY <1>2 DEF CommitConnect, Slots, TaskOf
  <2>2. CASE user' = user
    BY <2>2 DEF Unique, Live
  <2>3. CASE /\ ~\E v \in Users \ {u} : Holds(v, nonce[n].wallet)
             /\ user' = [user EXCEPT ![u].wallet = nonce[n].wallet]
    <3>1. /\ user'[u].at = user[u].at /\ user'[u].email = user[u].email
          /\ user'[u].wallet = nonce[n].wallet
          /\ \A v \in Users \ {u} : user'[v] = user[v]
      BY <2>3 DEF Rows, UserRows
    <3>2. \A v \in Users \ {u} : Live(v) => user[v].wallet # nonce[n].wallet
      BY <2>3 DEF Holds
    <3> QED BY <3>1, <3>2 DEF Unique, Live
  <2> QED BY <1>2, <2>1, <2>2, <2>3 DEF CommitConnect
<1>3. ASSUME NEW h \in API, CommitWithdraw(h) PROVE Unique'
  <2>1. PICK u \in Users : u = task[h].user
    BY <1>3 DEF CommitWithdraw, Slots, TaskOf
  <2>2. CASE user' = user
    BY <2>2 DEF Unique, Live
  <2>3. CASE user' = [user EXCEPT ![u] = [NoUser EXCEPT !.at = "gone"]]
    <3>1. [NoUser EXCEPT !.at = "gone"].at = "gone"
      BY DEF NoUser
    <3>2. user'[u].at = "gone" /\ \A v \in Users \ {u} : user'[v] = user[v]
      BY <2>3, <3>1 DEF Rows
    <3> QED BY <3>2 DEF Unique, Live
  <2> QED BY <1>3, <2>1, <2>2, <2>3 DEF CommitWithdraw
<1>4. CASE user' = user
  BY <1>4 DEF Unique, Live
<1>5. \/ user' = user
      \/ \E u \in Users, e \in Emails : Signup(u, e)
      \/ \E h \in API : CommitConnect(h) \/ CommitWithdraw(h)
  <2>1. ASSUME NEW h \in API,
               \/ \E s \in Sessions : StartRefresh(h, s)
               \/ \E n \in Nonces, u \in Users : StartConnect(h, n, u) \/ StartWalletLogin(h, n, u)
               \/ \E u \in Users : StartCreate(h, u) \/ StartWithdraw(h, u)
               \/ \E q \in Payments : StartConfirm(h, q)
        PROVE  user' = user
    BY <2>1 DEF StartRefresh, StartConnect, StartWalletLogin, StartCreate, StartWithdraw, StartConfirm
  <2>2. ASSUME NEW h \in API,
               FinishRefresh(h) \/ CommitWalletLogin(h) \/ InsertCampaign(h)
                 \/ CommitConfirm(h) \/ GiveUp(h)
        PROVE  user' = user
    BY <2>2 DEF FinishRefresh, CommitWalletLogin, InsertCampaign, CommitConfirm, GiveUp
  <2>3. CASE \/ \E u \in Users : Login(u)
             \/ \E s \in Sessions : Logout(s)
             \/ \E n \in Nonces, w \in Wallets : WalletNonce(n, w)
             \/ \E c \in Campaigns : CampaignCloses(c)
             \/ \E q \in Payments : FanPays(q) \/ \E u \in Users : CreatePaymentRequest(q, u)
             \/ Tick
    BY <2>3 DEF Login, Logout, WalletNonce, CampaignCloses, FanPays, CreatePaymentRequest, Tick
  <2> QED BY <2>1, <2>2, <2>3 DEF AccountsNext
<1> QED BY <1>1, <1>2, <1>3, <1>4, <1>5

LEMMA OwnersStep ==
  ASSUME Rows, Slots, OwnersLive, AccountsNext
  PROVE  OwnersLive'
<1> DEFINE Kept == \A c \in Campaigns :
                     campaign'[c].at # "free" =>
                       /\ campaign[c].at # "free"
                       /\ campaign'[c].owner = campaign[c].owner
           Stay == \A u : Live(u) => Live(u)'
<1>1. CASE Kept /\ Stay
  BY <1>1 DEF OwnersLive
<1>2. ASSUME NEW h \in API, InsertCampaign(h) PROVE OwnersLive'
  <2>1. user' = user
    BY <1>2 DEF InsertCampaign
  <2>2. CASE campaign' = campaign
    BY <2>1, <2>2 DEF OwnersLive, Live
  <2>3. ASSUME NEW c \in Campaigns, Live(task[h].user),
               campaign' = [campaign EXCEPT ![c] = [at |-> "active", owner |-> task[h].user]]
        PROVE  OwnersLive'
    BY <2>1, <2>3 DEF OwnersLive, Live, Rows
  <2> QED BY <1>2, <2>2, <2>3 DEF InsertCampaign
<1>3. ASSUME NEW h \in API, CommitWithdraw(h) PROVE OwnersLive'
  <2>1. PICK u \in Users : u = task[h].user
    BY <1>3 DEF CommitWithdraw, Slots, TaskOf
  <2>2. campaign' = campaign
    BY <1>3 DEF CommitWithdraw
  <2>3. CASE user' = user
    BY <2>2, <2>3 DEF OwnersLive, Live
  <2>4. CASE /\ ~\E c \in Campaigns : campaign[c].owner = u
             /\ user' = [user EXCEPT ![u] = [NoUser EXCEPT !.at = "gone"]]
    <3>1. \A v : v # u => user'[v] = user[v]
      BY <2>4 DEF Rows
    <3> QED BY <2>2, <2>4, <3>1 DEF OwnersLive, Live
  <2> QED BY <1>3, <2>1, <2>3, <2>4 DEF CommitWithdraw, Deletable
<1>4. \/ Kept /\ Stay
      \/ \E h \in API : InsertCampaign(h) \/ CommitWithdraw(h)
  <2>1. ASSUME campaign' = campaign PROVE Kept
    BY <2>1
  <2>2. ASSUME user' = user PROVE Stay
    BY <2>2 DEF Live
  <2>3. ASSUME NEW u \in Users, NEW e \in Emails, Signup(u, e) PROVE Kept /\ Stay
    <3>1. Stay
      BY <2>3 DEF Signup, Live, Rows, UserRows
    <3>2. campaign' = campaign
      BY <2>3 DEF Signup
    <3> QED BY <2>1, <3>1, <3>2
  <2>4. ASSUME NEW h \in API, CommitConnect(h) PROVE Kept /\ Stay
    <3>1. PICK u \in Users : u = task[h].user
      BY <2>4 DEF CommitConnect, Slots, TaskOf
    <3>2. Stay
      <4>1. CASE user' = user
        BY <4>1, <2>2
      <4>2. CASE user' = [user EXCEPT ![u].wallet = nonce[task[h].id].wallet]
        <5>1. user'[u].at = user[u].at
          BY <4>2 DEF Rows, UserRows
        <5>2. \A v : v # u => user'[v] = user[v]
          BY <4>2 DEF Rows
        <5> QED BY <5>1, <5>2 DEF Live
      <4> QED BY <2>4, <3>1, <4>1, <4>2 DEF CommitConnect
    <3>3. campaign' = campaign
      BY <2>4 DEF CommitConnect
    <3> QED BY <2>1, <3>2, <3>3
  <2>5. ASSUME NEW c \in Campaigns, CampaignCloses(c) PROVE Kept /\ Stay
    <3>1. Kept
      BY <2>5 DEF CampaignCloses, Rows, CampaignRows
    <3>2. user' = user
      BY <2>5 DEF CampaignCloses
    <3> QED BY <2>2, <3>1, <3>2
  <2>7. ASSUME NEW h \in API,
               \/ \E s \in Sessions : StartRefresh(h, s)
               \/ \E n \in Nonces, u \in Users : StartConnect(h, n, u) \/ StartWalletLogin(h, n, u)
               \/ \E u \in Users : StartCreate(h, u) \/ StartWithdraw(h, u)
               \/ \E q \in Payments : StartConfirm(h, q)
        PROVE  UNCHANGED <<user, campaign>>
    BY <2>7 DEF StartRefresh, StartConnect, StartWalletLogin, StartCreate, StartWithdraw, StartConfirm
  <2>8. ASSUME NEW h \in API,
               FinishRefresh(h) \/ CommitWalletLogin(h) \/ CommitConfirm(h) \/ GiveUp(h)
        PROVE  UNCHANGED <<user, campaign>>
    BY <2>8 DEF FinishRefresh, CommitWalletLogin, CommitConfirm, GiveUp
  <2>9. ASSUME \/ \E u \in Users : Login(u)
               \/ \E s \in Sessions : Logout(s)
               \/ \E n \in Nonces, w \in Wallets : WalletNonce(n, w)
               \/ \E q \in Payments : FanPays(q) \/ \E u \in Users : CreatePaymentRequest(q, u)
               \/ Tick
        PROVE  UNCHANGED <<user, campaign>>
    BY <2>9 DEF Login, Logout, WalletNonce, FanPays, CreatePaymentRequest, Tick
  <2>10. CASE UNCHANGED <<user, campaign>>
    BY <2>1, <2>2, <2>10
  <2> HIDE DEF Kept, Stay
  <2> QED BY <2>3, <2>4, <2>5, <2>7, <2>8, <2>9, <2>10 DEF AccountsNext
<1> HIDE DEF Kept, Stay
<1> QED BY <1>1, <1>2, <1>3, <1>4

(* Types, unique columns and foreign keys, for every value of the          *)
(* constants.                                                              *)
THEOREM AccountsTypes == AccountsSpec => []AccountsTypeOK
<1>1. AccountsInit => Unique /\ OwnersLive
  BY DEF AccountsInit, NoUser, NoCampaign, Unique, OwnersLive, Live
<1>2. Rows /\ Slots /\ Unique /\ [AccountsNext]_accounts => Unique'
  BY UniqueStep DEF accounts, Unique, Live
<1>3. Rows /\ Slots /\ OwnersLive /\ [AccountsNext]_accounts => OwnersLive'
  BY OwnersStep DEF accounts, OwnersLive, Live
<1>4. Rows /\ Slots /\ Unique /\ OwnersLive => AccountsTypeOK
  BY DEF Rows, Slots, Unique, OwnersLive, AccountsTypeOK, UserRows, SessionRows, NonceRows,
         CampaignRows, PaymentRows, Places
<1> QED BY <1>1, <1>2, <1>3, <1>4, Shape, PTL DEF AccountsSpec
=============================================================================
