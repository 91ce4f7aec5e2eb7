------------------------------ MODULE Accounts ------------------------------
(***************************************************************************)
(* Accounts: sign-up, sessions (a refresh token and the access tokens made *)
(* with it), wallets proved with a nonce, the campaigns and payments that  *)
(* refer to a user, and the deletion of an account.                        *)
(*                                                                         *)
(* A handler of API that reads in one transaction step and writes in a     *)
(* later one is a slot: at[h] is where it is, task[h] what it has read.    *)
(* Time counts in abstract units.  Of the access tokens of a session only  *)
(* the latest expiry matters; tokens are not stored and cannot be revoked. *)
(* Foreign keys and unique columns are checked by the database at commit.  *)
(***************************************************************************)
EXTENDS Integers, FiniteSets

CONSTANTS
  API,                               \* slots for handlers
  Emails, Wallets,
  MaxUsers, MaxSessions,             \* bound the rows and tokens ever made
  MaxNonces,                         \* bounds the nonces in use at a time
  MaxCampaigns, MaxPayments,
  MaxActive,                         \* MAX_ACTIVE_CAMPAIGNS
  AccessTTL, RefreshTTL, NonceTTL,   \* access_token_ttl, refresh_token_ttl, nonce_ttl
  MaxTime,                           \* bounds the clock
  None

Users     == 1 .. MaxUsers
Sessions  == 1 .. MaxSessions
Nonces    == 1 .. MaxNonces
Campaigns == 1 .. MaxCampaigns
Payments  == 1 .. MaxPayments

ASSUME AccountsAssumption ==
  /\ IsFiniteSet(API) /\ API # {}
  /\ {MaxUsers, MaxSessions, MaxNonces, MaxCampaigns, MaxPayments} \subseteq Nat
  /\ {AccessTTL, RefreshTTL, NonceTTL, MaxTime} \subseteq Nat
  /\ MaxActive \in Nat \ {0}
  /\ None \notin Users \cup Emails \cup Wallets

VARIABLES
  now,
  user,      \* user rows
  session,   \* refresh tokens, and the latest access token made with each
  nonce,     \* WalletNonce rows, and how often each was used
  campaign,  \* campaign rows
  payment,   \* PaymentRequest rows, whether the fan paid, and Contribution rows
  at, task

handlers == <<at, task>>
accounts == <<now, user, session, nonce, campaign, payment, handlers>>

NoUser     == [at |-> "free", email |-> None, wallet |-> None]
NoSession  == [user |-> None, exp |-> 0, access |-> 0, ended |-> None, raced |-> FALSE]
NoNonce    == [wallet |-> None, used |-> FALSE, expires_at |-> 0, uses |-> 0]
NoCampaign == [at |-> "free", owner |-> None]
NoPayment  == [status |-> "none", user |-> None, fan |-> None, paid |-> FALSE,
               recorded |-> FALSE, contribution |-> None]
NoTask     == [user |-> None, id |-> None, rows |-> {}]

AccountsInit ==
  /\ now = 0
  /\ user = [u \in Users |-> NoUser]
  /\ session = [s \in Sessions |-> NoSession]
  /\ nonce = [n \in Nonces |-> NoNonce]
  /\ campaign = [c \in Campaigns |-> NoCampaign]
  /\ payment = [q \in Payments |-> NoPayment]
  /\ at = [h \in API |-> "idle"] /\ task = [h \in API |-> NoTask]

-----------------------------------------------------------------------------
(* Who a request comes from. *)

Live(u) == user[u].at = "live"

(* get_current_user: any access token of the user that has not expired. *)
CurrentUser(u) == Live(u) /\ \E s \in Sessions : session[s].user = u /\ now < session[s].access

Holds(u, w) == Live(u) /\ user[u].wallet = w

(* _token_pair *)
Opened(u) == [NoSession EXCEPT !.user = u, !.exp = now + RefreshTTL, !.access = now + AccessTTL]

OpenSession(u) ==
  \E s \in Sessions :
    /\ session[s] = NoSession /\ \A r \in 1 .. s - 1 : session[r] # NoSession
    /\ session' = [session EXCEPT ![s] = Opened(u)]

Begin(h, where, what) ==
  /\ at[h] = "idle"
  /\ at' = [at EXCEPT ![h] = where] /\ task' = [task EXCEPT ![h] = what]

End(h) == at' = [at EXCEPT ![h] = "idle"] /\ task' = [task EXCEPT ![h] = NoTask]

-----------------------------------------------------------------------------
(* Sign-up, login, refresh, logout. *)

Signup(u, e) ==
  /\ user[u].at = "free" /\ \A v \in 1 .. u - 1 : user[v].at # "free"
  /\ ~\E v \in Users : Live(v) /\ user[v].email = e
  /\ user' = [user EXCEPT ![u] = [at |-> "live", email |-> e, wallet |-> None]]
  /\ OpenSession(u)
  /\ UNCHANGED <<now, nonce, campaign, payment, handlers>>

Login(u) ==
  /\ Live(u) /\ OpenSession(u)
  /\ UNCHANGED <<now, user, nonce, campaign, payment, handlers>>

(* Fault: a revoked token refreshes. *)
FaultRefreshable(s) == Live(session[s].user) /\ now < session[s].exp

Refreshable(s) ==
  /\ now < session[s].exp
  /\ session[s].ended = None
  /\ Live(session[s].user)

StartRefresh(h, s) ==
  /\ session[s] # NoSession /\ Refreshable(s)
  /\ Begin(h, "refresh", [NoTask EXCEPT !.id = s])
  /\ UNCHANGED <<now, user, session, nonce, campaign, payment>>

FinishRefresh(h) ==
  /\ at[h] = "refresh"
  /\ session' = [session EXCEPT ![task[h].id].access = now + AccessTTL]
  /\ End(h)
  /\ UNCHANGED <<now, user, nonce, campaign, payment>>

(* Any valid access token of the user will do, but without one he cannot.  *)
Logout(s) ==
  /\ session[s] # NoSession /\ session[s].ended = None
  /\ now < session[s].exp /\ CurrentUser(session[s].user)
  /\ session' = [session EXCEPT ![s].ended = now,
                   ![s].raced = \E h \in API : at[h] = "refresh" /\ task[h].id = s]
  /\ UNCHANGED <<now, user, nonce, campaign, payment, handlers>>

-----------------------------------------------------------------------------
(* Wallets. *)

(* _consume_nonce up to the signature, which only the wallet can make. *)
Usable(n) == nonce[n] # NoNonce /\ ~nonce[n].used /\ now < nonce[n].expires_at

(* A bound: the place of a nonce that nobody can use any more is taken by   *)
(* the next one.  The code keeps the row and draws a new value.            *)
Vacant(n) ==
  /\ ~Usable(n)
  /\ ~\E h \in API : at[h] \in {"connect", "login"} /\ task[h].id = n

WalletNonce(n, w) ==
  /\ Vacant(n) /\ \A m \in 1 .. n - 1 : ~Vacant(m)
  /\ nonce' = [nonce EXCEPT ![n] = [NoNonce EXCEPT !.wallet = w, !.expires_at = now + NonceTTL]]
  /\ UNCHANGED <<now, user, session, campaign, payment, handlers>>

(* Fault: the record is marked but not added to the session. *)
FaultConsumed(n) == [nonce EXCEPT ![n].uses = @ + 1]

(* record.used = True, committed with what the request does. *)
Consumed(n) == [nonce EXCEPT ![n].used = TRUE, ![n].uses = @ + 1]

StartConnect(h, n, u) ==
  /\ CurrentUser(u) /\ Usable(n)
  /\ ~\E v \in Users \ {u} : Holds(v, nonce[n].wallet)
  /\ Begin(h, "connect", [NoTask EXCEPT !.user = u, !.id = n])
  /\ UNCHANGED <<now, user, session, nonce, campaign, payment>>

(* Rolled back if the wallet was taken or the account deleted meanwhile.   *)
CommitConnect(h) ==
  LET n == task[h].id
      u == task[h].user IN
  /\ at[h] = "connect"
  /\ IF Live(u) /\ ~\E v \in Users \ {u} : Holds(v, nonce[n].wallet)
     THEN /\ nonce' = Consumed(n)
          /\ user' = [user EXCEPT ![u].wallet = nonce[n].wallet]
     ELSE UNCHANGED <<nonce, user>>
  /\ End(h)
  /\ UNCHANGED <<now, session, campaign, payment>>

StartWalletLogin(h, n, u) ==
  /\ Usable(n) /\ Holds(u, nonce[n].wallet)
  /\ Begin(h, "login", [NoTask EXCEPT !.user = u, !.id = n])
  /\ UNCHANGED <<now, user, session, nonce, campaign, payment>>

CommitWalletLogin(h) ==
  /\ at[h] = "login"
  /\ nonce' = Consumed(task[h].id)
  /\ OpenSession(task[h].user)
  /\ End(h)
  /\ UNCHANGED <<now, user, campaign, payment>>

-----------------------------------------------------------------------------
(* POST /campaign: count, create on chain, insert. *)

Active(u) == {c \in Campaigns : campaign[c].at = "active" /\ campaign[c].owner = u}

(* Fault: one campaign too many passes. *)
FaultMayCreate(u) == user[u].wallet # None /\ Cardinality(Active(u)) <= MaxActive

MayCreate(u) == user[u].wallet # None /\ Cardinality(Active(u)) < MaxActive

StartCreate(h, u) ==
  /\ CurrentUser(u) /\ MayCreate(u)
  /\ Begin(h, "create", [NoTask EXCEPT !.user = u])
  /\ UNCHANGED <<now, user, session, nonce, campaign, payment>>

(* The escrow was created; Funding says what happens if not.  The row       *)
(* cannot refer to an owner who has left.                                  *)
InsertCampaign(h) ==
  /\ at[h] = "create"
  /\ IF Live(task[h].user)
     THEN \E c \in Campaigns :
            /\ campaign[c].at = "free" /\ \A d \in 1 .. c - 1 : campaign[d].at # "free"
            /\ campaign' = [campaign EXCEPT ![c] = [at |-> "active", owner |-> task[h].user]]
     ELSE UNCHANGED campaign
  /\ End(h)
  /\ UNCHANGED <<now, user, session, nonce, payment>>

(* Settlement and Funding say when. *)
CampaignCloses(c) ==
  /\ campaign[c].at = "active"
  /\ campaign' = [campaign EXCEPT ![c].at = "closed"]
  /\ UNCHANGED <<now, user, session, nonce, payment, handlers>>

-----------------------------------------------------------------------------
(* Payments refer to the user who asked for the QR code. *)

CreatePaymentRequest(q, u) ==
  /\ CurrentUser(u) /\ payment[q].status = "none"
  /\ payment' = [payment EXCEPT ![q] = [NoPayment EXCEPT !.status = "pending", !.user = u,
                                                        !.fan = u]]
  /\ UNCHANGED <<now, user, session, nonce, campaign, handlers>>

FanPays(q) ==
  /\ payment[q].status = "pending" /\ ~payment[q].paid
  /\ payment' = [payment EXCEPT ![q].paid = TRUE]
  /\ UNCHANGED <<now, user, session, nonce, campaign, handlers>>

(* payment_status reads the request, and finds that it was paid ... *)
StartConfirm(h, q) ==
  /\ payment[q].status = "pending" /\ payment[q].paid
  /\ Begin(h, "confirm", [NoTask EXCEPT !.user = payment[q].user, !.id = q])
  /\ UNCHANGED <<now, user, session, nonce, campaign, payment>>

(* Fault: the claim is committed before the contribution is. *)
FaultConfirmed(q, u) ==
  IF u = None \/ Live(u)
  THEN [payment EXCEPT ![q].status = "confirmed", ![q].recorded = TRUE, ![q].contribution = u]
  ELSE [payment EXCEPT ![q].status = "confirmed"]

(* The claim and the contribution, which refers to the user read before.   *)
Confirmed(q, u) ==
  IF u = None \/ Live(u)
  THEN [payment EXCEPT ![q].status = "confirmed", ![q].recorded = TRUE, ![q].contribution = u]
  ELSE payment

(* ... and _confirm records it, unless another has. *)
CommitConfirm(h) ==
  LET q == task[h].id IN
  /\ at[h] = "confirm"
  /\ payment' = IF payment[q].status = "pending" THEN Confirmed(q, task[h].user) ELSE payment
  /\ End(h)
  /\ UNCHANGED <<now, user, session, nonce, campaign>>

-----------------------------------------------------------------------------
(* DELETE /users/me/withdraw. *)

RequestsOf(u) == {q \in Payments : payment[q].user = u}

ContributionsOf(u) == {q \in Payments : payment[q].contribution = u}

StartWithdraw(h, u) ==
  /\ CurrentUser(u) /\ Active(u) = {}
  /\ Begin(h, "withdraw", [NoTask EXCEPT !.user = u,
                             !.rows = {<<"request", q>> : q \in RequestsOf(u)} \cup
                                      {<<"contribution", q>> : q \in ContributionsOf(u)}])
  /\ UNCHANGED <<now, user, session, nonce, campaign, payment>>

(* Fault: the rows of the campaigns are deleted with their owner. *)
FaultDeletable(h) == Live(task[h].user)

(* The rows read are detached and the user is deleted, unless a row still  *)
(* refers to him: a campaign, closed or not (owner_id), or a payment       *)
(* request or contribution that is newer (user_id): all are foreign keys.  *)
Deletable(h) ==
  LET u == task[h].user IN
  /\ Live(u)
  /\ ~\E c \in Campaigns : campaign[c].owner = u
  /\ \A q \in RequestsOf(u) : <<"request", q>> \in task[h].rows
  /\ \A q \in ContributionsOf(u) : <<"contribution", q>> \in task[h].rows

CommitWithdraw(h) ==
  LET u == task[h].user IN
  /\ at[h] = "withdraw"
  /\ IF Deletable(h)
     THEN /\ user' = [user EXCEPT ![u] = [NoUser EXCEPT !.at = "gone"]]
          /\ payment' = [q \in Payments |->
               [payment[q] EXCEPT !.user = IF @ = u THEN None ELSE @,
                                  !.contribution = IF @ = u THEN None ELSE @]]
     ELSE UNCHANGED <<user, payment>>
  /\ End(h)
  /\ UNCHANGED <<now, session, nonce, campaign>>

(* A request breaks off before its commit: the sidecar fails, or the       *)
(* handler dies.                                                           *)
GiveUp(h) ==
  /\ at[h] # "idle" /\ End(h)
  /\ UNCHANGED <<now, user, session, nonce, campaign, payment>>

Tick ==
  /\ now < MaxTime /\ now' = now + 1
  /\ UNCHANGED <<user, session, nonce, campaign, payment, handlers>>

AccountsNext ==
  \/ \E u \in Users, e \in Emails : Signup(u, e)
  \/ \E u \in Users : Login(u)
  \/ \E s \in Sessions : Logout(s)
  \/ \E n \in Nonces, w \in Wallets : WalletNonce(n, w)
  \/ \E c \in Campaigns : CampaignCloses(c)
  \/ \E q \in Payments : FanPays(q) \/ \E u \in Users : CreatePaymentRequest(q, u)
  \/ \E h \in API :
       \/ \E s \in Sessions : StartRefresh(h, s)
       \/ \E n \in Nonces, u \in Users : StartConnect(h, n, u) \/ StartWalletLogin(h, n, u)
       \/ \E u \in Users : StartCreate(h, u) \/ StartWithdraw(h, u)
       \/ \E q \in Payments : StartConfirm(h, q)
       \/ FinishRefresh(h) \/ CommitConnect(h) \/ CommitWalletLogin(h) \/ InsertCampaign(h)
       \/ CommitConfirm(h) \/ CommitWithdraw(h) \/ GiveUp(h)
  \/ Tick

AccountsSpec == AccountsInit /\ [][AccountsNext]_accounts

-----------------------------------------------------------------------------
(* Properties. *)

(* Rows and slots have the shapes the code gives them; emails and wallets  *)
(* have one live owner, and a row refers to users that exist.              *)
AccountsTypeOK ==
  /\ now \in 0 .. MaxTime
  /\ user \in [Users -> [at : {"free", "live", "gone"}, email : Emails \cup {None},
                         wallet : Wallets \cup {None}]]
  /\ session \in [Sessions -> [user : Users \cup {None}, exp : Nat, access : Nat,
                               ended : Nat \cup {None}, raced : BOOLEAN]]
  /\ nonce \in [Nonces -> [wallet : Wallets \cup {None}, used : BOOLEAN, expires_at : Nat,
                           uses : Nat]]
  /\ campaign \in [Campaigns -> [at : {"free", "active", "closed"},
                                 owner : Users \cup {None}]]
  /\ payment \in [Payments -> [status : {"none", "pending", "confirmed"},
                               user : Users \cup {None}, fan : Users \cup {None},
                               paid : BOOLEAN, recorded : BOOLEAN,
                               contribution : Users \cup {None}]]
  /\ at \in [API -> {"idle", "refresh", "connect", "login", "create", "confirm", "withdraw"}]
  /\ \A u, v \in Users : Live(u) /\ Live(v) /\ u # v =>
       /\ user[u].email # user[v].email
       /\ user[u].wallet = user[v].wallet => user[u].wallet = None
  /\ \A c \in Campaigns : campaign[c].at # "free" => Live(campaign[c].owner)

(* Once a session was logged out it ends within the life of one access     *)
(* token, unless a refresh that had already looked the token up is still   *)
(* on its way.                                                             *)
SessionEnds ==
  \A s \in Sessions : session[s].ended # None /\ ~session[s].raced =>
    session[s].access <= session[s].ended + AccessTTL

(* A nonce is looked up, and marked as used in a later step: requests that *)
(* overlap can all use it, but never one that comes after them.            *)
NonceBounded == \A n \in Nonces : nonce[n].uses <= Cardinality(API)

(* The campaigns of a user are counted before the chain is asked and the   *)
(* row inserted: requests that overlap can exceed the limit, but only by   *)
(* one campaign for each of the others.                                    *)
ActiveBounded ==
  \A u \in Users : Cardinality(Active(u)) <= MaxActive + Cardinality(API) - 1

(* A fan's payment outlives his account: whatever order the withdrawal and *)
(* the confirmation take, a paid request is either recorded, credited to   *)
(* the fan until he leaves, or still pending, so that it will be found.    *)
PaymentsOutliveFans ==
  \A q \in Payments : payment[q].paid =>
    LET fan == payment[q].fan IN
    \/ payment[q].status = "pending" /\ ~payment[q].recorded
    \/ /\ payment[q].status = "confirmed" /\ payment[q].recorded
       /\ payment[q].contribution = IF Live(fan) THEN fan ELSE None
=============================================================================
