------------------------------- MODULE Accounts -------------------------------
(***************************************************************************)
(* Users, their tokens and what they buy: apps/auth, core/security.py,     *)
(* apps/users and apps/package, over PostgreSQL and the blacklist of       *)
(* tokens in Redis.                                                        *)
(*                                                                         *)
(* A request runs from one await that reads shared state to the next.      *)
(* Time is the second of the clock, the unit of exp in a JWT and of a TTL  *)
(* in Redis.  A token is what it says: two tokens of one user and kind     *)
(* that expire in the same second are one token.                           *)
(***************************************************************************)
EXTENDS SpinLedger, Sequences, FiniteSets, SequencesExt

CONSTANTS
  Emails,         \* users, by the email that is unique
  Requests,       \* requests that run at the same time
  Nobody,         \* holder of a row of balances that is not locked
  Packages,       \* packages
  SpinsCount,     \* spins_count of a package
  AccessLife,     \* ACCESS_TOKEN_EXPIRE_MINUTES, in seconds of the model
  RefreshLife,    \* REFRESH_TOKEN_EXPIRE_DAYS
  ConfirmLife,    \* 24 hours
  MaxTime,        \* bound: seconds
  MaxPurchases,   \* bound: packages of one user
  MaxOutages      \* bound: SETEX calls that fail

ASSUME NobodyIsNoRequest == Nobody \notin Requests
ASSUME PackagesAssumption == SpinsCount \in [Packages -> Nat]
ASSUME LivesAssumption ==
  /\ {AccessLife, RefreshLife, ConfirmLife} \subseteq Nat \ {0}
  /\ {MaxTime, MaxPurchases, MaxOutages} \subseteq Nat

VARIABLES
  clock,
  users,       \* rows of users
  balance,     \* rows of user_balances, by user
  rowLock,     \* SELECT ... FOR UPDATE of a row of balances
  received,    \* rows of user_packages, by user
  active,      \* packages with is_active
  issued,      \* tokens that clients have
  blacklist,   \* keys blacklist:<kind>:<token>, those past their TTL too
  request,
  outages

accountVars == <<clock, users, balance, rowLock, received, active, issued, blacklist,
                 request, outages>>

Kinds == {"access", "refresh", "email_confirmation"}
Seconds == 0 .. MaxTime + AccessLife + RefreshLife + ConfirmLife
Token == [kind : Kinds, sub : Emails, exp : Seconds]
Stages == {"idle", "registering", "login", "refreshing", "leaving", "checked", "served",
           "buying", "adding"}

NoToken == <<>>
NoRequest == [at |-> "idle", token |-> NoToken, other |-> NoToken, user |-> NoToken,
              package |-> NoToken, seen |-> 0, wasRevoked |-> FALSE, wasBanned |-> FALSE]
NoUser == [row |-> FALSE, confirmed |-> FALSE, banned |-> FALSE]

AccountsInit ==
  /\ clock = 0
  /\ users = [e \in Emails |-> NoUser]
  /\ balance = [e \in Emails |-> NewBalance(0)]
  /\ rowLock = [e \in Emails |-> Nobody]
  /\ received = [e \in Emails |-> <<>>]
  /\ active = Packages
  /\ issued = {}
  /\ blacklist = {}
  /\ request = [r \in Requests |-> NoRequest]
  /\ outages = 0

Stage(r) == request[r].at
End(r) == request' = [request EXCEPT ![r] = NoRequest]

-----------------------------------------------------------------------------
(* Tokens: core/security.py                                                *)

AccessToken(e) == [kind |-> "access", sub |-> e, exp |-> clock + AccessLife]
RefreshToken(e) == [kind |-> "refresh", sub |-> e, exp |-> clock + RefreshLife]
ConfirmToken(e) == [kind |-> "email_confirmation", sub |-> e, exp |-> clock + ConfirmLife]
Pair(e) == {AccessToken(e), RefreshToken(e)}

\* decode_token
Valid(token) == clock < token.exp

\* is_token_blacklisted: the key is there and its TTL has not passed.
Blacklisted(token, kind) ==
  \E key \in blacklist : key.token = token /\ key.kind = kind /\ clock < key.until

\* Mutant of Ttl: the life of an access token, for every token.
TtlOfAccess(token) == AccessLife

\* The rest of the token's life.
Ttl(token) == token.exp - clock

\* blacklist_token: SETEX, unless the token has expired.
Blacklist(token, kind) ==
  IF Valid(token)
  THEN blacklist' = blacklist \cup
         {[kind |-> kind, token |-> token, until |-> clock + Ttl(token)]}
  ELSE UNCHANGED blacklist

\* A failed SETEX is logged, and the caller goes on.
BlacklistOrOutage(token, kind) ==
  \/ Blacklist(token, kind) /\ UNCHANGED outages
  \/ outages < MaxOutages /\ outages' = outages + 1 /\ UNCHANGED blacklist

\* The token was revoked, at some time, under the key its check reads.
Revoked(token) == \E key \in blacklist : key.token = token /\ key.kind = token.kind

-----------------------------------------------------------------------------
(* Registration and login: apps/auth/services.py                           *)

\* exists_by_email finds no user; the password is hashed.
RegisterStart(r, e) ==
  /\ Stage(r) = "idle" /\ ~users[e].row
  /\ request' = [request EXCEPT ![r].at = "registering", ![r].user = e]
  /\ UNCHANGED <<clock, users, balance, rowLock, received, active, issued, blacklist, outages>>

\* The user, the balance and the token in one commit; the unique email of a
\* user who came first makes it an IntegrityError.
RegisterCommit(r) ==
  LET e == request[r].user
  IN  /\ Stage(r) = "registering"
      /\ IF users[e].row
         THEN UNCHANGED <<users, balance, issued>>
         ELSE /\ users' = [users EXCEPT ![e] = [NoUser EXCEPT !.row = TRUE]]
              /\ balance' = [balance EXCEPT ![e] = NewBalance(0)]
              /\ issued' = issued \cup {ConfirmToken(e)}
      /\ End(r)
      /\ UNCHANGED <<clock, rowLock, received, active, blacklist, outages>>

\* confirm_email; a second time changes nothing.
ConfirmEmail(token) ==
  /\ Valid(token) /\ token.kind = "email_confirmation" /\ users[token.sub].row
  /\ ~users[token.sub].confirmed
  /\ users' = [users EXCEPT ![token.sub].confirmed = TRUE]
  /\ UNCHANGED <<clock, balance, rowLock, received, active, issued, blacklist, request, outages>>

\* The user is read; the password is compared and the flags of the row that
\* was read are tested.
LoginStart(r, e) ==
  /\ Stage(r) = "idle"
  /\ users[e].row /\ users[e].confirmed /\ ~users[e].banned
  /\ request' = [request EXCEPT ![r].at = "login", ![r].user = e]
  /\ UNCHANGED <<clock, users, balance, rowLock, received, active, issued, blacklist, outages>>

LoginIssue(r) ==
  /\ Stage(r) = "login"
  /\ issued' = issued \cup Pair(request[r].user)
  /\ End(r)
  /\ UNCHANGED <<clock, users, balance, rowLock, received, active, blacklist, outages>>

-----------------------------------------------------------------------------
(* Refresh and logout                                                      *)

\* refresh_tokens: the blacklist, then the token and its kind.
RefreshStart(r, token) ==
  /\ Stage(r) = "idle"
  /\ ~Blacklisted(token, "refresh") /\ Valid(token) /\ token.kind = "refresh"
  /\ request' = [request EXCEPT ![r].at = "refreshing", ![r].token = token,
                                ![r].user = token.sub, ![r].wasRevoked = Revoked(token)]
  /\ UNCHANGED <<clock, users, balance, rowLock, received, active, issued, blacklist, outages>>

\* The user is read, the old token is revoked, a new pair is given.
RefreshIssue(r) ==
  LET e == request[r].user
  IN  /\ Stage(r) = "refreshing"
      /\ IF users[e].row /\ ~users[e].banned
         THEN /\ BlacklistOrOutage(request[r].token, "refresh")
              /\ issued' = issued \cup Pair(e)
         ELSE UNCHANGED <<blacklist, issued, outages>>
      /\ End(r)
      /\ UNCHANGED <<clock, users, balance, rowLock, received, active>>

\* logout: first the access token, then the refresh token of LogoutEnd.  The
\* code takes both as they come; here a client sends two of its own.
LogoutStart(r, access, refresh) ==
  /\ Stage(r) = "idle"
  /\ access.kind = "access" /\ refresh.kind = "refresh" /\ access.sub = refresh.sub
  /\ BlacklistOrOutage(access, "access")
  /\ request' = [request EXCEPT ![r].at = "leaving", ![r].other = refresh]
  /\ UNCHANGED <<clock, users, balance, rowLock, received, active, issued>>

LogoutEnd(r) ==
  /\ Stage(r) = "leaving"
  /\ BlacklistOrOutage(request[r].other, "refresh")
  /\ End(r)
  /\ UNCHANGED <<clock, users, balance, rowLock, received, active, issued>>

-----------------------------------------------------------------------------
(* A protected request: get_current_user                                   *)

\* Mutant of CheckToken: the kind of the token is not tested.
CheckAnyToken(r, token) ==
  /\ Stage(r) = "idle"
  /\ ~Blacklisted(token, "access") /\ Valid(token)
  /\ request' = [request EXCEPT ![r] =
       [NoRequest EXCEPT !.at = "checked", !.token = token, !.user = token.sub,
                         !.wasRevoked = Revoked(token), !.wasBanned = users[token.sub].banned]]
  /\ UNCHANGED <<clock, users, balance, rowLock, received, active, issued, blacklist, outages>>

\* The blacklist, then the token and its kind.
CheckToken(r, token) ==
  /\ Stage(r) = "idle"
  /\ ~Blacklisted(token, "access") /\ Valid(token) /\ token.kind = "access"
  /\ request' = [request EXCEPT ![r] =
       [NoRequest EXCEPT !.at = "checked", !.token = token, !.user = token.sub,
                         !.wasRevoked = Revoked(token), !.wasBanned = users[token.sub].banned]]
  /\ UNCHANGED <<clock, users, balance, rowLock, received, active, issued, blacklist, outages>>

\* Mutant of ServeUser: the flags are left to the login.
ServeAnyUser(r) ==
  /\ Stage(r) = "checked"
  /\ IF users[request[r].user].row
     THEN request' = [request EXCEPT ![r].at = "served"]
     ELSE End(r)
  /\ UNCHANGED <<clock, users, balance, rowLock, received, active, issued, blacklist, outages>>

\* The user is read, and may not be banned or inactive.
ServeUser(r) ==
  /\ Stage(r) = "checked"
  /\ IF users[request[r].user].row /\ ~users[request[r].user].banned
     THEN request' = [request EXCEPT ![r].at = "served"]
     ELSE End(r)
  /\ UNCHANGED <<clock, users, balance, rowLock, received, active, issued, blacklist, outages>>

\* An endpoint that only reads.
Answer(r) ==
  /\ Stage(r) = "served"
  /\ End(r)
  /\ UNCHANGED <<clock, users, balance, rowLock, received, active, issued, blacklist, outages>>

-----------------------------------------------------------------------------
(* Packages: apps/package/services.py                                      *)

\* add_package_to_user: the package is read, without a lock, and is active.
BuyStart(r, p) ==
  /\ Stage(r) = "served" /\ p \in active
  /\ Len(received[request[r].user]) < MaxPurchases
  /\ request' = [request EXCEPT ![r].at = "buying", ![r].package = p]
  /\ UNCHANGED <<clock, users, balance, rowLock, received, active, issued, blacklist, outages>>

\* Mutant of BuyLock: the balance is read without FOR UPDATE.
BuyReadOnly(r) ==
  /\ Stage(r) = "buying"
  /\ request' = [request EXCEPT ![r].at = "adding", ![r].seen = balance[request[r].user].spins]
  /\ UNCHANGED <<clock, users, balance, rowLock, received, active, issued, blacklist, outages>>

\* The row of user_packages is in the transaction; add_spins_no_commit locks
\* and reads the balance.
BuyLock(r) ==
  /\ Stage(r) = "buying" /\ rowLock[request[r].user] = Nobody
  /\ rowLock' = [rowLock EXCEPT ![request[r].user] = r]
  /\ request' = [request EXCEPT ![r].at = "adding", ![r].seen = balance[request[r].user].spins]
  /\ UNCHANGED <<clock, users, balance, received, active, issued, blacklist, outages>>

Unlocked(r) == [e \in Emails |-> IF rowLock[e] = r THEN Nobody ELSE rowLock[e]]

\* One commit for the package and the spins.
BuyCommit(r) ==
  LET e == request[r].user
  IN  /\ Stage(r) = "adding"
      /\ balance' = [balance EXCEPT ![e].spins = request[r].seen + SpinsCount[request[r].package]]
      /\ received' = [received EXCEPT ![e] = Append(@, request[r].package)]
      /\ rowLock' = Unlocked(r)
      /\ End(r)
      /\ UNCHANGED <<clock, users, active, issued, blacklist, outages>>

\* An exception rolls all of it back.
BuyRollback(r) ==
  /\ Stage(r) \in {"buying", "adding"}
  /\ rowLock' = Unlocked(r)
  /\ End(r)
  /\ UNCHANGED <<clock, users, balance, received, active, issued, blacklist, outages>>

\* Analyses use the same row (module SelectionFlow), under the same lock.
SpinsUsed(e) ==
  /\ rowLock[e] = Nobody
  /\ \/ CanReserve(balance[e]) /\ balance' = [balance EXCEPT ![e] = ReserveSpin(@)]
     \/ balance[e].reserved > 0 /\ balance' = [balance EXCEPT ![e] = ConfirmSpins(@, 1)]
     \/ balance[e].reserved > 0 /\ balance' = [balance EXCEPT ![e] = ReleaseSpins(@, 1)]
  /\ UNCHANGED <<clock, users, rowLock, received, active, issued, blacklist, request, outages>>

\* update_package: is_active is one of the two fields that may change.
UpdatePackage(p) ==
  /\ active' = IF p \in active THEN active \ {p} ELSE active \cup {p}
  /\ UNCHANGED <<clock, users, balance, rowLock, received, issued, blacklist, request, outages>>

-----------------------------------------------------------------------------

\* The flags of a user are set in the database.
Ban(e) ==
  /\ users[e].row /\ ~users[e].banned
  /\ users' = [users EXCEPT ![e].banned = TRUE]
  /\ UNCHANGED <<clock, balance, rowLock, received, active, issued, blacklist, request, outages>>

Second ==
  /\ clock < MaxTime
  /\ clock' = clock + 1
  /\ UNCHANGED <<users, balance, rowLock, received, active, issued, blacklist, request, outages>>

AccountsNext ==
  \/ \E r \in Requests :
       \/ \E e \in Emails : RegisterStart(r, e) \/ LoginStart(r, e)
       \/ \E token \in issued : RefreshStart(r, token) \/ CheckToken(r, token)
       \/ \E access, refresh \in issued : LogoutStart(r, access, refresh)
       \/ \E p \in Packages : BuyStart(r, p)
       \/ RegisterCommit(r) \/ LoginIssue(r) \/ RefreshIssue(r) \/ LogoutEnd(r)
       \/ ServeUser(r) \/ Answer(r) \/ BuyLock(r) \/ BuyCommit(r) \/ BuyRollback(r)
  \/ \E token \in issued : ConfirmEmail(token)
  \/ \E e \in Emails : SpinsUsed(e) \/ Ban(e)
  \/ \E p \in Packages : UpdatePackage(p)
  \/ Second

AccountsSpec == AccountsInit /\ [][AccountsNext]_accountVars

-----------------------------------------------------------------------------
(* Properties                                                              *)

\* Type invariant.
AccountsTypeOK ==
  /\ clock \in 0 .. MaxTime
  /\ users \in [Emails -> [row : BOOLEAN, confirmed : BOOLEAN, banned : BOOLEAN]]
  /\ balance \in [Emails -> Balance]
  /\ rowLock \in [Emails -> Requests \cup {Nobody}]
  /\ \A e \in Emails : received[e] \in Seq(Packages)
  /\ active \subseteq Packages
  /\ issued \subseteq Token
  /\ \A key \in blacklist : key.token \in Token /\ key.kind \in Kinds /\ key.until \in Nat
  /\ \A r \in Requests :
       /\ Stage(r) \in Stages
       /\ Stage(r) # "idle" /\ Stage(r) # "leaving" => request[r].user \in Emails
       /\ Stage(r) \in {"checked", "served", "refreshing"} => request[r].token \in issued

\* A token whose revocation is in Redis stays revoked for the rest of its
\* life: no request that comes later passes with it, as an access token or
\* for a new pair, whatever the order of TTL and expiry ("after that the
\* token will not pass is_token_blacklisted").
RevokedStaysOut ==
  \A r \in Requests :
    Stage(r) \in {"checked", "served", "buying", "adding", "refreshing"} =>
      ~request[r].wasRevoked

\* A user who is banned while tokens of theirs are alive is not served by a
\* request that comes later, on those tokens or on a pair refreshed since.
BannedStaysOut ==
  \A r \in Requests : Stage(r) \in {"served", "buying", "adding"} => ~request[r].wasBanned

\* Only a user whose email was confirmed is ever served: the token of the
\* letter, which the client has before that, opens nothing else.
OnlyConfirmedServed ==
  \A r \in Requests :
    Stage(r) \in {"served", "buying", "adding"} => users[request[r].user].confirmed

\* Every spin of a user, free, reserved or used, is from a package the user
\* received, and every package gave its spins, however purchases and
\* analyses interleave or fail.
SpinsAreBought ==
  \A e \in Emails :
    balance[e].spins + balance[e].reserved + balance[e].confirmed
      = FoldLeft(LAMBDA sum, p : sum + SpinsCount[p], 0, received[e])
=============================================================================
