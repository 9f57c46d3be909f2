--------------------------- MODULE Accounts_proofs ---------------------------
(***************************************************************************)
(* Proofs about Accounts, for any number of users, requests and packages,  *)
(* any lives of the tokens and any number of failed calls of Redis: type   *)
(* correctness, that a revoked token and a banned user stay out, that only *)
(* a confirmed user is served, and that a balance is what was bought.      *)
(***************************************************************************)
EXTENDS Accounts, SpinLedger_proofs, FoldFacts, SequenceTheorems

RequestRow ==
  [at : Stages, token : Token \cup {NoToken}, other : Token \cup {NoToken},
   user : Emails \cup {NoToken}, package : Packages \cup {NoToken}, seen : Nat,
   wasRevoked : BOOLEAN, wasBanned : BOOLEAN]
UserRow == [row : BOOLEAN, confirmed : BOOLEAN, banned : BOOLEAN]
Key == [kind : Kinds, token : Token, until : Nat]

TypeInv ==
  /\ clock \in 0 .. MaxTime
  /\ users \in [Emails -> UserRow]
  /\ balance \in [Emails -> Balance]
  /\ rowLock \in [Emails -> Requests \cup {Nobody}]
  /\ received \in [Emails -> Seq(Packages)]
  /\ active \subseteq Packages
  /\ issued \subseteq Token
  /\ blacklist \subseteq Key
  /\ request \in [Requests -> RequestRow]

\* The TTL of a revoked token ends with the token, not before.
BlacklistInv == \A key \in blacklist : key.until = key.token.exp

\* The flags of a user are set after the row is there, and only a confirmed
\* user has tokens other than that of the letter.
UserInv ==
  /\ \A e \in Emails : users[e].confirmed \/ users[e].banned => users[e].row
  /\ \A t \in issued : t.kind # "email_confirmation" => users[t.sub].confirmed

Serving == {"served", "buying", "adding"}

\* What is known of the request q, by the rows of users and the tokens.
RequestOK(q, rows, tokens) ==
  /\ q.at \notin {"idle", "leaving"} => q.user \in Emails
  /\ q.at \in {"checked", "served", "refreshing"} => q.token \in tokens
  /\ q.at \in {"login", "refreshing", "checked"} \cup Serving => rows[q.user].confirmed
  /\ q.at \in {"refreshing", "checked"} \cup Serving => ~q.wasRevoked
  /\ q.at \in {"buying", "adding"} => q.package \in Packages
  /\ q.at = "leaving" => q.other \in Token
  /\ q.at = "checked" /\ q.wasBanned => rows[q.user].banned
  /\ q.at \in Serving => ~q.wasBanned

RequestInv == \A r \in Requests : RequestOK(request[r], users, issued)

IInv == TypeInv /\ BlacklistInv /\ UserInv /\ RequestInv

\* Flags are set and tokens are given: neither is taken back.
Grows ==
  /\ issued \subseteq issued'
  /\ \A e \in Emails : /\ users[e].confirmed => users'[e].confirmed
                       /\ users[e].banned => users'[e].banned

-----------------------------------------------------------------------------
(* Tokens                                                                  *)

LEMMA SecondsAreNat ==
  /\ Seconds \subseteq Nat /\ 0 .. MaxTime \subseteq Seconds
  /\ \A t \in 0 .. MaxTime : {t + AccessLife, t + RefreshLife, t + ConfirmLife} \subseteq Seconds
BY LivesAssumption DEF Seconds

LEMMA TokenTypes ==
  ASSUME IInv, NEW e \in Emails
  PROVE  /\ Pair(e) \subseteq Token /\ ConfirmToken(e) \in Token
         /\ \A t \in Pair(e) : t.sub = e
         /\ ConfirmToken(e).kind = "email_confirmation"
<1>1. clock \in 0 .. MaxTime
  BY DEF IInv, TypeInv
<1> QED BY <1>1, SecondsAreNat
        DEF Pair, AccessToken, RefreshToken, ConfirmToken, Token, Kinds

\* A key lives as long as its token, whether SETEX succeeds or fails.
LEMMA BlacklistKeeps ==
  ASSUME IInv, NEW token \in Token, NEW kind \in Kinds, BlacklistOrOutage(token, kind)
  PROVE  blacklist' \subseteq Key /\ BlacklistInv'
<1> DEFINE key == [kind |-> kind, token |-> token, until |-> clock + Ttl(token)]
<1>1. clock \in Nat /\ token.exp \in Nat
  BY SecondsAreNat, LivesAssumption DEF IInv, TypeInv, Token
<1>2. key.until = key.token.exp /\ key \in Key
  BY <1>1 DEF Ttl, Key
<1>3. UNCHANGED blacklist \/ blacklist' = blacklist \cup {key}
  BY DEF BlacklistOrOutage, Blacklist
<1> HIDE DEF key
<1> QED BY <1>2, <1>3 DEF IInv, TypeInv, BlacklistInv

\* A token that passes the check of its own kind was never revoked.
LEMMA PassesUnrevoked ==
  ASSUME IInv, NEW token \in Token, Valid(token), ~Blacklisted(token, token.kind)
  PROVE  ~Revoked(token)
BY DEF IInv, BlacklistInv, Valid, Blacklisted, Revoked

-----------------------------------------------------------------------------
(* Types                                                                   *)

LEMMA NoRequestType == NoRequest \in RequestRow /\ NoRequest.at = "idle"
BY DEF NoRequest, RequestRow, Stages

LEMMA AccountsInitInv == AccountsInit => IInv
<1> SUFFICES ASSUME AccountsInit PROVE IInv
  OBVIOUS
<1>1. 0 \in 0 .. MaxTime
  BY LivesAssumption
<1>2. NewBalance(0) \in Balance
  BY NewBalanceType
<1>3. NoUser \in UserRow /\ ~NoUser.confirmed /\ ~NoUser.banned
  BY DEF NoUser, UserRow
<1>4. TypeInv
  BY <1>1, <1>2, <1>3, NoRequestType DEF AccountsInit, TypeInv
<1>5. RequestInv
  BY NoRequestType DEF AccountsInit, RequestInv, RequestOK, Serving
<1> QED BY <1>3, <1>4, <1>5 DEF AccountsInit, IInv, BlacklistInv, UserInv

\* A request that goes on leaves the rest as it was.
LEMMA OneRequest ==
  ASSUME IInv, NEW r \in Requests, NEW row \in RequestRow, request' = [request EXCEPT ![r] = row],
         RequestOK(row, users', issued'), Grows
  PROVE  request' \in [Requests -> RequestRow] /\ RequestInv'
<1>1. request' \in [Requests -> RequestRow]
  BY DEF IInv, TypeInv
<1>2. \A s \in Requests : request'[s] = IF s = r THEN row ELSE request[s]
  BY DEF IInv, TypeInv
<1>3. ASSUME NEW s \in Requests PROVE RequestOK(request'[s], users', issued')
  <2>1. CASE s = r
    BY <1>2, <2>1
  <2>2. CASE s # r
    <3>1. request'[s] = request[s] /\ RequestOK(request[s], users, issued)
      BY <1>2, <2>2 DEF IInv, RequestInv
    <3> QED BY <3>1 DEF RequestOK, Grows, Serving
  <2> QED BY <2>1, <2>2
<1> QED BY <1>1, <1>3 DEF RequestInv

\* A request that ends.
LEMMA Ends ==
  ASSUME IInv, NEW r \in Requests, End(r), Grows
  PROVE  request' \in [Requests -> RequestRow] /\ RequestInv'
<1>1. RequestOK(NoRequest, users', issued')
  BY NoRequestType DEF RequestOK, Serving
<1> QED BY <1>1, NoRequestType, OneRequest DEF End

\* Steps without a request.
LEMMA NoRequestMoves ==
  ASSUME IInv, UNCHANGED request, Grows
  PROVE  request' \in [Requests -> RequestRow] /\ RequestInv'
<1>1. ASSUME NEW s \in Requests PROVE RequestOK(request[s], users', issued')
  BY DEF IInv, RequestInv, RequestOK, Grows, Serving
<1> QED BY <1>1 DEF IInv, TypeInv, RequestInv

-----------------------------------------------------------------------------
(* Registration and login                                                  *)

LEMMA RegisterStartInv ==
  ASSUME IInv, NEW r \in Requests, NEW e \in Emails, RegisterStart(r, e)
  PROVE  IInv'
<1> DEFINE row == [request[r] EXCEPT !.at = "registering", !.user = e]
<1>1. request[r] \in RequestRow
  BY DEF IInv, TypeInv
<1>2. row \in RequestRow /\ row.at = "registering" /\ row.user = e
  BY <1>1 DEF RequestRow, Stages
<1>3. request' = [request EXCEPT ![r] = row]
  BY <1>1 DEF RegisterStart, IInv, TypeInv
<1>4. Grows
  BY DEF RegisterStart, Grows
<1> HIDE DEF row
<1>5. RequestOK(row, users', issued')
  BY <1>2 DEF RequestOK, Serving
<1>6. request' \in [Requests -> RequestRow] /\ RequestInv'
  BY <1>2, <1>3, <1>4, <1>5, OneRequest
<1> QED BY <1>6 DEF RegisterStart, IInv, TypeInv, BlacklistInv, UserInv

LEMMA RegisterCommitInv ==
  ASSUME IInv, NEW r \in Requests, RegisterCommit(r)
  PROVE  IInv'
<1> DEFINE e == request[r].user
<1>1. e \in Emails /\ UNCHANGED <<clock, rowLock, received, active, blacklist>> /\ End(r)
  BY DEF RegisterCommit, Stage, IInv, RequestInv, RequestOK
<1>2. CASE users[e].row
  <2>1. UNCHANGED <<users, balance, issued>>
    BY <1>2 DEF RegisterCommit
  <2>2. Grows
    BY <2>1 DEF Grows
  <2>3. request' \in [Requests -> RequestRow] /\ RequestInv'
    BY <1>1, <2>2, Ends
  <2> QED BY <1>1, <2>1, <2>3 DEF IInv, TypeInv, BlacklistInv, UserInv
<1>3. CASE ~users[e].row
  <2> DEFINE row == [NoUser EXCEPT !.row = TRUE]
  <2>1. /\ users' = [users EXCEPT ![e] = row]
        /\ balance' = [balance EXCEPT ![e] = NewBalance(0)]
        /\ issued' = issued \cup {ConfirmToken(e)}
    BY <1>3 DEF RegisterCommit
  <2>2. row \in UserRow /\ row.row = TRUE
    BY DEF NoUser, UserRow
  <2> HIDE DEF row, e
  <2>3. \A f \in Emails : users'[f] = IF f = e THEN row ELSE users[f]
    BY <2>1 DEF IInv, TypeInv
  <2>4. ~users[e].confirmed /\ ~users[e].banned
    BY <1>1, <1>3 DEF IInv, TypeInv, UserRow, UserInv
  <2>5. Grows
    BY <2>1, <2>3, <2>4 DEF Grows
  <2>6. request' \in [Requests -> RequestRow] /\ RequestInv'
    BY <1>1, <2>5, Ends
  <2>7. users' \in [Emails -> UserRow] /\ balance' \in [Emails -> Balance] /\ issued' \subseteq Token
    BY <1>1, <2>1, <2>2, NewBalanceType, TokenTypes DEF IInv, TypeInv
  <2>8. UserInv'
    <3>1. \A f \in Emails : users'[f].confirmed \/ users'[f].banned => users'[f].row
      BY <2>2, <2>3 DEF IInv, UserInv
    <3>2. ASSUME NEW t \in issued', t.kind # "email_confirmation" PROVE users'[t.sub].confirmed
      <4>1. t \in issued
        BY <1>1, <2>1, <3>2, TokenTypes
      <4>2. t.sub \in Emails /\ users[t.sub].confirmed
        BY <3>2, <4>1 DEF IInv, TypeInv, UserInv, Token
      <4> QED BY <4>2, <2>5 DEF Grows
    <3> QED BY <3>1, <3>2 DEF UserInv
  <2> QED BY <1>1, <2>6, <2>7, <2>8 DEF IInv, TypeInv, BlacklistInv
<1> QED BY <1>2, <1>3

\* Steps that set a flag of a row that is there.
LEMMA FlagInv ==
  ASSUME IInv, NEW e \in Emails, users[e].row, NEW row \in UserRow, row.row = TRUE,
         users[e].confirmed => row.confirmed, users[e].banned => row.banned,
         users' = [users EXCEPT ![e] = row],
         UNCHANGED <<clock, balance, rowLock, received, active, issued, blacklist, request>>
  PROVE  IInv'
<1>1. \A f \in Emails : users'[f] = IF f = e THEN row ELSE users[f]
  BY DEF IInv, TypeInv
<1>2. Grows
  BY <1>1 DEF Grows
<1>3. request' \in [Requests -> RequestRow] /\ RequestInv'
  BY <1>2, NoRequestMoves
<1>4. users' \in [Emails -> UserRow]
  BY DEF IInv, TypeInv
<1>5. UserInv'
  <2>1. \A f \in Emails : users'[f].confirmed \/ users'[f].banned => users'[f].row
    BY <1>1 DEF IInv, UserInv
  <2>2. \A t \in issued : t.sub \in Emails
    BY DEF IInv, TypeInv, Token
  <2> QED BY <1>2, <2>1, <2>2 DEF IInv, UserInv, Grows
<1> QED BY <1>3, <1>4, <1>5 DEF IInv, TypeInv, BlacklistInv

LEMMA ConfirmEmailInv ==
  ASSUME IInv, NEW token \in issued, ConfirmEmail(token)
  PROVE  IInv'
<1> DEFINE e == token.sub
           row == [users[e] EXCEPT !.confirmed = TRUE]
<1>1. e \in Emails /\ users[e].row
  BY DEF ConfirmEmail, IInv, TypeInv, Token
<1>2. users[e] \in UserRow
  BY <1>1 DEF IInv, TypeInv
<1>3. row \in UserRow /\ row.row = TRUE /\ row.confirmed /\ row.banned = users[e].banned
  BY <1>1, <1>2 DEF UserRow
<1> HIDE DEF e
<1>4. users' = [users EXCEPT ![e] = row]
  BY <1>1, <1>2 DEF ConfirmEmail, e, IInv, TypeInv
<1>5. UNCHANGED <<clock, balance, rowLock, received, active, issued, blacklist, request>>
  BY DEF ConfirmEmail
<1> HIDE DEF row
<1> QED BY <1>1, <1>3, <1>4, <1>5, FlagInv

LEMMA BanInv ==
  ASSUME IInv, NEW e \in Emails, Ban(e)
  PROVE  IInv'
<1> DEFINE row == [users[e] EXCEPT !.banned = TRUE]
<1>1. users[e].row /\ users[e] \in UserRow
  BY DEF Ban, IInv, TypeInv
<1>2. row \in UserRow /\ row.row = TRUE /\ row.banned /\ row.confirmed = users[e].confirmed
  BY <1>1 DEF UserRow
<1>3. users' = [users EXCEPT ![e] = row]
  BY <1>1 DEF Ban, IInv, TypeInv
<1>4. UNCHANGED <<clock, balance, rowLock, received, active, issued, blacklist, request>>
  BY DEF Ban
<1> HIDE DEF row
<1> QED BY <1>1, <1>2, <1>3, <1>4, FlagInv

LEMMA LoginStartInv ==
  ASSUME IInv, NEW r \in Requests, NEW e \in Emails, LoginStart(r, e)
  PROVE  IInv'
<1> DEFINE row == [request[r] EXCEPT !.at = "login", !.user = e]
<1>1. request[r] \in RequestRow
  BY DEF IInv, TypeInv
<1>2. row \in RequestRow /\ row.at = "login" /\ row.user = e
  BY <1>1 DEF RequestRow, Stages
<1>3. request' = [request EXCEPT ![r] = row]
  BY <1>1 DEF LoginStart, IInv, TypeInv
<1>4. Grows /\ users'[e].confirmed
  BY DEF LoginStart, Grows
<1> HIDE DEF row
<1>5. RequestOK(row, users', issued')
  BY <1>2, <1>4 DEF RequestOK, Serving
<1>6. request' \in [Requests -> RequestRow] /\ RequestInv'
  BY <1>2, <1>3, <1>4, <1>5, OneRequest
<1> QED BY <1>6 DEF LoginStart, IInv, TypeInv, BlacklistInv, UserInv

\* A pair for a confirmed user.
LEMMA PairInv ==
  ASSUME IInv, NEW e \in Emails, users[e].confirmed, issued' = issued \cup Pair(e),
         UNCHANGED users
  PROVE  issued' \subseteq Token /\ UserInv' /\ Grows
BY TokenTypes DEF IInv, TypeInv, UserInv, Grows

LEMMA LoginIssueInv ==
  ASSUME IInv, NEW r \in Requests, LoginIssue(r)
  PROVE  IInv'
<1> DEFINE e == request[r].user
<1>1. e \in Emails /\ users[e].confirmed
  BY DEF LoginIssue, Stage, IInv, RequestInv, RequestOK
<1>2. issued' = issued \cup Pair(e) /\ End(r)
      /\ UNCHANGED <<clock, users, balance, rowLock, received, active, blacklist>>
  BY DEF LoginIssue
<1> HIDE DEF e
<1>3. issued' \subseteq Token /\ UserInv' /\ Grows
  BY <1>1, <1>2, PairInv
<1>4. request' \in [Requests -> RequestRow] /\ RequestInv'
  BY <1>2, <1>3, Ends
<1> QED BY <1>2, <1>3, <1>4 DEF IInv, TypeInv, BlacklistInv

-----------------------------------------------------------------------------
(* Refresh, logout and a protected request                                 *)

LEMMA RefreshStartInv ==
  ASSUME IInv, NEW r \in Requests, NEW token \in issued, RefreshStart(r, token)
  PROVE  IInv'
<1> DEFINE row == [request[r] EXCEPT !.at = "refreshing", !.token = token, !.user = token.sub,
                                     !.wasRevoked = FALSE]
<1>1. request[r] \in RequestRow /\ token \in Token /\ token.sub \in Emails
  BY DEF IInv, TypeInv, Token
<1>2. token.kind = "refresh" /\ ~Revoked(token) /\ users[token.sub].confirmed
  BY <1>1, PassesUnrevoked DEF RefreshStart, IInv, UserInv
<1>3. /\ row \in RequestRow /\ row.at = "refreshing" /\ row.token = token
      /\ row.user = token.sub /\ row.wasRevoked = FALSE
  BY <1>1 DEF RequestRow, Stages
<1>4. request' = [request EXCEPT ![r] = row]
  <2> DEFINE was == Revoked(token)
  <2>1. request' = [request EXCEPT ![r].at = "refreshing", ![r].token = token,
                                   ![r].user = token.sub, ![r].wasRevoked = was]
    BY DEF RefreshStart
  <2>2. was = FALSE
    BY <1>2
  <2> HIDE DEF was
  <2>3. request' = [request EXCEPT ![r].at = "refreshing", ![r].token = token,
                                   ![r].user = token.sub, ![r].wasRevoked = FALSE]
    BY <2>1, <2>2
  <2> QED BY <1>1, <2>3 DEF IInv, TypeInv
<1>5. Grows
  BY DEF RefreshStart, Grows
<1> HIDE DEF row
<1>6. RequestOK(row, users', issued')
  BY <1>1, <1>2, <1>3 DEF RefreshStart, RequestOK, Serving
<1>7. request' \in [Requests -> RequestRow] /\ RequestInv'
  BY <1>3, <1>4, <1>5, <1>6, OneRequest
<1> QED BY <1>7 DEF RefreshStart, IInv, TypeInv, BlacklistInv, UserInv

LEMMA RefreshIssueInv ==
  ASSUME IInv, NEW r \in Requests, RefreshIssue(r)
  PROVE  IInv'
<1> DEFINE e == request[r].user
           token == request[r].token
<1>1. e \in Emails /\ users[e].confirmed /\ token \in Token
  BY DEF RefreshIssue, Stage, IInv, TypeInv, RequestInv, RequestOK
<1>2. End(r) /\ UNCHANGED <<clock, users, balance, rowLock, received, active>>
  BY DEF RefreshIssue
<1>3. \/ BlacklistOrOutage(token, "refresh") /\ issued' = issued \cup Pair(e)
      \/ UNCHANGED <<blacklist, issued>>
  BY DEF RefreshIssue
<1> HIDE DEF e, token
<1>4. blacklist' \subseteq Key /\ BlacklistInv'
  <2>1. "refresh" \in Kinds
    BY DEF Kinds
  <2>2. CASE BlacklistOrOutage(token, "refresh")
    BY <1>1, <2>1, <2>2, BlacklistKeeps
  <2>3. CASE UNCHANGED <<blacklist, issued>>
    BY <2>3 DEF IInv, TypeInv, BlacklistInv
  <2> QED BY <1>3, <2>2, <2>3
<1>5. issued' \subseteq Token /\ UserInv' /\ Grows
  <2>1. CASE issued' = issued \cup Pair(e)
    BY <1>1, <1>2, <2>1, PairInv
  <2>2. CASE UNCHANGED <<blacklist, issued>>
    BY <1>2, <2>2 DEF IInv, TypeInv, UserInv, Grows
  <2> QED BY <1>3, <2>1, <2>2
<1>6. request' \in [Requests -> RequestRow] /\ RequestInv'
  BY <1>2, <1>5, Ends
<1> QED BY <1>2, <1>4, <1>5, <1>6 DEF IInv, TypeInv

LEMMA LogoutStartInv ==
  ASSUME IInv, NEW r \in Requests, NEW access \in issued, NEW refresh \in issued,
         LogoutStart(r, access, refresh)
  PROVE  IInv'
<1> DEFINE row == [request[r] EXCEPT !.at = "leaving", !.other = refresh]
<1>1. request[r] \in RequestRow /\ access \in Token /\ refresh \in Token
  BY DEF IInv, TypeInv
<1>2. row \in RequestRow /\ row.at = "leaving" /\ row.other \in Token
  BY <1>1 DEF RequestRow, Stages
<1>3. request' = [request EXCEPT ![r] = row]
  BY <1>1 DEF LogoutStart, IInv, TypeInv
<1>4. Grows
  BY DEF LogoutStart, Grows
<1> HIDE DEF row
<1>5. RequestOK(row, users', issued')
  BY <1>2 DEF RequestOK, Serving
<1>6. request' \in [Requests -> RequestRow] /\ RequestInv'
  BY <1>2, <1>3, <1>4, <1>5, OneRequest
<1>7. blacklist' \subseteq Key /\ BlacklistInv'
  BY <1>1, BlacklistKeeps DEF LogoutStart, Kinds
<1> QED BY <1>6, <1>7 DEF LogoutStart, IInv, TypeInv, UserInv

\* logout revokes its second token even when the first call failed.
LEMMA LogoutEndInv ==
  ASSUME IInv, NEW r \in Requests, request[r].other \in Token, LogoutEnd(r)
  PROVE  IInv'
<1>1. Grows /\ End(r)
  BY DEF LogoutEnd, Grows
<1>2. request' \in [Requests -> RequestRow] /\ RequestInv'
  BY <1>1, Ends
<1>3. blacklist' \subseteq Key /\ BlacklistInv'
  BY BlacklistKeeps DEF LogoutEnd, Kinds
<1> QED BY <1>2, <1>3 DEF LogoutEnd, IInv, TypeInv, UserInv

LEMMA CheckTokenInv ==
  ASSUME IInv, NEW r \in Requests, NEW token \in issued, CheckToken(r, token)
  PROVE  IInv'
<1> DEFINE row == [NoRequest EXCEPT !.at = "checked", !.token = token, !.user = token.sub,
                     !.wasRevoked = Revoked(token), !.wasBanned = users[token.sub].banned]
<1>1. token \in Token /\ token.sub \in Emails /\ users[token.sub].banned \in BOOLEAN
  BY DEF IInv, TypeInv, Token, UserRow
<1>2. token.kind = "access" /\ ~Revoked(token) /\ users[token.sub].confirmed
  BY <1>1, PassesUnrevoked DEF CheckToken, IInv, UserInv
<1>3. request' = [request EXCEPT ![r] = row]
  BY DEF CheckToken
<1>4. /\ row \in RequestRow /\ row.at = "checked" /\ row.token = token
      /\ row.user = token.sub /\ row.wasRevoked = FALSE
      /\ row.wasBanned = users[token.sub].banned
  <2> DEFINE was == Revoked(token)
             banned == users[token.sub].banned
  <2>1. was = FALSE /\ banned \in BOOLEAN
    BY <1>1, <1>2
  <2> HIDE DEF was, banned
  <2>2. row = [NoRequest EXCEPT !.at = "checked", !.token = token, !.user = token.sub,
                                !.wasRevoked = was, !.wasBanned = banned]
    BY DEF was, banned
  <2> HIDE DEF row
  <2>3. /\ row \in RequestRow /\ row.at = "checked" /\ row.token = token
        /\ row.user = token.sub /\ row.wasRevoked = FALSE /\ row.wasBanned = banned
    BY <1>1, <2>1, <2>2, NoRequestType DEF NoRequest, RequestRow, Stages
  <2> QED BY <2>3 DEF banned
<1>5. Grows
  BY DEF CheckToken, Grows
<1> HIDE DEF row
<1>6. RequestOK(row, users', issued')
  BY <1>1, <1>2, <1>4 DEF CheckToken, RequestOK, Serving
<1>7. request' \in [Requests -> RequestRow] /\ RequestInv'
  BY <1>3, <1>4, <1>5, <1>6, OneRequest
<1> QED BY <1>7 DEF CheckToken, IInv, TypeInv, BlacklistInv, UserInv

LEMMA ServeUserInv ==
  ASSUME IInv, NEW r \in Requests, ServeUser(r)
  PROVE  IInv'
<1> DEFINE row == [request[r] EXCEPT !.at = "served"]
<1>1. request[r] \in RequestRow /\ RequestOK(request[r], users, issued)
  BY DEF IInv, TypeInv, RequestInv
<1>2. Grows
  BY DEF ServeUser, Grows
<1>3. CASE End(r)
  BY <1>2, <1>3, Ends DEF ServeUser, IInv, TypeInv, BlacklistInv, UserInv
<1>4. CASE ~End(r)
  <2>1. /\ request' = [request EXCEPT ![r].at = "served"] /\ request[r].at = "checked"
        /\ ~users[request[r].user].banned
    BY <1>4 DEF ServeUser, Stage
  <2>2. row \in RequestRow /\ request' = [request EXCEPT ![r] = row]
    BY <1>1, <2>1 DEF RequestRow, Stages, IInv, TypeInv
  <2>3. /\ row.at = "served" /\ row.user = request[r].user /\ row.token = request[r].token
        /\ row.wasRevoked = request[r].wasRevoked /\ row.wasBanned = request[r].wasBanned
    BY <1>1 DEF RequestRow
  <2> HIDE DEF row
  <2>4. RequestOK(row, users', issued')
    BY <1>1, <2>1, <2>3 DEF ServeUser, RequestOK, Serving
  <2>5. request' \in [Requests -> RequestRow] /\ RequestInv'
    BY <1>2, <2>2, <2>4, OneRequest
  <2> QED BY <2>5 DEF ServeUser, IInv, TypeInv, BlacklistInv, UserInv
<1> QED BY <1>3, <1>4

LEMMA AnswerInv ==
  ASSUME IInv, NEW r \in Requests, Answer(r)
  PROVE  IInv'
<1>1. Grows /\ End(r)
  BY DEF Answer, Grows
<1> QED BY <1>1, Ends DEF Answer, IInv, TypeInv, BlacklistInv, UserInv

-----------------------------------------------------------------------------
(* Packages                                                                *)

\* A request that is served stays so while it buys.
LEMMA StillServed ==
  ASSUME IInv, NEW r \in Requests, request[r].at \in Serving,
         NEW row \in RequestRow, row.at \in Serving \ {"served"}, row.user = request[r].user,
         row.package \in Packages,
         row.wasRevoked = request[r].wasRevoked, row.wasBanned = request[r].wasBanned,
         request' = [request EXCEPT ![r] = row], UNCHANGED <<users, issued>>
  PROVE  request' \in [Requests -> RequestRow] /\ RequestInv'
<1>1. RequestOK(request[r], users, issued)
  BY DEF IInv, RequestInv
<1>2. RequestOK(row, users', issued')
  BY <1>1 DEF RequestOK, Serving
<1>3. Grows
  BY DEF Grows
<1> QED BY <1>2, <1>3, OneRequest

LEMMA BuyStartInv ==
  ASSUME IInv, NEW r \in Requests, NEW p \in Packages, BuyStart(r, p)
  PROVE  IInv'
<1> DEFINE row == [request[r] EXCEPT !.at = "buying", !.package = p]
<1>1. request[r] \in RequestRow /\ request[r].at \in Serving
  BY DEF BuyStart, Stage, Serving, IInv, TypeInv
<1>2. /\ row \in RequestRow /\ row.at = "buying" /\ row.user = request[r].user /\ row.package = p
      /\ row.wasRevoked = request[r].wasRevoked /\ row.wasBanned = request[r].wasBanned
  BY <1>1 DEF RequestRow, Stages
<1>3. request' = [request EXCEPT ![r] = row]
  BY <1>1 DEF BuyStart, IInv, TypeInv
<1> HIDE DEF row
<1>4. request' \in [Requests -> RequestRow] /\ RequestInv'
  BY <1>1, <1>2, <1>3, StillServed DEF BuyStart, Serving
<1> QED BY <1>4 DEF BuyStart, IInv, TypeInv, BlacklistInv, UserInv

LEMMA BuyLockInv ==
  ASSUME IInv, NEW r \in Requests, BuyLock(r)
  PROVE  IInv'
<1> DEFINE spins == balance[request[r].user].spins
           row == [request[r] EXCEPT !.at = "adding", !.seen = spins]
<1>1. request[r] \in RequestRow /\ request[r].at \in Serving
  BY DEF BuyLock, Stage, Serving, IInv, TypeInv
<1>2. request[r].user \in Emails /\ spins \in Nat /\ request[r].package \in Packages
  BY DEF BuyLock, Stage, IInv, TypeInv, RequestInv, RequestOK, Balance
<1>3. request' = [request EXCEPT ![r].at = "adding", ![r].seen = spins]
  BY DEF BuyLock
<1> HIDE DEF spins
<1>4. /\ row \in RequestRow /\ row.at = "adding" /\ row.user = request[r].user
      /\ row.package = request[r].package
      /\ row.wasRevoked = request[r].wasRevoked /\ row.wasBanned = request[r].wasBanned
  BY <1>1, <1>2 DEF RequestRow, Stages
<1>5. request' = [request EXCEPT ![r] = row]
  BY <1>1, <1>3 DEF IInv, TypeInv
<1> HIDE DEF row
<1>6. request' \in [Requests -> RequestRow] /\ RequestInv'
  BY <1>1, <1>2, <1>4, <1>5, StillServed DEF BuyLock, Serving
<1>7. rowLock' \in [Emails -> Requests \cup {Nobody}]
  BY DEF BuyLock, IInv, TypeInv
<1> QED BY <1>6, <1>7 DEF BuyLock, IInv, TypeInv, BlacklistInv, UserInv

LEMMA UnlockedType ==
  ASSUME IInv, NEW r \in Requests
  PROVE  Unlocked(r) \in [Emails -> Requests \cup {Nobody}]
BY DEF Unlocked, IInv, TypeInv

LEMMA BuyCommitInv ==
  ASSUME IInv, NEW r \in Requests, BuyCommit(r)
  PROVE  IInv'
<1> DEFINE e == request[r].user
           p == request[r].package
           more == request[r].seen + SpinsCount[p]
<1>1. e \in Emails /\ p \in Packages /\ request[r].seen \in Nat
  BY DEF BuyCommit, Stage, IInv, TypeInv, RequestInv, RequestOK, RequestRow
<1>2. Grows /\ End(r)
  BY DEF BuyCommit, Grows
<1>3. request' \in [Requests -> RequestRow] /\ RequestInv'
  BY <1>2, Ends
<1>4. rowLock' \in [Emails -> Requests \cup {Nobody}]
  BY UnlockedType DEF BuyCommit
<1>5. more \in Nat
  BY <1>1, PackagesAssumption
<1>6. balance' = [balance EXCEPT ![e].spins = more] /\ received' = [received EXCEPT ![e] = Append(@, p)]
  BY DEF BuyCommit
<1> HIDE DEF e, p, more
<1>7. balance' \in [Emails -> Balance]
  BY <1>1, <1>5, <1>6 DEF Balance, IInv, TypeInv
<1>8. received' \in [Emails -> Seq(Packages)]
  BY <1>1, <1>6 DEF IInv, TypeInv
<1> QED BY <1>3, <1>4, <1>7, <1>8 DEF BuyCommit, IInv, TypeInv, BlacklistInv, UserInv

\* A rollback leaves the balance and the packages of the user.
LEMMA BuyRollbackInv ==
  ASSUME IInv, NEW r \in Requests, BuyRollback(r)
  PROVE  IInv'
<1>1. Grows /\ End(r)
  BY DEF BuyRollback, Grows
<1>2. request' \in [Requests -> RequestRow] /\ RequestInv'
  BY <1>1, Ends
<1>3. rowLock' \in [Emails -> Requests \cup {Nobody}]
  BY UnlockedType DEF BuyRollback
<1> QED BY <1>2, <1>3 DEF BuyRollback, IInv, TypeInv, BlacklistInv, UserInv

LEMMA SpinsUsedInv ==
  ASSUME IInv, NEW e \in Emails, SpinsUsed(e)
  PROVE  IInv'
<1>1. balance[e] \in Balance
  BY DEF IInv, TypeInv
<1>2. \E b \in Balance : balance' = [balance EXCEPT ![e] = b]
  <2>1. CASE CanReserve(balance[e]) /\ balance' = [balance EXCEPT ![e] = ReserveSpin(@)]
    BY <1>1, <2>1, ReserveEffect
  <2>2. CASE balance' = [balance EXCEPT ![e] = ConfirmSpins(@, 1)]
    BY <1>1, <2>2, ConfirmEffect
  <2>3. CASE balance' = [balance EXCEPT ![e] = ReleaseSpins(@, 1)]
    BY <1>1, <2>3, ReleaseEffect
  <2> QED BY <2>1, <2>2, <2>3 DEF SpinsUsed
<1>3. balance' \in [Emails -> Balance]
  BY <1>2 DEF IInv, TypeInv
<1>4. Grows
  BY DEF SpinsUsed, Grows
<1>5. request' \in [Requests -> RequestRow] /\ RequestInv'
  BY <1>4, NoRequestMoves DEF SpinsUsed
<1> QED BY <1>3, <1>5 DEF SpinsUsed, IInv, TypeInv, BlacklistInv, UserInv

LEMMA UpdatePackageInv ==
  ASSUME IInv, NEW p \in Packages, UpdatePackage(p)
  PROVE  IInv'
<1>1. Grows
  BY DEF UpdatePackage, Grows
<1>2. request' \in [Requests -> RequestRow] /\ RequestInv'
  BY <1>1, NoRequestMoves DEF UpdatePackage
<1> QED BY <1>2 DEF UpdatePackage, IInv, TypeInv, BlacklistInv, UserInv

LEMMA SecondInv ==
  ASSUME IInv, Second
  PROVE  IInv'
<1>1. clock + 1 \in 0 .. MaxTime
  BY LivesAssumption DEF Second, IInv, TypeInv
<1>2. Grows
  BY DEF Second, Grows
<1>3. request' \in [Requests -> RequestRow] /\ RequestInv'
  BY <1>2, NoRequestMoves DEF Second
<1> QED BY <1>1, <1>3 DEF Second, IInv, TypeInv, BlacklistInv, UserInv

-----------------------------------------------------------------------------

LEMMA AccountsStep ==
  ASSUME IInv, [AccountsNext]_accountVars
  PROVE  IInv'
<1>1. ASSUME UNCHANGED accountVars PROVE IInv'
  BY <1>1 DEF accountVars, IInv, TypeInv, BlacklistInv, UserInv, RequestInv
<1>2. ASSUME NEW r \in Requests,
             \/ \E e \in Emails : RegisterStart(r, e) \/ LoginStart(r, e)
             \/ RegisterCommit(r) \/ LoginIssue(r)
      PROVE  IInv'
  BY <1>2, RegisterStartInv, LoginStartInv, RegisterCommitInv, LoginIssueInv
<1>3. ASSUME NEW r \in Requests, NEW token \in issued,
             RefreshStart(r, token) \/ CheckToken(r, token)
      PROVE  IInv'
  BY <1>3, RefreshStartInv, CheckTokenInv
<1>4. ASSUME NEW r \in Requests, NEW access \in issued, NEW refresh \in issued,
             LogoutStart(r, access, refresh)
      PROVE  IInv'
  BY <1>4, LogoutStartInv
<1>5. ASSUME NEW r \in Requests, RefreshIssue(r) \/ LogoutEnd(r) \/ ServeUser(r) \/ Answer(r)
      PROVE  IInv'
  <2>1. ASSUME LogoutEnd(r) PROVE request[r].other \in Token
    BY <2>1 DEF LogoutEnd, Stage, IInv, RequestInv, RequestOK
  <2> QED BY <1>5, <2>1, RefreshIssueInv, LogoutEndInv, ServeUserInv, AnswerInv
<1>6. ASSUME NEW r \in Requests,
             \/ \E p \in Packages : BuyStart(r, p)
             \/ BuyLock(r) \/ BuyCommit(r) \/ BuyRollback(r)
      PROVE  IInv'
  BY <1>6, BuyStartInv, BuyLockInv, BuyCommitInv, BuyRollbackInv
<1>7. ASSUME NEW token \in issued, ConfirmEmail(token) PROVE IInv'
  BY <1>7, ConfirmEmailInv
<1>8. ASSUME NEW e \in Emails, SpinsUsed(e) \/ Ban(e) PROVE IInv'
  BY <1>8, SpinsUsedInv, BanInv
<1>9. ASSUME NEW p \in Packages, UpdatePackage(p) PROVE IInv'
  BY <1>9, UpdatePackageInv
<1> QED BY <1>1, <1>2, <1>3, <1>4, <1>5, <1>6, <1>7, <1>8, <1>9, SecondInv DEF AccountsNext

\* The keys of the blacklist live as long as their tokens, and what each
\* request has been checked for stays true while it runs.
THEOREM AccountsInductive == AccountsSpec => []IInv
<1>1. IInv /\ [AccountsNext]_accountVars => IInv'
  BY AccountsStep
<1> QED BY <1>1, AccountsInitInv, PTL DEF AccountsSpec

\* The type invariant of the runs.
THEOREM AccountsTypes == AccountsSpec => []AccountsTypeOK
<1>1. IInv => AccountsTypeOK
  <2> SUFFICES ASSUME IInv PROVE AccountsTypeOK
    OBVIOUS
  <2>1. ASSUME NEW r \in Requests
        PROVE  /\ Stage(r) \in Stages
               /\ Stage(r) # "idle" /\ Stage(r) # "leaving" => request[r].user \in Emails
               /\ Stage(r) \in {"checked", "served", "refreshing"} => request[r].token \in issued
    BY DEF IInv, TypeInv, RequestInv, RequestOK, RequestRow, Stage
  <2>2. \A e \in Emails : received[e] \in Seq(Packages)
    BY DEF IInv, TypeInv
  <2>3. \A key \in blacklist : key.token \in Token /\ key.kind \in Kinds /\ key.until \in Nat
    BY DEF IInv, TypeInv, Key
  <2> QED BY <2>1, <2>2, <2>3 DEF IInv, TypeInv, UserRow, AccountsTypeOK
<1> QED BY <1>1, AccountsInductive, PTL

\* No request passes with a token whose revocation is in Redis.
THEOREM RevokedTokensStayOut == AccountsSpec => []RevokedStaysOut
<1>1. IInv => RevokedStaysOut
  BY DEF IInv, RequestInv, RequestOK, Serving, Stage, RevokedStaysOut
<1> QED BY <1>1, AccountsInductive, PTL

\* A banned user is not served by a request that comes after the ban.
THEOREM BannedUsersStayOut == AccountsSpec => []BannedStaysOut
<1>1. IInv => BannedStaysOut
  BY DEF IInv, RequestInv, RequestOK, Serving, Stage, BannedStaysOut
<1> QED BY <1>1, AccountsInductive, PTL

\* Only a user whose email was confirmed is served.
THEOREM ServedAreConfirmed == AccountsSpec => []OnlyConfirmedServed
<1>1. IInv => OnlyConfirmedServed
  BY DEF IInv, RequestInv, RequestOK, Serving, Stage, OnlyConfirmedServed
<1> QED BY <1>1, AccountsInductive, PTL

-----------------------------------------------------------------------------
(* The spins of a user                                                     *)

\* The spins of these packages.
Bought(packages) == FoldLeft(LAMBDA sum, p : sum + SpinsCount[p], 0, packages)

\* As a fold of numbers: package k adds its spins.
AddSpins(packages) ==
  [k \in 1 .. Len(packages) |-> [v \in Nat |-> v + SpinsCount[packages[k]]]]

IsSum(w, packages) == IsTrace(w, Len(packages), Nat, 0, AddSpins(packages))

LEMMA SumFold ==
  ASSUME NEW packages \in Seq(Packages)
  PROVE  /\ IsFold(Len(packages), Nat, 0, AddSpins(packages))
         /\ \A k \in 1 .. Len(packages), v \in Nat :
              AddSpins(packages)[k][v] = v + SpinsCount[packages[k]]
<1>1. Len(packages) \in Nat /\ \A k \in 1 .. Len(packages) : SpinsCount[packages[k]] \in Nat
  BY PackagesAssumption
<1> QED BY <1>1 DEF IsFold, AddSpins

\* A trace adds up the spins one package at a time, and Bought is its end.
LEMMA BoughtIsSum ==
  ASSUME NEW packages \in Seq(Packages), NEW w, IsSum(w, packages)
  PROVE  Bought(packages) = w[Len(packages)]
<1> DEFINE n == Len(packages)
           h == AddSpins(packages)
           Eq(iter) == iter = [t \in SUBSET DOMAIN packages |->
                         IF t = {} THEN 0
                         ELSE iter[t \ {Max(t)}] + SpinsCount[packages[Max(t)]]]
           chosen == CHOOSE iter : Eq(iter)
<1>1. n \in Nat /\ DOMAIN packages = 1 .. n
  OBVIOUS
<1>2. Bought(packages) = chosen[DOMAIN packages]
  BY DEF Bought, FoldLeft, MapThenFoldSet
<1>3. \E iter : Eq(iter)
  <2>1. PICK iter : IsIter(iter, n, Nat, 0, h)
    BY SumFold, IterExists
  <2>2. ASSUME NEW t \in SUBSET (1 .. n), t # {}
        PROVE  iter[t] = iter[t \ {Max(t)}] + SpinsCount[packages[Max(t)]]
    <3>1. Max(t) \in t
      BY <1>1, <2>2, GreatestPosition
    <3>2. Max(t) \in 1 .. n /\ iter[t \ {Max(t)}] \in Nat
      BY <2>1, <3>1 DEF IsIter
    <3>3. iter[t] = h[Max(t)][iter[t \ {Max(t)}]]
      BY <2>1, <2>2 DEF IsIter
    <3> QED BY <3>2, <3>3, SumFold
  <2>3. iter \in [SUBSET (1 .. n) -> Nat] /\ iter[{}] = 0
    BY <2>1 DEF IsIter
  <2> QED BY <1>1, <2>2, <2>3
<1>4. Eq(chosen)
  <2> HIDE DEF Eq
  <2> QED BY <1>3
<1>5. chosen[{}] = w[0]
  BY <1>4 DEF IsSum, IsTrace
<1>6. ASSUME NEW k \in 1 .. n, chosen[1 .. k - 1] = w[k - 1]
      PROVE  chosen[1 .. k] = w[k]
  <2>1. 1 .. k # {} /\ Max(1 .. k) = k /\ (1 .. k) \ {k} = 1 .. k - 1
    BY <1>1, LastPosition
  <2>2. chosen[1 .. k] = chosen[1 .. k - 1] + SpinsCount[packages[k]]
    <3>1. 1 .. k \in SUBSET DOMAIN packages
      BY <1>1
    <3> HIDE DEF chosen
    <3> QED BY <1>4, <2>1, <3>1
  <2>3. w[k - 1] \in Nat /\ w[k] = h[k][w[k - 1]]
    BY <1>1 DEF IsSum, IsTrace
  <2> QED BY <1>6, <2>2, <2>3, SumFold
<1> HIDE DEF chosen
<1>7. chosen[1 .. n] = w[n]
  BY <1>1, <1>5, <1>6, IterFollows
<1> QED BY <1>1, <1>2, <1>7

\* A user without packages has no spins, and each package adds its own.
LEMMA BoughtNone == Bought(<<>>) = 0
<1>1. <<>> \in Seq(Packages) /\ Len(<<>>) = 0
  OBVIOUS
<1>2. PICK w : IsSum(w, <<>>)
  BY <1>1, SumFold, TraceExists DEF IsSum
<1>3. w[0] = 0
  BY <1>2 DEF IsSum, IsTrace
<1> QED BY <1>1, <1>2, <1>3, BoughtIsSum

LEMMA BoughtMore ==
  ASSUME NEW packages \in Seq(Packages), NEW p \in Packages
  PROVE  /\ Bought(packages) \in Nat
         /\ Bought(Append(packages, p)) = Bought(packages) + SpinsCount[p]
<1> DEFINE n == Len(packages)
           more == Append(packages, p)
<1>1. n \in Nat /\ more \in Seq(Packages) /\ Len(more) = n + 1 /\ more[n + 1] = p
      /\ \A k \in 1 .. n : more[k] = packages[k]
  OBVIOUS
<1>2. PICK v : IsSum(v, packages)
  BY SumFold, TraceExists DEF IsSum
<1> HIDE DEF more, n
<1>3. PICK w : IsSum(w, more)
  BY <1>1, SumFold, TraceExists DEF IsSum
<1>4. /\ v[0] = 0 /\ v \in [0 .. n -> Nat]
      /\ \A k \in 1 .. n : v[k] = AddSpins(packages)[k][v[k - 1]]
  BY <1>2 DEF IsSum, IsTrace, n
<1>5. /\ w[0] = 0 /\ w \in [0 .. n + 1 -> Nat]
      /\ \A k \in 1 .. n + 1 : w[k] = AddSpins(more)[k][w[k - 1]]
  BY <1>1, <1>3 DEF IsSum, IsTrace
<1>6. ASSUME NEW k \in 1 .. n, v[k - 1] = w[k - 1] PROVE v[k] = w[k]
  <2>1. k - 1 \in 0 .. n /\ k \in 1 .. n + 1 /\ v[k - 1] \in Nat
    BY <1>1, <1>4
  <2>2. AddSpins(packages)[k][v[k - 1]] = v[k - 1] + SpinsCount[packages[k]]
    BY <2>1, SumFold DEF n
  <2>3. AddSpins(more)[k][v[k - 1]] = v[k - 1] + SpinsCount[more[k]]
    BY <1>1, <2>1, SumFold
  <2>4. v[k] = AddSpins(packages)[k][v[k - 1]] /\ w[k] = AddSpins(more)[k][w[k - 1]]
    BY <1>4, <1>5, <2>1
  <2> QED BY <1>1, <1>6, <2>2, <2>3, <2>4
<1>7. v[n] = w[n]
  <2>1. v[0] = w[0]
    BY <1>4, <1>5
  <2>2. \A k \in 1 .. n : v[k - 1] = w[k - 1] => v[k] = w[k]
    BY <1>6
  <2>3. n \in Nat
    BY <1>1
  <2>4. \A k \in 0 .. n : v[k] = w[k]
    BY <2>1, <2>2, <2>3, TraceUnique
  <2> QED BY <1>1, <2>4
<1>8. w[n + 1] = w[n] + SpinsCount[p]
  <2>1. n \in 0 .. n + 1 /\ n + 1 \in 1 .. n + 1 /\ (n + 1) - 1 = n /\ w[n] \in Nat
    BY <1>1, <1>5
  <2>2. w[n + 1] = AddSpins(more)[n + 1][w[n]]
    BY <1>5, <2>1
  <2> QED BY <1>1, <2>1, <2>2, SumFold
<1>9. Bought(packages) = v[n] /\ Bought(more) = w[n + 1] /\ v[n] \in Nat
  BY <1>1, <1>2, <1>3, <1>4, BoughtIsSum DEF n
<1> QED BY <1>7, <1>8, <1>9 DEF more

SpinsOf(b) == b.spins + b.reserved + b.confirmed

\* The row lock is what makes SpinsAreBought inductive: from the read of a
\* balance to the commit its row is locked, and the balance is what was read.
\* A user who has no row yet, and gets an empty balance with it, has no package.
SpinInv ==
  /\ \A e \in Emails : SpinsOf(balance[e]) = Bought(received[e])
  /\ \A e \in Emails : ~users[e].row => received[e] = <<>>
  /\ \A r \in Requests : request[r].at = "adding" =>
       /\ rowLock[request[r].user] = r
       /\ request[r].seen = balance[request[r].user].spins

LEMMA SpinInitInv == AccountsInit => SpinInv
<1> SUFFICES ASSUME AccountsInit PROVE SpinInv
  OBVIOUS
<1>1. SpinsOf(NewBalance(0)) = 0
  BY DEF NewBalance, SpinsOf
<1> QED BY <1>1, BoughtNone, NoRequestType DEF AccountsInit, SpinInv

\* A request that adds has a confirmed user, so a user with a row.
LEMMA AddingUser ==
  ASSUME IInv, NEW r \in Requests, request[r].at = "adding"
  PROVE  request[r].user \in Emails /\ users[request[r].user].row
         /\ request[r].package \in Packages
BY DEF IInv, UserInv, RequestInv, RequestOK, Serving

\* Steps of a request that do not add spins, with the end of a transaction
\* among them.
LEMMA KeepsSpins ==
  ASSUME IInv, SpinInv, NEW r \in Requests,
         \A s \in Requests \ {r} : request'[s] = request[s], request'[r].at # "adding",
         UNCHANGED <<balance, received>>, UNCHANGED rowLock \/ rowLock' = Unlocked(r),
         \A e \in Emails : users[e].row => users'[e].row
  PROVE  SpinInv'
<1>1. ASSUME NEW s \in Requests, request'[s].at = "adding"
      PROVE  /\ rowLock'[request'[s].user] = s
             /\ request'[s].seen = balance'[request'[s].user].spins
  <2>1. s # r /\ request'[s] = request[s]
    BY <1>1
  <2>2. rowLock[request[s].user] = s /\ request[s].user \in Emails
    BY <1>1, <2>1, AddingUser DEF SpinInv
  <2>3. rowLock'[request[s].user] = s
    BY <2>1, <2>2 DEF Unlocked
  <2> QED BY <1>1, <2>1, <2>3 DEF SpinInv
<1> QED BY <1>1 DEF SpinInv

\* Steps without a request that leave balances and packages alone.
LEMMA NothingMoves ==
  ASSUME SpinInv, UNCHANGED <<balance, received, request, rowLock>>,
         \A e \in Emails : users[e].row => users'[e].row
  PROVE  SpinInv'
BY DEF SpinInv

\* What End does, and what an update of the fields of a request does.
LEMMA EndEffect ==
  ASSUME IInv, NEW r \in Requests, End(r)
  PROVE  /\ \A s \in Requests \ {r} : request'[s] = request[s]
         /\ request'[r].at = "idle"
BY NoRequestType DEF End, IInv, TypeInv

\* A user gets the row and an empty balance together.
LEMMA RegisterCommitSpins ==
  ASSUME IInv, SpinInv, NEW r \in Requests, RegisterCommit(r)
  PROVE  SpinInv'
<1> DEFINE e == request[r].user
<1>1. e \in Emails /\ UNCHANGED <<rowLock, received>> /\ End(r)
  BY DEF RegisterCommit, Stage, IInv, RequestInv, RequestOK
<1>2. \A s \in Requests \ {r} : request'[s] = request[s]
  BY <1>1, EndEffect
<1>3. request'[r].at # "adding"
  BY <1>1, EndEffect
<1>4. CASE users[e].row
  BY <1>1, <1>2, <1>3, <1>4, KeepsSpins DEF RegisterCommit
<1>5. CASE ~users[e].row
  <2>1. balance' = [balance EXCEPT ![e] = NewBalance(0)]
        /\ users' = [users EXCEPT ![e] = [NoUser EXCEPT !.row = TRUE]]
    BY <1>5 DEF RegisterCommit
  <2> HIDE DEF e
  <2>2. \A f \in Emails : balance'[f] = IF f = e THEN NewBalance(0) ELSE balance[f]
    BY <2>1 DEF IInv, TypeInv
  <2>3. \A f \in Emails : ~users'[f].row => ~users[f].row
    BY <1>5, <2>1 DEF IInv, TypeInv
  <2>4. SpinsOf(NewBalance(0)) = Bought(received[e])
    <3>1. SpinsOf(NewBalance(0)) = 0
      BY DEF NewBalance, SpinsOf
    <3> QED BY <1>1, <1>5, <3>1, BoughtNone DEF SpinInv
  <2>5. ASSUME NEW s \in Requests, request'[s].at = "adding"
        PROVE  /\ rowLock'[request'[s].user] = s
               /\ request'[s].seen = balance'[request'[s].user].spins
    <3>1. s # r /\ request'[s] = request[s]
      BY <1>2, <1>3, <2>5
    <3>2. request[s].user \in Emails /\ request[s].user # e
      BY <1>5, <2>5, <3>1, AddingUser
    <3> QED BY <1>1, <2>2, <2>5, <3>1, <3>2 DEF SpinInv
  <2>6. \A f \in Emails : SpinsOf(balance'[f]) = Bought(received'[f])
    BY <1>1, <2>2, <2>4 DEF SpinInv
  <2>7. \A f \in Emails : ~users'[f].row => received'[f] = <<>>
    BY <1>1, <2>3 DEF SpinInv
  <2> QED BY <2>5, <2>6, <2>7 DEF SpinInv
<1> QED BY <1>4, <1>5

\* The balance that is read is locked.
LEMMA BuyLockSpins ==
  ASSUME IInv, SpinInv, NEW r \in Requests, BuyLock(r)
  PROVE  SpinInv'
<1> DEFINE e == request[r].user
           spins == balance[e].spins
<1>1. e \in Emails /\ rowLock[e] = Nobody /\ rowLock' = [rowLock EXCEPT ![e] = r]
  BY DEF BuyLock, Stage, IInv, RequestInv, RequestOK
<1>2. request' = [request EXCEPT ![r].at = "adding", ![r].seen = spins]
  BY DEF BuyLock
<1>3. UNCHANGED <<balance, received, users>>
  BY DEF BuyLock
<1> HIDE DEF spins
<1>4. /\ request'[r].seen = spins /\ request'[r].user = request[r].user
      /\ \A s \in Requests \ {r} : request'[s] = request[s]
  BY <1>2 DEF IInv, TypeInv, RequestRow
<1>5. \A f \in Emails : rowLock'[f] = IF f = e THEN r ELSE rowLock[f]
  BY <1>1 DEF IInv, TypeInv
<1>6. ASSUME NEW s \in Requests, request'[s].at = "adding"
      PROVE  /\ rowLock'[request'[s].user] = s
             /\ request'[s].seen = balance'[request'[s].user].spins
  <2>1. CASE s = r
    BY <1>1, <1>3, <1>4, <1>5, <2>1 DEF spins
  <2>2. CASE s # r
    <3>1. request'[s] = request[s] /\ request[s].user \in Emails
      BY <1>4, <1>6, <2>2, AddingUser
    <3>2. rowLock[request[s].user] = s /\ request[s].seen = balance[request[s].user].spins
      BY <1>6, <3>1 DEF SpinInv
    <3>3. request[s].user # e
      BY <1>1, <3>2, NobodyIsNoRequest
    <3> QED BY <1>3, <1>5, <3>1, <3>2, <3>3
  <2> QED BY <2>1, <2>2
<1> QED BY <1>3, <1>6 DEF SpinInv

\* The commit adds to the balance that was read, which is still the balance.
LEMMA BuyCommitSpins ==
  ASSUME IInv, SpinInv, NEW r \in Requests, BuyCommit(r)
  PROVE  SpinInv'
<1> DEFINE e == request[r].user
           p == request[r].package
           more == request[r].seen + SpinsCount[p]
<1>1. /\ e \in Emails /\ p \in Packages /\ users[e].row
      /\ rowLock[e] = r /\ request[r].seen = balance[e].spins
  BY AddingUser DEF BuyCommit, Stage, SpinInv
<1>2. /\ balance' = [balance EXCEPT ![e].spins = more]
      /\ received' = [received EXCEPT ![e] = Append(@, p)]
      /\ rowLock' = Unlocked(r) /\ End(r) /\ UNCHANGED users
  BY DEF BuyCommit
<1>3. balance[e] \in Balance /\ received[e] \in Seq(Packages) /\ SpinsCount[p] \in Nat
  BY <1>1, PackagesAssumption DEF IInv, TypeInv
<1>4. more = balance[e].spins + SpinsCount[p]
  BY <1>1
<1> HIDE DEF more
<1>5. \A f \in Emails :
        /\ balance'[f] = IF f = e THEN [balance[e] EXCEPT !.spins = more] ELSE balance[f]
        /\ received'[f] = IF f = e THEN Append(received[e], p) ELSE received[f]
  BY <1>1, <1>2 DEF IInv, TypeInv
<1> HIDE DEF e, p
<1>6. SpinsOf(balance'[e]) = Bought(received'[e])
  <2>1. SpinsOf([balance[e] EXCEPT !.spins = more]) = SpinsOf(balance[e]) + SpinsCount[p]
    BY <1>3, <1>4 DEF SpinsOf, Balance
  <2>2. SpinsOf(balance[e]) = Bought(received[e])
    BY <1>1 DEF SpinInv
  <2>3. Bought(Append(received[e], p)) = Bought(received[e]) + SpinsCount[p]
    BY <1>1, <1>3, BoughtMore
  <2> QED BY <1>1, <1>5, <2>1, <2>2, <2>3
<1>7. ASSUME NEW s \in Requests, request'[s].at = "adding"
      PROVE  /\ rowLock'[request'[s].user] = s
             /\ request'[s].seen = balance'[request'[s].user].spins
  <2>1. s # r /\ request'[s] = request[s]
    BY <1>2, <1>7, EndEffect
  <2>2. rowLock[request[s].user] = s /\ request[s].user \in Emails
    BY <1>7, <2>1, AddingUser DEF SpinInv
  <2>3. rowLock'[request[s].user] = s /\ request[s].user # e
    BY <1>1, <1>2, <2>1, <2>2 DEF Unlocked
  <2> QED BY <1>5, <1>7, <2>1, <2>2, <2>3 DEF SpinInv
<1>8. \A f \in Emails : SpinsOf(balance'[f]) = Bought(received'[f])
  BY <1>5, <1>6 DEF SpinInv
<1>9. \A f \in Emails : ~users'[f].row => received'[f] = <<>>
  BY <1>1, <1>2, <1>5 DEF SpinInv
<1> QED BY <1>7, <1>8, <1>9 DEF SpinInv

\* An analysis moves spins of a balance that no purchase has read.
LEMMA SpinsUsedSpins ==
  ASSUME IInv, SpinInv, NEW e \in Emails, SpinsUsed(e)
  PROVE  SpinInv'
<1>1. balance[e] \in Balance /\ rowLock[e] = Nobody
  BY DEF SpinsUsed, IInv, TypeInv
<1>2. \E b \in Balance : SpinsOf(b) = SpinsOf(balance[e]) /\ balance' = [balance EXCEPT ![e] = b]
  <2>0. balance[e].reserved > 0 => 1 <= balance[e].reserved
    BY <1>1 DEF Balance
  <2>1. CASE CanReserve(balance[e]) /\ balance' = [balance EXCEPT ![e] = ReserveSpin(@)]
    <3> DEFINE b == ReserveSpin(balance[e])
    <3>1. /\ b \in Balance /\ b.spins = balance[e].spins - 1
          /\ b.reserved = balance[e].reserved + 1 /\ b.confirmed = balance[e].confirmed
      BY <1>1, <2>1, ReserveEffect
    <3> HIDE DEF b
    <3>2. SpinsOf(b) = SpinsOf(balance[e])
      BY <1>1, <3>1 DEF SpinsOf, Balance
    <3> QED BY <2>1, <3>1, <3>2 DEF b
  <2>2. CASE balance[e].reserved > 0 /\ balance' = [balance EXCEPT ![e] = ConfirmSpins(@, 1)]
    <3> DEFINE b == ConfirmSpins(balance[e], 1)
    <3>1. /\ b \in Balance /\ b.spins = balance[e].spins
          /\ b.reserved = balance[e].reserved - 1 /\ b.confirmed = balance[e].confirmed + 1
      BY <1>1, <2>0, <2>2, ConfirmEffect
    <3> HIDE DEF b
    <3>2. SpinsOf(b) = SpinsOf(balance[e])
      BY <1>1, <3>1 DEF SpinsOf, Balance
    <3> QED BY <2>2, <3>1, <3>2 DEF b
  <2>3. CASE balance[e].reserved > 0 /\ balance' = [balance EXCEPT ![e] = ReleaseSpins(@, 1)]
    <3> DEFINE b == ReleaseSpins(balance[e], 1)
    <3>1. /\ b \in Balance /\ b.spins = balance[e].spins + 1
          /\ b.reserved = balance[e].reserved - 1 /\ b.confirmed = balance[e].confirmed
      BY <1>1, <2>0, <2>3, ReleaseEffect
    <3> HIDE DEF b
    <3>2. SpinsOf(b) = SpinsOf(balance[e])
      BY <1>1, <3>1 DEF SpinsOf, Balance
    <3> QED BY <2>3, <3>1, <3>2 DEF b
  <2> QED BY <2>1, <2>2, <2>3 DEF SpinsUsed
<1>3. PICK b \in Balance :
        SpinsOf(b) = SpinsOf(balance[e]) /\ balance' = [balance EXCEPT ![e] = b]
  BY <1>2
<1>4. \A f \in Emails : balance'[f] = IF f = e THEN b ELSE balance[f]
  BY <1>3 DEF IInv, TypeInv
<1>5. UNCHANGED <<users, rowLock, received, request>>
  BY DEF SpinsUsed
<1>6. ASSUME NEW s \in Requests, request[s].at = "adding"
      PROVE  request[s].seen = balance'[request[s].user].spins
  <2>1. request[s].user \in Emails /\ rowLock[request[s].user] = s
    BY <1>6, AddingUser DEF SpinInv
  <2>2. request[s].user # e
    BY <1>1, <2>1, NobodyIsNoRequest
  <2> QED BY <1>4, <1>6, <2>1, <2>2 DEF SpinInv
<1>7. \A f \in Emails : SpinsOf(balance'[f]) = Bought(received[f])
  BY <1>3, <1>4 DEF SpinInv
<1> QED BY <1>5, <1>6, <1>7 DEF SpinInv

\* The steps of a request that read, or end without a purchase.
LEMMA OtherRequestSteps ==
  ASSUME IInv, SpinInv, NEW r \in Requests,
         \/ \E e \in Emails : RegisterStart(r, e) \/ LoginStart(r, e)
         \/ \E token \in issued : RefreshStart(r, token) \/ CheckToken(r, token)
         \/ \E access, refresh \in issued : LogoutStart(r, access, refresh)
         \/ \E p \in Packages : BuyStart(r, p)
         \/ LoginIssue(r) \/ RefreshIssue(r) \/ LogoutEnd(r)
         \/ ServeUser(r) \/ Answer(r) \/ BuyRollback(r)
  PROVE  SpinInv'
<1> DEFINE Moves == /\ \A s \in Requests \ {r} : request'[s] = request[s]
                    /\ request'[r].at # "adding"
           Rest == /\ UNCHANGED <<balance, received, users>>
                   /\ UNCHANGED rowLock \/ rowLock' = Unlocked(r)
<1>0. request \in [Requests -> RequestRow]
  BY DEF IInv, TypeInv
<1>1. ASSUME NEW e \in Emails, RegisterStart(r, e) \/ LoginStart(r, e)
      PROVE  Moves /\ Rest
  BY <1>0, <1>1 DEF RegisterStart, LoginStart, RequestRow
<1>2. ASSUME NEW token \in issued, RefreshStart(r, token) PROVE Moves /\ Rest
  <2> DEFINE was == Revoked(token)
  <2>1. request' = [request EXCEPT ![r].at = "refreshing", ![r].token = token,
                                   ![r].user = token.sub, ![r].wasRevoked = was]
    BY <1>2 DEF RefreshStart
  <2> HIDE DEF was
  <2>2. Moves
    BY <1>0, <2>1 DEF RequestRow
  <2> QED BY <1>2, <2>2 DEF RefreshStart
<1>3. ASSUME NEW token \in issued, CheckToken(r, token) PROVE Moves /\ Rest
  <2> DEFINE was == Revoked(token)
  <2>1. request' = [request EXCEPT ![r] =
          [NoRequest EXCEPT !.at = "checked", !.token = token, !.user = token.sub,
                            !.wasRevoked = was, !.wasBanned = users[token.sub].banned]]
    BY <1>3 DEF CheckToken
  <2> HIDE DEF was
  <2>2. Moves
    BY <1>0, <2>1, NoRequestType DEF RequestRow
  <2> QED BY <1>3, <2>2 DEF CheckToken
<1>4. ASSUME NEW access \in issued, NEW refresh \in issued, LogoutStart(r, access, refresh)
      PROVE  Moves /\ Rest
  BY <1>0, <1>4 DEF LogoutStart, RequestRow
<1>5. ASSUME NEW p \in Packages, BuyStart(r, p) PROVE Moves /\ Rest
  BY <1>0, <1>5 DEF BuyStart, RequestRow
<1>6. ASSUME LoginIssue(r) \/ RefreshIssue(r) \/ LogoutEnd(r) \/ Answer(r) \/ BuyRollback(r)
      PROVE  Moves /\ Rest
  <2>1. End(r) /\ Rest
    BY <1>6 DEF LoginIssue, RefreshIssue, LogoutEnd, Answer, BuyRollback
  <2>2. Moves
    BY <2>1, EndEffect
  <2> QED BY <2>1, <2>2
<1>7. ASSUME ServeUser(r) PROVE Moves /\ Rest
  <2>1. ASSUME End(r) PROVE Moves
    BY <2>1, EndEffect
  <2>2. ASSUME request' = [request EXCEPT ![r].at = "served"] PROVE Moves
    BY <1>0, <2>2 DEF RequestRow
  <2>3. Rest
    BY <1>7 DEF ServeUser
  <2>4. Moves
    BY <1>7, <2>1, <2>2 DEF ServeUser
  <2> QED BY <2>3, <2>4
<1>8. Moves /\ Rest
  <2> HIDE DEF Moves, Rest
  <2> QED BY <1>1, <1>2, <1>3, <1>4, <1>5, <1>6, <1>7
<1> QED BY <1>8, KeepsSpins

\* The steps without a request: flags are set on rows that are there.
LEMMA OtherSteps ==
  ASSUME IInv, SpinInv,
         \/ \E token \in issued : ConfirmEmail(token)
         \/ \E e \in Emails : Ban(e)
         \/ \E p \in Packages : UpdatePackage(p)
         \/ Second
         \/ UNCHANGED accountVars
  PROVE  SpinInv'
<1>0. users \in [Emails -> UserRow] /\ \A t \in issued : t.sub \in Emails
  BY DEF IInv, TypeInv, Token
<1>1. ASSUME NEW token \in issued, ConfirmEmail(token) PROVE SpinInv'
  <2>1. \A e \in Emails : users[e].row => users'[e].row
    BY <1>0, <1>1 DEF ConfirmEmail, UserRow
  <2> QED BY <1>1, <2>1, NothingMoves DEF ConfirmEmail
<1>2. ASSUME NEW e \in Emails, Ban(e) PROVE SpinInv'
  <2>1. \A f \in Emails : users[f].row => users'[f].row
    BY <1>0, <1>2 DEF Ban, UserRow
  <2> QED BY <1>2, <2>1, NothingMoves DEF Ban
<1>3. ASSUME NEW p \in Packages, UpdatePackage(p) PROVE SpinInv'
  BY <1>3, NothingMoves DEF UpdatePackage
<1>4. CASE Second
  BY <1>4, NothingMoves DEF Second
<1>5. CASE UNCHANGED accountVars
  BY <1>5, NothingMoves DEF accountVars
<1> QED BY <1>1, <1>2, <1>3, <1>4, <1>5

LEMMA SpinStep ==
  ASSUME IInv, SpinInv, [AccountsNext]_accountVars
  PROVE  SpinInv'
<1>1. ASSUME NEW r \in Requests, RegisterCommit(r) \/ BuyLock(r) \/ BuyCommit(r)
      PROVE  SpinInv'
  BY <1>1, RegisterCommitSpins, BuyLockSpins, BuyCommitSpins
<1>2. ASSUME NEW r \in Requests,
             \/ \E e \in Emails : RegisterStart(r, e) \/ LoginStart(r, e)
             \/ \E token \in issued : RefreshStart(r, token) \/ CheckToken(r, token)
             \/ \E access, refresh \in issued : LogoutStart(r, access, refresh)
             \/ \E p \in Packages : BuyStart(r, p)
             \/ LoginIssue(r) \/ RefreshIssue(r) \/ LogoutEnd(r)
             \/ ServeUser(r) \/ Answer(r) \/ BuyRollback(r)
      PROVE  SpinInv'
  BY <1>2, OtherRequestSteps
<1>3. ASSUME NEW e \in Emails, SpinsUsed(e) PROVE SpinInv'
  BY <1>3, SpinsUsedSpins
<1>4. CASE \/ \E token \in issued : ConfirmEmail(token)
           \/ \E e \in Emails : Ban(e)
           \/ \E p \in Packages : UpdatePackage(p)
           \/ Second
           \/ UNCHANGED accountVars
  BY <1>4, OtherSteps
<1> QED BY <1>1, <1>2, <1>3, <1>4 DEF AccountsNext

\* Every spin of a user is from a package, and every package gave its spins,
\* however purchases and analyses interleave, fail or roll back.
THEOREM EverySpinIsBought == AccountsSpec => []SpinsAreBought
<1>1. IInv /\ SpinInv /\ [AccountsNext]_accountVars => SpinInv'
  BY SpinStep
<1>2. SpinInv => SpinsAreBought
  BY DEF SpinInv, SpinsAreBought, SpinsOf, Bought
<1> QED BY <1>1, <1>2, SpinInitInv, AccountsInductive, PTL DEF AccountsSpec
=============================================================================
