----------------------- MODULE SelectionContract_proofs ----------------------
(***************************************************************************)
(* What the request lock adds: while Redis is up, each user has one        *)
(* request at a time per link, so what a request decided on is still so    *)
(* when it reserves, the ledger is exact, and the contract is kept.        *)
(***************************************************************************)
EXTENDS SelectionFlow_proofs

\* The lock of an active request is in Redis, and is the lock of no other.
OneRequestPerLink ==
  /\ \A u \in Users, c \in Clicks : Active(u, c) =>
       req[u][c].locked /\ req[u][c].link \in Links /\ <<u, req[u][c].link>> \in reqLock
  /\ \A u \in Users, c, d \in Clicks :
       Active(u, c) /\ Active(u, d) /\ req[u][c].link = req[u][d].link => c = d

LEMMA LockReply ==
  ASSUME TypeOK, OneRequestPerLink, NEW u \in Users, NEW c \in Clicks, Active(u, c), Reply(u, c)
  PROVE  OneRequestPerLink'
<1>1. /\ \A v \in Users, d \in Clicks : v # u \/ d # c => req'[v][d] = req[v][d]
      /\ req'[u][c].pc = "idle"
  BY ReplyEffect
<1>2. reqLock' = reqLock \ {<<u, req[u][c].link>>}
  BY DEF Reply, OneRequestPerLink
<1>3. ASSUME NEW v \in Users, NEW d \in Clicks, Active(v, d)'
      PROVE  /\ Active(v, d) /\ req'[v][d] = req[v][d]
             /\ <<v, req[v][d].link>> # <<u, req[u][c].link>>
  BY <1>1, <1>3 DEF Active, OneRequestPerLink
<1> QED BY <1>2, <1>3 DEF OneRequestPerLink, Active

LEMMA LockGoto ==
  ASSUME TypeOK, OneRequestPerLink, NEW u \in Users, NEW c \in Clicks, Active(u, c),
         NEW pc, NEW s, Goto(u, c, pc, s), UNCHANGED reqLock
  PROVE  OneRequestPerLink'
<1>1. \A v \in Users, d \in Clicks :
        /\ req'[v][d].link = req[v][d].link /\ req'[v][d].locked = req[v][d].locked
        /\ Active(v, d)' => Active(v, d)
  BY GotoEffect DEF Active
<1> QED BY <1>1 DEF OneRequestPerLink

LEMMA LockStep ==
  ASSUME ~RedisMayFail, TypeOK, OneRequestPerLink, [Next]_vars
  PROVE  OneRequestPerLink'
<1>1. ASSUME NEW u \in Users, NEW c \in Clicks, NEW l \in Links, ReqArrive(u, c, l)
      PROVE  OneRequestPerLink'
  <2>1. /\ \A v \in Users, d \in Clicks : v # u \/ d # c => req'[v][d] = req[v][d]
        /\ req'[u][c].link = l
    BY <1>1, ArriveEffect
  <2>2. /\ <<u, l>> \notin reqLock /\ reqLock' = reqLock \cup {<<u, l>>}
        /\ req'[u][c].locked
    BY <1>1 DEF ReqArrive, TypeOK
  <2> QED BY <2>1, <2>2 DEF OneRequestPerLink, Active
<1>2. ASSUME NEW u \in Users, NEW c \in Clicks, ReqLookup(u, c)
      PROVE  OneRequestPerLink'
  <2>1. Active(u, c)
    BY <1>2 DEF ReqLookup, Active
  <2>2. Reply(u, c) \/ \E pc, s : Goto(u, c, pc, s) /\ UNCHANGED reqLock
    BY <1>2 DEF ReqLookup
  <2> QED BY <2>1, <2>2, LockReply, LockGoto
<1>3. ASSUME NEW u \in Users, NEW c \in Clicks,
             ReqRefused(u, c) \/ ReqBuy(u, c) \/ ReqJoin(u, c) \/ ReqPublish(u, c)
      PROVE  OneRequestPerLink'
  <2>1. Active(u, c) /\ Reply(u, c)
    BY <1>3 DEF ReqRefused, ReqBuy, ReqJoin, ReqPublish, Active
  <2> QED BY <2>1, LockReply
<1>4. ASSUME NEW u \in Users, NEW c \in Clicks, ReqCreate(u, c)
      PROVE  OneRequestPerLink'
  <2>1. Active(u, c) /\ UNCHANGED reqLock /\ \E s : Goto(u, c, "publish", s)
    BY <1>4 DEF ReqCreate, CreateSelection, Active
  <2> QED BY <2>1, LockGoto
<1>5. ASSUME NEW u \in Users, NEW c \in Clicks, ReqCrash(u, c)
      PROVE  OneRequestPerLink'
  BY <1>5 DEF ReqCrash, IdleRequest, OneRequestPerLink, Active, TypeOK
<1>6. ASSUME NEW u \in Users, NEW l \in Links, ReqLockExpires(u, l)
      PROVE  OneRequestPerLink'
  BY <1>6 DEF ReqLockExpires, OneRequestPerLink, Active
<1>7. CASE Generation \/ BeatTask \/ (\E s \in Selections : GenLockExpires(s) \/ GoesQuiet(s))
  <2>1. UNCHANGED <<req, reqLock>>
    BY <1>7 DEF Generation, GenTake, GenSkip, GenStart, GenSaveStep, GenFinish, GenGiveUp,
       GenRetry, GenCrash, GenLost, BeatTask, BeatScan, BeatPublish, BeatCommit, BeatCrash,
       GenLockExpires, GoesQuiet
  <2> QED BY <2>1 DEF OneRequestPerLink, Active
<1>8. CASE UNCHANGED vars
  BY <1>8 DEF vars, OneRequestPerLink, Active
<1>9. \A u \in Users, c \in Clicks, l \in Links : ~ReqArriveUnlocked(u, c, l)
  BY DEF ReqArriveUnlocked
<1> QED
  BY <1>1, <1>2, <1>3, <1>4, <1>5, <1>6, <1>7, <1>8, <1>9 DEF Next, Orchestrator, RequestStep, Clock

-----------------------------------------------------------------------------
(* What a request decided on                                               *)

\* The selection a request is about to buy or to join exists, has the link
\* of the request, and is not attached to the user yet; an unused
\* selection id has no link and no user.
Decisions ==
  /\ \A u \in Users, c \in Clicks : req[u][c].pc \in {"buy", "join"} =>
       LET s == req[u][c].sel IN
       s \notin attached[u] /\ linkOf[s] = req[u][c].link /\ status[s] # "none"
  /\ \A s \in Selections : status[s] = "none" =>
       linkOf[s] = NoLink /\ \A u \in Users : s \notin attached[u]

LEMMA DecisionsReply ==
  ASSUME TypeOK, Decisions, NEW u \in Users, NEW c \in Clicks, Reply(u, c),
         UNCHANGED <<status, linkOf, attached>>
  PROVE  Decisions'
BY ReplyEffect DEF Decisions

\* The user gets attached to the selection of the request that ends.
LEMMA DecisionsAttach ==
  ASSUME TypeOK, OneRequestPerLink, Decisions, NEW u \in Users, NEW c \in Clicks,
         req[u][c].pc \in {"buy", "join"}, Reply(u, c),
         attached' = [attached EXCEPT ![u] = @ \cup {req[u][c].sel}],
         UNCHANGED <<status, linkOf>>
  PROVE  Decisions'
<1>1. /\ \A v \in Users, d \in Clicks : v # u \/ d # c => req'[v][d] = req[v][d]
      /\ req'[u][c].pc = "idle"
  BY ReplyEffect
<1>2. ASSUME NEW v \in Users, NEW d \in Clicks, req'[v][d].pc \in {"buy", "join"}
      PROVE  /\ req'[v][d] = req[v][d]
             /\ v = u => req[v][d].sel # req[u][c].sel
  <2>1. req'[v][d] = req[v][d] /\ (v = u => d # c)
    BY <1>1, <1>2
  <2>2. v = u => req[v][d].link # req[u][c].link
    BY <1>2, <2>1 DEF OneRequestPerLink, Active
  <2> QED BY <1>2, <2>1, <2>2 DEF Decisions
<1>3. \A v \in Users : \A s : s \in attached'[v] =>
        s \in attached[v] \/ (v = u /\ s = req[u][c].sel)
  BY DEF TypeOK
<1>4. status[req[u][c].sel] # "none"
  BY DEF Decisions
<1> QED BY <1>2, <1>3, <1>4 DEF Decisions

LEMMA DecisionsCreate ==
  ASSUME TypeOK, Decisions, NEW u \in Users, NEW c \in Clicks,
         NEW first \in Status \ {"none"}, NEW next \in {"publish", "parsePublish"},
         CreateSelection(u, c, first, next)
  PROVE  Decisions'
<1>1. PICK s \in Selections :
         /\ status[s] = "none"
         /\ status' = [status EXCEPT ![s] = first]
         /\ linkOf' = [linkOf EXCEPT ![s] = req[u][c].link]
         /\ attached' = [attached EXCEPT ![u] = @ \cup {s}]
         /\ Goto(u, c, next, s)
  BY DEF CreateSelection, NextId
<1>2. ASSUME NEW v \in Users, NEW d \in Clicks, req'[v][d].pc \in {"buy", "join"}
      PROVE  /\ req'[v][d] = req[v][d] /\ req[v][d].sel # s
             /\ req[v][d].sel \in Selections
  <2>1. req'[v][d] = req[v][d]
    BY <1>1, <1>2, GotoEffect
  <2>2. req[v][d].sel \in Selections
    BY <1>2, <2>1 DEF TypeOK, Request, Selections
  <2> QED BY <1>1, <1>2, <2>1, <2>2 DEF Decisions
<1>3. /\ \A t \in Selections : t # s =>
           /\ status'[t] = status[t] /\ linkOf'[t] = linkOf[t]
           /\ \A v \in Users : t \in attached'[v] <=> t \in attached[v]
      /\ status'[s] = first
  BY <1>1 DEF TypeOK
<1> QED BY <1>2, <1>3 DEF Decisions

LEMMA DecisionsStep ==
  ASSUME TypeOK, OneRequestPerLink, Decisions, [Next]_vars
  PROVE  Decisions'
<1>1. ASSUME NEW u \in Users, NEW c \in Clicks, NEW l \in Links,
             ReqArrive(u, c, l) \/ ReqArriveUnlocked(u, c, l)
      PROVE  Decisions'
  BY <1>1, ArriveEffect DEF Decisions, tables
<1>2. ASSUME NEW u \in Users, NEW c \in Clicks, ReqLookup(u, c)
      PROVE  Decisions'
  <2>1. UNCHANGED <<status, linkOf, attached>>
    BY <1>2 DEF ReqLookup, tables
  <2>2. CASE Reply(u, c)
    BY <2>1, <2>2, DecisionsReply
  <2>3. CASE Goto(u, c, "create", 0)
    BY <2>1, <2>3, GotoEffect DEF Decisions
  <2>4. ASSUME NEW s \in Latest(req[u][c].link), s \notin attached[u],
               NEW pc \in {"buy", "join"}, Goto(u, c, pc, s)
        PROVE  Decisions'
    <3>1. s \in Selections /\ linkOf[s] = req[u][c].link
      BY <2>4 DEF Latest
    <3>2. req[u][c].link \in Links
      BY <1>2 DEF ReqLookup, OneRequestPerLink, Active
    <3>3. status[s] # "none"
      BY <3>1, <3>2, LinksAssumption DEF Decisions
    <3> QED BY <2>1, <2>4, <3>1, <3>3, GotoEffect DEF Decisions
  <2> QED BY <1>2, <2>2, <2>3, <2>4 DEF ReqLookup
<1>3. ASSUME NEW u \in Users, NEW c \in Clicks, ReqRefused(u, c) \/ ReqPublish(u, c)
      PROVE  Decisions'
  BY <1>3, DecisionsReply DEF ReqRefused, ReqPublish, tables
<1>4. ASSUME NEW u \in Users, NEW c \in Clicks, ReqBuy(u, c) \/ ReqJoin(u, c)
      PROVE  Decisions'
  BY <1>4, DecisionsAttach DEF ReqBuy, ReqJoin
<1>5. ASSUME NEW u \in Users, NEW c \in Clicks, ReqCreate(u, c)
      PROVE  Decisions'
  <2>1. "QUEUE" \in Status \ {"none"}
    BY DEF Status, InProgress
  <2> QED BY <1>5, <2>1, DecisionsCreate DEF ReqCreate
<1>6. ASSUME NEW u \in Users, NEW c \in Clicks, ReqCrash(u, c)
      PROVE  Decisions'
  BY <1>6 DEF ReqCrash, IdleRequest, Decisions, TypeOK, tables
<1>7. CASE Generation \/ BeatTask \/ Clock \/ UNCHANGED vars
  <2>1. UNCHANGED <<linkOf, attached, req>> \/ UNCHANGED <<tables, req>>
    BY <1>7 DEF Generation, GenTake, GenSkip, GenStart, GenSaveStep, GenFinish, GenGiveUp,
       GenRetry, GenCrash, GenLost, BeatTask, BeatScan, BeatPublish, BeatCommit, BeatCrash,
       Clock, ReqLockExpires, GenLockExpires, GoesQuiet, vars
  <2>2. \A s \in Selections : status'[s] = "none" => status[s] = "none"
    BY <1>7 DEF Generation, GenTake, GenSkip, GenStart, GenSaveStep, GenFinish, GenGiveUp,
       MarkFailed, GenRetry, GenCrash, GenLost, BeatTask, BeatScan, BeatPublish, BeatCommit,
       BeatCrash, Clock, ReqLockExpires, GenLockExpires, GoesQuiet, vars, tables, TypeOK
  <2>3. \A u \in Users, c \in Clicks :
          req[u][c].pc \in {"buy", "join"} => req[u][c].sel \in Selections
    BY DEF TypeOK, Request, Selections
  <2> QED BY <2>1, <2>2, <2>3 DEF Decisions, tables
<1> QED BY <1>1, <1>2, <1>3, <1>4, <1>5, <1>6, <1>7 DEF Next, Orchestrator, RequestStep

\* All that the request lock is for.
LockedInv ==
  /\ TypeOK /\ WaitingsAreAttached /\ DoneHasPdf
  /\ OneRequestPerLink /\ Decisions

LEMMA LockedInit == Init => LockedInv
<1>1. Init => WaitingsAreAttached /\ DoneHasPdf /\ OneRequestPerLink /\ Decisions
  BY DEF Init, WaitingsAreAttached, DoneHasPdf, OneRequestPerLink, Decisions, Active,
     IdleRequest, IdleBeat
<1> QED BY <1>1, TypeInit DEF LockedInv

LEMMA LockedStep ==
  ASSUME ~RedisMayFail, LockedInv, [Next]_vars
  PROVE  LockedInv'
BY TypeStep, AttachedStep, DoneStep, LockStep, DecisionsStep DEF LockedInv

THEOREM Locked ==
  ASSUME ~RedisMayFail
  PROVE  Spec => []LockedInv
BY LockedInit, LockedStep, PTL DEF Spec

\* While Redis is up, no request reserves a spin on a decision that another
\* request of the same user has made stale.
THEOREM DecisionsStayCurrent ==
  ASSUME ~RedisMayFail
  PROVE  Spec => []DecisionsAreCurrent
<1>1. LockedInv => DecisionsAreCurrent
  BY DEF LockedInv, Decisions, DoneHasPdf, DecisionsAreCurrent
<1> QED BY <1>1, Locked, PTL

-----------------------------------------------------------------------------
(* The ledger is exact                                                     *)

\* An order, seen from the ledger: the spin of u for s was not asked for
\* before, and is now held with an open waiting, or charged.
Hold(u, s) ==
  /\ waiting[u][s] = "none"
  /\ balance' = [balance EXCEPT ![u] = ReserveSpin(@)]
  /\ waiting' = [waiting EXCEPT ![u][s] = "OPEN"]

Charge(u, s) ==
  /\ waiting[u][s] = "none"
  /\ balance' = [balance EXCEPT ![u] = ConfirmSpins(ReserveSpin(@), 1)]
  /\ UNCHANGED waiting

OrderOnce(u, s) ==
  /\ CanReserve(balance[u])
  /\ s \notin attached[u]
  /\ attached' = [attached EXCEPT ![u] = @ \cup {s}]
  /\ Hold(u, s) \/ Charge(u, s)

LEMMA ReserveIsOnce ==
  ASSUME LockedInv, NEW u \in Users, NEW s \in Selections, s \notin attached[u],
         CanReserve(balance[u]), balance' = [balance EXCEPT ![u] = ReserveSpin(@)],
         attached' = [attached EXCEPT ![u] = @ \cup {s}], GetOrCreateWaiting(u, s)
  PROVE  OrderOnce(u, s)
<1>1. waiting[u][s] = "none"
  BY DEF LockedInv, WaitingsAreAttached
<1>2. waiting' = [waiting EXCEPT ![u][s] = "OPEN"]
  BY <1>1 DEF GetOrCreateWaiting, LockedInv, TypeOK
<1> QED BY <1>1, <1>2 DEF OrderOnce, Hold

LEMMA CreateIsOnce ==
  ASSUME LockedInv, NEW u \in Users, NEW c \in Clicks, NEW first, NEW next,
         CreateSelection(u, c, first, next)
  PROVE  \E s \in Selections : OrderOnce(u, s)
<1>1. PICK s \in Selections :
         /\ status[s] = "none"
         /\ CanReserve(balance[u])
         /\ balance' = [balance EXCEPT ![u] = ReserveSpin(@)]
         /\ attached' = [attached EXCEPT ![u] = @ \cup {s}]
         /\ GetOrCreateWaiting(u, s)
  BY CreateEffect
<1>2. s \notin attached[u]
  BY <1>1 DEF LockedInv, Decisions
<1>3. OrderOnce(u, s)
  BY <1>1, <1>2, ReserveIsOnce
<1> QED BY <1>3

LEMMA OrderIsOnce ==
  ASSUME LockedInv, Orders
  PROVE  \E u \in Users, s \in Selections : OrderOnce(u, s)
<1>1. ASSUME NEW u \in Users, NEW c \in Clicks, ReqBuy(u, c)
      PROVE  \E s \in Selections : OrderOnce(u, s)
  <2> DEFINE s == req[u][c].sel
  <2>1. s \in Selections /\ s \notin attached[u]
    BY <1>1 DEF ReqBuy, LockedInv, TypeOK, Request, Selections, Decisions
  <2>2. waiting[u][s] = "none"
    BY <2>1 DEF LockedInv, WaitingsAreAttached
  <2>3. OrderOnce(u, s)
    BY <1>1, <2>1, <2>2 DEF ReqBuy, OrderOnce, Charge
  <2> QED BY <2>1, <2>3
<1>2. ASSUME NEW u \in Users, NEW c \in Clicks, ReqJoin(u, c)
      PROVE  \E s \in Selections : OrderOnce(u, s)
  <2> DEFINE s == req[u][c].sel
  <2>1. s \in Selections /\ s \notin attached[u]
    BY <1>2 DEF ReqJoin, LockedInv, TypeOK, Request, Selections, Decisions
  <2>2. OrderOnce(u, s)
    BY <1>2, <2>1, ReserveIsOnce DEF ReqJoin
  <2> QED BY <2>1, <2>2
<1>3. ASSUME NEW u \in Users, NEW c \in Clicks, ReqCreate(u, c)
      PROVE  \E s \in Selections : OrderOnce(u, s)
  BY <1>3, CreateIsOnce DEF ReqCreate
<1> QED BY <1>1, <1>2, <1>3 DEF Orders

\* The effect of an order on the balance of the user.
LEMMA OrderOnceEffect ==
  ASSUME TypeOK, NEW u \in Users, NEW s \in Selections, OrderOnce(u, s)
  PROVE  /\ balance'[u].spins = balance[u].spins - 1
         /\ Hold(u, s) => /\ balance'[u].reserved = balance[u].reserved + 1
                          /\ balance'[u].confirmed = balance[u].confirmed
         /\ Charge(u, s) => /\ balance'[u].reserved = balance[u].reserved
                            /\ balance'[u].confirmed = balance[u].confirmed + 1
         /\ \A v \in Users : v # u => balance'[v] = balance[v]
<1> DEFINE b == balance[u]
           r == ReserveSpin(b)
<1>1. b \in Balance /\ CanReserve(b) /\ b.reserved \in Nat /\ b.confirmed \in Nat
  BY DEF TypeOK, OrderOnce, Balance
<1>2. /\ r \in Balance /\ r.spins = b.spins - 1
      /\ r.reserved = b.reserved + 1 /\ r.confirmed = b.confirmed
  BY <1>1, ReserveEffect
<1>3. Hold(u, s) => balance'[u] = r
  BY DEF Hold, TypeOK
<1>4. Charge(u, s) => balance'[u] = ConfirmSpins(r, 1)
  BY DEF Charge, TypeOK
<1>5. \A v \in Users : v # u => balance'[v] = balance[v]
  BY DEF OrderOnce, Hold, Charge, TypeOK
<1> HIDE DEF r
<1>6. LET c == ConfirmSpins(r, 1) IN
      /\ c.spins = r.spins
      /\ 1 <= r.reserved => c.reserved = r.reserved - 1 /\ c.confirmed = r.confirmed + 1
  BY <1>2, ConfirmEffect
<1> HIDE DEF b
<1>7. \/ Hold(u, s) \/ Charge(u, s)
  BY DEF OrderOnce
<1>8. \/ waiting'[u][s] = "OPEN" /\ ~Charge(u, s)
      \/ ~Hold(u, s)
  BY DEF Hold, Charge, TypeOK
<1> QED BY <1>1, <1>2, <1>3, <1>4, <1>5, <1>6, <1>7, <1>8 DEF b

Exact == ReservedIsOpenWaitings /\ ChargedOncePerSelection

LEMMA OneMore ==
  ASSUME NEW S \in SUBSET Selections, NEW s \in Selections, s \notin S
  PROVE  Cardinality(S \cup {s}) = Cardinality(S) + 1
BY SelectionSets, FS_AddElement

LEMMA ExactOrder ==
  ASSUME LockedInv, Exact, NEW v \in Users, NEW s \in Selections, OrderOnce(v, s)
  PROVE  Exact'
<1> SUFFICES ASSUME NEW u \in Users
             PROVE  /\ balance'[u].reserved = Cardinality(OpenOf(u)')
                    /\ balance'[u].confirmed = Cardinality(Charged(u)')
  BY DEF Exact, ReservedIsOpenWaitings, ChargedOncePerSelection
<1>a. /\ balance[u].reserved = Cardinality(OpenOf(u))
      /\ balance[u].confirmed = Cardinality(Charged(u))
  BY DEF Exact, ReservedIsOpenWaitings, ChargedOncePerSelection
<1>b. TypeOK /\ WaitingsAreAttached
  BY DEF LockedInv
<1>c. OpenOf(u) \subseteq Selections /\ Charged(u) \subseteq Selections
  BY <1>b DEF OpenOf, Charged, TypeOK
<1>1. CASE v # u
  <2>1. OpenOf(u)' = OpenOf(u) /\ Charged(u)' = Charged(u)
    BY <1>b, <1>1 DEF OrderOnce, Hold, Charge, OpenOf, Charged, TypeOK
  <2> QED BY <1>a, <1>b, <1>1, <2>1, OrderOnceEffect
<1>2. CASE v = u /\ Hold(v, s)
  <2>1. OpenOf(u)' = OpenOf(u) \cup {s} /\ s \notin OpenOf(u)
    BY <1>b, <1>2 DEF Hold, OpenOf, TypeOK
  <2>2. Charged(u)' = Charged(u)
    BY <1>b, <1>2 DEF OrderOnce, Hold, Charged, TypeOK
  <2> QED BY <1>a, <1>b, <1>c, <1>2, <2>1, <2>2, OrderOnceEffect, OneMore
<1>3. CASE v = u /\ Charge(v, s)
  <2>1. OpenOf(u)' = OpenOf(u)
    BY <1>3 DEF Charge, OpenOf
  <2>2. Charged(u)' = Charged(u) \cup {s} /\ s \notin Charged(u)
    BY <1>b, <1>3 DEF OrderOnce, Charge, Charged, TypeOK
  <2> QED BY <1>a, <1>b, <1>c, <1>3, <2>1, <2>2, OrderOnceEffect, OneMore
<1> QED BY <1>1, <1>2, <1>3 DEF OrderOnce

LEMMA ExactClose ==
  ASSUME LockedInv, Exact,
         NEW confirm, NEW release, CloseAndAct(confirm, release), UNCHANGED attached
  PROVE  Exact'
<1> SUFFICES ASSUME NEW u \in Users
             PROVE  /\ balance'[u].reserved = Cardinality(OpenOf(u)')
                    /\ balance'[u].confirmed = Cardinality(Charged(u)')
  BY DEF Exact, ReservedIsOpenWaitings, ChargedOncePerSelection
<1>a. /\ balance[u].reserved = Cardinality(OpenOf(u))
      /\ balance[u].confirmed = Cardinality(Charged(u))
  BY DEF Exact, ReservedIsOpenWaitings, ChargedOncePerSelection
<1>b. TypeOK /\ WaitingsAreAttached
  BY DEF LockedInv
<1>c. OpenOf(u) \subseteq Selections /\ Charged(u) \subseteq Selections
  BY <1>b DEF OpenOf, Charged, TypeOK
<1>0. balance[u].reserved \in Nat
  BY <1>b DEF TypeOK, Balance
<1>1. PICK n \in Nat, m \in Nat :
         /\ n = Cardinality(toConfirm(confirm, u))
         /\ Cardinality(OpenOf(u)') = Cardinality(OpenOf(u)) - (n + m)
         /\ balance'[u].reserved = balance[u].reserved - (n + m)
         /\ balance'[u].confirmed = balance[u].confirmed + n
  BY <1>a, <1>b, <1>0, CloseEffect
<1> DEFINE C == toConfirm(confirm, u)
           D == Charged(u)
<1>2. C \subseteq attached[u] /\ D \cap C = {} /\ C \subseteq Selections
  BY <1>b DEF toConfirm, OpenOf, Charged, WaitingsAreAttached
<1>3. Charged(u)' = D \cup C
  <2>1. \A s \in Selections :
          waiting'[u][s] = IF s \in C THEN "CONFIRMED"
                           ELSE IF s \in toRelease(confirm, release, u) THEN "RELEASED"
                           ELSE waiting[u][s]
    BY CloseAndActEffect
  <2>2. \A s \in toRelease(confirm, release, u) : waiting[u][s] = "OPEN" /\ s \notin C
    BY DEF toRelease, OpenOf
  <2>3. attached'[u] = attached[u] /\ attached[u] \subseteq Selections
    BY <1>b DEF TypeOK
  <2> HIDE DEF C
  <2> QED BY <1>2, <2>1, <2>2, <2>3 DEF Charged
<1>4. IsFiniteSet(D) /\ IsFiniteSet(C) /\ Cardinality(D) \in Nat
  BY <1>c, <1>2, SelectionSets
<1> HIDE DEF C, D
<1>5. Cardinality(D \cup C) = Cardinality(D) + Cardinality(C)
  <2>1. Cardinality(D \cup C) = Cardinality(D) + Cardinality(C) - Cardinality(D \cap C)
    BY <1>4, FS_Union
  <2>2. Cardinality(D \cap C) = 0 /\ Cardinality(C) \in Nat
    BY <1>2, <1>4, FS_EmptySet, FS_CardinalityType
  <2> QED BY <1>4, <2>1, <2>2
<1>6. Cardinality(C) = n /\ Cardinality(D) = balance[u].confirmed
  BY <1>a, <1>1 DEF C, D
<1> QED BY <1>a, <1>1, <1>3, <1>5, <1>6

LEMMA ExactSame ==
  ASSUME Exact, UNCHANGED <<balance, waiting, attached>>
  PROVE  Exact'
BY DEF Exact, ReservedIsOpenWaitings, ChargedOncePerSelection, OpenOf, Charged

LEMMA ExactStep ==
  ASSUME LockedInv, Exact, [Next]_vars
  PROVE  Exact'
<1>1. CASE Orders
  BY <1>1, OrderIsOnce, ExactOrder
<1>2. CASE Closes
  BY <1>2, ExactClose DEF Closes
<1> QED BY <1>1, <1>2, ExactSame, LedgerSteps

LEMMA ExactInit == Init => Exact
<1> SUFFICES ASSUME Init, NEW u \in Users
             PROVE  /\ balance[u].reserved = Cardinality(OpenOf(u))
                    /\ balance[u].confirmed = Cardinality(Charged(u))
  BY DEF Exact, ReservedIsOpenWaitings, ChargedOncePerSelection
<1>1. OpenOf(u) = {} /\ Charged(u) = {}
  BY DEF Init, OpenOf, Charged
<1>2. balance[u].reserved = 0 /\ balance[u].confirmed = 0
  BY DEF Init, NewBalance
<1> QED BY <1>1, <1>2, FS_EmptySet

\* While Redis is up, a user has exactly as many spins in reserve as open
\* waitings, whatever the workers, the beat and the crashes do.
THEOREM ReserveIsExact ==
  ASSUME ~RedisMayFail
  PROVE  Spec => []ReservedIsOpenWaitings
<1>1. LockedInv /\ Exact /\ [Next]_vars => Exact'
  BY ExactStep
<1>2. Exact => ReservedIsOpenWaitings
  BY DEF Exact
<1> QED BY ExactInit, <1>1, <1>2, Locked, PTL DEF Spec

\* While Redis is up, a user has been charged exactly once for each
\* selection bought or delivered.
THEOREM ChargesAreExact ==
  ASSUME ~RedisMayFail
  PROVE  Spec => []ChargedOncePerSelection
<1>1. LockedInv /\ Exact /\ [Next]_vars => Exact'
  BY ExactStep
<1>2. Exact => ChargedOncePerSelection
  BY DEF Exact
<1> QED BY ExactInit, <1>1, <1>2, Locked, PTL DEF Spec

-----------------------------------------------------------------------------
(* The contract is kept                                                    *)

LEMMA PromiseType ==
  ASSUME TypeOK
  PROVE  /\ FreeSpins \in [Users -> Nat]
         /\ \A u \in Users, s \in Selections : SpinStatus(u, s) \in Contract!Promise
         /\ Promises \in [Users -> [Selections -> Contract!Promise]]
<1>1. FreeSpins \in [Users -> Nat]
  BY DEF FreeSpins, TypeOK, Balance
<1>2. \A u \in Users, s \in Selections : SpinStatus(u, s) \in Contract!Promise
  BY DEF SpinStatus, Contract!Promise
<1> QED BY <1>1, <1>2 DEF Promises

LEMMA ContractInit == Init => Contract!Init
<1> SUFFICES ASSUME Init PROVE Contract!Init
  OBVIOUS
<1>1. \A u \in Users, s \in Selections : SpinStatus(u, s) = "none"
  BY DEF Init, SpinStatus
<1> QED BY <1>1, TypeInit, PromiseType DEF Contract!Init, Promises

\* An order of the flow is an order of the contract.
LEMMA ContractOrder ==
  ASSUME TypeOK, NEW u \in Users, NEW s \in Selections, OrderOnce(u, s)
  PROVE  Contract!Order(u, s)
<1>1. Promises[u][s] = "none" /\ FreeSpins[u] = balance[u].spins
  BY DEF OrderOnce, Promises, SpinStatus, FreeSpins
<1>2. FreeSpins[u] >= 1
  BY <1>1 DEF OrderOnce, CanReserve
<1>3. FreeSpins' = [FreeSpins EXCEPT ![u] = @ - 1]
  BY OrderOnceEffect DEF FreeSpins
<1>4. ASSUME NEW v \in Users, NEW t \in Selections, v # u \/ t # s
      PROVE  SpinStatus(v, t)' = SpinStatus(v, t)
  <2>1. /\ t \in attached'[v] <=> t \in attached[v]
        /\ waiting'[v][t] = waiting[v][t]
    BY <1>4 DEF OrderOnce, Hold, Charge, TypeOK
  <2> QED BY <2>1 DEF SpinStatus
<1>5. SpinStatus(u, s)' \in {"held", "charged"}
  <2>1. s \in attached'[u] /\ waiting'[u][s] \in {"none", "OPEN"}
    BY DEF OrderOnce, Hold, Charge, TypeOK
  <2> QED BY <2>1 DEF SpinStatus
<1>6. Promises' = [Promises EXCEPT ![u][s] = SpinStatus(u, s)']
  BY <1>4 DEF Promises
<1> QED BY <1>1, <1>2, <1>3, <1>5, <1>6 DEF Contract!Order

\* Closing waitings settles held spins, and returns those it frees.
LEMMA ContractSettle ==
  ASSUME TypeOK, TypeOK', WaitingsAreAttached, ReservedIsOpenWaitings,
         NEW confirm, NEW release, CloseAndAct(confirm, release), UNCHANGED attached
  PROVE  Contract!Settle
<1>1. Promises' \in [Users -> [Selections -> Contract!Promise]]
  <2>1. \A u \in Users, s \in Selections : SpinStatus(u, s)' \in Contract!Promise
    BY DEF SpinStatus, Contract!Promise
  <2> QED BY <2>1 DEF Promises
<1>2. ASSUME NEW u \in Users, NEW s \in Selections
      PROVE  \/ /\ s \in toConfirm(confirm, u)
                /\ s \notin toRelease(confirm, release, u)
                /\ SpinStatus(u, s) = "held" /\ SpinStatus(u, s)' = "charged"
             \/ /\ s \in toRelease(confirm, release, u)
                /\ SpinStatus(u, s) = "held" /\ SpinStatus(u, s)' = "returned"
             \/ /\ s \notin toRelease(confirm, release, u)
                /\ SpinStatus(u, s)' = SpinStatus(u, s)
  <2>1. waiting'[u][s] = IF s \in toConfirm(confirm, u) THEN "CONFIRMED"
                         ELSE IF s \in toRelease(confirm, release, u) THEN "RELEASED"
                         ELSE waiting[u][s]
    BY CloseAndActEffect
  <2>2. s \in toRelease(confirm, release, u) => s \notin toConfirm(confirm, u)
    BY DEF toRelease
  <2>3. s \in toConfirm(confirm, u) \cup toRelease(confirm, release, u) =>
          waiting[u][s] = "OPEN" /\ s \in attached[u]
    BY DEF toConfirm, toRelease, OpenOf, WaitingsAreAttached
  <2> QED BY <2>1, <2>2, <2>3 DEF SpinStatus
<1>3. ASSUME NEW u \in Users
      PROVE  FreeSpins'[u] = FreeSpins[u] + Cardinality(Contract!Returned(u))
  <2>1. Contract!Returned(u) = toRelease(confirm, release, u)
    <3>1. toRelease(confirm, release, u) \subseteq Selections
      BY ClosedSets
    <3> QED BY <1>2, <3>1 DEF Contract!Returned, Promises
  <2>2. Cardinality(OpenOf(u)) <= balance[u].reserved
    BY DEF ReservedIsOpenWaitings, TypeOK, Balance
  <2>3. balance'[u].spins = balance[u].spins + Cardinality(toRelease(confirm, release, u))
    BY <2>2, CloseEffect
  <2> QED BY <2>1, <2>3 DEF FreeSpins
<1>4. \A u \in Users : \A s \in Selections :
        Promises'[u][s] # Promises[u][s] =>
          Promises[u][s] = "held" /\ Promises'[u][s] \in {"charged", "returned"}
  BY <1>2 DEF Promises
<1>5. FreeSpins' = [u \in Users |-> FreeSpins[u] + Cardinality(Contract!Returned(u))]
  BY <1>3 DEF FreeSpins
<1>6. \A S : Contract!Cardinality(S) = Cardinality(S)
  BY DEF Contract!Cardinality, Cardinality
<1> QED BY <1>1, <1>4, <1>5, <1>6 DEF Contract!Settle

LEMMA ContractStep ==
  ASSUME LockedInv, LockedInv', Exact, [Next]_vars
  PROVE  [Contract!Next]_<<FreeSpins, Promises>>
<1>1. TypeOK /\ TypeOK' /\ WaitingsAreAttached /\ ReservedIsOpenWaitings
  BY DEF LockedInv, Exact
<1>2. CASE Orders
  <2>1. PICK u \in Users, s \in Selections : OrderOnce(u, s)
    BY <1>2, OrderIsOnce
  <2> QED BY <1>1, <2>1, ContractOrder DEF Contract!Next
<1>3. CASE Closes
  BY <1>1, <1>3, ContractSettle DEF Closes, Contract!Next
<1>4. CASE UNCHANGED <<balance, waiting, attached>>
  BY <1>4 DEF FreeSpins, Promises, SpinStatus
<1> QED BY <1>2, <1>3, <1>4, LedgerSteps

\* While Redis is up, the flow implements the contract with the user: each
\* ordered selection holds one spin, which is charged or returned once.
THEOREM ContractIsKept ==
  ASSUME ~RedisMayFail
  PROVE  Spec => KeepsContract
<1>1. LockedInv /\ Exact /\ [Next]_vars => Exact'
  BY ExactStep
<1>2. LockedInv /\ LockedInv' /\ Exact /\ [Next]_vars
      => [Contract!Next]_<<FreeSpins, Promises>>
  BY ContractStep
<1> QED BY ContractInit, ExactInit, <1>1, <1>2, Locked, PTL
        DEF Spec, KeepsContract, Contract!Spec
=============================================================================
