------------------------ MODULE SelectionFlow_proofs ------------------------
(***************************************************************************)
(* Proofs about SelectionFlow, for any number of users, links, requests,   *)
(* workers and selections, with and without the request lock.              *)
(***************************************************************************)
EXTENDS SelectionFlow, SpinLedger_proofs, FiniteSetTheorems

\* The selections are finitely many, and so is every set of them.
LEMMA SelectionSets ==
  ASSUME NEW S \in SUBSET Selections
  PROVE  IsFiniteSet(S) /\ Cardinality(S) \in Nat
<1>1. IsFiniteSet(Selections)
  BY BoundsAssumption, FS_Interval DEF Selections
<1> QED BY <1>1, FS_Subset, FS_CardinalityType

\* CloseAndAct with its local definitions given names: what it confirms and
\* what it releases for a user.
toConfirm(confirm, u) == {s \in OpenOf(u) : <<u, s>> \in confirm}
toRelease(confirm, release, u) ==
  {s \in OpenOf(u) \ toConfirm(confirm, u) : <<u, s>> \in release}

LEMMA CloseAndActEffect ==
  ASSUME NEW confirm, NEW release, CloseAndAct(confirm, release)
  PROVE  /\ waiting' = [u \in Users |-> [s \in Selections |->
                          IF s \in toConfirm(confirm, u) THEN "CONFIRMED"
                          ELSE IF s \in toRelease(confirm, release, u) THEN "RELEASED"
                          ELSE waiting[u][s]]]
         /\ balance' = [u \in Users |->
                          ReleaseSpins(
                            ConfirmSpins(balance[u], Cardinality(toConfirm(confirm, u))),
                            Cardinality(toRelease(confirm, release, u)))]
BY DEF CloseAndAct, toConfirm, toRelease

LEMMA ClosedSets ==
  ASSUME NEW confirm, NEW release, NEW u
  PROVE  /\ toConfirm(confirm, u) \in SUBSET Selections
         /\ toRelease(confirm, release, u) \in SUBSET Selections
         /\ Cardinality(toConfirm(confirm, u)) \in Nat
         /\ Cardinality(toRelease(confirm, release, u)) \in Nat
<1>1. /\ toConfirm(confirm, u) \in SUBSET Selections
      /\ toRelease(confirm, release, u) \in SUBSET Selections
  BY DEF toConfirm, toRelease, OpenOf
<1> QED BY <1>1, SelectionSets

-----------------------------------------------------------------------------
(* Type correctness                                                        *)

LEMMA CloseAndActType ==
  ASSUME TypeOK, NEW confirm, NEW release, CloseAndAct(confirm, release)
  PROVE  /\ waiting' \in [Users -> [Selections -> WaitingStatus]]
         /\ balance' \in [Users -> Balance]
<1>1. waiting' \in [Users -> [Selections -> WaitingStatus]]
  BY CloseAndActEffect DEF TypeOK, WaitingStatus, Closed
<1>2. \A u \in Users :
        ReleaseSpins(ConfirmSpins(balance[u], Cardinality(toConfirm(confirm, u))),
                     Cardinality(toRelease(confirm, release, u))) \in Balance
  BY ClosedSets, SettleEffect DEF TypeOK
<1> QED BY <1>1, <1>2, CloseAndActEffect

\* The ways a request goes on and ends.
LEMMA GotoType ==
  ASSUME TypeOK, NEW u \in Users, NEW c \in Clicks, NEW s \in Selections \cup {0},
         NEW pc \in {"create", "buy", "join", "publish", "insert", "parse", "parsePublish"},
         pc \in {"buy", "join", "publish"} => s # 0,
         Goto(u, c, pc, s)
  PROVE  /\ req' \in [Users -> [Clicks -> Request]]
         /\ \A v \in Users, d \in Clicks :
              req'[v][d].pc \in {"buy", "join", "publish"} => req'[v][d].sel # 0
<1>1. s \in 0 .. MaxSelections
  BY BoundsAssumption DEF Selections
<1>2. req[u][c] \in Request
  BY DEF TypeOK
<1> DEFINE r == [req[u][c] EXCEPT !.pc = pc, !.sel = s]
<1>3. r \in Request /\ r.pc = pc /\ r.sel = s
  BY <1>1, <1>2 DEF Request
<1>4. req' = [req EXCEPT ![u][c] = r]
  BY DEF Goto
<1> HIDE DEF r
<1> QED BY <1>3, <1>4 DEF TypeOK

LEMMA ReplyType ==
  ASSUME TypeOK, NEW u \in Users, NEW c \in Clicks, Reply(u, c)
  PROVE  /\ req' \in [Users -> [Clicks -> Request]]
         /\ \A v \in Users, d \in Clicks :
              req'[v][d].pc \in {"buy", "join", "publish"} => req'[v][d].sel # 0
         /\ reqLock' \in SUBSET (Users \X Links)
<1>1. IdleRequest \in Request /\ IdleRequest.pc = "idle"
  BY BoundsAssumption DEF IdleRequest, Request
<1> QED BY <1>1 DEF Reply, TypeOK

LEMMA SendType ==
  ASSUME TypeOK, NEW s \in Selections, NEW r \in Retries, Send(s, r)
  PROVE  queue' \in [Selections -> [Retries -> 0 .. QueueCap]]
<1>1. queue[s][r] \in 0 .. QueueCap
  BY DEF TypeOK
<1>2. (IF queue[s][r] < QueueCap THEN queue[s][r] + 1 ELSE queue[s][r]) \in 0 .. QueueCap
  BY <1>1, BoundsAssumption
<1> QED BY <1>2 DEF Send, TypeOK

LEMMA GenEndType ==
  ASSUME TypeOK, NEW w \in Workers, GenEnd(w)
  PROVE  /\ gen' \in [Workers -> Worker]
         /\ \A v \in Workers : gen'[v].pc # "idle" => gen'[v].sel # 0
         /\ genLock' \in SUBSET Selections
<1>1. IdleWorker \in Worker /\ IdleWorker.pc = "idle"
  BY BoundsAssumption DEF IdleWorker, Worker, Retries
<1> QED BY <1>1 DEF GenEnd, TypeOK

LEMMA TypeInit == Init => TypeOK
<1> SUFFICES ASSUME Init PROVE TypeOK
  OBVIOUS
<1> USE BoundsAssumption
<1>1. balance \in [Users -> Balance]
  <2>1. PICK given \in [Users -> 0 .. MaxSpins] :
           balance = [u \in Users |-> NewBalance(given[u])]
    BY DEF Init
  <2>2. \A u \in Users : given[u] \in Nat
    OBVIOUS
  <2> QED BY <2>1, <2>2, NewBalanceType
<1>2. queue \in [Selections -> [Retries -> 0 .. QueueCap]]
  BY DEF Init
<1>3. /\ req \in [Users -> [Clicks -> Request]]
      /\ \A u \in Users, c \in Clicks : req[u][c].pc = "idle"
  BY DEF Init, IdleRequest, Request
<1>4. /\ gen \in [Workers -> Worker]
      /\ \A w \in Workers : gen[w].pc = "idle"
  BY DEF Init, IdleWorker, Worker, Retries
<1>5. beat \in Beat
  BY DEF Init, IdleBeat, Beat
<1> QED
  BY <1>1, <1>2, <1>3, <1>4, <1>5 DEF Init, TypeOK, Status, InProgress, WaitingStatus, Closed

LEMMA CreateType ==
  ASSUME TypeOK, NEW u \in Users, NEW c \in Clicks, NEW first \in Status,
         NEW next \in {"publish", "parsePublish"}, CreateSelection(u, c, first, next)
  PROVE  TypeOK'
<1>1. PICK s \in Selections :
         /\ status' = [status EXCEPT ![s] = first]
         /\ linkOf' = [linkOf EXCEPT ![s] = req[u][c].link]
         /\ attached' = [attached EXCEPT ![u] = @ \cup {s}]
         /\ GetOrCreateWaiting(u, s)
         /\ Goto(u, c, next, s)
  BY DEF CreateSelection
<1>2. s # 0 /\ balance[u] \in Balance /\ req[u][c].link \in Links \cup {NoLink}
  BY DEF TypeOK, Request, Selections
<1>3. ReserveSpin(balance[u]) \in Balance
  BY <1>2, ReserveEffect DEF CreateSelection
<1>4. waiting' \in [Users -> [Selections -> WaitingStatus]]
  BY <1>1 DEF GetOrCreateWaiting, TypeOK, WaitingStatus
<1>5. /\ req' \in [Users -> [Clicks -> Request]]
      /\ \A v \in Users, d \in Clicks :
           req'[v][d].pc \in {"buy", "join", "publish"} => req'[v][d].sel # 0
  BY <1>1, <1>2, GotoType
<1>6. /\ status' \in [Selections -> Status]
      /\ linkOf' \in [Selections -> Links \cup {NoLink}]
      /\ attached' \in [Users -> SUBSET Selections]
  BY <1>1, <1>2 DEF TypeOK
<1>7. /\ balance' = [balance EXCEPT ![u] = ReserveSpin(@)]
      /\ UNCHANGED <<pdf, quiet, reqLock, queue, genLock, gen, beat, faults>>
  BY DEF CreateSelection
<1> QED BY <1>3, <1>4, <1>5, <1>6, <1>7 DEF TypeOK

LEMMA TypeOrchestrator ==
  ASSUME TypeOK, Orchestrator
  PROVE  TypeOK'
<1> USE BoundsAssumption
<1>1. ASSUME NEW u \in Users, NEW c \in Clicks, NEW l \in Links,
             ReqArrive(u, c, l) \/ ReqArriveUnlocked(u, c, l)
      PROVE  TypeOK'
  <2> DEFINE r(b) == [pc |-> "lookup", link |-> l, sel |-> 0, locked |-> b]
  <2>1. \A b \in BOOLEAN : r(b) \in Request /\ r(b).pc = "lookup"
    BY DEF Request
  <2>2. PICK b \in BOOLEAN : req' = [req EXCEPT ![u][c] = r(b)]
    BY <1>1 DEF ReqArrive, ReqArriveUnlocked
  <2> HIDE DEF r
  <2> QED BY <1>1, <2>1, <2>2 DEF ReqArrive, ReqArriveUnlocked, TypeOK, tables
<1>2. ASSUME NEW u \in Users, NEW c \in Clicks, ReqLookup(u, c)
      PROVE  TypeOK'
  <2>1. \A s \in Latest(req[u][c].link) : s \in Selections /\ s # 0
    BY DEF Latest, Selections
  <2>2. CASE Reply(u, c)
    BY <1>2, <2>2, ReplyType DEF ReqLookup, TypeOK, tables
  <2>3. CASE Goto(u, c, "create", 0) /\ UNCHANGED reqLock
    BY <1>2, <2>3, GotoType DEF ReqLookup, TypeOK, tables
  <2>4. ASSUME NEW s \in Latest(req[u][c].link), NEW pc \in {"buy", "join"},
               Goto(u, c, pc, s), UNCHANGED reqLock
        PROVE  TypeOK'
    BY <1>2, <2>1, <2>4, GotoType DEF ReqLookup, TypeOK, tables
  <2> QED BY <1>2, <2>2, <2>3, <2>4 DEF ReqLookup
<1>3. ASSUME NEW u \in Users, NEW c \in Clicks, ReqRefused(u, c)
      PROVE  TypeOK'
  BY <1>3, ReplyType DEF ReqRefused, TypeOK, tables
<1>4. ASSUME NEW u \in Users, NEW c \in Clicks, ReqBuy(u, c)
      PROVE  TypeOK'
  <2>1. req[u][c].sel \in Selections /\ balance[u] \in Balance
    BY <1>4 DEF ReqBuy, TypeOK, Request, Selections
  <2>2. ConfirmSpins(ReserveSpin(balance[u]), 1) \in Balance
    BY <1>4, <2>1, ReserveEffect, ConfirmEffect DEF ReqBuy
  <2> QED BY <1>4, <2>1, <2>2, ReplyType DEF ReqBuy, TypeOK
<1>5. ASSUME NEW u \in Users, NEW c \in Clicks, ReqJoin(u, c)
      PROVE  TypeOK'
  <2>1. req[u][c].sel \in Selections /\ balance[u] \in Balance
    BY <1>5 DEF ReqJoin, TypeOK, Request, Selections
  <2>2. ReserveSpin(balance[u]) \in Balance
    BY <1>5, <2>1, ReserveEffect DEF ReqJoin
  <2>3. waiting' \in [Users -> [Selections -> WaitingStatus]]
    BY <1>5 DEF ReqJoin, GetOrCreateWaiting, TypeOK, WaitingStatus
  <2> QED BY <1>5, <2>1, <2>2, <2>3, ReplyType DEF ReqJoin, TypeOK
<1>6. ASSUME NEW u \in Users, NEW c \in Clicks, ReqCreate(u, c)
      PROVE  TypeOK'
  <2>1. "QUEUE" \in Status
    BY DEF Status, InProgress
  <2> QED BY <1>6, <2>1, CreateType DEF ReqCreate
<1>7. ASSUME NEW u \in Users, NEW c \in Clicks, ReqPublish(u, c)
      PROVE  TypeOK'
  <2>1. req[u][c].sel \in Selections /\ 0 \in Retries
    BY <1>7 DEF ReqPublish, TypeOK, Request, Selections, Retries
  <2> QED BY <1>7, <2>1, SendType, ReplyType DEF ReqPublish, TypeOK, tables
<1>8. ASSUME NEW u \in Users, NEW c \in Clicks, ReqCrash(u, c)
      PROVE  TypeOK'
  <2>1. IdleRequest \in Request /\ IdleRequest.pc = "idle"
    BY DEF IdleRequest, Request
  <2>2. faults' \in 0 .. MaxFaults
    BY <1>8 DEF ReqCrash, Fault, TypeOK
  <2> QED BY <1>8, <2>1, <2>2 DEF ReqCrash, TypeOK, tables
<1> QED BY <1>1, <1>2, <1>3, <1>4, <1>5, <1>6, <1>7, <1>8 DEF Orchestrator, RequestStep

LEMMA TypeGeneration ==
  ASSUME TypeOK, Generation
  PROVE  TypeOK'
<1> USE BoundsAssumption
<1>1. ASSUME NEW s \in Selections, NEW r \in Retries, Consume(s, r)
      PROVE  queue' \in [Selections -> [Retries -> 0 .. QueueCap]]
  <2>1. queue[s][r] \in 0 .. QueueCap /\ queue[s][r] > 0
    BY <1>1 DEF Consume, TypeOK
  <2>2. queue[s][r] - 1 \in 0 .. QueueCap
    BY <2>1
  <2> QED BY <1>1, <2>2 DEF Consume, TypeOK
<1>2. ASSUME NEW w \in Workers, NEW s \in Selections, NEW r \in Retries, GenTake(w, s, r)
      PROVE  TypeOK'
  <2> DEFINE g == [pc |-> "locked", sel |-> s, retries |-> r]
  <2>1. g \in Worker /\ g.sel # 0
    BY DEF Worker, Selections
  <2>2. gen' = [gen EXCEPT ![w] = g]
    BY <1>2 DEF GenTake
  <2> HIDE DEF g
  <2> QED BY <1>1, <1>2, <2>1, <2>2 DEF GenTake, TypeOK, tables
<1>3. ASSUME NEW w \in Workers, NEW s \in Selections, NEW r \in Retries, GenSkip(w, s, r)
      PROVE  TypeOK'
  BY <1>1, <1>3 DEF GenSkip, TypeOK, tables
<1>4. ASSUME NEW w \in Workers, GenStart(w)
      PROVE  TypeOK'
  <2>1. /\ status' \in [Selections -> Status]
        /\ quiet' \in SUBSET Selections
    BY <1>4 DEF GenStart, TypeOK, Status, InProgress
  <2>2. /\ gen' \in [Workers -> Worker]
        /\ \A v \in Workers : gen'[v].pc # "idle" => gen'[v].sel # 0
        /\ genLock' \in SUBSET Selections
    <3>1. CASE GenEnd(w)
      BY <3>1, GenEndType
    <3>2. CASE gen' = [gen EXCEPT ![w].pc = "run"] /\ UNCHANGED genLock
      <4> DEFINE g == [gen[w] EXCEPT !.pc = "run"]
      <4>1. gen[w].pc = "locked" /\ gen[w] \in Worker
        BY <1>4 DEF GenStart, TypeOK
      <4>2. g \in Worker /\ g.sel = gen[w].sel
        BY <4>1 DEF Worker
      <4>3. gen' = [gen EXCEPT ![w] = g]
        BY <3>2
      <4> HIDE DEF g
      <4> QED BY <3>2, <4>1, <4>2, <4>3 DEF TypeOK
    <3> QED BY <1>4, <3>1, <3>2 DEF GenStart
  <2> QED BY <1>4, <2>1, <2>2 DEF GenStart, TypeOK
<1>5. ASSUME NEW w \in Workers, GenSaveStep(w)
      PROVE  TypeOK'
  BY <1>5 DEF GenSaveStep, TypeOK
<1>6. ASSUME NEW w \in Workers, gen[w].pc = "run"
      PROVE  gen[w].sel \in Selections
  BY <1>6 DEF TypeOK, Worker, Selections
<1>7. ASSUME NEW w \in Workers, GenFinish(w)
      PROVE  TypeOK'
  <2>1. "DONE" \in Status
    BY DEF Status
  <2> QED BY <1>6, <1>7, <2>1, CloseAndActType, GenEndType DEF GenFinish, TypeOK
<1>8. ASSUME NEW w \in Workers, GenGiveUp(w)
      PROVE  TypeOK'
  <2>1. "FAILED" \in Status
    BY DEF Status
  <2> QED BY <1>6, <1>8, <2>1, CloseAndActType, GenEndType DEF GenGiveUp, MarkFailed, TypeOK
<1>9. ASSUME NEW w \in Workers, GenRetry(w)
      PROVE  TypeOK'
  <2>1. gen[w].retries + 1 \in Retries
    BY <1>9 DEF GenRetry, TypeOK, Worker, Retries
  <2> QED BY <1>6, <1>9, <2>1, SendType, GenEndType DEF GenRetry, TypeOK, tables
<1>10. ASSUME NEW w \in Workers, GenCrash(w)
       PROVE  TypeOK'
  <2>1. gen[w].sel \in Selections /\ gen[w].retries \in Retries
    BY <1>10 DEF GenCrash, TypeOK, Worker, Selections
  <2>2. queue' \in [Selections -> [Retries -> 0 .. QueueCap]]
    BY <1>10, <2>1, SendType DEF GenCrash, TypeOK
  <2>3. IdleWorker \in Worker /\ IdleWorker.pc = "idle"
    BY DEF IdleWorker, Worker, Retries
  <2>4. faults' \in 0 .. MaxFaults
    BY <1>10 DEF GenCrash, Fault, TypeOK
  <2> QED BY <1>10, <2>2, <2>3, <2>4 DEF GenCrash, TypeOK, tables
<1>11. ASSUME NEW s \in Selections, NEW r \in Retries, GenLost(s, r)
       PROVE  TypeOK'
  <2>1. faults' \in 0 .. MaxFaults
    BY <1>11 DEF GenLost, Fault, TypeOK
  <2> QED BY <1>1, <1>11, <2>1 DEF GenLost, TypeOK, tables
<1> QED
  BY <1>2, <1>3, <1>4, <1>5, <1>7, <1>8, <1>9, <1>10, <1>11 DEF Generation

LEMMA TypeBeatTask ==
  ASSUME TypeOK, BeatTask
  PROVE  TypeOK'
<1> USE BoundsAssumption
<1>1. IdleBeat \in Beat
  BY DEF IdleBeat, Beat
<1>2. CASE BeatScan
  <2>1. beat' \in Beat
    BY <1>2 DEF BeatScan, OpenAt, Stuck, OpenWaitings, Pairs, Beat
  <2> QED BY <1>2, <2>1 DEF BeatScan, TypeOK, tables
<1>3. CASE BeatCommit
  <2>1. status' \in [Selections -> Status]
    BY <1>3 DEF BeatCommit, TypeOK, Status, InProgress
  <2> QED BY <1>1, <1>3, <2>1, CloseAndActType DEF BeatCommit, TypeOK
<1>4. CASE BeatCrash
  <2>1. faults' \in 0 .. MaxFaults
    BY <1>4 DEF BeatCrash, Fault, TypeOK
  <2> QED BY <1>1, <1>4, <2>1 DEF BeatCrash, TypeOK, tables
<1>5. ASSUME NEW s \in Selections, BeatPublish(s)
      PROVE  TypeOK'
  <2>1. beat' \in Beat
    BY <1>5 DEF BeatPublish, TypeOK, Beat
  <2>2. 0 \in Retries
    BY DEF Retries
  <2> QED BY <1>5, <2>1, <2>2, SendType DEF BeatPublish, TypeOK, tables
<1> QED BY <1>2, <1>3, <1>4, <1>5 DEF BeatTask

\* A step of any kind keeps every variable in its type.
LEMMA TypeStep == TypeOK /\ [Next]_vars => TypeOK'
<1> SUFFICES ASSUME TypeOK, [Next]_vars PROVE TypeOK'
  OBVIOUS
<1>1. CASE Clock
  BY <1>1 DEF Clock, ReqLockExpires, GenLockExpires, GoesQuiet, TypeOK, tables
<1>2. CASE UNCHANGED vars
  BY <1>2 DEF vars, tables, TypeOK
<1> QED BY <1>1, <1>2, TypeOrchestrator, TypeGeneration, TypeBeatTask DEF Next

\* Every variable keeps its type, and no request or worker acts on a
\* selection that does not exist.
THEOREM TypeCorrect == Spec => []TypeOK
BY TypeInit, TypeStep, PTL DEF Spec

-----------------------------------------------------------------------------
(* What the flow does to the spins of a user: first what holds whether or  *)
(* not Redis is up, then what the request lock adds.                       *)

\* Of all the actions, three order a selection, three close waitings (to
\* confirm them when there is a PDF, or when the beat read so), and the others
\* touch neither the balances nor the waitings nor the attached users.
Orders == \E u \in Users, c \in Clicks :
            ReqBuy(u, c) \/ ReqJoin(u, c) \/ ReqCreate(u, c)

Closes == \E confirm, release :
            /\ CloseAndAct(confirm, release)
            /\ \A p \in confirm : p[2] \in pdf' \/ p \in beat.confirm
            /\ UNCHANGED attached

LEMMA LedgerSteps ==
  ASSUME [Next]_vars
  PROVE  Orders \/ Closes \/ UNCHANGED <<balance, waiting, attached>>
<1>1. CASE Orchestrator
  <2>1. ASSUME NEW u \in Users, NEW c \in Clicks,
               ReqBuy(u, c) \/ ReqJoin(u, c) \/ ReqCreate(u, c)
        PROVE  Orders
    BY <2>1 DEF Orders
  <2>2. ASSUME NEW u \in Users, NEW c \in Clicks, NEW l \in Links,
               ReqArrive(u, c, l) \/ ReqArriveUnlocked(u, c, l)
        PROVE  UNCHANGED <<balance, waiting, attached>>
    BY <2>2 DEF ReqArrive, ReqArriveUnlocked, tables
  <2>3. ASSUME NEW u \in Users, NEW c \in Clicks,
               \/ ReqLookup(u, c) \/ ReqRefused(u, c)
               \/ ReqPublish(u, c) \/ ReqCrash(u, c)
        PROVE  UNCHANGED <<balance, waiting, attached>>
    BY <2>3 DEF ReqLookup, ReqRefused, ReqPublish, ReqCrash, tables
  <2> QED BY <1>1, <2>1, <2>2, <2>3 DEF Orchestrator, RequestStep
<1>2. CASE Generation
  <2>1. ASSUME NEW w \in Workers, GenFinish(w)
        PROVE  Closes
    BY <2>1 DEF GenFinish, WaitingsOf, Closes
  <2>2. ASSUME NEW w \in Workers, GenGiveUp(w)
        PROVE  Closes
    BY <2>2 DEF GenGiveUp, MarkFailed, Closes
  <2> QED BY <1>2, <2>1, <2>2 DEF Generation, GenTake, GenSkip, GenStart, GenSaveStep,
             GenRetry, GenCrash, GenLost, tables
<1>3. CASE BeatTask
  <2>1. CASE BeatCommit
    BY <2>1 DEF BeatCommit, Closes
  <2> QED BY <1>3, <2>1 DEF BeatTask, BeatScan, BeatCrash, BeatPublish, tables
<1>4. CASE Clock
  BY <1>4 DEF Clock, ReqLockExpires, GenLockExpires, GoesQuiet, tables
<1>5. CASE UNCHANGED vars
  BY <1>5 DEF vars, tables
<1> QED BY <1>1, <1>2, <1>3, <1>4, <1>5 DEF Next

\* A new selection is one reserve, and one more waiting at most.
LEMMA CreateEffect ==
  ASSUME NEW v \in Users, NEW c \in Clicks, NEW first, NEW next,
         CreateSelection(v, c, first, next)
  PROVE  \E s \in Selections :
           /\ status[s] = "none"
           /\ CanReserve(balance[v])
           /\ balance' = [balance EXCEPT ![v] = ReserveSpin(@)]
           /\ attached' = [attached EXCEPT ![v] = @ \cup {s}]
           /\ GetOrCreateWaiting(v, s)
BY DEF CreateSelection, NextId

\* An order by v is one reserve, and one more waiting at most.
LEMMA OrderEffect ==
  ASSUME TypeOK, NEW v \in Users, NEW c \in Clicks, ReqJoin(v, c) \/ ReqCreate(v, c)
  PROVE  \E s \in Selections :
           /\ CanReserve(balance[v])
           /\ balance' = [balance EXCEPT ![v] = ReserveSpin(@)]
           /\ attached' = [attached EXCEPT ![v] = @ \cup {s}]
           /\ GetOrCreateWaiting(v, s)
           /\ IF req[v][c].pc = "join" THEN s = req[v][c].sel ELSE status[s] = "none"
<1>1. CASE ReqJoin(v, c)
  <2>1. req[v][c].sel \in Selections
    BY <1>1 DEF ReqJoin, TypeOK, Request, Selections
  <2> QED BY <1>1, <2>1 DEF ReqJoin
<1>2. CASE ReqCreate(v, c)
  <2> QED BY <1>2, CreateEffect DEF ReqCreate
<1> QED BY <1>1, <1>2

\* Closing waitings moves as many spins out of the reserve as waitings out
\* of the open ones, when each of them has its spin there.
LEMMA CloseEffect ==
  ASSUME TypeOK, NEW confirm, NEW release, CloseAndAct(confirm, release),
         NEW u \in Users, Cardinality(OpenOf(u)) <= balance[u].reserved
  PROVE  \E n, m \in Nat :
           /\ n = Cardinality(toConfirm(confirm, u))
           /\ m = Cardinality(toRelease(confirm, release, u))
           /\ Cardinality(OpenOf(u)') = Cardinality(OpenOf(u)) - (n + m)
           /\ balance'[u].reserved = balance[u].reserved - (n + m)
           /\ balance'[u].confirmed = balance[u].confirmed + n
           /\ balance'[u].spins = balance[u].spins + m
<1> DEFINE C == toConfirm(confirm, u)
           R == toRelease(confirm, release, u)
           n == Cardinality(C)
           m == Cardinality(R)
<1>1. C \subseteq OpenOf(u) /\ R \subseteq OpenOf(u) /\ C \cap R = {}
  BY DEF toConfirm, toRelease
<1>2. OpenOf(u)' = OpenOf(u) \ (C \cup R)
  BY CloseAndActEffect DEF OpenOf, toConfirm, toRelease
<1>3. /\ IsFiniteSet(OpenOf(u)) /\ Cardinality(OpenOf(u)) \in Nat
      /\ IsFiniteSet(C) /\ IsFiniteSet(R) /\ n \in Nat /\ m \in Nat
  BY SelectionSets, ClosedSets DEF OpenOf
<1> HIDE DEF C, R
<1>4. IsFiniteSet(C \cup R) /\ Cardinality(C \cup R) = n + m
  <2>1. Cardinality(C \cap R) = 0
    BY <1>1, FS_EmptySet
  <2>2. /\ IsFiniteSet(C \cup R)
        /\ Cardinality(C \cup R) = Cardinality(C) + Cardinality(R) - Cardinality(C \cap R)
    BY <1>3, FS_Union
  <2> QED BY <1>3, <2>1, <2>2
<1>5. /\ n + m <= Cardinality(OpenOf(u))
      /\ Cardinality(OpenOf(u)') = Cardinality(OpenOf(u)) - (n + m)
  <2>1. (C \cup R) \subseteq OpenOf(u) /\ OpenOf(u) \cap (C \cup R) = C \cup R
    BY <1>1
  <2>2. Cardinality(C \cup R) <= Cardinality(OpenOf(u))
    BY <1>3, <2>1, FS_Subset
  <2>3. Cardinality(OpenOf(u) \ (C \cup R)) =
          Cardinality(OpenOf(u)) - Cardinality(OpenOf(u) \cap (C \cup R))
    BY <1>3, FS_Difference
  <2> QED BY <1>2, <1>4, <2>1, <2>2, <2>3
<1>6. balance'[u] = ReleaseSpins(ConfirmSpins(balance[u], n), m)
  BY CloseAndActEffect DEF C, R
<1>7. balance[u] \in Balance /\ balance[u].reserved \in Nat
  BY DEF TypeOK, Balance
<1>8. n \in Nat /\ m \in Nat
  BY <1>3
<1> HIDE DEF n, m
<1>9. n + m <= balance[u].reserved
  BY <1>3, <1>5, <1>7
<1>10. /\ balance'[u].reserved = balance[u].reserved - (n + m)
      /\ balance'[u].confirmed = balance[u].confirmed + n
      /\ balance'[u].spins = balance[u].spins + m
  <2> DEFINE a == ReleaseSpins(ConfirmSpins(balance[u], n), m)
  <2>1. /\ a.reserved = balance[u].reserved - (n + m)
        /\ a.confirmed = balance[u].confirmed + n
        /\ a.spins = balance[u].spins + m
    BY <1>7, <1>9, <1>8, SettleEffect
  <2> QED BY <1>6, <2>1
<1> QED BY <1>3, <1>5, <1>10 DEF n, m, C, R

-----------------------------------------------------------------------------
(* Every open waiting has a spin in reserve                                *)

\* An order adds one open waiting at most, and one spin to the reserve.
LEMMA BackedOrder ==
  ASSUME TypeOK, OpenWaitingsAreBacked, NEW v \in Users, NEW s \in Selections,
         CanReserve(balance[v]), balance' = [balance EXCEPT ![v] = ReserveSpin(@)],
         GetOrCreateWaiting(v, s)
  PROVE  OpenWaitingsAreBacked'
<1> SUFFICES ASSUME NEW u \in Users
             PROVE  Cardinality(OpenOf(u)') <= balance'[u].reserved
  BY DEF OpenWaitingsAreBacked
<1>1. /\ balance[u] \in Balance /\ balance[u].reserved \in Nat
      /\ IsFiniteSet(OpenOf(u)) /\ Cardinality(OpenOf(u)) \in Nat
      /\ Cardinality(OpenOf(u)) <= balance[u].reserved
  BY SelectionSets DEF TypeOK, Balance, OpenOf, OpenWaitingsAreBacked
<1>2. CASE v = u
  <2>1. balance'[u].reserved = balance[u].reserved + 1
    BY <1>1, <1>2, ReserveEffect DEF TypeOK
  <2>2. OpenOf(u)' \in {OpenOf(u), OpenOf(u) \cup {s}}
    BY <1>1, <1>2 DEF GetOrCreateWaiting, OpenOf, TypeOK
  <2>3. Cardinality(OpenOf(u) \cup {s}) <= Cardinality(OpenOf(u)) + 1
    <3> DEFINE S == OpenOf(u)
    <3> HIDE DEF S
    <3>1. IsFiniteSet(S) => Cardinality(S \cup {s}) \in {Cardinality(S), Cardinality(S) + 1}
      BY FS_AddElement
    <3> QED BY <1>1, <3>1 DEF S
  <2>4. Cardinality(OpenOf(u)') <= Cardinality(OpenOf(u)) + 1
    <3>1. CASE OpenOf(u)' = OpenOf(u)
      BY <1>1, <3>1
    <3>2. CASE OpenOf(u)' = OpenOf(u) \cup {s}
      BY <2>3, <3>2
    <3> QED BY <2>2, <3>1, <3>2
  <2>5. Cardinality(OpenOf(u)') \in Nat
    BY SelectionSets DEF OpenOf
  <2> QED BY <1>1, <2>1, <2>4, <2>5
<1>3. CASE v # u
  BY <1>1, <1>3 DEF GetOrCreateWaiting, OpenOf, TypeOK
<1> QED BY <1>2, <1>3

\* Closing waitings takes their spins out of the reserve with them.
LEMMA BackedClose ==
  ASSUME TypeOK, OpenWaitingsAreBacked, NEW confirm, NEW release, CloseAndAct(confirm, release)
  PROVE  OpenWaitingsAreBacked'
<1> SUFFICES ASSUME NEW u \in Users
             PROVE  Cardinality(OpenOf(u)') <= balance'[u].reserved
  BY DEF OpenWaitingsAreBacked
<1>1. /\ balance[u] \in Balance /\ balance[u].reserved \in Nat
      /\ IsFiniteSet(OpenOf(u)) /\ Cardinality(OpenOf(u)) \in Nat
      /\ Cardinality(OpenOf(u)) <= balance[u].reserved
  BY SelectionSets DEF TypeOK, Balance, OpenOf, OpenWaitingsAreBacked
<1> QED BY <1>1, CloseEffect

LEMMA BackedStep ==
  ASSUME TypeOK, OpenWaitingsAreBacked, [Next]_vars
  PROVE  OpenWaitingsAreBacked'
<1> SUFFICES ASSUME NEW u \in Users
             PROVE  Cardinality(OpenOf(u)') <= balance'[u].reserved
  BY DEF OpenWaitingsAreBacked
<1>1. /\ balance[u] \in Balance /\ balance[u].reserved \in Nat
      /\ IsFiniteSet(OpenOf(u)) /\ Cardinality(OpenOf(u)) \in Nat
      /\ Cardinality(OpenOf(u)) <= balance[u].reserved
  BY SelectionSets DEF TypeOK, Balance, OpenOf, OpenWaitingsAreBacked
<1>2. ASSUME NEW v \in Users, NEW c \in Clicks, ReqBuy(v, c)
      PROVE  Cardinality(OpenOf(u)') <= balance'[u].reserved
  <2>1. OpenOf(u)' = OpenOf(u)
    BY <1>2 DEF ReqBuy, OpenOf
  <2>2. balance'[u].reserved = balance[u].reserved
    <3>1. CASE v = u
      <4> DEFINE r == ReserveSpin(balance[u])
      <4>1. r \in Balance /\ r.reserved = balance[u].reserved + 1
        BY <1>1, <1>2, <3>1, ReserveEffect DEF ReqBuy
      <4>2. balance'[u] = ConfirmSpins(r, 1)
        BY <1>2, <3>1 DEF ReqBuy, TypeOK
      <4> HIDE DEF r
      <4>3. 1 <= r.reserved => ConfirmSpins(r, 1).reserved = r.reserved - 1
        BY <4>1, ConfirmEffect
      <4> QED BY <1>1, <4>1, <4>2, <4>3
    <3>2. CASE v # u
      BY <1>2, <3>2 DEF ReqBuy, TypeOK
    <3> QED BY <3>1, <3>2
  <2> QED BY <1>1, <2>1, <2>2
<1>3. ASSUME NEW v \in Users, NEW c \in Clicks, ReqJoin(v, c) \/ ReqCreate(v, c)
      PROVE  Cardinality(OpenOf(u)') <= balance'[u].reserved
  BY <1>3, OrderEffect, BackedOrder DEF OpenWaitingsAreBacked
<1>4. ASSUME NEW confirm, NEW release, CloseAndAct(confirm, release)
      PROVE  Cardinality(OpenOf(u)') <= balance'[u].reserved
  BY <1>4, BackedClose DEF OpenWaitingsAreBacked
<1>5. CASE UNCHANGED <<balance, waiting, attached>>
  BY <1>1, <1>5 DEF OpenOf
<1> QED BY <1>2, <1>3, <1>4, <1>5, LedgerSteps DEF Orders, Closes

\* Nobody has waitings at the start.
LEMMA BackedInit == Init => OpenWaitingsAreBacked
<1> SUFFICES ASSUME Init, NEW u \in Users
             PROVE  Cardinality(OpenOf(u)) <= balance[u].reserved
  BY DEF OpenWaitingsAreBacked
<1>1. OpenOf(u) = {}
  BY DEF Init, OpenOf
<1>2. balance[u].reserved = 0
  BY DEF Init, NewBalance
<1> QED BY <1>1, <1>2, FS_EmptySet

\* Whatever fails, the confirm or release that closes an open waiting finds
\* the spin of that waiting in the reserve.
THEOREM Backed == Spec => []OpenWaitingsAreBacked
<1>1. Init => OpenWaitingsAreBacked
  BY BackedInit
<1>2. TypeOK /\ OpenWaitingsAreBacked /\ [Next]_vars => OpenWaitingsAreBacked'
  BY BackedStep
<1> QED BY <1>1, <1>2, TypeCorrect, PTL DEF Spec

-----------------------------------------------------------------------------
(* A charge is only made for a selection that has its PDF                  *)

\* A waiting is made for a user in the transaction that attaches the user.
WaitingsAreAttached ==
  \A u \in Users, s \in Selections : s \notin attached[u] => waiting[u][s] = "none"

LEMMA AttachedOrder ==
  ASSUME TypeOK, WaitingsAreAttached, NEW v \in Users, NEW t \in Selections,
         attached' = [attached EXCEPT ![v] = @ \cup {t}], GetOrCreateWaiting(v, t)
  PROVE  WaitingsAreAttached'
BY DEF WaitingsAreAttached, GetOrCreateWaiting, TypeOK

LEMMA AttachedClose ==
  ASSUME WaitingsAreAttached, NEW confirm, NEW release, CloseAndAct(confirm, release),
         UNCHANGED attached
  PROVE  WaitingsAreAttached'
<1> SUFFICES ASSUME NEW u \in Users, NEW s \in Selections, s \notin attached'[u]
             PROVE  waiting'[u][s] = "none"
  BY DEF WaitingsAreAttached
<1>1. waiting[u][s] = "none"
  BY DEF WaitingsAreAttached
<1>2. s \notin toConfirm(confirm, u) /\ s \notin toRelease(confirm, release, u)
  BY <1>1 DEF toConfirm, toRelease, OpenOf
<1> QED BY <1>1, <1>2, CloseAndActEffect

LEMMA AttachedStep ==
  ASSUME TypeOK, WaitingsAreAttached, [Next]_vars
  PROVE  WaitingsAreAttached'
<1>1. ASSUME NEW v \in Users, NEW c \in Clicks, ReqBuy(v, c)
      PROVE  WaitingsAreAttached'
  BY <1>1 DEF ReqBuy, WaitingsAreAttached, TypeOK
<1>2. ASSUME NEW v \in Users, NEW c \in Clicks, ReqJoin(v, c) \/ ReqCreate(v, c)
      PROVE  WaitingsAreAttached'
  BY <1>2, OrderEffect, AttachedOrder
<1>3. CASE UNCHANGED <<balance, waiting, attached>>
  BY <1>3 DEF WaitingsAreAttached
<1> QED BY <1>1, <1>2, <1>3, AttachedClose, LedgerSteps DEF Orders, Closes

\* What the steps of a request leave of the requests: an end is idle, and a
\* request that goes on keeps its link and its lock.
LEMMA ReplyEffect ==
  ASSUME TypeOK, NEW u \in Users, NEW c \in Clicks, Reply(u, c)
  PROVE  /\ \A v \in Users, d \in Clicks : v # u \/ d # c => req'[v][d] = req[v][d]
         /\ req'[u][c].pc = "idle"
BY DEF Reply, IdleRequest, TypeOK

LEMMA GotoEffect ==
  ASSUME TypeOK, NEW u \in Users, NEW c \in Clicks, NEW pc, NEW s, Goto(u, c, pc, s)
  PROVE  /\ \A v \in Users, d \in Clicks : v # u \/ d # c => req'[v][d] = req[v][d]
         /\ req'[u][c].pc = pc /\ req'[u][c].sel = s
         /\ req'[u][c].link = req[u][c].link
         /\ req'[u][c].locked = req[u][c].locked
<1>1. req[u][c] \in Request
  BY DEF TypeOK
<1> DEFINE r == [req[u][c] EXCEPT !.pc = pc, !.sel = s]
<1>2. /\ r.pc = pc /\ r.sel = s
      /\ r.link = req[u][c].link /\ r.locked = req[u][c].locked
  BY <1>1 DEF Request
<1>3. req' = [req EXCEPT ![u][c] = r]
  BY DEF Goto
<1> HIDE DEF r
<1> QED BY <1>2, <1>3 DEF TypeOK

LEMMA ArriveEffect ==
  ASSUME TypeOK, NEW u \in Users, NEW c \in Clicks, NEW l \in Links,
         ReqArrive(u, c, l) \/ ReqArriveUnlocked(u, c, l)
  PROVE  /\ \A v \in Users, d \in Clicks : v # u \/ d # c => req'[v][d] = req[v][d]
         /\ req'[u][c].pc = "lookup" /\ req'[u][c].link = l
         /\ UNCHANGED tables /\ UNCHANGED beat
<1> DEFINE r(b) == [pc |-> "lookup", link |-> l, sel |-> 0, locked |-> b]
<1>1. \A b : r(b).pc = "lookup" /\ r(b).link = l /\ r(b).locked = b
  OBVIOUS
<1>2. PICK b : req' = [req EXCEPT ![u][c] = r(b)]
  BY DEF ReqArrive, ReqArriveUnlocked
<1> HIDE DEF r
<1> QED BY <1>1, <1>2 DEF ReqArrive, ReqArriveUnlocked, TypeOK

\* Who may charge, and what: a PDF is never taken back, only a generation
\* that stores one says DONE, and a request or the beat takes DONE for it.
DoneHasPdf ==
  /\ \A s \in Selections : status[s] = "DONE" => s \in pdf
  /\ \A u \in Users, c \in Clicks : req[u][c].pc = "buy" => req[u][c].sel \in pdf
  /\ \A p \in beat.confirm : p[2] \in pdf

LEMMA DoneCreate ==
  ASSUME TypeOK, DoneHasPdf, NEW u \in Users, NEW c \in Clicks,
         NEW first \in Status \ {"DONE"}, NEW next \in {"publish", "parsePublish"},
         CreateSelection(u, c, first, next)
  PROVE  DoneHasPdf' /\ pdf \subseteq pdf'
<1>1. PICK s \in Selections : status' = [status EXCEPT ![s] = first] /\ Goto(u, c, next, s)
  BY DEF CreateSelection
<1>2. UNCHANGED <<pdf, beat>>
  BY DEF CreateSelection
<1>3. \A t \in Selections : status'[t] = "DONE" => status[t] = "DONE"
  BY <1>1 DEF TypeOK
<1> QED BY <1>1, <1>2, <1>3, GotoEffect DEF DoneHasPdf

LEMMA DoneStep ==
  ASSUME TypeOK, DoneHasPdf, [Next]_vars
  PROVE  DoneHasPdf' /\ pdf \subseteq pdf'
<1>1. CASE Orchestrator
  <2>1. ASSUME NEW u \in Users, NEW c \in Clicks, NEW l \in Links,
               ReqArrive(u, c, l) \/ ReqArriveUnlocked(u, c, l)
        PROVE  DoneHasPdf' /\ pdf \subseteq pdf'
    BY <2>1, ArriveEffect DEF DoneHasPdf, tables
  <2>2. ASSUME NEW u \in Users, NEW c \in Clicks, ReqLookup(u, c)
        PROVE  DoneHasPdf' /\ pdf \subseteq pdf'
    <3>1. CASE Reply(u, c)
      BY <2>2, <3>1, ReplyEffect DEF ReqLookup, DoneHasPdf, tables
    <3>2. CASE Goto(u, c, "create", 0)
      BY <2>2, <3>2, GotoEffect DEF ReqLookup, DoneHasPdf, tables
    <3>3. ASSUME NEW s \in Selections,
                 Goto(u, c, IF status[s] = "DONE" THEN "buy" ELSE "join", s)
          PROVE  DoneHasPdf' /\ pdf \subseteq pdf'
      BY <2>2, <3>3, GotoEffect DEF ReqLookup, DoneHasPdf, tables
    <3> QED BY <2>2, <3>1, <3>2, <3>3 DEF ReqLookup, Latest
  <2>3. ASSUME NEW u \in Users, NEW c \in Clicks,
               ReqRefused(u, c) \/ ReqBuy(u, c) \/ ReqJoin(u, c) \/ ReqPublish(u, c)
        PROVE  DoneHasPdf' /\ pdf \subseteq pdf'
    <3>1. Reply(u, c) /\ UNCHANGED <<status, pdf, beat>>
      BY <2>3 DEF ReqRefused, ReqBuy, ReqJoin, ReqPublish, tables
    <3> QED BY <3>1, ReplyEffect DEF DoneHasPdf
  <2>4. ASSUME NEW u \in Users, NEW c \in Clicks, ReqCreate(u, c)
        PROVE  DoneHasPdf' /\ pdf \subseteq pdf'
    <3>1. "QUEUE" \in Status \ {"DONE"}
      BY DEF Status, InProgress
    <3> QED BY <2>4, <3>1, DoneCreate DEF ReqCreate
  <2>5. ASSUME NEW u \in Users, NEW c \in Clicks, ReqCrash(u, c)
        PROVE  DoneHasPdf' /\ pdf \subseteq pdf'
    BY <2>5 DEF ReqCrash, IdleRequest, DoneHasPdf, TypeOK, tables
  <2> QED BY <1>1, <2>1, <2>2, <2>3, <2>4, <2>5 DEF Orchestrator, RequestStep
<1>2. CASE Generation
  <2>1. UNCHANGED <<req, beat>>
    BY <1>2 DEF Generation, GenTake, GenSkip, GenStart, GenSaveStep, GenFinish, GenGiveUp,
       GenRetry, GenCrash, GenLost
  <2>2. pdf \subseteq pdf' /\ \A s \in Selections : status'[s] = "DONE" => s \in pdf'
    BY <1>2 DEF Generation, GenTake, GenSkip, GenStart, GenSaveStep, GenFinish, GenGiveUp,
       MarkFailed, GenRetry, GenCrash, GenLost, tables, DoneHasPdf, TypeOK
  <2> QED BY <2>1, <2>2 DEF DoneHasPdf
<1>3. CASE BeatTask
  <2>1. CASE BeatScan
    BY <2>1 DEF BeatScan, OpenAt, Stuck, OpenWaitings, Pairs, DoneHasPdf, tables
  <2>2. CASE BeatCommit
    BY <2>2 DEF BeatCommit, IdleBeat, DoneHasPdf
  <2>3. CASE BeatCrash
    BY <2>3 DEF BeatCrash, IdleBeat, DoneHasPdf, tables
  <2>4. ASSUME NEW s \in Selections, BeatPublish(s)
        PROVE  DoneHasPdf' /\ pdf \subseteq pdf'
    BY <2>4 DEF BeatPublish, DoneHasPdf, TypeOK, Beat, tables
  <2> QED BY <1>3, <2>1, <2>2, <2>3, <2>4 DEF BeatTask
<1>4. CASE Clock
  BY <1>4 DEF Clock, ReqLockExpires, GenLockExpires, GoesQuiet, DoneHasPdf, tables
<1>5. CASE UNCHANGED vars
  BY <1>5 DEF vars, tables, DoneHasPdf
<1> QED BY <1>1, <1>2, <1>3, <1>4, <1>5 DEF Next

LEMMA ChargedOrder ==
  ASSUME TypeOK, WaitingsAreAttached, ChargedOnlyForPdf, pdf \subseteq pdf',
         NEW v \in Users, NEW t \in Selections,
         attached' = [attached EXCEPT ![v] = @ \cup {t}], GetOrCreateWaiting(v, t)
  PROVE  ChargedOnlyForPdf'
<1> SUFFICES ASSUME NEW u \in Users, NEW s \in Charged(u)' PROVE s \in pdf'
  BY DEF ChargedOnlyForPdf
<1>1. s \in Selections /\ s \in attached'[u] /\ waiting'[u][s] \in {"none", "CONFIRMED"}
  BY DEF Charged, TypeOK
<1>2. s \in Charged(u)
  BY <1>1 DEF Charged, GetOrCreateWaiting, WaitingsAreAttached, TypeOK
<1> QED BY <1>2 DEF ChargedOnlyForPdf

LEMMA ChargedClose ==
  ASSUME TypeOK, ChargedOnlyForPdf, pdf \subseteq pdf',
         NEW confirm, NEW release, CloseAndAct(confirm, release), UNCHANGED attached,
         \A p \in confirm : p[2] \in pdf'
  PROVE  ChargedOnlyForPdf'
<1> SUFFICES ASSUME NEW u \in Users, NEW s \in Charged(u)' PROVE s \in pdf'
  BY DEF ChargedOnlyForPdf
<1>1. s \in Selections /\ s \in attached'[u] /\ waiting'[u][s] \in {"none", "CONFIRMED"}
  BY DEF Charged, TypeOK
<1>2. s \in Charged(u) \/ <<u, s>> \in confirm
  BY <1>1, CloseAndActEffect DEF Charged, toConfirm, toRelease
<1> QED BY <1>2 DEF ChargedOnlyForPdf

LEMMA ChargedStep ==
  ASSUME TypeOK, WaitingsAreAttached, DoneHasPdf, ChargedOnlyForPdf, [Next]_vars
  PROVE  ChargedOnlyForPdf'
<1>1. DoneHasPdf' /\ pdf \subseteq pdf'
  BY DoneStep
<1>2. ASSUME NEW v \in Users, NEW c \in Clicks, ReqBuy(v, c)
      PROVE  ChargedOnlyForPdf'
  <2> SUFFICES ASSUME NEW u \in Users, NEW s \in Charged(u)' PROVE s \in pdf'
    BY DEF ChargedOnlyForPdf
  <2>1. s \in Charged(u) \/ s = req[v][c].sel
    BY <1>2 DEF ReqBuy, Charged, TypeOK
  <2>2. req[v][c].sel \in pdf
    BY <1>2 DEF ReqBuy, DoneHasPdf
  <2> QED BY <1>1, <2>1, <2>2 DEF ChargedOnlyForPdf
<1>3. ASSUME NEW v \in Users, NEW c \in Clicks, ReqJoin(v, c) \/ ReqCreate(v, c)
      PROVE  ChargedOnlyForPdf'
  BY <1>1, <1>3, OrderEffect, ChargedOrder
<1>4. CASE Closes
  <2>1. PICK confirm, release :
           /\ CloseAndAct(confirm, release)
           /\ \A p \in confirm : p[2] \in pdf' \/ p \in beat.confirm
           /\ UNCHANGED attached
    BY <1>4 DEF Closes
  <2>2. \A p \in confirm : p[2] \in pdf'
    BY <1>1, <2>1 DEF DoneHasPdf
  <2> QED BY <1>1, <2>1, <2>2, ChargedClose
<1>5. CASE UNCHANGED <<balance, waiting, attached>>
  BY <1>1, <1>5 DEF Charged, ChargedOnlyForPdf
<1> QED BY <1>2, <1>3, <1>4, <1>5, LedgerSteps DEF Orders

\* A user is charged for nothing but selections whose PDF exists.
THEOREM ChargedForPdf == Spec => []ChargedOnlyForPdf
<1>1. Init => WaitingsAreAttached /\ DoneHasPdf /\ ChargedOnlyForPdf
  BY DEF Init, WaitingsAreAttached, DoneHasPdf, IdleRequest, IdleBeat, ChargedOnlyForPdf, Charged
<1>2. /\ TypeOK /\ WaitingsAreAttached /\ DoneHasPdf /\ ChargedOnlyForPdf
      /\ [Next]_vars
      => WaitingsAreAttached' /\ DoneHasPdf' /\ ChargedOnlyForPdf'
  BY AttachedStep, DoneStep, ChargedStep
<1> QED BY <1>1, <1>2, TypeCorrect, PTL DEF Spec
=============================================================================
