--------------------------- MODULE SelectionFlow ----------------------------
(***************************************************************************)
(* From a user's link to a ready selection, for products that are already  *)
(* parsed: the orchestrator of the API (apps/orchestrator/service.py), the *)
(* Celery task that generates a selection and the beat task that rescues   *)
(* stuck ones (infrastructure/celery/tasks.py), over the tables            *)
(* selections, selection_users, waitings and user_balances.                *)
(*                                                                         *)
(* A database transaction is one action, at its commit; what it read       *)
(* before, outside a row lock, is read by an earlier action.  One task     *)
(* type: a link stands for the pair (product link, task type).             *)
(***************************************************************************)
EXTENDS SpinLedger, FiniteSets

CONSTANTS
  Users, Links,
  NoLink,           \* link of an idle request and of an unused selection id
  Clicks,           \* requests one user may have in flight at a time
  Workers,          \* processes of the Selection_Queue worker that generate
  MaxSelections,    \* bound: selections ever created
  MaxSpins,         \* bound: generations a user starts with
  MaxRetries,       \* max_retries of the task (3 in the code)
  QueueCap,         \* bound: copies of one message in the queue
  MaxFaults,        \* bound: crashes and lost calls of a behaviour
  RedisMayFail,     \* may the API find Redis down and work without its lock?
  LiveLockMayLapse  \* may the generation lock run out under a live worker?

ASSUME LinksAssumption == NoLink \notin Links
ASSUME BoundsAssumption ==
  {MaxSelections, MaxSpins, MaxRetries, QueueCap, MaxFaults} \subseteq Nat
ASSUME FlagsAssumption == {RedisMayFail, LiveLockMayLapse} \subseteq BOOLEAN

Selections == 1 .. MaxSelections
Retries == 0 .. MaxRetries

VARIABLES
  balance,   \* user_balances (and the CONFIRM rows), per user
  status,    \* selections.selection_status, "none" for an unused id
  linkOf,    \* the link a selection was created for
  attached,  \* selection_users: the selections of a user
  waiting,   \* waitings: status of the row (user, selection)
  pdf,       \* selections with a pdf_url
  quiet,     \* selections not updated for longer than the beat tolerates
  req,       \* requests in flight in the API
  reqLock,   \* keys selection_request_lock:<user>:<link> in Redis
  queue,     \* generation messages: copies per selection and retry number
  genLock,   \* keys selection_lock:<selection> in Redis
  gen,       \* generation workers
  beat,      \* run_waiting_task: what it has read and not yet committed
  faults     \* crashes and lost calls so far

tables == <<balance, status, linkOf, attached, waiting, pdf, quiet>>
vars == <<tables, req, reqLock, queue, genLock, gen, beat, faults>>

\* PARSING, and the requests at insert, parse and parsePublish, are entered by
\* the actions of module ParseFlow only.
InProgress == {"QUEUE", "PROCESS"}
Status == InProgress \cup {"none", "PARSING", "DONE", "FAILED"}
Pairs == Users \X Selections

(***************************************************************************)
(* A waiting is OPEN or CLOSED.  A CLOSED one keeps here which ledger row  *)
(* was written in the transaction that closed it, CONFIRM or RELEASE.      *)
(***************************************************************************)
Closed == {"CONFIRMED", "RELEASED"}
WaitingStatus == Closed \cup {"none", "OPEN"}

Request == [pc : {"idle", "lookup", "buy", "join", "create", "publish",
                  "insert", "parse", "parsePublish"},
            link : Links \cup {NoLink}, sel : 0 .. MaxSelections,
            locked : BOOLEAN]
IdleRequest == [pc |-> "idle", link |-> NoLink, sel |-> 0, locked |-> FALSE]

Worker == [pc : {"idle", "locked", "run"}, sel : 0 .. MaxSelections,
           retries : Retries]
IdleWorker == [pc |-> "idle", sel |-> 0, retries |-> 0]

Beat == [pc : {"idle", "scanned"}, confirm : SUBSET Pairs,
         release : SUBSET Pairs, resend : SUBSET Selections,
         mark : SUBSET Selections]
IdleBeat == [pc |-> "idle", confirm |-> {}, release |-> {},
             resend |-> {}, mark |-> {}]

TypeOK ==
  /\ balance \in [Users -> Balance]
  /\ status \in [Selections -> Status]
  /\ linkOf \in [Selections -> Links \cup {NoLink}]
  /\ attached \in [Users -> SUBSET Selections]
  /\ waiting \in [Users -> [Selections -> WaitingStatus]]
  /\ pdf \in SUBSET Selections
  /\ quiet \in SUBSET Selections
  /\ req \in [Users -> [Clicks -> Request]]
  /\ reqLock \in SUBSET (Users \X Links)
  /\ queue \in [Selections -> [Retries -> 0 .. QueueCap]]
  /\ genLock \in SUBSET Selections
  /\ gen \in [Workers -> Worker]
  /\ beat \in Beat
  /\ faults \in 0 .. MaxFaults
  /\ \A u \in Users, c \in Clicks :
       req[u][c].pc \in {"buy", "join", "publish"} => req[u][c].sel # 0
  /\ \A w \in Workers : gen[w].pc # "idle" => gen[w].sel # 0

Init ==
  /\ \E given \in [Users -> 0 .. MaxSpins] :
       balance = [u \in Users |-> NewBalance(given[u])]
  /\ status = [s \in Selections |-> "none"]
  /\ linkOf = [s \in Selections |-> NoLink]
  /\ attached = [u \in Users |-> {}]
  /\ waiting = [u \in Users |-> [s \in Selections |-> "none"]]
  /\ pdf = {}
  /\ quiet = {}
  /\ req = [u \in Users |-> [c \in Clicks |-> IdleRequest]]
  /\ reqLock = {}
  /\ queue = [s \in Selections |-> [r \in Retries |-> 0]]
  /\ genLock = {}
  /\ gen = [w \in Workers |-> IdleWorker]
  /\ beat = IdleBeat
  /\ faults = 0

-----------------------------------------------------------------------------
(* Waitings, the balance and the queue                                     *)

OpenWaitings == {p \in Pairs : waiting[p[1]][p[2]] = "OPEN"}
OpenOf(u) == {s \in Selections : waiting[u][s] = "OPEN"}

\* Mutant of CloseAndAct: the row is updated whatever its status is.
CloseAndActAnyStatus(confirm, release) ==
  LET rows(u, pairs) == {s \in Selections : waiting[u][s] # "none" /\ <<u, s>> \in pairs}
  IN  /\ waiting' = [u \in Users |-> [s \in Selections |->
                       IF s \in rows(u, confirm) THEN "CONFIRMED"
                       ELSE IF s \in rows(u, release) THEN "RELEASED"
                       ELSE waiting[u][s]]]
      /\ balance' = [u \in Users |->
                       ReleaseSpins(
                         ConfirmSpins(balance[u], Cardinality(rows(u, confirm))),
                         Cardinality(rows(u, release)))]

(***************************************************************************)
(* _close_waiting_and_act for every pair of confirm and of release, in one *)
(* transaction: UPDATE ... WHERE status = OPEN, and the ledger operation   *)
(* only when that updated the row.                                         *)
(***************************************************************************)
CloseAndAct(confirm, release) ==
  LET toConfirm(u) == {s \in OpenOf(u) : <<u, s>> \in confirm}
      toRelease(u) == {s \in OpenOf(u) \ toConfirm(u) : <<u, s>> \in release}
  IN  /\ waiting' = [u \in Users |-> [s \in Selections |->
                       IF s \in toConfirm(u) THEN "CONFIRMED"
                       ELSE IF s \in toRelease(u) THEN "RELEASED"
                       ELSE waiting[u][s]]]
      /\ balance' = [u \in Users |->
                       ReleaseSpins(
                         ConfirmSpins(balance[u], Cardinality(toConfirm(u))),
                         Cardinality(toRelease(u)))]

WaitingsOf(s) == Users \X {s}

\* .delay and retry: one more copy of the message, up to the bound.
Send(s, r) ==
  queue' = [queue EXCEPT ![s][r] = IF @ < QueueCap THEN @ + 1 ELSE @]

Fault == faults < MaxFaults /\ faults' = faults + 1

-----------------------------------------------------------------------------
(* The orchestrator: one request of user u, in slot c                      *)

Latest(l) == {s \in Selections : /\ linkOf[s] = l
                                 /\ \A t \in Selections : linkOf[t] = l => t <= s}

NextId(s) == status[s] = "none" /\ \A t \in 1 .. s - 1 : status[t] # "none"

Active(u, c) == req[u][c].pc # "idle"

\* Mutant of ReqArrive: the answer of SET NX is not looked at.
ReqArriveUnchecked(u, c, l) ==
  /\ ~Active(u, c)
  /\ reqLock' = reqLock \cup {<<u, l>>}
  /\ req' = [req EXCEPT ![u][c] =
               [pc |-> "lookup", link |-> l, sel |-> 0, locked |-> TRUE]]
  /\ UNCHANGED <<tables, queue, genLock, gen, beat, faults>>

\* SET NX on the request lock.  A busy lock answers "pending": no step.
ReqArrive(u, c, l) ==
  /\ ~Active(u, c)
  /\ <<u, l>> \notin reqLock
  /\ reqLock' = reqLock \cup {<<u, l>>}
  /\ req' = [req EXCEPT ![u][c] =
               [pc |-> "lookup", link |-> l, sel |-> 0, locked |-> TRUE]]
  /\ UNCHANGED <<tables, queue, genLock, gen, beat, faults>>

\* Redis is down: the request goes on without the lock.
ReqArriveUnlocked(u, c, l) ==
  /\ RedisMayFail
  /\ ~Active(u, c)
  /\ req' = [req EXCEPT ![u][c] =
               [pc |-> "lookup", link |-> l, sel |-> 0, locked |-> FALSE]]
  /\ UNCHANGED <<tables, reqLock, queue, genLock, gen, beat, faults>>

\* The finally clause: the lock is deleted by the request that set it.
Reply(u, c) ==
  /\ req' = [req EXCEPT ![u][c] = IdleRequest]
  /\ reqLock' = IF req[u][c].locked
                THEN reqLock \ {<<u, req[u][c].link>>} ELSE reqLock

Goto(u, c, pc, s) ==
  req' = [req EXCEPT ![u][c] = [@ EXCEPT !.pc = pc, !.sel = s]]

(***************************************************************************)
(* The latest selection of the link and whether u is attached to it decide *)
(* what the request will do; both may be stale when it does it.            *)
(***************************************************************************)
ReqLookup(u, c) ==
  LET found == Latest(req[u][c].link)
      usable == {s \in found : status[s] # "FAILED"}
  IN
  /\ req[u][c].pc = "lookup"
  /\ \/ /\ usable = {}
        /\ Goto(u, c, "create", 0)
        /\ UNCHANGED reqLock
     \/ \E s \in usable :
          \/ s \in attached[u] /\ Reply(u, c)
          \/ /\ s \notin attached[u]
             /\ Goto(u, c, IF status[s] = "DONE" THEN "buy" ELSE "join", s)
             /\ UNCHANGED reqLock
  /\ UNCHANGED <<tables, queue, genLock, gen, beat, faults>>

\* No spins left: an error message, nothing is written.
ReqRefused(u, c) ==
  /\ req[u][c].pc \in {"buy", "join", "create", "parse"}
  /\ ~CanReserve(balance[u])
  /\ Reply(u, c)
  /\ UNCHANGED <<tables, queue, genLock, gen, beat, faults>>

\* Mutant of ReqBuy: the ready selection is handed out without the reserve.
ReqBuyUnreserved(u, c) ==
  /\ req[u][c].pc = "buy"
  /\ CanReserve(balance[u])
  /\ balance' = [balance EXCEPT ![u] = ConfirmSpins(@, 1)]
  /\ attached' = [attached EXCEPT ![u] = @ \cup {req[u][c].sel}]
  /\ Reply(u, c)
  /\ UNCHANGED <<status, linkOf, waiting, pdf, quiet,
                 queue, genLock, gen, beat, faults>>

\* The selection was DONE: reserve, attach and confirm in one commit.
ReqBuy(u, c) ==
  /\ req[u][c].pc = "buy"
  /\ CanReserve(balance[u])
  /\ balance' = [balance EXCEPT ![u] = ConfirmSpins(ReserveSpin(@), 1)]
  /\ attached' = [attached EXCEPT ![u] = @ \cup {req[u][c].sel}]
  /\ Reply(u, c)
  /\ UNCHANGED <<status, linkOf, waiting, pdf, quiet,
                 queue, genLock, gen, beat, faults>>

\* get_or_create: an existing row is returned as it is, OPEN or CLOSED.
GetOrCreateWaiting(u, s) ==
  waiting' = [waiting EXCEPT ![u][s] = IF @ = "none" THEN "OPEN" ELSE @]

\* The selection was in progress: reserve, attach and wait in one commit.
ReqJoin(u, c) ==
  LET s == req[u][c].sel IN
  /\ req[u][c].pc = "join"
  /\ CanReserve(balance[u])
  /\ balance' = [balance EXCEPT ![u] = ReserveSpin(@)]
  /\ attached' = [attached EXCEPT ![u] = @ \cup {s}]
  /\ GetOrCreateWaiting(u, s)
  /\ Reply(u, c)
  /\ UNCHANGED <<status, linkOf, pdf, quiet, queue, genLock, gen, beat, faults>>

\* Mutant of CreateSelection: nothing is reserved for the new selection.
CreateSelectionUnreserved(u, c, first, next) ==
  /\ CanReserve(balance[u])
  /\ \E s \in Selections :
       /\ NextId(s)
       /\ status' = [status EXCEPT ![s] = first]
       /\ linkOf' = [linkOf EXCEPT ![s] = req[u][c].link]
       /\ attached' = [attached EXCEPT ![u] = @ \cup {s}]
       /\ GetOrCreateWaiting(u, s)
       /\ Goto(u, c, next, s)
  /\ UNCHANGED <<balance, pdf, quiet, reqLock, queue, genLock, gen, beat, faults>>

\* No usable selection: reserve, create, attach and wait in one commit.
CreateSelection(u, c, first, next) ==
  /\ CanReserve(balance[u])
  /\ \E s \in Selections :
       /\ NextId(s)
       /\ status' = [status EXCEPT ![s] = first]
       /\ linkOf' = [linkOf EXCEPT ![s] = req[u][c].link]
       /\ attached' = [attached EXCEPT ![u] = @ \cup {s}]
       /\ GetOrCreateWaiting(u, s)
       /\ Goto(u, c, next, s)
  /\ balance' = [balance EXCEPT ![u] = ReserveSpin(@)]
  /\ UNCHANGED <<pdf, quiet, reqLock, queue, genLock, gen, beat, faults>>

\* The product is parsed.
ReqCreate(u, c) ==
  /\ req[u][c].pc = "create"
  /\ CreateSelection(u, c, "QUEUE", "publish")

\* run_create_selection_on_task.delay, after the commit.
ReqPublish(u, c) ==
  /\ req[u][c].pc = "publish"
  /\ Send(req[u][c].sel, 0)
  /\ Reply(u, c)
  /\ UNCHANGED <<tables, genLock, gen, beat, faults>>

\* The API process dies: nothing more of the request happens, the lock stays.
ReqCrash(u, c) ==
  /\ Active(u, c)
  /\ Fault
  /\ req' = [req EXCEPT ![u][c] = IdleRequest]
  /\ UNCHANGED <<tables, reqLock, queue, genLock, gen, beat>>

\* The TTL of a lock left behind runs out (a request is far shorter).
ReqLockExpires(u, l) ==
  /\ <<u, l>> \in reqLock
  /\ \A c \in Clicks : ~(req[u][c].locked /\ req[u][c].link = l)
  /\ reqLock' = reqLock \ {<<u, l>>}
  /\ UNCHANGED <<tables, req, queue, genLock, gen, beat, faults>>

-----------------------------------------------------------------------------
(* run_create_selection_on_task on worker w                                *)

Consume(s, r) == queue[s][r] > 0 /\ queue' = [queue EXCEPT ![s][r] = @ - 1]

\* SET NX on the generation lock.
GenTake(w, s, r) ==
  /\ gen[w].pc = "idle"
  /\ Consume(s, r)
  /\ s \notin genLock
  /\ genLock' = genLock \cup {s}
  /\ gen' = [gen EXCEPT ![w] = [pc |-> "locked", sel |-> s, retries |-> r]]
  /\ UNCHANGED <<tables, req, reqLock, beat, faults>>

\* The lock is busy: the message is acknowledged and nothing is done.
GenSkip(w, s, r) ==
  /\ gen[w].pc = "idle"
  /\ Consume(s, r)
  /\ s \in genLock
  /\ UNCHANGED <<tables, req, reqLock, genLock, gen, beat, faults>>

\* Leaving redis_lock: the key is deleted, whoever set it.
GenEnd(w) ==
  /\ gen' = [gen EXCEPT ![w] = IdleWorker]
  /\ genLock' = genLock \ {gen[w].sel}

(***************************************************************************)
(* A DONE selection is skipped; any other is set to PROCESS.  When it      *)
(* already is, no UPDATE is sent and updated_at stays as old as it was.    *)
(***************************************************************************)
GenStart(w) ==
  LET s == gen[w].sel IN
  /\ gen[w].pc = "locked"
  /\ \/ /\ status[s] = "DONE"
        /\ GenEnd(w)
        /\ UNCHANGED <<status, quiet>>
     \/ /\ status[s] # "DONE"
        /\ status' = [status EXCEPT ![s] = "PROCESS"]
        /\ quiet' = IF status[s] = "PROCESS" THEN quiet ELSE quiet \ {s}
        /\ gen' = [gen EXCEPT ![w].pc = "run"]
        /\ UNCHANGED genLock
  /\ UNCHANGED <<balance, linkOf, attached, waiting, pdf,
                 req, reqLock, queue, beat, faults>>

\* save_step: a step of the analysis is committed, updated_at moves.
GenSaveStep(w) ==
  /\ gen[w].pc = "run"
  /\ quiet' = quiet \ {gen[w].sel}
  /\ UNCHANGED <<balance, status, linkOf, attached, waiting, pdf,
                 req, reqLock, queue, genLock, gen, beat, faults>>

\* Success: pdf_url, DONE, and every open waiting confirmed, in one commit.
GenFinish(w) ==
  LET s == gen[w].sel IN
  /\ gen[w].pc = "run"
  /\ status' = [status EXCEPT ![s] = "DONE"]
  /\ pdf' = pdf \cup {s}
  /\ quiet' = quiet \ {s}
  /\ CloseAndAct(WaitingsOf(s), {})
  /\ GenEnd(w)
  /\ UNCHANGED <<linkOf, attached, req, reqLock, queue, beat, faults>>

\* Mutant of MarkFailed: the failed generation is charged.
MarkFailedCharged(s) ==
  /\ status' = [status EXCEPT ![s] = "FAILED"]
  /\ quiet' = quiet \ {s}
  /\ CloseAndAct(WaitingsOf(s), {})

\* FAILED, and every open waiting released, in one commit.
MarkFailed(s) ==
  /\ status' = [status EXCEPT ![s] = "FAILED"]
  /\ quiet' = quiet \ {s}
  /\ CloseAndAct({}, WaitingsOf(s))

\* No money at OpenAI or a wrong key, or the last retry: give up.
GenGiveUp(w) ==
  /\ gen[w].pc = "run"
  /\ MarkFailed(gen[w].sel)
  /\ GenEnd(w)
  /\ UNCHANGED <<linkOf, attached, pdf, req, reqLock, queue, beat, faults>>

\* Any other error with retries left: the status stays PROCESS.
GenRetry(w) ==
  /\ gen[w].pc = "run"
  /\ gen[w].retries < MaxRetries
  /\ Send(gen[w].sel, gen[w].retries + 1)
  /\ GenEnd(w)
  /\ UNCHANGED <<tables, req, reqLock, beat, faults>>

(***************************************************************************)
(* The worker dies.  Its lock stays.  Its unacknowledged message is        *)
(* delivered again when the whole worker was lost, and is gone when only   *)
(* its child process was.                                                  *)
(***************************************************************************)
GenCrash(w) ==
  /\ gen[w].pc # "idle"
  /\ Fault
  /\ gen' = [gen EXCEPT ![w] = IdleWorker]
  /\ Send(gen[w].sel, gen[w].retries) \/ UNCHANGED queue
  /\ UNCHANGED <<tables, req, reqLock, genLock, beat>>

\* Redis is down when the lock is tried: the task fails, the message is gone.
GenLost(s, r) ==
  /\ Fault
  /\ Consume(s, r)
  /\ UNCHANGED <<tables, req, reqLock, genLock, gen, beat>>

Holds(w, s) == gen[w].pc # "idle" /\ gen[w].sel = s

\* The TTL of the generation lock runs out.
GenLockExpires(s) ==
  /\ s \in genLock
  /\ LiveLockMayLapse \/ \A w \in Workers : ~Holds(w, s)
  /\ genLock' = genLock \ {s}
  /\ UNCHANGED <<tables, req, reqLock, queue, gen, beat, faults>>

-----------------------------------------------------------------------------
(* run_waiting_task: the beat, under waiting_lock                          *)

\* 60 s in QUEUE or 600 s in PROCESS without an update.
GoesQuiet(s) ==
  /\ status[s] \in InProgress
  /\ s \notin quiet
  /\ quiet' = quiet \cup {s}
  /\ UNCHANGED <<balance, status, linkOf, attached, waiting, pdf,
                 req, reqLock, queue, genLock, gen, beat, faults>>

OpenAt(st) == {p \in OpenWaitings : status[p[2]] \in st}
Stuck == {p[2] : p \in OpenAt(InProgress)} \cap quiet
SomethingToDo == OpenAt({"DONE", "FAILED"}) # {} \/ Stuck # {}

\* Mutant of BeatScan: only selections stuck in QUEUE are rescued.
BeatScanQueueOnly ==
  LET stuck == {p[2] : p \in OpenAt({"QUEUE"})} \cap quiet IN
  /\ beat.pc = "idle"
  /\ SomethingToDo
  /\ beat' = [pc |-> "scanned", confirm |-> OpenAt({"DONE"}),
              release |-> OpenAt({"FAILED"}), resend |-> stuck, mark |-> stuck]
  /\ UNCHANGED <<tables, req, reqLock, queue, genLock, gen, faults>>

(***************************************************************************)
(* Reads the open waitings with their selections.  What it will do is      *)
(* decided by this snapshot; a scan that finds nothing to do is no step.   *)
(***************************************************************************)
BeatScan ==
  /\ beat.pc = "idle"
  /\ SomethingToDo
  /\ beat' = [pc |-> "scanned", confirm |-> OpenAt({"DONE"}),
              release |-> OpenAt({"FAILED"}), resend |-> Stuck,
              mark |-> {s \in Stuck : status[s] = "QUEUE"}]
  /\ UNCHANGED <<tables, req, reqLock, queue, genLock, gen, faults>>

\* .delay inside the loop, before the commit.
BeatPublish(s) ==
  /\ s \in beat.resend
  /\ Send(s, 0)
  /\ beat' = [beat EXCEPT !.resend = @ \ {s}]
  /\ UNCHANGED <<tables, req, reqLock, genLock, gen, faults>>

\* The commit: waitings still open are closed, PROCESS is written unread.
BeatCommit ==
  /\ beat.pc = "scanned"
  /\ beat.resend = {}
  /\ CloseAndAct(beat.confirm, beat.release)
  /\ status' = [s \in Selections |->
                  IF s \in beat.mark THEN "PROCESS" ELSE status[s]]
  /\ quiet' = quiet \ beat.mark
  /\ beat' = IdleBeat
  /\ UNCHANGED <<linkOf, attached, pdf, req, reqLock, queue, genLock, gen, faults>>

\* The beat task dies or its transaction is aborted: nothing is committed.
BeatCrash ==
  /\ beat.pc = "scanned"
  /\ Fault
  /\ beat' = IdleBeat
  /\ UNCHANGED <<tables, req, reqLock, queue, genLock, gen>>

-----------------------------------------------------------------------------
RequestStep(u, c) ==
  \/ \E l \in Links : ReqArrive(u, c, l) \/ ReqArriveUnlocked(u, c, l)
  \/ ReqLookup(u, c)
  \/ ReqRefused(u, c)
  \/ ReqBuy(u, c)
  \/ ReqJoin(u, c)
  \/ ReqPublish(u, c)
  \/ ReqCrash(u, c)

Orchestrator ==
  \E u \in Users, c \in Clicks : RequestStep(u, c) \/ ReqCreate(u, c)

Generation ==
  \/ \E w \in Workers :
       \/ \E s \in Selections, r \in Retries : GenTake(w, s, r) \/ GenSkip(w, s, r)
       \/ GenStart(w)
       \/ GenSaveStep(w)
       \/ GenFinish(w)
       \/ GenGiveUp(w)
       \/ GenRetry(w)
       \/ GenCrash(w)
  \/ \E s \in Selections, r \in Retries : GenLost(s, r)

BeatTask == BeatScan \/ BeatCommit \/ BeatCrash \/ \E s \in Selections : BeatPublish(s)

Clock ==
  \/ \E u \in Users, l \in Links : ReqLockExpires(u, l)
  \/ \E s \in Selections : GenLockExpires(s) \/ GoesQuiet(s)

Next == Orchestrator \/ Generation \/ BeatTask \/ Clock

Spec == Init /\ [][Next]_vars

(***************************************************************************)
(* The workers and the beat keep running and time passes; users and        *)
(* crashes are under no obligation.  A message in the (FIFO) queue is not  *)
(* for ever delivered only at moments when its lock is busy.               *)
(***************************************************************************)
Fairness ==
  /\ \A w \in Workers :
       WF_vars(GenStart(w)) /\ WF_vars(GenFinish(w) \/ GenGiveUp(w) \/ GenRetry(w))
  /\ \A s \in Selections, r \in Retries : SF_vars(\E w \in Workers : GenTake(w, s, r))
  /\ \A s \in Selections : WF_vars(GenLockExpires(s)) /\ WF_vars(GoesQuiet(s))
  /\ WF_vars(BeatScan) /\ WF_vars(BeatCommit)
  /\ WF_vars(\E s \in Selections : BeatPublish(s))

FairSpec == Spec /\ Fairness

-----------------------------------------------------------------------------
(* Properties                                                              *)

\* Every reserved spin of a user belongs to exactly one of the open waitings
\* of that user: no spin is frozen for good, and no waiting closes for free.
ReservedIsOpenWaitings ==
  \A u \in Users : balance[u].reserved = Cardinality(OpenOf(u))

\* What a request read when it chose to buy or to join a selection is still
\* so when it reserves the spin: the user is not attached to it meanwhile, and
\* a selection about to be bought has its PDF, whatever its status became.
DecisionsAreCurrent ==
  \A u \in Users, c \in Clicks :
    LET s == req[u][c].sel IN
    /\ req[u][c].pc \in {"buy", "join"} => s \notin attached[u]
    /\ req[u][c].pc = "buy" => s \in pdf

\* Even with the request lock gone, an open waiting has its spin in reserve,
\* so the confirm or release that closes it never finds the reserve empty.
OpenWaitingsAreBacked ==
  \A u \in Users : Cardinality(OpenOf(u)) <= balance[u].reserved

\* The selections u has been charged for: bought ready or confirmed.
Charged(u) == {s \in attached[u] : waiting[u][s] \in {"none", "CONFIRMED"}}

\* A user is charged once for a selection, however often the request, the
\* generation or the beat ran.
ChargedOncePerSelection ==
  \A u \in Users : balance[u].confirmed = Cardinality(Charged(u))

\* A charge is only ever made for a selection whose PDF exists.
ChargedOnlyForPdf == \A u \in Users : Charged(u) \subseteq pdf

\* Every attached user has a waiting that will settle the order or was
\* charged: the orders of a user are spins that left the free ones.
SpinStatus(u, s) ==
  IF s \notin attached[u] THEN "none"
  ELSE CASE waiting[u][s] = "OPEN"     -> "held"
         [] waiting[u][s] = "RELEASED" -> "returned"
         [] OTHER                      -> "charged"

FreeSpins == [u \in Users |-> balance[u].spins]
Promises == [u \in Users |-> [s \in Selections |-> SpinStatus(u, s)]]

Contract == INSTANCE SpinContract WITH free <- FreeSpins, promise <- Promises

\* The flow keeps the contract with the user (module SpinContract).
KeepsContract == Contract!Spec

\* Every order is settled: an open waiting is eventually closed.
OrdersAreSettled ==
  \A u \in Users, s \in Selections :
    waiting[u][s] = "OPEN" ~> waiting[u][s] \in Closed

\* start_parsing's docstring: the spin "is charged when the selection is
\* DONE, and returned when it is FAILED".
DoneIsNotFree ==
  \A u \in Users : \A s \in attached[u] :
    status[s] = "DONE" => waiting[u][s] # "RELEASED"

\* The beat's comment: a selection whose worker died does not hang in
\* PROCESS for ever.
NothingHangs ==
  \A s \in Selections : status[s] \in InProgress ~> status[s] \in {"DONE", "FAILED"}
=============================================================================
