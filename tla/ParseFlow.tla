------------------------------ MODULE ParseFlow ------------------------------
(***************************************************************************)
(* The whole flow, from a link nobody has asked for: SelectionFlow with    *)
(* the products and the task that parses them.  A request for a product    *)
(* that is not parsed creates a selection in PARSING (start_parsing); the  *)
(* parse task, alone on its product by a Redis key, fills the product and  *)
(* moves its selections on; the second half of the beat task               *)
(* (_check_stuck_parsing) rescues those left in PARSING.                   *)
(*                                                                         *)
(* A product is known by its link.                                         *)
(***************************************************************************)
EXTENDS SelectionFlow

CONSTANT ParseWorkers   \* processes of the Parse_Queue worker

VARIABLES
  fill,        \* products.fill_status, "none" when there is no row
  parseQueue,  \* parse messages: copies per product
  parseLock,   \* keys parse_lock:<product> in Redis
  parser,      \* parse workers
  rescue       \* _check_stuck_parsing, in the same task run as beat

parseVars == <<fill, parseQueue, parseLock, parser, rescue>>
allVars == <<vars, parseVars>>

Parsed == {"DONE", "INCOMPLETE", "FAILED"}
FillStatus == Parsed \cup {"none", "EMPTY", "IN_PROGRESS"}

ParseWorker == [pc : {"idle", "locked", "parsing", "settle", "publish"},
                link : Links \cup {NoLink}, fill : FillStatus,
                sends : SUBSET Selections]
IdleParser == [pc |-> "idle", link |-> NoLink, fill |-> "none", sends |-> {}]

Rescue == [pc : {"idle", "read", "act"}, seen : [Links -> FillStatus],
           stuck : SUBSET Selections, todo : SUBSET Links,
           sends : SUBSET Selections]
IdleRescue == [pc |-> "idle", seen |-> [l \in Links |-> "none"],
               stuck |-> {}, todo |-> {}, sends |-> {}]

ParseTypeOK ==
  /\ TypeOK
  /\ fill \in [Links -> FillStatus]
  /\ parseQueue \in [Links -> 0 .. QueueCap]
  /\ parseLock \in SUBSET Links
  /\ parser \in [ParseWorkers -> ParseWorker]
  /\ \A w \in ParseWorkers : parser[w].pc # "idle" => parser[w].link \in Links
  /\ rescue \in Rescue

ParseInit ==
  /\ Init
  /\ fill = [l \in Links |-> "none"]
  /\ parseQueue = [l \in Links |-> 0]
  /\ parseLock = {}
  /\ parser = [w \in ParseWorkers |-> IdleParser]
  /\ rescue = IdleRescue

-----------------------------------------------------------------------------
(* What the parse task and the beat both do at the end of a parse          *)

ToParse(l) == {s \in Selections : linkOf[s] = l /\ status[s] = "PARSING"}

\* Mutant of ContinueSelections: a product with fields missing is generated.
ContinueSelectionsIncomplete(l, outcome) ==
  LET moved == ToParse(l) IN
  /\ status' = [s \in Selections |->
                  IF s \notin moved THEN status[s]
                  ELSE IF outcome # "FAILED" THEN "QUEUE" ELSE "FAILED"]
  /\ quiet' = quiet \ moved
  /\ IF outcome # "FAILED"
     THEN UNCHANGED <<waiting, balance>>
     ELSE CloseAndAct({}, Users \X moved)
  /\ UNCHANGED <<linkOf, attached, pdf>>

\* Mutant of ContinueSelections: the users pay for a parse that failed.
ContinueSelectionsCharged(l, outcome) ==
  LET moved == ToParse(l) IN
  /\ status' = [s \in Selections |->
                  IF s \notin moved THEN status[s]
                  ELSE IF outcome = "DONE" THEN "QUEUE" ELSE "FAILED"]
  /\ quiet' = quiet \ moved
  /\ IF outcome = "DONE"
     THEN UNCHANGED <<waiting, balance>>
     ELSE CloseAndAct(Users \X moved, {})
  /\ UNCHANGED <<linkOf, attached, pdf>>

(***************************************************************************)
(* _continue_selections_after_parse: UPDATE ... WHERE status = PARSING,    *)
(* and the waitings released unless the product is DONE, in one commit.    *)
(* What it returned is published one by one after that.                    *)
(***************************************************************************)
ContinueSelections(l, outcome) ==
  LET moved == ToParse(l) IN
  /\ status' = [s \in Selections |->
                  IF s \notin moved THEN status[s]
                  ELSE IF outcome = "DONE" THEN "QUEUE" ELSE "FAILED"]
  /\ quiet' = quiet \ moved
  /\ IF outcome = "DONE"
     THEN UNCHANGED <<waiting, balance>>
     ELSE CloseAndAct({}, Users \X moved)
  /\ UNCHANGED <<linkOf, attached, pdf>>

ToPublish(l, outcome) == IF outcome = "DONE" THEN ToParse(l) ELSE {}

SendParse(l) ==
  parseQueue' = [parseQueue EXCEPT ![l] = IF @ < QueueCap THEN @ + 1 ELSE @]

-----------------------------------------------------------------------------
(* The orchestrator, past the lookup of a usable selection                 *)

LinkOf(u, c) == req[u][c].link

\* DONE is never undone, so this test may as well be made at the commit.
ReqCreateParsed(u, c) ==
  /\ ReqCreate(u, c)
  /\ fill[LinkOf(u, c)] = "DONE"
  /\ UNCHANGED parseVars

\* INCOMPLETE: another parse would not help, an error message.
ReqFindProduct(u, c) ==
  LET f == fill[LinkOf(u, c)] IN
  /\ req[u][c].pc = "create"
  /\ \/ f = "none" /\ Goto(u, c, "insert", 0) /\ UNCHANGED reqLock
     \/ f \in {"EMPTY", "IN_PROGRESS", "FAILED"}
        /\ Goto(u, c, "parse", 0) /\ UNCHANGED reqLock
     \/ f = "INCOMPLETE" /\ Reply(u, c)
  /\ UNCHANGED <<tables, queue, genLock, gen, beat, faults, parseVars>>

\* create_product, committed at once; another request may have been faster.
ReqInsertProduct(u, c) ==
  LET l == LinkOf(u, c) IN
  /\ req[u][c].pc = "insert"
  /\ \/ /\ fill[l] = "none"
        /\ fill' = [fill EXCEPT ![l] = "EMPTY"]
        /\ Goto(u, c, "parse", 0)
        /\ UNCHANGED reqLock
     \/ fill[l] # "none" /\ Reply(u, c) /\ UNCHANGED fill
  /\ UNCHANGED <<tables, queue, genLock, gen, beat, faults,
                 parseQueue, parseLock, parser, rescue>>

\* The product is parsed, again if it was, for a selection in PARSING.
ReqStartParsing(u, c) ==
  /\ req[u][c].pc = "parse"
  /\ CreateSelection(u, c, "PARSING", "parsePublish")
  /\ UNCHANGED parseVars

\* run_parse_product_task.delay, after the commit.
ReqPublishParse(u, c) ==
  /\ req[u][c].pc = "parsePublish"
  /\ SendParse(LinkOf(u, c))
  /\ Reply(u, c)
  /\ UNCHANGED <<tables, queue, genLock, gen, beat, faults,
                 fill, parseLock, parser, rescue>>

-----------------------------------------------------------------------------
(* run_parse_product_task on worker w                                      *)

ConsumeParse(l) ==
  parseQueue[l] > 0 /\ parseQueue' = [parseQueue EXCEPT ![l] = @ - 1]

\* Mutant of ParseTake: the key in Redis is not looked at.
ParseTakeUnlocked(w, l) ==
  /\ parser[w].pc = "idle"
  /\ ConsumeParse(l)
  /\ parseLock' = parseLock \cup {l}
  /\ parser' = [parser EXCEPT ![w] = [@ EXCEPT !.pc = "locked", !.link = l]]
  /\ UNCHANGED <<vars, fill, rescue>>

\* SET NX on the parse lock of the product.
ParseTake(w, l) ==
  /\ parser[w].pc = "idle"
  /\ ConsumeParse(l)
  /\ l \notin parseLock
  /\ parseLock' = parseLock \cup {l}
  /\ parser' = [parser EXCEPT ![w] = [@ EXCEPT !.pc = "locked", !.link = l]]
  /\ UNCHANGED <<vars, fill, rescue>>

\* The product is being parsed: the message is acknowledged, nothing is done.
ParseSkip(w, l) ==
  /\ parser[w].pc = "idle"
  /\ ConsumeParse(l)
  /\ l \in parseLock
  /\ UNCHANGED <<vars, fill, parseLock, parser, rescue>>

\* A product that is DONE is not parsed again, but its selections are moved.
ParseStart(w) ==
  LET l == parser[w].link IN
  /\ parser[w].pc = "locked"
  /\ \/ /\ fill[l] = "DONE"
        /\ parser' = [parser EXCEPT ![w] = [@ EXCEPT !.pc = "settle", !.fill = "DONE"]]
        /\ UNCHANGED fill
     \/ /\ fill[l] # "DONE"
        /\ parser' = [parser EXCEPT ![w].pc = "parsing"]
        /\ fill' = [fill EXCEPT ![l] = "IN_PROGRESS"]
  /\ UNCHANGED <<vars, parseQueue, parseLock, rescue>>

\* All critical fields found, some missing, or any error: committed.
ParseEnds(w, outcome) ==
  /\ parser[w].pc = "parsing"
  /\ fill' = [fill EXCEPT ![parser[w].link] = outcome]
  /\ parser' = [parser EXCEPT ![w] = [@ EXCEPT !.pc = "settle", !.fill = outcome]]
  /\ UNCHANGED <<vars, parseQueue, parseLock, rescue>>

ParseSettle(w) ==
  LET p == parser[w] IN
  /\ p.pc = "settle"
  /\ ContinueSelections(p.link, p.fill)
  /\ parser' = [parser EXCEPT ![w] =
                  [p EXCEPT !.pc = "publish", !.sends = ToPublish(p.link, p.fill)]]
  /\ UNCHANGED <<req, reqLock, queue, genLock, gen, beat, faults,
                 fill, parseQueue, parseLock, rescue>>

ParsePublish(w, s) ==
  /\ s \in parser[w].sends
  /\ Send(s, 0)
  /\ parser' = [parser EXCEPT ![w].sends = @ \ {s}]
  /\ UNCHANGED <<tables, req, reqLock, genLock, gen, beat, faults,
                 fill, parseQueue, parseLock, rescue>>

ParseExit(w) ==
  /\ parser[w].pc = "publish"
  /\ parser[w].sends = {}
  /\ parser' = [parser EXCEPT ![w] = IdleParser]
  /\ parseLock' = parseLock \ {parser[w].link}
  /\ UNCHANGED <<vars, fill, parseQueue, rescue>>

\* The worker dies, as GenCrash.
ParseCrash(w) ==
  /\ parser[w].pc # "idle"
  /\ Fault
  /\ parser' = [parser EXCEPT ![w] = IdleParser]
  /\ SendParse(parser[w].link) \/ UNCHANGED parseQueue
  /\ UNCHANGED <<tables, req, reqLock, queue, genLock, gen, beat,
                 fill, parseLock, rescue>>

\* Redis is down when the lock is tried, as GenLost.
ParseLost(l) ==
  /\ Fault
  /\ ConsumeParse(l)
  /\ UNCHANGED <<tables, req, reqLock, queue, genLock, gen, beat,
                 fill, parseLock, parser, rescue>>

\* The key outlives the time limit of the task, so only a dead worker loses it.
ParseLockExpires(l) ==
  /\ l \in parseLock
  /\ \A w \in ParseWorkers : parser[w].pc = "idle" \/ parser[w].link # l
  /\ parseLock' = parseLock \ {l}
  /\ UNCHANGED <<vars, fill, parseQueue, parser, rescue>>

-----------------------------------------------------------------------------
(* run_waiting_task with _check_stuck_parsing                              *)

\* 50 minutes in PARSING without an update.
GoesStuck(s) ==
  /\ status[s] = "PARSING"
  /\ s \notin quiet
  /\ quiet' = quiet \cup {s}
  /\ UNCHANGED <<balance, status, linkOf, attached, waiting, pdf,
                 req, reqLock, queue, genLock, gen, beat, faults, parseVars>>

(***************************************************************************)
(* The query of the waitings also loads the products of their selections,  *)
(* and the session keeps them as they were (expire_on_commit=False): the   *)
(* later query for stuck selections sees the products of this moment.  A   *)
(* selection that enters PARSING later in the run cannot be stuck in it.   *)
(***************************************************************************)
RescueScan ==
  LET parsing == \E s \in Selections : status[s] = "PARSING" IN
  /\ beat.pc = "idle"
  /\ rescue.pc = "idle"
  /\ BeatScan \/ (~SomethingToDo /\ parsing /\ UNCHANGED vars)
  /\ rescue' = IF parsing THEN [rescue EXCEPT !.pc = "read", !.seen = fill]
               ELSE rescue
  /\ UNCHANGED <<fill, parseQueue, parseLock, parser>>

\* After the commit of the first half: the selections stuck now.
RescueSelect ==
  LET stuck == {s \in Selections : status[s] = "PARSING"} \cap quiet IN
  /\ rescue.pc = "read"
  /\ beat.pc = "idle"
  /\ rescue' = IF stuck = {} THEN IdleRescue
               ELSE [rescue EXCEPT !.pc = "act", !.stuck = stuck,
                                   !.todo = {linkOf[s] : s \in stuck}]
  /\ UNCHANGED <<vars, fill, parseQueue, parseLock, parser>>

\* The next product of the loop, when what was published last is out.
Turn(l) == l \in rescue.todo /\ rescue.sends = {}

\* Mutant of RescueContinue: a product that is DONE is left to its task.
RescueContinueFailed(l) ==
  /\ Turn(l)
  /\ rescue.seen[l] \in Parsed
  /\ IF rescue.seen[l] = "DONE" THEN UNCHANGED tables
     ELSE ContinueSelections(l, rescue.seen[l])
  /\ rescue' = [rescue EXCEPT !.todo = @ \ {l}]
  /\ UNCHANGED <<req, reqLock, queue, genLock, gen, beat, faults,
                 fill, parseQueue, parseLock, parser>>

\* The parse has ended: do what it would have done.
RescueContinue(l) ==
  /\ Turn(l)
  /\ rescue.seen[l] \in Parsed
  /\ ContinueSelections(l, rescue.seen[l])
  /\ rescue' = [rescue EXCEPT !.todo = @ \ {l},
                              !.sends = ToPublish(l, rescue.seen[l])]
  /\ UNCHANGED <<req, reqLock, queue, genLock, gen, beat, faults,
                 fill, parseQueue, parseLock, parser>>

RescuePublish(s) ==
  /\ s \in rescue.sends
  /\ Send(s, 0)
  /\ rescue' = [rescue EXCEPT !.sends = @ \ {s}]
  /\ UNCHANGED <<tables, req, reqLock, genLock, gen, beat, faults,
                 fill, parseQueue, parseLock, parser>>

\* The parse has not ended: start it again.
RescueRestart(l) ==
  /\ Turn(l)
  /\ rescue.seen[l] \notin Parsed
  /\ SendParse(l)
  /\ rescue' = [rescue EXCEPT !.todo = @ \ {l}]
  /\ UNCHANGED <<vars, fill, parseLock, parser>>

\* The last commit: the selections whose parse was started again are touched.
RescueEnd ==
  /\ rescue.pc = "act"
  /\ rescue.todo = {}
  /\ rescue.sends = {}
  /\ quiet' = quiet \ {s \in rescue.stuck : rescue.seen[linkOf[s]] \notin Parsed}
  /\ rescue' = IdleRescue
  /\ UNCHANGED <<balance, status, linkOf, attached, waiting, pdf,
                 req, reqLock, queue, genLock, gen, beat, faults,
                 fill, parseQueue, parseLock, parser>>

\* The task run dies in either half.
RescueCrash ==
  /\ beat.pc # "idle" \/ rescue.pc # "idle"
  /\ Fault
  /\ beat' = IdleBeat
  /\ rescue' = IdleRescue
  /\ UNCHANGED <<tables, req, reqLock, queue, genLock, gen,
                 fill, parseQueue, parseLock, parser>>

-----------------------------------------------------------------------------
\* The actions of SelectionFlow that are taken over as they are.
FlowStep ==
  /\ \/ \E u \in Users, c \in Clicks : RequestStep(u, c)
     \/ Generation
     \/ BeatCommit \/ \E s \in Selections : BeatPublish(s)
     \/ Clock
  /\ UNCHANGED parseVars

ParseRequest ==
  \E u \in Users, c \in Clicks :
    \/ ReqCreateParsed(u, c)
    \/ ReqFindProduct(u, c)
    \/ ReqInsertProduct(u, c)
    \/ ReqStartParsing(u, c)
    \/ ReqPublishParse(u, c)

ParseTask ==
  \/ \E w \in ParseWorkers :
       \/ \E l \in Links : ParseTake(w, l) \/ ParseSkip(w, l)
       \/ ParseStart(w)
       \/ \E outcome \in Parsed : ParseEnds(w, outcome)
       \/ ParseSettle(w)
       \/ \E s \in Selections : ParsePublish(w, s)
       \/ ParseExit(w)
       \/ ParseCrash(w)
  \/ \E l \in Links : ParseLost(l) \/ ParseLockExpires(l)

RescueTask ==
  \/ RescueScan \/ RescueSelect \/ RescueEnd \/ RescueCrash
  \/ \E l \in Links : RescueContinue(l) \/ RescueRestart(l)
  \/ \E s \in Selections : RescuePublish(s) \/ GoesStuck(s)

ParseNext == FlowStep \/ ParseRequest \/ ParseTask \/ RescueTask

ParseSpec == ParseInit /\ [][ParseNext]_allVars

\* As in SelectionFlow, with the same demands on the parse worker and its queue.
ParseFairness ==
  /\ \A w \in Workers :
       /\ WF_allVars(GenStart(w) /\ UNCHANGED parseVars)
       /\ WF_allVars((GenFinish(w) \/ GenGiveUp(w) \/ GenRetry(w)) /\ UNCHANGED parseVars)
  /\ \A s \in Selections, r \in Retries :
       SF_allVars((\E w \in Workers : GenTake(w, s, r)) /\ UNCHANGED parseVars)
  /\ \A s \in Selections :
       /\ WF_allVars(GenLockExpires(s) /\ UNCHANGED parseVars)
       /\ WF_allVars(GoesQuiet(s) /\ UNCHANGED parseVars)
       /\ WF_allVars(GoesStuck(s))
  /\ WF_allVars((BeatCommit \/ \E s \in Selections : BeatPublish(s)) /\ UNCHANGED parseVars)
  /\ \A w \in ParseWorkers :
       WF_allVars(\/ ParseStart(w) \/ ParseSettle(w) \/ ParseExit(w)
                  \/ \E outcome \in Parsed : ParseEnds(w, outcome)
                  \/ \E s \in Selections : ParsePublish(w, s))
  /\ \A l \in Links :
       /\ SF_allVars(\E w \in ParseWorkers : ParseTake(w, l))
       /\ WF_allVars(ParseLockExpires(l))
  /\ WF_allVars(RescueScan)
  /\ WF_allVars(\/ RescueSelect \/ RescueEnd
                \/ \E l \in Links : RescueContinue(l) \/ RescueRestart(l)
                \/ \E s \in Selections : RescuePublish(s))

FairParseSpec == ParseSpec /\ ParseFairness

-----------------------------------------------------------------------------
(* Properties                                                              *)

\* A product that was parsed in full is never parsed again, and stays so:
\* the selections that are generated from it read finished data.
ParsedForGood ==
  [][\A l \in Links : fill[l] = "DONE" => fill'[l] = "DONE"]_allVars

\* A selection is only queued, generated or ready when its product was parsed
\* in full, although a request, a parse task and the beat each decide that on
\* what they read earlier.
GeneratedFromParsed ==
  \A s \in Selections :
    status[s] \in {"QUEUE", "PROCESS", "DONE"} => fill[linkOf[s]] = "DONE"

\* No selection stays in PARSING, whichever task died or was skipped.
ParsingEnds ==
  \A s \in Selections : status[s] = "PARSING" ~> status[s] # "PARSING"

\* _continue_selections_after_parse: "product DONE: selections QUEUE; product
\* FAILED or INCOMPLETE: selections FAILED", for the product as it is.
FailedWithItsProduct ==
  [][\A s \in Selections :
       status[s] = "PARSING" /\ status'[s] = "FAILED" =>
         fill[linkOf[s]] \in {"FAILED", "INCOMPLETE"}]_allVars
=============================================================================
