--------------------------- MODULE ParseFlow_proofs ---------------------------
(***************************************************************************)
(* Proofs about ParseFlow, for any number of users, products, workers and  *)
(* selections: type correctness; that a selection is only generated from a *)
(* product that was parsed in full, and stays so; and that the whole flow  *)
(* charges and returns spins as the contract says.                         *)
(***************************************************************************)
EXTENDS ParseFlow, SelectionContract_proofs

\* An active request has a link, and so has every selection that exists.
Linked ==
  /\ \A u \in Users, c \in Clicks : Active(u, c) => LinkOf(u, c) \in Links
  /\ \A s \in Selections : status[s] = "none" => linkOf[s] = NoLink
  /\ \A s \in Selections : status[s] # "none" => linkOf[s] \in Links

-----------------------------------------------------------------------------
(* Type correctness                                                        *)

\* The variables that ParseFlow adds.
ParseVarsType ==
  /\ fill \in [Links -> FillStatus]
  /\ parseQueue \in [Links -> 0 .. QueueCap]
  /\ parseLock \in SUBSET Links
  /\ parser \in [ParseWorkers -> ParseWorker]
  /\ \A w \in ParseWorkers : parser[w].pc # "idle" => parser[w].link \in Links
  /\ rescue \in Rescue

LEMMA ParseTypeParts == ParseTypeOK <=> TypeOK /\ ParseVarsType
BY DEF ParseTypeOK, ParseVarsType

LEMMA IdleTypes ==
  /\ IdleParser \in ParseWorker /\ IdleParser.pc = "idle" /\ IdleParser.sends = {}
  /\ IdleRescue \in Rescue /\ IdleRescue.sends = {}
BY DEF IdleParser, ParseWorker, IdleRescue, Rescue, FillStatus

LEMMA ParseTypeInit == ParseInit => ParseTypeOK
<1> SUFFICES ASSUME ParseInit PROVE TypeOK /\ ParseVarsType
  BY ParseTypeParts
<1>1. TypeOK
  BY TypeInit DEF ParseInit
<1>2. ParseVarsType
  BY IdleTypes, BoundsAssumption DEF ParseInit, ParseVarsType, FillStatus
<1> QED BY <1>1, <1>2

LEMMA ContinueType ==
  ASSUME TypeOK, NEW l \in Links, NEW outcome, ContinueSelections(l, outcome),
         UNCHANGED <<req, reqLock, queue, genLock, gen, beat, faults>>
  PROVE  TypeOK'
<1>1. status' \in [Selections -> Status] /\ quiet' \in SUBSET Selections
  BY DEF ContinueSelections, TypeOK, Status, InProgress
<1>2. /\ waiting' \in [Users -> [Selections -> WaitingStatus]]
      /\ balance' \in [Users -> Balance]
  <2>1. CASE UNCHANGED <<waiting, balance>>
    BY <2>1 DEF TypeOK
  <2>2. CASE \E confirm, release : CloseAndAct(confirm, release)
    BY <2>2, CloseAndActType
  <2> QED BY <2>1, <2>2 DEF ContinueSelections
<1> QED BY <1>1, <1>2 DEF ContinueSelections, TypeOK

LEMMA SendParseType ==
  ASSUME ParseVarsType, NEW l \in Links, SendParse(l)
  PROVE  parseQueue' \in [Links -> 0 .. QueueCap]
<1>1. parseQueue[l] \in 0 .. QueueCap
  BY DEF ParseVarsType
<1>2. (IF parseQueue[l] < QueueCap THEN parseQueue[l] + 1 ELSE parseQueue[l]) \in 0 .. QueueCap
  BY <1>1, BoundsAssumption
<1> QED BY <1>2 DEF SendParse, ParseVarsType

LEMMA ConsumeParseType ==
  ASSUME ParseVarsType, NEW l \in Links, ConsumeParse(l)
  PROVE  parseQueue' \in [Links -> 0 .. QueueCap]
<1>1. parseQueue[l] \in 0 .. QueueCap /\ parseQueue[l] > 0
  BY DEF ParseVarsType, ConsumeParse
<1>2. parseQueue[l] - 1 \in 0 .. QueueCap
  BY <1>1, BoundsAssumption
<1> QED BY <1>2 DEF ConsumeParse, ParseVarsType

(***************************************************************************)
(* The steps of ParseFlow by what they do to the variables of              *)
(* SelectionFlow: a step of that module, or one of the steps below.        *)
(***************************************************************************)
\* The request goes on or ends, nothing is ordered.
Turned(u, c) ==
  /\ req[u][c].pc \in {"create", "insert", "parsePublish"}
  /\ \/ \E pc \in {"insert", "parse"} : Goto(u, c, pc, 0) /\ UNCHANGED reqLock
     \/ Reply(u, c)
  /\ UNCHANGED <<tables, queue, genLock, gen, beat, faults>>

Continued ==
  /\ \E l \in Links : \E outcome : ContinueSelections(l, outcome)
  /\ UNCHANGED <<req, reqLock, queue, genLock, gen, beat, faults>>

\* A message is sent, time passes, or something dies.
Aside ==
  /\ UNCHANGED <<balance, status, linkOf, attached, waiting, pdf,
                 req, reqLock, genLock, gen>>
  /\ quiet' \in SUBSET Selections
  /\ UNCHANGED queue \/ \E s \in Selections : Send(s, 0)
  /\ UNCHANGED beat \/ beat' = IdleBeat
  /\ UNCHANGED faults \/ Fault

LEMMA FlowSteps ==
  ASSUME ParseTypeOK, [ParseNext]_allVars
  PROVE  \/ [Next]_vars
         \/ \E u \in Users, c \in Clicks : Turned(u, c) \/ ReqStartParsing(u, c)
         \/ Continued
         \/ Aside
<1> DEFINE Goal == \/ [Next]_vars
                   \/ \E u \in Users, c \in Clicks : Turned(u, c) \/ ReqStartParsing(u, c)
                   \/ Continued
                   \/ Aside
<1>0. TypeOK /\ ParseVarsType
  BY ParseTypeParts
<1>1. CASE FlowStep \/ UNCHANGED allVars
  BY <1>1 DEF FlowStep, Next, Orchestrator, BeatTask, allVars
<1>2. CASE ParseRequest
  <2>1. ASSUME NEW u \in Users, NEW c \in Clicks, ReqCreateParsed(u, c)
        PROVE  Goal
    BY <2>1 DEF ReqCreateParsed, Next, Orchestrator
  <2>2. ASSUME NEW u \in Users, NEW c \in Clicks,
               ReqFindProduct(u, c) \/ ReqInsertProduct(u, c) \/ ReqPublishParse(u, c)
        PROVE  Goal
    <3>1. Turned(u, c)
      BY <2>2 DEF ReqFindProduct, ReqInsertProduct, ReqPublishParse, Turned
    <3> QED BY <3>1
  <2> QED BY <1>2, <2>1, <2>2 DEF ParseRequest
<1>3. CASE ParseTask
  <2>1. ASSUME NEW w \in ParseWorkers, ParseSettle(w)
        PROVE  Continued
    <3>1. parser[w].link \in Links
      BY <1>0, <2>1 DEF ParseSettle, ParseVarsType
    <3> QED BY <2>1, <3>1 DEF ParseSettle, Continued
  <2>2. ASSUME NEW w \in ParseWorkers, NEW s \in Selections, ParsePublish(w, s)
        PROVE  Aside
    BY <1>0, <2>2 DEF ParsePublish, Aside, tables, TypeOK
  <2>3. ASSUME NEW w \in ParseWorkers, ParseCrash(w)
        PROVE  Aside
    BY <1>0, <2>3 DEF ParseCrash, Aside, tables, TypeOK
  <2>4. ASSUME NEW l \in Links, ParseLost(l)
        PROVE  Aside
    BY <1>0, <2>4 DEF ParseLost, Aside, tables, TypeOK
  <2> QED BY <1>3, <2>1, <2>2, <2>3, <2>4 DEF ParseTask, ParseTake, ParseSkip, ParseStart,
             ParseEnds, ParseExit, ParseLockExpires
<1>4. CASE RescueTask
  <2>1. CASE RescueScan
    BY <2>1 DEF RescueScan, Next, BeatTask
  <2>2. CASE RescueEnd \/ RescueCrash
    BY <1>0, <2>2 DEF RescueEnd, RescueCrash, Aside, tables, TypeOK
  <2>3. ASSUME NEW l \in Links, RescueContinue(l)
        PROVE  Continued
    BY <2>3 DEF RescueContinue, Continued
  <2>4. ASSUME NEW s \in Selections, RescuePublish(s) \/ GoesStuck(s)
        PROVE  Aside
    BY <1>0, <2>4 DEF RescuePublish, GoesStuck, Aside, tables, TypeOK
  <2> QED BY <1>4, <2>1, <2>2, <2>3, <2>4 DEF RescueTask, RescueSelect, RescueRestart
<1> QED BY <1>1, <1>2, <1>3, <1>4 DEF ParseNext

LEMMA FlowType ==
  ASSUME ParseTypeOK, [ParseNext]_allVars
  PROVE  TypeOK'
<1>0. TypeOK
  BY ParseTypeParts
<1>1. CASE [Next]_vars
  BY <1>0, <1>1, TypeStep
<1>2. ASSUME NEW u \in Users, NEW c \in Clicks, Turned(u, c)
      PROVE  TypeOK'
  <2>1. /\ req' \in [Users -> [Clicks -> Request]]
        /\ \A v \in Users, d \in Clicks :
             req'[v][d].pc \in {"buy", "join", "publish"} => req'[v][d].sel # 0
        /\ reqLock' \in SUBSET (Users \X Links)
    <3>1. CASE Reply(u, c)
      BY <1>0, <3>1, ReplyType
    <3>2. ASSUME NEW pc \in {"insert", "parse"}, Goto(u, c, pc, 0), UNCHANGED reqLock
          PROVE  <2>1!1 /\ <2>1!2 /\ <2>1!3
      BY <1>0, <3>2, GotoType DEF TypeOK
    <3> QED BY <1>2, <3>1, <3>2 DEF Turned
  <2> QED BY <1>0, <1>2, <2>1 DEF Turned, tables, TypeOK
<1>3. ASSUME NEW u \in Users, NEW c \in Clicks, ReqStartParsing(u, c)
      PROVE  TypeOK'
  <2>1. "PARSING" \in Status
    BY DEF Status
  <2> QED BY <1>0, <1>3, <2>1, CreateType DEF ReqStartParsing
<1>4. CASE Continued
  BY <1>0, <1>4, ContinueType DEF Continued
<1>5. CASE Aside
  <2>1. queue' \in [Selections -> [Retries -> 0 .. QueueCap]]
    <3>1. 0 \in Retries
      BY BoundsAssumption DEF Retries
    <3> QED BY <1>0, <1>5, <3>1, SendType DEF Aside, TypeOK
  <2>2. beat' \in Beat
    BY <1>0, <1>5 DEF Aside, TypeOK, IdleBeat, Beat
  <2>3. faults' \in 0 .. MaxFaults
    BY <1>0, <1>5, BoundsAssumption DEF Aside, Fault, TypeOK
  <2> QED BY <1>0, <1>5, <2>1, <2>2, <2>3 DEF Aside, TypeOK
<1> QED BY <1>1, <1>2, <1>3, <1>4, <1>5, FlowSteps

LEMMA ParserType ==
  ASSUME ParseVarsType, NEW w \in ParseWorkers, NEW p \in ParseWorker,
         p.pc # "idle" => p.link \in Links, parser' = [parser EXCEPT ![w] = p]
  PROVE  /\ parser' \in [ParseWorkers -> ParseWorker]
         /\ \A v \in ParseWorkers : parser'[v].pc # "idle" => parser'[v].link \in Links
BY DEF ParseVarsType

LEMMA ParseTaskType ==
  ASSUME ParseVarsType, ParseTask
  PROVE  ParseVarsType'
<1> USE IdleTypes
<1>1. \A w \in ParseWorkers :
        parser[w] \in ParseWorker /\ (parser[w].pc # "idle" => parser[w].link \in Links)
  BY DEF ParseVarsType
<1>2. ASSUME NEW w \in ParseWorkers, NEW l \in Links, ParseTake(w, l)
      PROVE  ParseVarsType'
  <2> DEFINE p == [parser[w] EXCEPT !.pc = "locked", !.link = l]
  <2>1. p \in ParseWorker /\ p.link = l
    BY <1>1 DEF ParseWorker
  <2>2. parser' = [parser EXCEPT ![w] = p]
    BY <1>2 DEF ParseTake
  <2> HIDE DEF p
  <2> QED BY <1>2, <2>1, <2>2, ParserType, ConsumeParseType DEF ParseTake, ParseVarsType
<1>3. ASSUME NEW w \in ParseWorkers, NEW l \in Links, ParseSkip(w, l)
      PROVE  ParseVarsType'
  BY <1>3, ConsumeParseType DEF ParseSkip, ParseVarsType
<1>4. ASSUME NEW w \in ParseWorkers, NEW pc \in {"parsing", "settle"}, NEW f \in FillStatus,
             parser[w].pc # "idle",
             parser' = [parser EXCEPT ![w] = [@ EXCEPT !.pc = pc, !.fill = f]],
             fill' \in [Links -> FillStatus], UNCHANGED <<parseQueue, parseLock, rescue>>
      PROVE  ParseVarsType'
  <2> DEFINE p == [parser[w] EXCEPT !.pc = pc, !.fill = f]
  <2>1. p \in ParseWorker /\ p.link \in Links
    BY <1>1, <1>4 DEF ParseWorker
  <2>2. parser' = [parser EXCEPT ![w] = p]
    BY <1>4
  <2> HIDE DEF p
  <2> QED BY <1>4, <2>1, <2>2, ParserType DEF ParseVarsType
<1>5. ASSUME NEW w \in ParseWorkers, ParseStart(w)
      PROVE  ParseVarsType'
  <2>1. CASE fill[parser[w].link] = "DONE"
    <3>1. "DONE" \in FillStatus
      BY DEF FillStatus, Parsed
    <3> QED BY <1>4, <1>5, <2>1, <3>1 DEF ParseStart, ParseVarsType
  <2>2. CASE fill[parser[w].link] # "DONE"
    <3> DEFINE p == [parser[w] EXCEPT !.pc = "parsing"]
    <3>1. p \in ParseWorker /\ p.link \in Links
      BY <1>1, <1>5 DEF ParseStart, ParseWorker
    <3>2. parser' = [parser EXCEPT ![w] = p]
      BY <1>5, <2>2 DEF ParseStart
    <3>3. fill' \in [Links -> FillStatus]
      BY <1>5, <2>2 DEF ParseStart, ParseVarsType, FillStatus
    <3> HIDE DEF p
    <3> QED BY <1>5, <3>1, <3>2, <3>3, ParserType DEF ParseStart, ParseVarsType
  <2> QED BY <2>1, <2>2
<1>6. ASSUME NEW w \in ParseWorkers, NEW outcome \in Parsed, ParseEnds(w, outcome)
      PROVE  ParseVarsType'
  <2>1. outcome \in FillStatus /\ fill' \in [Links -> FillStatus]
    BY <1>6 DEF ParseEnds, ParseVarsType, FillStatus
  <2> QED BY <1>4, <1>6, <2>1 DEF ParseEnds
<1>7. ASSUME NEW w \in ParseWorkers, ParseSettle(w)
      PROVE  ParseVarsType'
  <2> DEFINE sends == ToPublish(parser[w].link, parser[w].fill)
             p == [parser[w] EXCEPT !.pc = "publish", !.sends = sends]
  <2>1. sends \in SUBSET Selections
    BY DEF ToPublish, ToParse
  <2>2. parser' = [parser EXCEPT ![w] = p]
    BY <1>7 DEF ParseSettle
  <2>3. p \in ParseWorker /\ p.link \in Links
    <3> HIDE DEF sends
    <3> QED BY <1>1, <1>7, <2>1 DEF ParseSettle, ParseWorker
  <2> HIDE DEF p
  <2> QED BY <1>7, <2>2, <2>3, ParserType DEF ParseSettle, ParseVarsType
<1>8. ASSUME NEW w \in ParseWorkers, NEW s \in Selections, ParsePublish(w, s)
      PROVE  ParseVarsType'
  <2> DEFINE p == [parser[w] EXCEPT !.sends = @ \ {s}]
  <2>1. p \in ParseWorker /\ p.link = parser[w].link /\ p.pc = parser[w].pc
    BY <1>1 DEF ParseWorker
  <2>2. parser' = [parser EXCEPT ![w] = p]
    BY <1>8 DEF ParsePublish
  <2> HIDE DEF p
  <2> QED BY <1>1, <1>8, <2>1, <2>2, ParserType DEF ParsePublish, ParseVarsType
<1>9. ASSUME NEW w \in ParseWorkers, ParseExit(w)
      PROVE  ParseVarsType'
  BY <1>9, ParserType DEF ParseExit, ParseVarsType
<1>10. ASSUME NEW w \in ParseWorkers, ParseCrash(w)
       PROVE  ParseVarsType'
  BY <1>1, <1>10, ParserType, SendParseType DEF ParseCrash, ParseVarsType
<1>11. ASSUME NEW l \in Links, ParseLost(l) \/ ParseLockExpires(l)
       PROVE  ParseVarsType'
  BY <1>11, ConsumeParseType DEF ParseLost, ParseLockExpires, ParseVarsType
<1> QED BY <1>2, <1>3, <1>5, <1>6, <1>7, <1>8, <1>9, <1>10, <1>11 DEF ParseTask

LEMMA ParseRequestType ==
  ASSUME Linked, ParseVarsType, ParseRequest
  PROVE  ParseVarsType'
<1>1. ASSUME NEW u \in Users, NEW c \in Clicks, ReqInsertProduct(u, c)
      PROVE  ParseVarsType'
  BY <1>1 DEF ReqInsertProduct, ParseVarsType, FillStatus
<1>2. ASSUME NEW u \in Users, NEW c \in Clicks, ReqPublishParse(u, c)
      PROVE  ParseVarsType'
  <2>1. LinkOf(u, c) \in Links
    BY <1>2 DEF ReqPublishParse, Linked, Active
  <2> QED BY <1>2, <2>1, SendParseType DEF ReqPublishParse, ParseVarsType
<1>3. CASE UNCHANGED parseVars
  BY <1>3 DEF ParseVarsType, parseVars
<1> QED BY <1>1, <1>2, <1>3 DEF ParseRequest, ReqCreateParsed, ReqFindProduct, ReqStartParsing

LEMMA RescueTaskType ==
  ASSUME TypeOK, Linked, ParseVarsType, RescueTask
  PROVE  ParseVarsType'
<1> USE IdleTypes
<1>1. rescue \in Rescue /\ fill \in [Links -> FillStatus]
  BY DEF ParseVarsType
<1>2. CASE RescueScan
  <2>1. rescue' \in Rescue
    BY <1>1, <1>2 DEF RescueScan, Rescue
  <2> QED BY <1>2, <2>1 DEF RescueScan, ParseVarsType
<1>3. CASE RescueSelect
  <2> DEFINE stuck == {s \in Selections : status[s] = "PARSING"} \cap quiet
             todo == {linkOf[s] : s \in stuck}
  <2>1. stuck \in SUBSET Selections /\ todo \in SUBSET Links
    BY DEF Linked
  <2>2. rescue' = IF stuck = {} THEN IdleRescue
                  ELSE [rescue EXCEPT !.pc = "act", !.stuck = stuck, !.todo = todo]
    BY <1>3 DEF RescueSelect
  <2> HIDE DEF stuck, todo
  <2>3. rescue' \in Rescue
    BY <1>1, <2>1, <2>2 DEF Rescue
  <2> QED BY <1>3, <2>3 DEF RescueSelect, ParseVarsType
<1>4. CASE RescueEnd \/ RescueCrash
  BY <1>4 DEF RescueEnd, RescueCrash, ParseVarsType
<1>5. ASSUME NEW l \in Links, RescueContinue(l)
      PROVE  ParseVarsType'
  <2> DEFINE sends == ToPublish(l, rescue.seen[l])
  <2>1. sends \in SUBSET Selections
    BY DEF ToPublish, ToParse
  <2>2. rescue' = [rescue EXCEPT !.todo = @ \ {l}, !.sends = sends]
    BY <1>5 DEF RescueContinue
  <2> HIDE DEF sends
  <2>3. rescue' \in Rescue
    BY <1>1, <2>1, <2>2 DEF Rescue
  <2> QED BY <1>5, <2>3 DEF RescueContinue, ParseVarsType
<1>6. ASSUME NEW l \in Links, RescueRestart(l)
      PROVE  ParseVarsType'
  <2>1. rescue' \in Rescue
    BY <1>1, <1>6 DEF RescueRestart, Rescue
  <2> QED BY <1>6, <2>1, SendParseType DEF RescueRestart, ParseVarsType
<1>7. ASSUME NEW s \in Selections, RescuePublish(s)
      PROVE  ParseVarsType'
  <2>1. rescue' \in Rescue
    BY <1>1, <1>7 DEF RescuePublish, Rescue
  <2> QED BY <1>7, <2>1 DEF RescuePublish, ParseVarsType
<1>8. ASSUME NEW s \in Selections, GoesStuck(s)
      PROVE  ParseVarsType'
  BY <1>8 DEF GoesStuck, parseVars, ParseVarsType
<1> QED BY <1>2, <1>3, <1>4, <1>5, <1>6, <1>7, <1>8 DEF RescueTask

LEMMA ParseTypeStep ==
  ASSUME ParseTypeOK, Linked, [ParseNext]_allVars
  PROVE  ParseTypeOK'
<1>1. TypeOK /\ ParseVarsType
  BY ParseTypeParts
<1>2. ASSUME ParseVarsType, UNCHANGED parseVars
      PROVE  ParseVarsType'
  BY <1>2 DEF parseVars, ParseVarsType
<1>3. UNCHANGED parseVars \/ ParseRequest \/ ParseTask \/ RescueTask
  BY DEF ParseNext, FlowStep, allVars
<1>4. ParseVarsType'
  BY <1>1, <1>2, <1>3, ParseRequestType, ParseTaskType, RescueTaskType
<1>5. ParseTypeOK' <=> TypeOK' /\ ParseVarsType'
  BY DEF ParseTypeOK, ParseVarsType
<1> QED BY <1>4, <1>5, FlowType

-----------------------------------------------------------------------------
(* Nothing that is parsed in full is parsed again                          *)

(***************************************************************************)
(* A parse task has its product to itself, and the product is not DONE     *)
(* while it is being parsed; what a task or the beat has read as DONE is.  *)
(***************************************************************************)
ParseAlone ==
  /\ \A w \in ParseWorkers : parser[w].pc # "publish" => parser[w].sends = {}
  /\ \A w \in ParseWorkers : parser[w].pc # "idle" => parser[w].link \in parseLock
  /\ \A v, w \in ParseWorkers :
       parser[v].pc # "idle" /\ parser[w].pc # "idle" /\ parser[v].link = parser[w].link
       => v = w
  /\ \A w \in ParseWorkers : parser[w].pc = "parsing" => fill[parser[w].link] # "DONE"

DoneIsRead ==
  /\ \A w \in ParseWorkers :
       parser[w].pc = "settle" /\ parser[w].fill = "DONE" => fill[parser[w].link] = "DONE"
  /\ \A l \in Links : rescue.seen[l] = "DONE" => fill[l] = "DONE"

\* Who writes a fill_status: a request the first one, a parse task the others.
LEMMA FillSteps ==
  ASSUME ParseTypeOK, [ParseNext]_allVars
  PROVE  \/ UNCHANGED fill
         \/ \E l \in Links : fill[l] = "none" /\ fill' = [fill EXCEPT ![l] = "EMPTY"]
         \/ \E w \in ParseWorkers :
              /\ parser[w].pc \in {"locked", "parsing"}
              /\ parser[w].pc = "locked" => fill[parser[w].link] # "DONE"
              /\ fill'[parser[w].link] = "DONE" => parser[w].pc = "parsing"
              /\ \A l \in Links : l # parser[w].link => fill'[l] = fill[l]
<1>0. ParseVarsType
  BY ParseTypeParts
<1>1. CASE ParseTask
  BY <1>0, <1>1 DEF ParseTask, ParseTake, ParseSkip, ParseStart, ParseEnds, ParseSettle,
     ParsePublish, ParseExit, ParseCrash, ParseLost, ParseLockExpires, ParseVarsType
<1>2. CASE ParseRequest
  <2>1. ASSUME NEW u \in Users, NEW c \in Clicks, ReqInsertProduct(u, c)
        PROVE  \/ UNCHANGED fill
               \/ \E l \in Links : fill[l] = "none" /\ fill' = [fill EXCEPT ![l] = "EMPTY"]
    <3>1. LinkOf(u, c) \notin Links => [fill EXCEPT ![LinkOf(u, c)] = "EMPTY"] = fill
      BY <1>0 DEF ParseVarsType
    <3> QED BY <2>1, <3>1 DEF ReqInsertProduct
  <2> QED BY <1>2, <2>1 DEF ParseRequest, ReqCreateParsed, ReqFindProduct, ReqStartParsing,
             ReqPublishParse, parseVars
<1>3. CASE RescueTask
  BY <1>3 DEF RescueTask, RescueScan, RescueSelect, RescueContinue, RescuePublish,
     RescueRestart, RescueEnd, RescueCrash, GoesStuck, parseVars
<1>4. CASE FlowStep \/ UNCHANGED allVars
  BY <1>4 DEF FlowStep, allVars, parseVars
<1> QED BY <1>1, <1>2, <1>3, <1>4 DEF ParseNext

LEMMA DoneStays ==
  ASSUME ParseTypeOK, ParseAlone, [ParseNext]_allVars, NEW l \in Links, fill[l] = "DONE"
  PROVE  fill'[l] = "DONE"
<1>1. fill \in [Links -> FillStatus]
  BY DEF ParseTypeOK
<1> QED BY <1>1, FillSteps DEF ParseAlone

\* A step of a parse worker past its first: the product stays the same.
ParserGoesOn(w, pc, f) ==
  /\ parser[w].pc # "idle"
  /\ \A v \in ParseWorkers : v # w => parser'[v] = parser[v]
  /\ parser'[w].pc = pc /\ parser'[w].link = parser[w].link /\ parser'[w].fill = f
  /\ pc # "publish" => parser'[w].sends = {}
  /\ UNCHANGED <<parseLock, rescue>>

LEMMA ParserSteps ==
  ASSUME ParseVarsType, ParseAlone, NEW w \in ParseWorkers
  PROVE  /\ ParseStart(w) =>
              \/ fill[parser[w].link] = "DONE" /\ ParserGoesOn(w, "settle", "DONE")
              \/ fill[parser[w].link] # "DONE" /\ ParserGoesOn(w, "parsing", parser[w].fill)
         /\ \A outcome \in Parsed :
              ParseEnds(w, outcome) => ParserGoesOn(w, "settle", outcome)
         /\ ParseSettle(w) => ParserGoesOn(w, "publish", parser[w].fill)
         /\ \A s \in Selections :
              ParsePublish(w, s) => ParserGoesOn(w, "publish", parser[w].fill)
<1>1. parser[w] \in ParseWorker /\ (parser[w].pc # "publish" => parser[w].sends = {})
  BY DEF ParseVarsType, ParseAlone
<1>2. ASSUME ParseStart(w)
      PROVE  \/ fill[parser[w].link] = "DONE" /\ ParserGoesOn(w, "settle", "DONE")
             \/ fill[parser[w].link] # "DONE" /\ ParserGoesOn(w, "parsing", parser[w].fill)
  <2>1. CASE fill[parser[w].link] = "DONE"
    <3> DEFINE p == [parser[w] EXCEPT !.pc = "settle", !.fill = "DONE"]
    <3>1. parser' = [parser EXCEPT ![w] = p]
      BY <1>2, <2>1 DEF ParseStart
    <3>2. /\ p.pc = "settle" /\ p.link = parser[w].link
          /\ p.fill = "DONE" /\ p.sends = parser[w].sends
      BY <1>1 DEF ParseWorker
    <3> HIDE DEF p
    <3> QED BY <1>1, <1>2, <2>1, <3>1, <3>2 DEF ParseStart, ParserGoesOn, ParseVarsType
  <2>2. CASE fill[parser[w].link] # "DONE"
    <3> DEFINE p == [parser[w] EXCEPT !.pc = "parsing"]
    <3>1. parser' = [parser EXCEPT ![w] = p]
      BY <1>2, <2>2 DEF ParseStart
    <3>2. /\ p.pc = "parsing" /\ p.link = parser[w].link
          /\ p.fill = parser[w].fill /\ p.sends = parser[w].sends
      BY <1>1 DEF ParseWorker
    <3> HIDE DEF p
    <3> QED BY <1>1, <1>2, <2>2, <3>1, <3>2 DEF ParseStart, ParserGoesOn, ParseVarsType
  <2> QED BY <2>1, <2>2
<1>3. ASSUME NEW outcome \in Parsed, ParseEnds(w, outcome)
      PROVE  ParserGoesOn(w, "settle", outcome)
  BY <1>1, <1>3 DEF ParseEnds, ParserGoesOn, ParseVarsType, ParseWorker
<1>4. ASSUME ParseSettle(w)
      PROVE  ParserGoesOn(w, "publish", parser[w].fill)
  <2> DEFINE sends == ToPublish(parser[w].link, parser[w].fill)
             p == [parser[w] EXCEPT !.pc = "publish", !.sends = sends]
  <2>1. parser' = [parser EXCEPT ![w] = p]
    BY <1>4 DEF ParseSettle
  <2>2. p.pc = "publish" /\ p.link = parser[w].link /\ p.fill = parser[w].fill
    BY <1>1 DEF ParseWorker
  <2> HIDE DEF p
  <2> QED BY <1>4, <2>1, <2>2 DEF ParseSettle, ParserGoesOn, ParseVarsType
<1>5. ASSUME NEW s \in Selections, ParsePublish(w, s)
      PROVE  ParserGoesOn(w, "publish", parser[w].fill)
  <2> DEFINE p == [parser[w] EXCEPT !.sends = @ \ {s}]
  <2>1. parser' = [parser EXCEPT ![w] = p]
    BY <1>5 DEF ParsePublish
  <2>2. p.pc = parser[w].pc /\ p.link = parser[w].link /\ p.fill = parser[w].fill
    BY <1>1 DEF ParseWorker
  <2>3. parser[w].pc = "publish"
    BY <1>1, <1>5 DEF ParsePublish
  <2> HIDE DEF p
  <2> QED BY <1>5, <2>1, <2>2, <2>3 DEF ParsePublish, ParserGoesOn, ParseVarsType
<1> QED BY <1>2, <1>3, <1>4, <1>5

LEMMA AloneStep ==
  ASSUME ParseTypeOK, ParseAlone, [ParseNext]_allVars
  PROVE  ParseAlone'
<1>0. ParseVarsType
  BY ParseTypeParts
<1>1. CASE UNCHANGED <<fill, parseLock, parser>>
  BY <1>1 DEF ParseAlone
<1>2. ASSUME NEW u \in Users, NEW c \in Clicks, ReqInsertProduct(u, c)
      PROVE  ParseAlone'
  BY <1>0, <1>2 DEF ReqInsertProduct, ParseAlone, ParseVarsType
<1>3. ASSUME NEW w \in ParseWorkers, NEW l \in Links, ParseTake(w, l)
      PROVE  ParseAlone'
  <2>1. /\ parser'[w].pc = "locked" /\ parser'[w].link = l /\ parser'[w].sends = {}
        /\ \A v \in ParseWorkers : v # w => parser'[v] = parser[v]
    <3>1. parser[w] \in ParseWorker /\ parser[w].sends = {}
      BY <1>0, <1>3 DEF ParseTake, ParseVarsType, ParseAlone
    <3> QED BY <1>0, <1>3, <3>1 DEF ParseTake, ParseVarsType, ParseWorker
  <2>2. l \notin parseLock /\ parseLock' = parseLock \cup {l} /\ fill' = fill
    BY <1>3 DEF ParseTake
  <2> QED BY <2>1, <2>2 DEF ParseAlone
<1>4. ASSUME NEW w \in ParseWorkers, NEW pc, NEW f, ParserGoesOn(w, pc, f),
             pc = "parsing" => fill'[parser[w].link] # "DONE",
             \A l \in Links : l # parser[w].link => fill'[l] = fill[l]
      PROVE  ParseAlone'
  <2>1. \A v \in ParseWorkers : parser[v].pc # "idle" /\ v # w =>
          parser[v].link # parser[w].link /\ parser[v].link \in Links
    BY <1>0, <1>4 DEF ParserGoesOn, ParseAlone, ParseVarsType
  <2> QED BY <1>4, <2>1 DEF ParserGoesOn, ParseAlone
<1>5. ASSUME NEW w \in ParseWorkers, ParseStart(w)
      PROVE  ParseAlone'
  <2>1. /\ fill[parser[w].link] # "DONE" => fill'[parser[w].link] # "DONE"
        /\ \A l \in Links : l # parser[w].link => fill'[l] = fill[l]
    BY <1>0, <1>5 DEF ParseStart, ParseVarsType
  <2> QED BY <1>0, <1>4, <1>5, <2>1, ParserSteps
<1>6. ASSUME NEW w \in ParseWorkers, NEW outcome \in Parsed, ParseEnds(w, outcome)
      PROVE  ParseAlone'
  <2>1. \A l \in Links : l # parser[w].link => fill'[l] = fill[l]
    BY <1>0, <1>6 DEF ParseEnds, ParseVarsType
  <2> QED BY <1>0, <1>4, <1>6, <2>1, ParserSteps
<1>7. ASSUME NEW w \in ParseWorkers, ParseSettle(w)
      PROVE  ParseAlone'
  <2>1. UNCHANGED fill
    BY <1>7 DEF ParseSettle
  <2> QED BY <1>0, <1>4, <1>7, <2>1, ParserSteps
<1>8. ASSUME NEW w \in ParseWorkers, NEW s \in Selections, ParsePublish(w, s)
      PROVE  ParseAlone'
  <2>1. UNCHANGED fill /\ parser[w].pc = "publish"
    BY <1>8 DEF ParsePublish, ParseAlone
  <2> QED BY <1>0, <1>4, <1>8, <2>1, ParserSteps
<1>9. ASSUME NEW w \in ParseWorkers, parser[w].pc # "idle", parser' = [parser EXCEPT ![w] = IdleParser],
             parseLock' \in {parseLock, parseLock \ {parser[w].link}}, UNCHANGED fill
      PROVE  ParseAlone'
  <2>1. /\ parser'[w] = IdleParser
        /\ \A v \in ParseWorkers : v # w => parser'[v] = parser[v]
    BY <1>0, <1>9 DEF ParseVarsType
  <2> QED BY <1>9, <2>1, IdleTypes DEF ParseAlone
<1>10. ASSUME NEW w \in ParseWorkers, ParseExit(w) \/ ParseCrash(w)
       PROVE  ParseAlone'
  BY <1>9, <1>10 DEF ParseExit, ParseCrash
<1>11. ASSUME NEW l \in Links, ParseLockExpires(l)
       PROVE  ParseAlone'
  BY <1>11 DEF ParseLockExpires, ParseAlone
<1> QED
  <2>1. CASE ParseTask
    BY <1>1, <1>3, <1>5, <1>6, <1>7, <1>8, <1>10, <1>11, <2>1 DEF ParseTask, ParseSkip, ParseLost
  <2>2. CASE ParseRequest
    BY <1>1, <1>2, <2>2 DEF ParseRequest, ReqCreateParsed, ReqFindProduct, ReqStartParsing,
       ReqPublishParse, parseVars
  <2>3. CASE RescueTask
    BY <1>1, <2>3 DEF RescueTask, RescueScan, RescueSelect, RescueContinue, RescuePublish,
       RescueRestart, RescueEnd, RescueCrash, GoesStuck, parseVars
  <2>4. CASE FlowStep \/ UNCHANGED allVars
    BY <1>1, <2>4 DEF FlowStep, allVars, parseVars
  <2> QED BY <2>1, <2>2, <2>3, <2>4 DEF ParseNext

LEMMA DoneIsReadStep ==
  ASSUME ParseTypeOK, ParseAlone, DoneIsRead, [ParseNext]_allVars
  PROVE  DoneIsRead'
<1>0. ParseVarsType
  BY ParseTypeParts
<1>1. \A l \in Links : fill[l] = "DONE" => fill'[l] = "DONE"
  BY DoneStays
<1>2. CASE UNCHANGED <<parser, rescue>>
  BY <1>0, <1>1, <1>2 DEF DoneIsRead, ParseVarsType
<1>3. ASSUME NEW w \in ParseWorkers, NEW pc, NEW f, ParserGoesOn(w, pc, f),
             pc = "settle" /\ f = "DONE" => fill'[parser[w].link] = "DONE"
      PROVE  DoneIsRead'
  BY <1>0, <1>1, <1>3 DEF ParserGoesOn, DoneIsRead, ParseVarsType
<1>4. ASSUME NEW w \in ParseWorkers, parser'[w].pc \in {"idle", "locked"},
             \A v \in ParseWorkers : v # w => parser'[v] = parser[v], UNCHANGED rescue
      PROVE  DoneIsRead'
  BY <1>0, <1>1, <1>4 DEF DoneIsRead, ParseVarsType
<1>5. CASE ParseTask
  <2>1. ASSUME NEW w \in ParseWorkers, NEW l \in Links, ParseTake(w, l)
        PROVE  DoneIsRead'
    BY <1>0, <1>4, <2>1 DEF ParseTake, ParseVarsType, ParseWorker
  <2>2. ASSUME NEW w \in ParseWorkers, ParseStart(w)
        PROVE  DoneIsRead'
    <3>1. fill[parser[w].link] = "DONE" => fill'[parser[w].link] = "DONE"
      BY <2>2 DEF ParseStart
    <3> QED BY <1>0, <1>3, <2>2, <3>1, ParserSteps
  <2>3. ASSUME NEW w \in ParseWorkers, NEW outcome \in Parsed, ParseEnds(w, outcome)
        PROVE  DoneIsRead'
    <3>1. fill'[parser[w].link] = outcome
      BY <1>0, <2>3 DEF ParseEnds, ParseVarsType
    <3> QED BY <1>0, <1>3, <2>3, <3>1, ParserSteps
  <2>4. ASSUME NEW w \in ParseWorkers,
               ParseSettle(w) \/ \E s \in Selections : ParsePublish(w, s)
        PROVE  DoneIsRead'
    BY <1>0, <1>3, <2>4, ParserSteps
  <2>5. ASSUME NEW w \in ParseWorkers, ParseExit(w) \/ ParseCrash(w)
        PROVE  DoneIsRead'
    BY <1>0, <1>4, <2>5, IdleTypes DEF ParseExit, ParseCrash, ParseVarsType
  <2> QED BY <1>2, <1>5, <2>1, <2>2, <2>3, <2>4, <2>5
         DEF ParseTask, ParseSkip, ParseLost, ParseLockExpires
<1>6. CASE RescueTask
  <2>1. rescue \in Rescue /\ fill \in [Links -> FillStatus]
    BY <1>0 DEF ParseVarsType
  <2>2. \A l \in Links : rescue'.seen[l] = "DONE" => fill[l] = "DONE"
    <3>1. rescue'.seen \in {rescue.seen, fill, IdleRescue.seen}
      BY <1>6, <2>1 DEF RescueTask, RescueScan, RescueSelect, RescueContinue, RescuePublish,
         RescueRestart, RescueEnd, RescueCrash, GoesStuck, parseVars, Rescue
    <3>2. \A l \in Links : IdleRescue.seen[l] = "none"
      BY DEF IdleRescue
    <3> QED BY <3>1, <3>2 DEF DoneIsRead
  <2>3. UNCHANGED parser
    BY <1>6 DEF RescueTask, RescueScan, RescueSelect, RescueContinue, RescuePublish,
       RescueRestart, RescueEnd, RescueCrash, GoesStuck, parseVars
  <2> QED BY <1>0, <1>1, <2>2, <2>3 DEF DoneIsRead, ParseVarsType
<1>7. CASE ParseRequest \/ FlowStep \/ UNCHANGED allVars
  <2>1. UNCHANGED <<parser, rescue>>
    BY <1>7 DEF ParseRequest, ReqCreateParsed, ReqFindProduct, ReqInsertProduct,
       ReqStartParsing, ReqPublishParse, FlowStep, allVars, parseVars
  <2> QED BY <1>2, <2>1
<1> QED BY <1>5, <1>6, <1>7 DEF ParseNext

-----------------------------------------------------------------------------
(* Only what is parsed in full is generated                                *)

Ready(s) == linkOf[s] \in Links /\ fill[linkOf[s]] = "DONE"

\* A selection that is to be generated: by its status, by a message for it or
\* by somebody who is about to send one, start it or write its status.
InHand(s) ==
  \/ status[s] \in {"QUEUE", "PROCESS", "DONE"}
  \/ s \in beat.mark \cup beat.resend
  \/ \E r \in Retries : queue[s][r] > 0
  \/ \E w \in Workers : Holds(w, s)
  \/ \E u \in Users, c \in Clicks : req[u][c].pc = "publish" /\ req[u][c].sel = s

AboutToSend(s) == (\E w \in ParseWorkers : s \in parser[w].sends) \/ s \in rescue.sends

InHandIsReady == \A s \in Selections : InHand(s) \/ AboutToSend(s) => Ready(s)

LEMMA SendEffect ==
  ASSUME TypeOK, NEW s \in Selections, NEW r \in Retries, Send(s, r)
  PROVE  \A t \in Selections, q \in Retries : queue'[t][q] > 0 => t = s \/ queue[t][q] > 0
BY DEF Send, TypeOK

LEMMA ConsumeEffect ==
  ASSUME TypeOK, NEW s \in Selections, NEW r \in Retries, Consume(s, r)
  PROVE  /\ queue[s][r] > 0
         /\ \A t \in Selections, q \in Retries : queue'[t][q] > 0 => queue[t][q] > 0
<1>1. queue[s][r] \in Nat
  BY BoundsAssumption DEF TypeOK
<1> QED BY <1>1 DEF Consume, TypeOK

\* The steps of SelectionFlow but the creation of a selection hand on what
\* is in hand, and take nothing else.
LEMMA InHandRequest ==
  ASSUME TypeOK, NEW u \in Users, NEW c \in Clicks, RequestStep(u, c),
         NEW s \in Selections, InHand(s)'
  PROVE  InHand(s)
<1>0. 0 \in Retries
  BY BoundsAssumption DEF Retries
<1>1. ASSUME NEW l \in Links, ReqArrive(u, c, l) \/ ReqArriveUnlocked(u, c, l)
      PROVE  InHand(s)
  <2>1. UNCHANGED <<queue, gen>>
    BY <1>1 DEF ReqArrive, ReqArriveUnlocked
  <2> QED BY <1>1, <2>1, ArriveEffect DEF InHand, Holds, tables
<1>2. ASSUME Reply(u, c), UNCHANGED <<status, queue, gen, beat>>
      PROVE  InHand(s)
  BY <1>2, ReplyEffect DEF InHand, Holds
<1>3. CASE ReqLookup(u, c)
  <2>1. UNCHANGED <<status, queue, gen, beat>>
    BY <1>3 DEF ReqLookup, tables
  <2>2. ASSUME NEW pc \in {"create", "buy", "join"}, NEW t, Goto(u, c, pc, t)
        PROVE  InHand(s)
    BY <2>1, <2>2, GotoEffect DEF InHand, Holds
  <2> QED BY <1>2, <1>3, <2>1, <2>2 DEF ReqLookup
<1>4. CASE ReqRefused(u, c) \/ ReqBuy(u, c) \/ ReqJoin(u, c)
  BY <1>2, <1>4 DEF ReqRefused, ReqBuy, ReqJoin, tables
<1>5. CASE ReqPublish(u, c)
  <2>1. Reply(u, c) /\ UNCHANGED <<status, gen, beat>>
    BY <1>5 DEF ReqPublish, tables
  <2>2. req[u][c].sel \in Selections /\ req[u][c].pc = "publish"
    BY <1>5 DEF ReqPublish, TypeOK, Request, Selections
  <2>3. \A q \in Retries : queue'[s][q] > 0 => s = req[u][c].sel \/ queue[s][q] > 0
    BY <1>0, <1>5, <2>2, SendEffect DEF ReqPublish
  <2> QED BY <2>1, <2>2, <2>3, ReplyEffect DEF InHand, Holds
<1>6. CASE ReqCrash(u, c)
  BY <1>6 DEF ReqCrash, IdleRequest, TypeOK, InHand, Holds, tables
<1> QED BY <1>1, <1>3, <1>4, <1>5, <1>6 DEF RequestStep

LEMMA InHandGeneration ==
  ASSUME TypeOK, Generation, NEW s \in Selections, InHand(s)'
  PROVE  InHand(s)
<1>1. ASSUME NEW w \in Workers, gen[w].pc # "idle"
      PROVE  gen[w].sel \in Selections /\ gen[w].retries \in Retries /\ InHand(gen[w].sel)
  BY <1>1 DEF TypeOK, Worker, Selections, InHand, Holds
<1>2. ASSUME NEW w \in Workers, NEW t \in Selections, NEW r \in Retries, GenTake(w, t, r)
      PROVE  InHand(s)
  <2>1. \A v \in Workers : Holds(v, s)' => Holds(v, s) \/ s = t
    BY <1>2 DEF GenTake, Holds, TypeOK
  <2>2. queue[t][r] > 0 /\ \A q \in Retries : queue'[s][q] > 0 => queue[s][q] > 0
    BY <1>2, ConsumeEffect DEF GenTake
  <2>3. UNCHANGED <<status, beat, req>>
    BY <1>2 DEF GenTake, tables
  <2> QED BY <2>1, <2>2, <2>3 DEF InHand
<1>3. ASSUME NEW t \in Selections, NEW r \in Retries,
             GenLost(t, r) \/ \E w \in Workers : GenSkip(w, t, r)
      PROVE  InHand(s)
  <2>1. \A q \in Retries : queue'[s][q] > 0 => queue[s][q] > 0
    BY <1>3, ConsumeEffect DEF GenSkip, GenLost
  <2>2. UNCHANGED <<status, beat, gen, req>>
    BY <1>3 DEF GenSkip, GenLost, tables
  <2> QED BY <2>1, <2>2 DEF InHand, Holds
<1>4. ASSUME NEW w \in Workers, gen[w].pc # "idle",
             \A v \in Workers : Holds(v, s)' => Holds(v, s),
             \A t \in Selections : t # gen[w].sel => status'[t] = status[t],
             \A q \in Retries : queue'[s][q] > 0 => s = gen[w].sel \/ queue[s][q] > 0,
             UNCHANGED <<beat, req>>
      PROVE  InHand(s)
  <2>1. CASE s = gen[w].sel
    BY <1>1, <1>4, <2>1
  <2>2. CASE s # gen[w].sel
    BY <1>4, <2>2 DEF InHand
  <2> QED BY <2>1, <2>2
<1>5. ASSUME NEW w \in Workers, GenEnd(w) \/ gen' = [gen EXCEPT ![w] = IdleWorker]
      PROVE  \A v \in Workers : Holds(v, s)' => Holds(v, s)
  BY <1>5 DEF GenEnd, IdleWorker, Holds, TypeOK
<1>6. ASSUME NEW w \in Workers, GenStart(w)
      PROVE  InHand(s)
  <2>1. gen[w].pc # "idle" /\ UNCHANGED <<queue, beat, req>>
    BY <1>6 DEF GenStart
  <2>2. \A t \in Selections : t # gen[w].sel => status'[t] = status[t]
    BY <1>6 DEF GenStart, TypeOK
  <2>3. \A v \in Workers : Holds(v, s)' => Holds(v, s)
    <3>1. CASE gen' = [gen EXCEPT ![w].pc = "run"]
      BY <1>6, <3>1 DEF GenStart, Holds, TypeOK, Worker
    <3> QED BY <1>5, <1>6, <3>1 DEF GenStart
  <2> QED BY <1>4, <2>1, <2>2, <2>3
<1>7. ASSUME NEW w \in Workers, GenFinish(w) \/ GenGiveUp(w)
      PROVE  InHand(s)
  <2>1. gen[w].pc # "idle" /\ GenEnd(w) /\ UNCHANGED <<queue, beat, req>>
    BY <1>7 DEF GenFinish, GenGiveUp
  <2>2. \A t \in Selections : t # gen[w].sel => status'[t] = status[t]
    BY <1>7 DEF GenFinish, GenGiveUp, MarkFailed, TypeOK
  <2> QED BY <1>4, <1>5, <2>1, <2>2
<1>8. ASSUME NEW w \in Workers, GenRetry(w) \/ GenCrash(w)
      PROVE  InHand(s)
  <2>1. gen[w].pc # "idle" /\ UNCHANGED <<status, beat, req>>
    BY <1>8 DEF GenRetry, GenCrash, tables
  <2>2. \A v \in Workers : Holds(v, s)' => Holds(v, s)
    BY <1>5, <1>8 DEF GenRetry, GenCrash
  <2>3. \A q \in Retries : queue'[s][q] > 0 => s = gen[w].sel \/ queue[s][q] > 0
    <3>1. GenRetry(w) => gen[w].retries + 1 \in Retries
      BY BoundsAssumption DEF GenRetry, TypeOK, Worker, Retries
    <3> QED BY <1>1, <1>8, <2>1, <3>1, SendEffect DEF GenRetry, GenCrash
  <2> QED BY <1>4, <2>1, <2>2, <2>3
<1>9. ASSUME NEW w \in Workers, GenSaveStep(w)
      PROVE  InHand(s)
  BY <1>9 DEF GenSaveStep, InHand, Holds
<1> QED BY <1>2, <1>3, <1>6, <1>7, <1>8, <1>9 DEF Generation

LEMMA InHandBeat ==
  ASSUME TypeOK, BeatTask, NEW s \in Selections, InHand(s)'
  PROVE  InHand(s)
<1>1. CASE BeatScan
  <2>1. s \in beat'.mark \cup beat'.resend => status[s] \in InProgress
    BY <1>1 DEF BeatScan, Stuck, OpenAt, OpenWaitings, Pairs
  <2> QED BY <1>1, <2>1 DEF BeatScan, InHand, Holds, InProgress, tables
<1>2. CASE BeatCommit
  <2>1. s \notin beat'.mark \cup beat'.resend
    BY <1>2 DEF BeatCommit, IdleBeat
  <2>2. UNCHANGED <<queue, gen, req>> /\ (status'[s] = status[s] \/ s \in beat.mark)
    BY <1>2 DEF BeatCommit
  <2> QED BY <2>1, <2>2 DEF InHand, Holds
<1>3. CASE BeatCrash
  BY <1>3 DEF BeatCrash, IdleBeat, InHand, Holds, tables
<1>4. ASSUME NEW t \in Selections, BeatPublish(t)
      PROVE  InHand(s)
  <2>1. /\ beat'.mark = beat.mark /\ beat'.resend \subseteq beat.resend
        /\ t \in beat.resend
    BY <1>4 DEF BeatPublish, TypeOK, Beat
  <2>2. \A q \in Retries : queue'[s][q] > 0 => s = t \/ queue[s][q] > 0
    <3>1. 0 \in Retries
      BY BoundsAssumption DEF Retries
    <3> QED BY <1>4, <3>1, SendEffect DEF BeatPublish
  <2>3. UNCHANGED <<status, gen, req>>
    BY <1>4 DEF BeatPublish, tables
  <2> QED BY <2>1, <2>2, <2>3 DEF InHand, Holds
<1> QED BY <1>1, <1>2, <1>3, <1>4 DEF BeatTask

-----------------------------------------------------------------------------
(* Every request and every selection has its link                          *)

\* A request keeps the link it came with.
LEMMA RequestLinks ==
  ASSUME ParseTypeOK, Linked, [ParseNext]_allVars,
         NEW v \in Users, NEW d \in Clicks, Active(v, d)'
  PROVE  LinkOf(v, d)' \in Links
<1>0. TypeOK
  BY ParseTypeParts
<1>1. Active(v, d) => LinkOf(v, d) \in Links
  BY DEF Linked
<1>2. CASE UNCHANGED req
  BY <1>1, <1>2 DEF Active, LinkOf
<1>3. ASSUME NEW u \in Users, NEW c \in Clicks, Reply(u, c)
      PROVE  LinkOf(v, d)' \in Links
  <2>1. v # u \/ d # c => req'[v][d] = req[v][d]
    BY <1>0, <1>3, ReplyEffect
  <2>2. req'[u][c].pc = "idle"
    BY <1>0, <1>3, ReplyEffect
  <2> QED BY <1>1, <2>1, <2>2 DEF Active, LinkOf
<1>4. ASSUME NEW u \in Users, NEW c \in Clicks, Active(u, c),
             NEW pc, NEW s, Goto(u, c, pc, s)
      PROVE  LinkOf(v, d)' \in Links
  <2>1. v # u \/ d # c => req'[v][d] = req[v][d]
    BY <1>0, <1>4, GotoEffect
  <2>2. req'[u][c].link = req[u][c].link
    BY <1>0, <1>4, GotoEffect
  <2> QED BY <1>1, <1>4, <2>1, <2>2 DEF Active, LinkOf
<1>5. ASSUME NEW u \in Users, NEW c \in Clicks, NEW l \in Links,
             ReqArrive(u, c, l) \/ ReqArriveUnlocked(u, c, l)
      PROVE  LinkOf(v, d)' \in Links
  <2>1. v # u \/ d # c => req'[v][d] = req[v][d]
    BY <1>0, <1>5, ArriveEffect
  <2>2. req'[u][c].link = l
    BY <1>0, <1>5, ArriveEffect
  <2> QED BY <1>1, <2>1, <2>2 DEF Active, LinkOf
<1>6. ASSUME NEW u \in Users, NEW c \in Clicks, ReqCrash(u, c)
      PROVE  LinkOf(v, d)' \in Links
  BY <1>0, <1>1, <1>6 DEF ReqCrash, IdleRequest, Active, LinkOf, TypeOK
<1>7. ASSUME NEW u \in Users, NEW c \in Clicks, RequestStep(u, c)
      PROVE  LinkOf(v, d)' \in Links
  <2>1. CASE ReqLookup(u, c)
    BY <1>3, <1>4, <2>1 DEF ReqLookup, Active
  <2> QED BY <1>3, <1>5, <1>6, <1>7, <2>1
          DEF RequestStep, ReqRefused, ReqBuy, ReqJoin, ReqPublish
<1>8. ASSUME NEW u \in Users, NEW c \in Clicks, ReqCreate(u, c) \/ ReqStartParsing(u, c)
      PROVE  LinkOf(v, d)' \in Links
  <2>1. Active(u, c) /\ \E pc, s : Goto(u, c, pc, s)
    BY <1>8 DEF ReqCreate, ReqStartParsing, CreateSelection, Active
  <2> QED BY <1>4, <2>1
<1>9. ASSUME NEW u \in Users, NEW c \in Clicks, Turned(u, c)
      PROVE  LinkOf(v, d)' \in Links
  <2>1. Active(u, c)
    BY <1>9 DEF Turned, Active
  <2> QED BY <1>3, <1>4, <1>9, <2>1 DEF Turned
<1>10. [Next]_vars => UNCHANGED req \/ Orchestrator
  BY DEF Next, vars, Generation, GenTake, GenSkip, GenStart, GenSaveStep, GenFinish, GenGiveUp,
     GenRetry, GenCrash, GenLost, BeatTask, BeatScan, BeatPublish, BeatCommit, BeatCrash,
     Clock, ReqLockExpires, GenLockExpires, GoesQuiet
<1>11. Continued \/ Aside => UNCHANGED req
  BY DEF Continued, Aside
<1> QED BY <1>2, <1>7, <1>8, <1>9, <1>10, <1>11, FlowSteps DEF Orchestrator

(***************************************************************************)
(* Of the steps that order nothing, none gives a selection another link,   *)
(* and none gives a status to a selection that has none.                   *)
(***************************************************************************)
LEMMA StatusSteps ==
  ASSUME ParseTypeOK, Linked, InHandIsReady, [ParseNext]_allVars
  PROVE  \/ /\ UNCHANGED linkOf
            /\ \A s \in Selections : status'[s] = "none" <=> status[s] = "none"
         \/ \E u \in Users, c \in Clicks : ReqCreate(u, c) \/ ReqStartParsing(u, c)
<1> DEFINE Kept == /\ UNCHANGED linkOf
                   /\ \A s \in Selections : status'[s] = "none" <=> status[s] = "none"
<1>0. TypeOK /\ \A s \in Selections : InHand(s) => status[s] # "none"
  BY ParseTypeParts, LinksAssumption DEF InHandIsReady, Ready, Linked
<1>1. CASE UNCHANGED <<status, linkOf>>
  BY <1>1
<1>2. CASE Generation
  <2>1. ASSUME NEW w \in Workers, gen[w].pc # "idle"
        PROVE  gen[w].sel \in Selections /\ status[gen[w].sel] # "none"
    <3>1. gen[w].sel \in Selections
      BY <1>0, <2>1 DEF TypeOK, Worker, Selections
    <3> QED BY <1>0, <2>1, <3>1 DEF InHand, Holds
  <2>2. ASSUME NEW w \in Workers, gen[w].pc # "idle", NEW st \in {"PROCESS", "DONE", "FAILED"},
               status' = [status EXCEPT ![gen[w].sel] = st], UNCHANGED linkOf
        PROVE  Kept
    BY <1>0, <2>1, <2>2 DEF TypeOK
  <2>3. ASSUME NEW w \in Workers, GenStart(w) \/ GenFinish(w) \/ GenGiveUp(w)
        PROVE  Kept
    BY <1>1, <2>2, <2>3 DEF GenStart, GenFinish, GenGiveUp, MarkFailed
  <2> QED BY <1>1, <1>2, <2>3 DEF Generation, GenTake, GenSkip, GenSaveStep, GenRetry,
             GenCrash, GenLost, tables
<1>3. CASE BeatCommit
  <2>1. \A s \in Selections : s \in beat.mark => status[s] # "none"
    BY <1>0 DEF InHand
  <2> QED BY <1>3, <2>1 DEF BeatCommit
<1>4. CASE Continued
  BY <1>4 DEF Continued, ContinueSelections, ToParse
<1>5. ASSUME NEW u \in Users, NEW c \in Clicks, RequestStep(u, c)
      PROVE  Kept
  <2>1. UNCHANGED <<status, linkOf>>
    BY <1>5 DEF RequestStep, tables, ReqArrive, ReqArriveUnlocked, ReqLookup, ReqRefused,
       ReqBuy, ReqJoin, ReqPublish, ReqCrash
  <2> QED BY <1>1, <2>1
<1>6. CASE BeatTask \/ Clock \/ UNCHANGED vars
  <2>1. BeatCommit \/ UNCHANGED <<status, linkOf>>
    BY <1>6 DEF vars, tables, BeatTask, BeatScan, BeatPublish, BeatCrash, Clock,
       ReqLockExpires, GenLockExpires, GoesQuiet
  <2> QED BY <1>1, <1>3, <2>1
<1>7. CASE [Next]_vars
  BY <1>2, <1>5, <1>6, <1>7 DEF Next, Orchestrator
<1>8. ASSUME NEW u \in Users, NEW c \in Clicks, Turned(u, c)
      PROVE  Kept
  BY <1>1, <1>8 DEF Turned, tables
<1>9. CASE Aside
  BY <1>1, <1>9 DEF Aside
<1> QED BY <1>4, <1>7, <1>8, <1>9, FlowSteps

\* What an order adds: the first selection without a status gets one.
LEMMA CreateLinks ==
  ASSUME ParseTypeOK, Linked, NEW u \in Users, NEW c \in Clicks,
         ReqCreate(u, c) \/ ReqStartParsing(u, c)
  PROVE  \E s \in Selections :
           /\ status[s] = "none" /\ linkOf[s] = NoLink
           /\ status'[s] # "none"
           /\ linkOf'[s] = LinkOf(u, c) /\ LinkOf(u, c) \in Links
           /\ \A t \in Selections : t # s => status'[t] = status[t] /\ linkOf'[t] = linkOf[t]
<1>0. TypeOK
  BY ParseTypeParts
<1>1. LinkOf(u, c) \in Links
  BY DEF ReqCreate, ReqStartParsing, Linked, Active
<1>2. PICK s \in Selections, first \in {"QUEUE", "PARSING"} :
         /\ NextId(s)
         /\ status' = [status EXCEPT ![s] = first]
         /\ linkOf' = [linkOf EXCEPT ![s] = req[u][c].link]
  BY DEF ReqCreate, ReqStartParsing, CreateSelection
<1>3. status[s] = "none" /\ linkOf[s] = NoLink
  BY <1>2 DEF NextId, Linked
<1> QED BY <1>0, <1>1, <1>2, <1>3 DEF TypeOK, LinkOf

LEMMA LinkedStep ==
  ASSUME ParseTypeOK, Linked, InHandIsReady, [ParseNext]_allVars
  PROVE  Linked'
<1> DEFINE Goal == \A s \in Selections :
                     /\ status'[s] = "none" => linkOf'[s] = NoLink
                     /\ status'[s] # "none" => linkOf'[s] \in Links
<1>1. Goal
  <2>1. CASE /\ UNCHANGED linkOf
             /\ \A s \in Selections : status'[s] = "none" <=> status[s] = "none"
    BY <2>1 DEF Linked
  <2>2. ASSUME NEW u \in Users, NEW c \in Clicks, ReqCreate(u, c) \/ ReqStartParsing(u, c)
        PROVE  Goal
    BY <2>2, CreateLinks DEF Linked
  <2> QED BY <2>1, <2>2, StatusSteps
<1> QED BY <1>1, RequestLinks DEF Linked

-----------------------------------------------------------------------------
(* What is in hand stays ready                                             *)

LEMMA ReadyStays ==
  ASSUME ParseTypeOK, Linked, ParseAlone, InHandIsReady, [ParseNext]_allVars,
         NEW s \in Selections, InHand(s) \/ AboutToSend(s) \/ Ready(s)
  PROVE  Ready(s)'
<1>1. Ready(s) /\ linkOf[s] # NoLink
  BY LinksAssumption DEF InHandIsReady, Ready
<1>2. linkOf'[s] = linkOf[s]
  <2>1. ASSUME NEW u \in Users, NEW c \in Clicks, ReqCreate(u, c) \/ ReqStartParsing(u, c)
        PROVE  linkOf'[s] = linkOf[s]
    BY <1>1, <2>1, CreateLinks
  <2> QED BY <2>1, StatusSteps
<1> QED BY <1>1, <1>2, DoneStays DEF Ready

\* The selections that continue do so because their product is DONE.
LEMMA ContinueInHand ==
  ASSUME NEW l \in Links, NEW outcome, ContinueSelections(l, outcome),
         outcome = "DONE" => fill[l] = "DONE", UNCHANGED <<req, queue, gen, beat>>,
         NEW s \in Selections, InHand(s)' \/ s \in ToPublish(l, outcome)
  PROVE  InHand(s) \/ Ready(s)
<1>1. CASE s \in ToParse(l) /\ outcome = "DONE"
  BY <1>1 DEF ToParse, Ready
<1>2. CASE InHand(s)' /\ ~(s \in ToParse(l) /\ outcome = "DONE")
  <2>1. status'[s] \in {status[s], "FAILED"}
    BY <1>2 DEF ContinueSelections
  <2> QED BY <1>2, <2>1 DEF InHand, Holds
<1> QED BY <1>1, <1>2 DEF ToPublish

LEMMA PublishInHand ==
  ASSUME TypeOK, NEW t \in Selections, AboutToSend(t), Send(t, 0),
         UNCHANGED <<status, req, gen, beat>>, NEW s \in Selections, InHand(s)'
  PROVE  InHand(s) \/ AboutToSend(s)
<1>1. \A q \in Retries : queue'[s][q] > 0 => s = t \/ queue[s][q] > 0
  <2>1. 0 \in Retries
    BY BoundsAssumption DEF Retries
  <2> QED BY <2>1, SendEffect
<1> QED BY <1>1 DEF InHand, Holds

\* The requests that end in a parse, and the one that finds it done.
LEMMA InHandParseRequest ==
  ASSUME ParseTypeOK, Linked, ParseAlone, InHandIsReady, [ParseNext]_allVars, ParseRequest,
         NEW s \in Selections, InHand(s)' \/ AboutToSend(s)'
  PROVE  Ready(s)'
<1>0. TypeOK
  BY ParseTypeParts
<1>1. UNCHANGED <<parser, rescue>>
  BY DEF ParseRequest, ReqCreateParsed, ReqFindProduct, ReqInsertProduct, ReqStartParsing,
     ReqPublishParse, parseVars
<1>2. CASE AboutToSend(s)'
  BY <1>1, <1>2, ReadyStays DEF AboutToSend
<1>3. ASSUME NEW u \in Users, NEW c \in Clicks, Turned(u, c), InHand(s)'
      PROVE  Ready(s)'
  <2>1. UNCHANGED <<status, queue, gen, beat>>
    BY <1>3 DEF Turned, tables
  <2>2. CASE Reply(u, c)
    BY <1>0, <1>3, <2>1, <2>2, ReplyEffect, ReadyStays DEF InHand, Holds
  <2>3. ASSUME NEW pc \in {"insert", "parse"}, Goto(u, c, pc, 0)
        PROVE  Ready(s)'
    BY <1>0, <1>3, <2>1, <2>3, GotoEffect, ReadyStays DEF InHand, Holds
  <2> QED BY <1>3, <2>2, <2>3 DEF Turned
<1>4. ASSUME NEW u \in Users, NEW c \in Clicks, InHand(s)',
             NEW t \in Selections, NEW first, NEW pc,
             status' = [status EXCEPT ![t] = first], Goto(u, c, pc, t),
             first = "QUEUE" \/ pc = "publish" => t # s,
             first \in {"QUEUE", "PARSING"},
             UNCHANGED <<queue, gen, beat>>
      PROVE  Ready(s)'
  <2>1. \A v \in Users, d \in Clicks :
          req'[v][d].pc = "publish" /\ req'[v][d].sel = s
          => req[v][d].pc = "publish" /\ req[v][d].sel = s
    BY <1>0, <1>4, GotoEffect
  <2>2. status'[s] \in {status[s], "PARSING"}
    BY <1>0, <1>4 DEF TypeOK
  <2>3. InHand(s)
    BY <1>4, <2>1, <2>2 DEF InHand, Holds
  <2> QED BY <2>3, ReadyStays
<1>5. ASSUME NEW u \in Users, NEW c \in Clicks, ReqStartParsing(u, c), InHand(s)'
      PROVE  Ready(s)'
  BY <1>4, <1>5 DEF ReqStartParsing, CreateSelection
<1>6. ASSUME NEW u \in Users, NEW c \in Clicks, ReqCreateParsed(u, c), InHand(s)'
      PROVE  Ready(s)'
  <2>1. PICK t \in Selections :
           /\ status' = [status EXCEPT ![t] = "QUEUE"]
           /\ linkOf' = [linkOf EXCEPT ![t] = LinkOf(u, c)]
           /\ Goto(u, c, "publish", t)
    BY <1>6 DEF ReqCreateParsed, ReqCreate, CreateSelection, LinkOf
  <2>2. UNCHANGED <<queue, gen, beat, fill>>
    BY <1>6 DEF ReqCreateParsed, ReqCreate, CreateSelection, parseVars
  <2>3. LinkOf(u, c) \in Links /\ fill[LinkOf(u, c)] = "DONE"
    BY <1>6 DEF ReqCreateParsed, ReqCreate, Linked, Active
  <2>4. CASE t = s
    BY <1>0, <2>1, <2>2, <2>3, <2>4 DEF Ready, TypeOK
  <2>5. CASE t # s
    BY <1>4, <1>6, <2>1, <2>2, <2>5
  <2> QED BY <2>4, <2>5
<1>7. ASSUME NEW u \in Users, NEW c \in Clicks, InHand(s)',
             ReqFindProduct(u, c) \/ ReqInsertProduct(u, c) \/ ReqPublishParse(u, c)
      PROVE  Ready(s)'
  <2>1. Turned(u, c)
    BY <1>7 DEF ReqFindProduct, ReqInsertProduct, ReqPublishParse, Turned
  <2> QED BY <1>3, <1>7, <2>1
<1> QED BY <1>2, <1>5, <1>6, <1>7 DEF ParseRequest

LEMMA InHandParseTask ==
  ASSUME ParseTypeOK, Linked, ParseAlone, DoneIsRead, InHandIsReady,
         [ParseNext]_allVars, ParseTask,
         NEW s \in Selections, InHand(s)' \/ AboutToSend(s)'
  PROVE  Ready(s)'
<1>0. TypeOK /\ ParseVarsType
  BY ParseTypeParts
<1>1. ASSUME \A w \in ParseWorkers : parser'[w].sends \subseteq parser[w].sends,
             UNCHANGED rescue, UNCHANGED vars
      PROVE  Ready(s)'
  <2>1. AboutToSend(s)' => AboutToSend(s)
    BY <1>1 DEF AboutToSend
  <2>2. UNCHANGED <<status, req, queue, gen, beat>>
    BY <1>1 DEF vars, tables
  <2>3. InHand(s)' => InHand(s)
    BY <2>2 DEF InHand, Holds
  <2> QED BY <2>1, <2>3, ReadyStays
<1>2. ASSUME NEW w \in ParseWorkers, NEW pc, NEW f, ParserGoesOn(w, pc, f),
             pc # "publish", UNCHANGED vars
      PROVE  Ready(s)'
  BY <1>1, <1>2 DEF ParserGoesOn
<1>3. ASSUME NEW w \in ParseWorkers, NEW l \in Links, ParseTake(w, l)
      PROVE  Ready(s)'
  <2>1. parser[w] \in ParseWorker
    BY <1>0 DEF ParseVarsType
  <2>2. parser'[w].sends = parser[w].sends /\ \A v \in ParseWorkers : v # w => parser'[v] = parser[v]
    BY <1>0, <1>3, <2>1 DEF ParseTake, ParseVarsType, ParseWorker
  <2>3. \A v \in ParseWorkers : parser'[v].sends \subseteq parser[v].sends
    BY <2>2
  <2> QED BY <1>1, <1>3, <2>3 DEF ParseTake
<1>4. ASSUME NEW l \in Links, ParseLockExpires(l) \/ \E w \in ParseWorkers : ParseSkip(w, l)
      PROVE  Ready(s)'
  BY <1>1, <1>4 DEF ParseLockExpires, ParseSkip
<1>5. ASSUME NEW w \in ParseWorkers,
             ParseStart(w) \/ \E outcome \in Parsed : ParseEnds(w, outcome)
      PROVE  Ready(s)'
  <2>1. UNCHANGED vars
    BY <1>5 DEF ParseStart, ParseEnds
  <2> QED BY <1>0, <1>2, <1>5, <2>1, ParserSteps
<1>6. ASSUME NEW w \in ParseWorkers, ParseSettle(w)
      PROVE  Ready(s)'
  <2> DEFINE l == parser[w].link
             f == parser[w].fill
  <2>1. /\ l \in Links /\ ContinueSelections(l, f) /\ (f = "DONE" => fill[l] = "DONE")
        /\ UNCHANGED <<req, queue, gen, beat>>
    BY <1>0, <1>6 DEF ParseSettle, ParseVarsType, DoneIsRead
  <2>2. UNCHANGED rescue
    BY <1>6 DEF ParseSettle
  <2>3. /\ parser'[w].sends = ToPublish(l, f)
        /\ \A v \in ParseWorkers : v # w => parser'[v] = parser[v]
    <3> DEFINE sends == ToPublish(l, f)
               p == [parser[w] EXCEPT !.pc = "publish", !.sends = sends]
    <3>1. parser' = [parser EXCEPT ![w] = p]
      BY <1>6 DEF ParseSettle
    <3>2. p.sends = sends
      <4> HIDE DEF sends
      <4> QED BY <1>0 DEF ParseVarsType, ParseWorker
    <3> HIDE DEF p
    <3> QED BY <1>0, <3>1, <3>2 DEF ParseVarsType
  <2> HIDE DEF l, f
  <2>4. AboutToSend(s)' => AboutToSend(s) \/ s \in ToPublish(l, f)
    BY <2>2, <2>3 DEF AboutToSend
  <2>5. InHand(s)' \/ s \in ToPublish(l, f) => InHand(s) \/ Ready(s)
    BY <2>1, ContinueInHand
  <2> QED BY <2>4, <2>5, ReadyStays
<1>7. ASSUME NEW w \in ParseWorkers, NEW t \in Selections, ParsePublish(w, t)
      PROVE  Ready(s)'
  <2>1. /\ t \in parser[w].sends /\ Send(t, 0) /\ UNCHANGED rescue
        /\ UNCHANGED <<status, req, gen, beat>>
    BY <1>7 DEF ParsePublish, tables
  <2>2. /\ parser'[w].sends \subseteq parser[w].sends
        /\ \A v \in ParseWorkers : v # w => parser'[v] = parser[v]
    <3> DEFINE p == [parser[w] EXCEPT !.sends = @ \ {t}]
    <3>1. parser' = [parser EXCEPT ![w] = p]
      BY <1>7 DEF ParsePublish
    <3>2. p.sends \subseteq parser[w].sends
      BY <1>0 DEF ParseVarsType, ParseWorker
    <3> HIDE DEF p
    <3> QED BY <1>0, <3>1, <3>2 DEF ParseVarsType
  <2>3. AboutToSend(t) /\ (AboutToSend(s)' => AboutToSend(s))
    BY <2>1, <2>2 DEF AboutToSend
  <2>4. InHand(s)' => InHand(s) \/ AboutToSend(s)
    BY <1>0, <2>1, <2>3, PublishInHand
  <2> QED BY <2>3, <2>4, ReadyStays
<1>8. ASSUME NEW w \in ParseWorkers, ParseExit(w) \/ ParseCrash(w)
      PROVE  Ready(s)'
  <2>1. UNCHANGED <<status, req, queue, gen, beat, rescue>>
    BY <1>8 DEF ParseExit, ParseCrash, vars, tables
  <2>2. parser'[w].sends = {} /\ \A v \in ParseWorkers : v # w => parser'[v] = parser[v]
    BY <1>0, <1>8, IdleTypes DEF ParseExit, ParseCrash, ParseVarsType
  <2>3. InHand(s)' \/ AboutToSend(s)' => InHand(s) \/ AboutToSend(s)
    BY <2>1, <2>2 DEF InHand, Holds, AboutToSend
  <2> QED BY <2>3, ReadyStays
<1>9. ASSUME NEW l \in Links, ParseLost(l)
      PROVE  Ready(s)'
  <2>1. UNCHANGED <<status, req, queue, gen, beat, parser, rescue>>
    BY <1>9 DEF ParseLost, tables
  <2>2. InHand(s)' \/ AboutToSend(s)' => InHand(s) \/ AboutToSend(s)
    BY <2>1 DEF InHand, Holds, AboutToSend
  <2> QED BY <2>2, ReadyStays
<1> QED BY <1>3, <1>4, <1>5, <1>6, <1>7, <1>8, <1>9 DEF ParseTask

LEMMA InHandRescueTask ==
  ASSUME ParseTypeOK, Linked, ParseAlone, DoneIsRead, InHandIsReady,
         [ParseNext]_allVars, RescueTask,
         NEW s \in Selections, InHand(s)' \/ AboutToSend(s)'
  PROVE  Ready(s)'
<1>0. TypeOK /\ ParseVarsType
  BY ParseTypeParts
<1>1. UNCHANGED parser /\ rescue \in Rescue /\ IdleRescue.sends = {}
  BY <1>0, IdleTypes DEF ParseVarsType, RescueTask, RescueScan, RescueSelect, RescueContinue,
     RescuePublish, RescueRestart, RescueEnd, RescueCrash, GoesStuck, parseVars
<1>2. ASSUME rescue'.sends \subseteq rescue.sends, InHand(s)' => InHand(s) \/ AboutToSend(s)
      PROVE  Ready(s)'
  <2>1. AboutToSend(s)' => AboutToSend(s)
    BY <1>1, <1>2 DEF AboutToSend
  <2> QED BY <1>2, <2>1, ReadyStays
<1>3. ASSUME UNCHANGED <<status, req, queue, gen>>, beat' \in {beat, IdleBeat}
      PROVE  InHand(s)' => InHand(s)
  BY <1>3 DEF InHand, Holds, IdleBeat
<1>4. CASE RescueScan
  <2>1. rescue'.sends = rescue.sends
    BY <1>1, <1>4 DEF RescueScan, Rescue
  <2>2. CASE BeatScan
    BY <1>0, <1>2, <2>1, <2>2, InHandBeat DEF BeatTask
  <2>3. CASE UNCHANGED vars
    BY <1>2, <1>3, <2>1, <2>3 DEF vars, tables
  <2> QED BY <1>4, <2>2, <2>3 DEF RescueScan
<1>5. CASE RescueSelect
  <2>1. rescue'.sends \subseteq rescue.sends
    BY <1>1, <1>5 DEF RescueSelect, Rescue
  <2> QED BY <1>2, <1>3, <1>5, <2>1 DEF RescueSelect, vars, tables
<1>6. CASE RescueEnd \/ RescueCrash
  BY <1>1, <1>2, <1>3, <1>6 DEF RescueEnd, RescueCrash, tables
<1>7. ASSUME NEW l \in Links, RescueContinue(l)
      PROVE  Ready(s)'
  <2> DEFINE f == rescue.seen[l]
  <2>1. /\ ContinueSelections(l, f) /\ (f = "DONE" => fill[l] = "DONE")
        /\ UNCHANGED <<req, queue, gen, beat>>
    BY <1>7 DEF RescueContinue, DoneIsRead
  <2>2. rescue'.sends = ToPublish(l, f)
    BY <1>1, <1>7 DEF RescueContinue, Rescue
  <2> HIDE DEF f
  <2>3. AboutToSend(s)' => AboutToSend(s) \/ s \in ToPublish(l, f)
    BY <1>1, <2>2 DEF AboutToSend
  <2>4. InHand(s)' \/ s \in ToPublish(l, f) => InHand(s) \/ Ready(s)
    BY <2>1, ContinueInHand
  <2> QED BY <2>3, <2>4, ReadyStays
<1>8. ASSUME NEW l \in Links, RescueRestart(l)
      PROVE  Ready(s)'
  <2>1. rescue'.sends = rescue.sends
    BY <1>1, <1>8 DEF RescueRestart, Rescue
  <2> QED BY <1>2, <1>3, <1>8, <2>1 DEF RescueRestart, vars, tables
<1>9. ASSUME NEW t \in Selections, RescuePublish(t)
      PROVE  Ready(s)'
  <2>1. rescue'.sends \subseteq rescue.sends
    BY <1>1, <1>9 DEF RescuePublish, Rescue
  <2>2. AboutToSend(t) /\ Send(t, 0) /\ UNCHANGED <<status, req, gen, beat>>
    BY <1>9 DEF RescuePublish, AboutToSend, tables
  <2> QED BY <1>0, <1>2, <2>1, <2>2, PublishInHand
<1>10. ASSUME NEW t \in Selections, GoesStuck(t)
       PROVE  Ready(s)'
  BY <1>2, <1>3, <1>10 DEF GoesStuck, parseVars
<1> QED BY <1>4, <1>5, <1>6, <1>7, <1>8, <1>9, <1>10 DEF RescueTask

LEMMA InHandStep ==
  ASSUME ParseTypeOK, Linked, ParseAlone, DoneIsRead, InHandIsReady, [ParseNext]_allVars
  PROVE  InHandIsReady'
<1> SUFFICES ASSUME NEW s \in Selections, InHand(s)' \/ AboutToSend(s)'
             PROVE  Ready(s)'
  BY DEF InHandIsReady
<1>0. TypeOK
  BY ParseTypeParts
<1>1. CASE FlowStep \/ UNCHANGED allVars
  <2>1. AboutToSend(s)' => AboutToSend(s)
    BY <1>1 DEF FlowStep, allVars, parseVars, AboutToSend
  <2>2. ASSUME InHand(s)'
        PROVE  InHand(s)
    <3>1. CASE UNCHANGED vars \/ Clock
      BY <2>2, <3>1 DEF vars, tables, Clock, ReqLockExpires, GenLockExpires, GoesQuiet,
         InHand, Holds
    <3>2. CASE BeatCommit \/ \E t \in Selections : BeatPublish(t)
      BY <1>0, <2>2, <3>2, InHandBeat DEF BeatTask
    <3> QED BY <1>0, <1>1, <2>2, <3>1, <3>2, InHandRequest, InHandGeneration
            DEF FlowStep, allVars
  <2> QED BY <2>1, <2>2, ReadyStays
<1> QED BY <1>1, InHandParseRequest, InHandParseTask, InHandRescueTask DEF ParseNext

-----------------------------------------------------------------------------
(* The theorems                                                            *)

\* Inductive: each part is kept by a step from a state with all of them.
ParseInv == ParseTypeOK /\ Linked /\ ParseAlone /\ DoneIsRead /\ InHandIsReady

LEMMA ParseInvInit == ParseInit => ParseInv
<1> SUFFICES ASSUME ParseInit PROVE ParseInv
  OBVIOUS
<1>1. /\ \A u \in Users, c \in Clicks : req[u][c].pc = "idle"
      /\ \A s \in Selections : status[s] = "none" /\ linkOf[s] = NoLink
      /\ \A s \in Selections, r \in Retries : queue[s][r] = 0
      /\ \A w \in Workers : gen[w].pc = "idle"
      /\ beat.mark = {} /\ beat.resend = {}
  BY DEF ParseInit, Init, IdleRequest, IdleWorker, IdleBeat
<1>2. /\ \A w \in ParseWorkers : parser[w].pc = "idle" /\ parser[w].sends = {}
      /\ rescue.sends = {} /\ \A l \in Links : rescue.seen[l] = "none"
  BY DEF ParseInit, IdleParser, IdleRescue
<1>3. Linked /\ ParseAlone /\ DoneIsRead
  BY <1>1, <1>2 DEF Linked, Active, ParseAlone, DoneIsRead
<1>4. InHandIsReady
  BY <1>1, <1>2 DEF InHandIsReady, InHand, AboutToSend, Holds
<1> QED BY <1>3, <1>4, ParseTypeInit DEF ParseInv

LEMMA ParseInvStep == ParseInv /\ [ParseNext]_allVars => ParseInv'
<1> SUFFICES ASSUME ParseInv, [ParseNext]_allVars PROVE ParseInv'
  OBVIOUS
<1> QED BY ParseTypeStep, LinkedStep, AloneStep, DoneIsReadStep, InHandStep DEF ParseInv

\* Every variable of the whole flow keeps its type.
THEOREM ParseTypeCorrect == ParseSpec => []ParseTypeOK
<1>1. ParseInv => ParseTypeOK
  BY DEF ParseInv
<1> QED BY <1>1, ParseInvInit, ParseInvStep, PTL DEF ParseSpec

\* Whatever a request, a parse task or the beat read before, a selection is
\* only queued, generated or ready when its product was parsed in full.
THEOREM GeneratedAreParsed == ParseSpec => []GeneratedFromParsed
<1>1. ParseInv => GeneratedFromParsed
  BY DEF ParseInv, InHandIsReady, InHand, Ready, GeneratedFromParsed
<1> QED BY <1>1, ParseInvInit, ParseInvStep, PTL DEF ParseSpec

\* A product that was parsed in full stays so.
THEOREM DoneForGood == ParseSpec => ParsedForGood
<1>1. ParseInv /\ [ParseNext]_allVars =>
        [\A l \in Links : fill[l] = "DONE" => fill'[l] = "DONE"]_allVars
  BY DoneStays DEF ParseInv
<1> QED BY <1>1, ParseInvInit, ParseInvStep, PTL DEF ParseSpec, ParsedForGood

-----------------------------------------------------------------------------
(* The spins of the whole flow                                             *)

\* What a parse that has ended does to the selections in PARSING.
LEMMA ContinueEffect ==
  ASSUME TypeOK, Continued
  PROVE  /\ \A s \in Selections :
              /\ status'[s] = "DONE" => status[s] = "DONE"
              /\ status'[s] = "none" <=> status[s] = "none"
         /\ \/ UNCHANGED <<balance, waiting>>
            \/ \E release : CloseAndAct({}, release)
         /\ UNCHANGED <<linkOf, attached, pdf, req, reqLock, beat>>
BY DEF Continued, ContinueSelections, ToParse, TypeOK

LEMMA ParseDoneStep ==
  ASSUME ParseTypeOK, DoneHasPdf, [ParseNext]_allVars
  PROVE  DoneHasPdf' /\ pdf \subseteq pdf'
<1>0. TypeOK
  BY ParseTypeParts
<1>1. CASE [Next]_vars
  BY <1>0, <1>1, DoneStep
<1>2. ASSUME NEW u \in Users, NEW c \in Clicks, Turned(u, c)
      PROVE  DoneHasPdf' /\ pdf \subseteq pdf'
  <2>1. UNCHANGED <<status, pdf, beat>>
    BY <1>2 DEF Turned, tables
  <2>2. ASSUME NEW v \in Users, NEW d \in Clicks, req'[v][d].pc = "buy"
        PROVE  req'[v][d] = req[v][d]
    BY <1>0, <1>2, <2>2, ReplyEffect, GotoEffect DEF Turned
  <2> QED BY <2>1, <2>2 DEF DoneHasPdf
<1>3. ASSUME NEW u \in Users, NEW c \in Clicks, ReqStartParsing(u, c)
      PROVE  DoneHasPdf' /\ pdf \subseteq pdf'
  <2>1. "PARSING" \in Status \ {"DONE"}
    BY DEF Status
  <2> QED BY <1>0, <1>3, <2>1, DoneCreate DEF ReqStartParsing
<1>4. CASE Continued
  BY <1>0, <1>4, ContinueEffect DEF DoneHasPdf
<1>5. CASE Aside
  BY <1>5 DEF Aside, DoneHasPdf, IdleBeat
<1> QED BY <1>1, <1>2, <1>3, <1>4, <1>5, FlowSteps

LEMMA ParseAttachedStep ==
  ASSUME ParseTypeOK, WaitingsAreAttached, [ParseNext]_allVars
  PROVE  WaitingsAreAttached'
<1>0. TypeOK
  BY ParseTypeParts
<1>1. CASE [Next]_vars
  BY <1>0, <1>1, AttachedStep
<1>2. ASSUME NEW u \in Users, NEW c \in Clicks, ReqStartParsing(u, c)
      PROVE  WaitingsAreAttached'
  BY <1>0, <1>2, CreateEffect, AttachedOrder DEF ReqStartParsing
<1>3. CASE Continued
  BY <1>0, <1>3, ContinueEffect, AttachedClose DEF WaitingsAreAttached
<1>4. CASE UNCHANGED <<waiting, attached>>
  BY <1>4 DEF WaitingsAreAttached
<1> QED BY <1>1, <1>2, <1>3, <1>4, FlowSteps DEF Turned, Aside, tables

LEMMA ParseChargedStep ==
  ASSUME ParseTypeOK, WaitingsAreAttached, DoneHasPdf, ChargedOnlyForPdf, [ParseNext]_allVars
  PROVE  ChargedOnlyForPdf'
<1>0. TypeOK /\ pdf \subseteq pdf'
  BY ParseTypeParts, ParseDoneStep
<1>1. CASE [Next]_vars
  BY <1>0, <1>1, ChargedStep
<1>2. ASSUME NEW u \in Users, NEW c \in Clicks, ReqStartParsing(u, c)
      PROVE  ChargedOnlyForPdf'
  BY <1>0, <1>2, CreateEffect, ChargedOrder DEF ReqStartParsing
<1>3. CASE UNCHANGED <<waiting, attached>>
  BY <1>0, <1>3 DEF ChargedOnlyForPdf, Charged
<1>4. CASE Continued
  BY <1>0, <1>3, <1>4, ContinueEffect, ChargedClose
<1> QED BY <1>1, <1>2, <1>3, <1>4, FlowSteps DEF Turned, Aside, tables

LEMMA ParseLockStep ==
  ASSUME ~RedisMayFail, ParseTypeOK, OneRequestPerLink, [ParseNext]_allVars
  PROVE  OneRequestPerLink'
<1>0. TypeOK
  BY ParseTypeParts
<1>1. CASE [Next]_vars
  BY <1>0, <1>1, LockStep
<1>2. ASSUME NEW u \in Users, NEW c \in Clicks, Turned(u, c)
      PROVE  OneRequestPerLink'
  <2>1. Active(u, c)
    BY <1>2 DEF Turned, Active
  <2> QED BY <1>0, <1>2, <2>1, LockReply, LockGoto DEF Turned
<1>3. ASSUME NEW u \in Users, NEW c \in Clicks, ReqStartParsing(u, c)
      PROVE  OneRequestPerLink'
  <2>1. Active(u, c) /\ UNCHANGED reqLock /\ \E s : Goto(u, c, "parsePublish", s)
    BY <1>3 DEF ReqStartParsing, CreateSelection, Active
  <2> QED BY <1>0, <2>1, LockGoto
<1>4. CASE UNCHANGED <<req, reqLock>>
  BY <1>4 DEF OneRequestPerLink, Active
<1> QED BY <1>1, <1>2, <1>3, <1>4, FlowSteps DEF Continued, Aside

LEMMA ParseDecisionsStep ==
  ASSUME ParseTypeOK, OneRequestPerLink, Decisions, [ParseNext]_allVars
  PROVE  Decisions'
<1>0. TypeOK
  BY ParseTypeParts
<1>1. CASE [Next]_vars
  BY <1>0, <1>1, DecisionsStep
<1>2. ASSUME NEW u \in Users, NEW c \in Clicks, Turned(u, c)
      PROVE  Decisions'
  <2>1. UNCHANGED <<status, linkOf, attached>>
    BY <1>2 DEF Turned, tables
  <2>2. ASSUME NEW v \in Users, NEW d \in Clicks, req'[v][d].pc \in {"buy", "join"}
        PROVE  req'[v][d] = req[v][d]
    BY <1>0, <1>2, <2>2, ReplyEffect, GotoEffect DEF Turned
  <2> QED BY <2>1, <2>2 DEF Decisions
<1>3. ASSUME NEW u \in Users, NEW c \in Clicks, ReqStartParsing(u, c)
      PROVE  Decisions'
  <2>1. "PARSING" \in Status \ {"none"}
    BY DEF Status
  <2> QED BY <1>0, <1>3, <2>1, DecisionsCreate DEF ReqStartParsing
<1>4. CASE Continued
  <2>1. \A u \in Users, c \in Clicks :
          req[u][c].pc \in {"buy", "join"} => req[u][c].sel \in Selections
    BY <1>0 DEF TypeOK, Request, Selections
  <2> QED BY <1>0, <1>4, <2>1, ContinueEffect DEF Decisions
<1>5. CASE Aside
  BY <1>5 DEF Aside, Decisions
<1> QED BY <1>1, <1>2, <1>3, <1>4, <1>5, FlowSteps

LEMMA ParseLockedStep ==
  ASSUME ~RedisMayFail, ParseTypeOK, LockedInv, [ParseNext]_allVars
  PROVE  LockedInv'
BY FlowType, ParseAttachedStep, ParseDoneStep, ParseLockStep, ParseDecisionsStep DEF LockedInv

\* A step of the whole flow orders once, or closes waitings, or leaves the
\* ledger alone.
LEMMA ParseLedgerSteps ==
  ASSUME ParseTypeOK, LockedInv, [ParseNext]_allVars
  PROVE  \/ \E u \in Users, s \in Selections : OrderOnce(u, s)
         \/ \E confirm, release : CloseAndAct(confirm, release) /\ UNCHANGED attached
         \/ UNCHANGED <<balance, waiting, attached>>
<1>0. TypeOK
  BY ParseTypeParts
<1>1. CASE [Next]_vars
  BY <1>1, LedgerSteps, OrderIsOnce DEF Closes
<1>2. ASSUME NEW u \in Users, NEW c \in Clicks, ReqStartParsing(u, c)
      PROVE  \E s \in Selections : OrderOnce(u, s)
  BY <1>2, CreateIsOnce DEF ReqStartParsing
<1>3. CASE Continued
  BY <1>0, <1>3, ContinueEffect
<1> QED BY <1>1, <1>2, <1>3, FlowSteps DEF Turned, Aside, tables

LEMMA ParseExactStep ==
  ASSUME ParseTypeOK, LockedInv, Exact, [ParseNext]_allVars
  PROVE  Exact'
BY ParseLedgerSteps, ExactOrder, ExactClose, ExactSame

LEMMA ParseContractStep ==
  ASSUME ParseTypeOK, LockedInv, LockedInv', Exact, [ParseNext]_allVars
  PROVE  [Contract!Next]_<<FreeSpins, Promises>>
<1>1. TypeOK /\ TypeOK' /\ WaitingsAreAttached /\ ReservedIsOpenWaitings
  BY DEF LockedInv, Exact
<1>2. ASSUME NEW u \in Users, NEW s \in Selections, OrderOnce(u, s)
      PROVE  Contract!Next
  BY <1>1, <1>2, ContractOrder DEF Contract!Next
<1>3. ASSUME NEW confirm, NEW release, CloseAndAct(confirm, release), UNCHANGED attached
      PROVE  Contract!Next
  BY <1>1, <1>3, ContractSettle DEF Contract!Next
<1>4. CASE UNCHANGED <<balance, waiting, attached>>
  BY <1>4 DEF FreeSpins, Promises, SpinStatus
<1> QED BY <1>2, <1>3, <1>4, ParseLedgerSteps

LEMMA ParsePaidInit == ParseInit => LockedInv /\ Exact /\ ChargedOnlyForPdf
<1>1. Init => ChargedOnlyForPdf
  BY DEF Init, ChargedOnlyForPdf, Charged
<1> QED BY <1>1, LockedInit, ExactInit DEF ParseInit

\* From a link nobody asked for to the PDF, whether or not Redis is up, a
\* user is charged for nothing but selections whose PDF exists.
THEOREM WholeFlowChargesForPdf == ParseSpec => []ChargedOnlyForPdf
<1> DEFINE Inv == WaitingsAreAttached /\ DoneHasPdf /\ ChargedOnlyForPdf
<1>1. ParseInit => Inv
  BY ParsePaidInit DEF LockedInv
<1>2. ParseTypeOK /\ Inv /\ [ParseNext]_allVars => Inv'
  BY ParseAttachedStep, ParseDoneStep, ParseChargedStep
<1>3. Inv => ChargedOnlyForPdf
  OBVIOUS
<1> QED BY <1>1, <1>2, <1>3, ParseTypeCorrect, PTL DEF ParseSpec

\* Whether or not Redis is up, the confirm or release of every open waiting
\* finds its spin in the reserve, for the waitings of selections that wait for
\* a parse as well.
THEOREM WholeFlowIsBacked == ParseSpec => []OpenWaitingsAreBacked
<1>1. ParseTypeOK /\ OpenWaitingsAreBacked /\ [ParseNext]_allVars => OpenWaitingsAreBacked'
  <2> SUFFICES ASSUME ParseTypeOK, OpenWaitingsAreBacked, [ParseNext]_allVars
               PROVE  OpenWaitingsAreBacked'
    OBVIOUS
  <2>0. TypeOK
    BY ParseTypeParts
  <2>1. CASE [Next]_vars
    BY <2>0, <2>1, BackedStep
  <2>2. ASSUME NEW u \in Users, NEW c \in Clicks, ReqStartParsing(u, c)
        PROVE  OpenWaitingsAreBacked'
    BY <2>0, <2>2, CreateEffect, BackedOrder DEF ReqStartParsing
  <2>3. CASE UNCHANGED <<balance, waiting>>
    BY <2>3 DEF OpenWaitingsAreBacked, OpenOf
  <2>4. CASE Continued
    BY <2>0, <2>3, <2>4, ContinueEffect, BackedClose
  <2> QED BY <2>1, <2>2, <2>3, <2>4, FlowSteps DEF Turned, Aside, tables
<1>2. ParseInit => OpenWaitingsAreBacked
  BY BackedInit DEF ParseInit
<1> QED BY <1>1, <1>2, ParseTypeCorrect, PTL DEF ParseSpec

\* While Redis is up, through parsing and the rescues of the beat: no request
\* reserves a spin on a decision about its user that is no longer true.
THEOREM WholeFlowDecidesOnTime ==
  ASSUME ~RedisMayFail
  PROVE  ParseSpec => []DecisionsAreCurrent
<1>1. ParseInit => LockedInv
  BY ParsePaidInit
<1>2. ParseTypeOK /\ LockedInv /\ [ParseNext]_allVars => LockedInv'
  BY ParseLockedStep
<1>3. LockedInv => DecisionsAreCurrent
  BY DEF LockedInv, Decisions, DoneHasPdf, DecisionsAreCurrent
<1> QED BY <1>1, <1>2, <1>3, ParseTypeCorrect, PTL DEF ParseSpec

\* While Redis is up, the reserve of a user is the number of open waitings,
\* and the user was charged once for each selection bought or delivered,
\* parsed for this order or not.
THEOREM WholeFlowLedgerIsExact ==
  ASSUME ~RedisMayFail
  PROVE  ParseSpec => [](ReservedIsOpenWaitings /\ ChargedOncePerSelection)
<1>1. ParseInit => LockedInv /\ Exact
  BY ParsePaidInit
<1>2. ParseTypeOK /\ LockedInv /\ [ParseNext]_allVars => LockedInv'
  BY ParseLockedStep
<1>3. ParseTypeOK /\ LockedInv /\ Exact /\ [ParseNext]_allVars => Exact'
  BY ParseExactStep
<1>4. Exact => ReservedIsOpenWaitings /\ ChargedOncePerSelection
  BY DEF Exact
<1> QED BY <1>1, <1>2, <1>3, <1>4, ParseTypeCorrect, PTL DEF ParseSpec

\* While Redis is up, the whole flow keeps the contract: a spin is held for
\* each order, and charged or returned once, through parsing, generation,
\* the rescues of the beat and every crash.
THEOREM WholeFlowKeepsContract ==
  ASSUME ~RedisMayFail
  PROVE  ParseSpec => KeepsContract
<1>1. ParseInit => LockedInv /\ Exact /\ Contract!Init
  BY ParsePaidInit, ContractInit DEF ParseInit
<1>2. ParseTypeOK /\ LockedInv /\ [ParseNext]_allVars => LockedInv'
  BY ParseLockedStep
<1>3. ParseTypeOK /\ LockedInv /\ Exact /\ [ParseNext]_allVars => Exact'
  BY ParseExactStep
<1>4. ParseTypeOK /\ LockedInv /\ LockedInv' /\ Exact /\ [ParseNext]_allVars
      => [Contract!Next]_<<FreeSpins, Promises>>
  BY ParseContractStep
<1> QED BY <1>1, <1>2, <1>3, <1>4, ParseTypeCorrect, PTL
        DEF ParseSpec, KeepsContract, Contract!Spec
=============================================================================
