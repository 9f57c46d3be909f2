---------------------------- MODULE AnalysisFlow -----------------------------
(***************************************************************************)
(* The inside of a generation: what run_create_selection_on_task           *)
(* (infrastructure/celery/tasks.py) does between taking the lock of a      *)
(* selection and its PDF.  A worker asks OpenAI step by step, through the  *)
(* limiter of all workers, and saves each answer in the selection; a later *)
(* run of the task goes on from what is saved; the PDF is built from the   *)
(* answers and uploaded to S3.                                             *)
(*                                                                         *)
(* Module SelectionFlow sees all of this as GenSaveStep and GenFinish, and *)
(* models the messages that start the runs.  Time is a minute of the       *)
(* limiter's clock, modulo Minutes.                                        *)
(***************************************************************************)
EXTENDS AnalysisSteps, Limiter, PdfDocument, S3Calls

CONSTANTS
  Workers, Selections,
  Nobody,          \* holder of a free lock
  Products,        \* products a selection may be created for
  Texts,           \* conclusions OpenAI may write, "" included
  Minutes,         \* bound: a worker is late by less than Minutes - 1 minutes
  Tries,           \* tries of the limiter (5 in the code)
  MaxRuns,         \* bound: runs of the task for one selection
  MaxFaults        \* bound: failed calls, crashes and locks that run out
                   \* under a live worker, in a behaviour

ASSUME NobodyAssumption == Nobody \notin Workers
ASSUME ProductsAssumption == \A p \in Products : p.composition \in Seq(STRING \X STRING)
ASSUME FlowBoundsAssumption ==
  /\ {Tries, MaxRuns, MaxFaults} \subseteq Nat
  /\ Minutes \in Nat \ {0, 1}

VARIABLES
  product,    \* the product of a selection
  stored,     \* its columns request_details, final_analysis, analysis_last_step, price
  pdf,        \* the document behind pdf_url, <<>> before the selection is DONE
  genLock,    \* key selection_lock:<id> in Redis: its holder
  runs,       \* runs of the task so far
  worker,     \* generation workers
  minute,     \* the minute of the clock
  counters,   \* keys openai_<minute> in Redis, and the minute of their last SET
  keyLock,    \* keys openai_<minute>_lock in Redis: their holder
  admitted,   \* what the limiter let through in this minute, per account
  lapsed,     \* selections and minutes whose lock ran out under its holder
  faults

redis == <<genLock, counters, keyLock>>
vars == <<product, stored, pdf, redis, runs, worker, minute, admitted, lapsed, faults>>

Clock == 0 .. Minutes - 1
NextMinute == (minute + 1) % Minutes
NoSelection == "none"

\* The requests of the steps of a product, and their answers, as tables.
Table(F(_), S) == [x \in S |-> F(x)]
StepNumbers(p) == 1 .. TotalSteps(p.composition)
Request == Table(LAMBDA p : Table(LAMBDA n : RequestDetails(p, n), StepNumbers(p)), Products)
AnswerOf ==
  Table(LAMBDA p : Table(LAMBDA n : Table(LAMBDA t : Answer(p, n, t), Texts),
                         StepNumbers(p)), Products)

NothingStored == [requests |-> <<>>, answers |-> <<>>, last |-> 0, price |-> NoCost]
IdleWorker == [pc |-> "idle", sel |-> NoSelection, requests |-> <<>>, answers |-> <<>>,
               last |-> 0, key |-> 0, seen |-> EmptyCounters, tries |-> 0]

AbsentKey == [savedIn |-> -1, used |-> EmptyCounters]

Init ==
  /\ product \in [Selections -> Products]
  /\ stored = [s \in Selections |-> NothingStored]
  /\ pdf = [s \in Selections |-> <<>>]
  /\ genLock = [s \in Selections |-> Nobody]
  /\ runs = [s \in Selections |-> 0]
  /\ worker = [w \in Workers |-> IdleWorker]
  /\ minute = 0
  /\ counters = [k \in Clock |-> AbsentKey]
  /\ keyLock = [k \in Clock |-> Nobody]
  /\ admitted = EmptyCounters
  /\ lapsed = [selections |-> {}, minutes |-> {}]
  /\ faults = 0

-----------------------------------------------------------------------------
(* A run of the task                                                       *)

Total(s) == TotalSteps(product[s].composition)
At(w, pc) == worker[w].pc = pc
Goto(w, pc) == worker' = [worker EXCEPT ![w].pc = pc]

\* Mutant of Take: a retry starts with the answers saved before, and their
\* number, but without their requests.
TakeForgetful(w, s) ==
  /\ At(w, "idle") /\ genLock[s] = Nobody /\ pdf[s] = <<>> /\ runs[s] < MaxRuns
  /\ genLock' = [genLock EXCEPT ![s] = w]
  /\ runs' = [runs EXCEPT ![s] = @ + 1]
  /\ worker' = [worker EXCEPT ![w] =
       [IdleWorker EXCEPT !.pc = "step", !.sel = s, !.answers = stored[s].answers,
                          !.last = stored[s].last]]
  /\ UNCHANGED <<product, stored, pdf, counters, keyLock, minute, admitted, lapsed, faults>>

\* Mutant of Take: a retry starts with the first step.
TakeFresh(w, s) ==
  /\ At(w, "idle") /\ genLock[s] = Nobody /\ pdf[s] = <<>> /\ runs[s] < MaxRuns
  /\ genLock' = [genLock EXCEPT ![s] = w]
  /\ runs' = [runs EXCEPT ![s] = @ + 1]
  /\ worker' = [worker EXCEPT ![w] = [IdleWorker EXCEPT !.pc = "step", !.sel = s]]
  /\ UNCHANGED <<product, stored, pdf, counters, keyLock, minute, admitted, lapsed, faults>>

\* redis_lock is taken, the selection is read and is not DONE; TaskProcessing
\* starts with the steps saved by earlier runs.
Take(w, s) ==
  /\ At(w, "idle") /\ genLock[s] = Nobody /\ pdf[s] = <<>> /\ runs[s] < MaxRuns
  /\ genLock' = [genLock EXCEPT ![s] = w]
  /\ runs' = [runs EXCEPT ![s] = @ + 1]
  /\ worker' = [worker EXCEPT ![w] =
       [IdleWorker EXCEPT !.pc = "step", !.sel = s, !.requests = stored[s].requests,
                          !.answers = stored[s].answers, !.last = stored[s].last]]
  /\ UNCHANGED <<product, stored, pdf, counters, keyLock, minute, admitted, lapsed, faults>>

\* The run ends; redis_lock deletes the key, whoever holds it by then.
EndRun(w) ==
  /\ genLock' = [genLock EXCEPT ![worker[w].sel] = Nobody]
  /\ worker' = [worker EXCEPT ![w] = IdleWorker]

\* Mutant of NextStep: the last saved step is asked for again.
NextStepAgain(w) ==
  /\ At(w, "step") /\ worker[w].last < Total(worker[w].sel)
  /\ worker' = [worker EXCEPT ![w].pc = "lock", ![w].tries = Tries, ![w].key = minute,
                  ![w].last = IF runs[worker[w].sel] > 1 /\ @ > 0 THEN @ - 1 ELSE @]
  /\ UNCHANGED <<product, stored, pdf, redis, runs, minute, admitted, lapsed, faults>>

\* run_all_task_steps goes on with the first step that is not done yet.  Its
\* request comes to the limiter, which chooses the key of the minute
\* (generate_key_with_time) before it waits for the lock of that key.
NextStep(w) ==
  /\ At(w, "step") /\ worker[w].last < Total(worker[w].sel)
  /\ worker' = [worker EXCEPT ![w].pc = "lock", ![w].tries = Tries, ![w].key = minute]
  /\ UNCHANGED <<product, stored, pdf, redis, runs, minute, admitted, lapsed, faults>>

\* The step a worker is at, and its request.
StepOf(w) == worker[w].last + 1
RequestOf(w) == Request[product[worker[w].sel]][StepOf(w)]

-----------------------------------------------------------------------------
(* The limiter: main_get_account_name                                      *)

\* The lock is taken and the counters are read (checking_key_in_redis).
LockKey(w) ==
  LET k == worker[w].key
  IN  /\ At(w, "lock") /\ keyLock[k] = Nobody
      /\ keyLock' = [keyLock EXCEPT ![k] = w]
      /\ worker' = [worker EXCEPT ![w].pc = "count", ![w].seen = counters[k].used]
      /\ UNCHANGED <<product, stored, pdf, genLock, counters, runs, minute,
                     admitted, lapsed, faults>>

\* The request is counted, and the counters saved; leaving the lock raises
\* LockNotOwnedError when it has run out meanwhile: the run fails.
Admit(w) ==
  LET k       == worker[w].key
      request == UsageOf(RequestOf(w))
      seen    == worker[w].seen
      account == Accounts[FirstSuitable(seen, request)]
  IN  /\ At(w, "count") /\ Suitable(seen, request) # {}
      /\ counters' = [counters EXCEPT ![k] =
                        [savedIn |-> minute, used |-> Charge(seen, account, request)]]
      /\ admitted' = IF k = minute THEN Charge(admitted, account, request) ELSE admitted
      /\ IF keyLock[k] = w
         THEN /\ keyLock' = [keyLock EXCEPT ![k] = Nobody]
              /\ worker' = [worker EXCEPT ![w].pc = "ask", ![w].seen = EmptyCounters,
                              ![w].key = 0, ![w].tries = 0]
              /\ UNCHANGED genLock
         ELSE EndRun(w) /\ UNCHANGED keyLock
      /\ UNCHANGED <<product, stored, pdf, runs, minute, lapsed, faults>>

\* No account has room: sleep to the next minute outside the lock, or, after
\* the last try, LimiterChooseAccountException.
Decline(w) ==
  LET k == worker[w].key
  IN  /\ At(w, "count") /\ Suitable(worker[w].seen, UsageOf(RequestOf(w))) = {}
      /\ keyLock' = IF keyLock[k] = w THEN [keyLock EXCEPT ![k] = Nobody] ELSE keyLock
      /\ IF keyLock[k] = w /\ worker[w].tries > 1
         THEN /\ worker' = [worker EXCEPT ![w].pc = "sleep", ![w].key = minute,
                              ![w].tries = @ - 1, ![w].seen = EmptyCounters]
              /\ UNCHANGED genLock
         ELSE EndRun(w)
      /\ UNCHANGED <<product, stored, pdf, counters, runs, minute, admitted, lapsed, faults>>

\* The next try, with the key of its own minute.
WakeUp(w) ==
  /\ At(w, "sleep") /\ worker[w].key # minute
  /\ worker' = [worker EXCEPT ![w].pc = "lock", ![w].key = minute]
  /\ UNCHANGED <<product, stored, pdf, redis, runs, minute, admitted, lapsed, faults>>

\* A key is set to expire at the end of the minute of its SET.
Expire(k) ==
  /\ counters[k].savedIn \notin {-1, minute}
  /\ counters' = [counters EXCEPT ![k] = AbsentKey]
  /\ UNCHANGED <<product, stored, pdf, genLock, keyLock, runs, worker, minute,
                 admitted, lapsed, faults>>

\* Nothing is left of the last turn of the coming minute: its key has
\* expired, with the minute that ends at the latest, and nobody uses it.
Tick ==
  /\ keyLock[NextMinute] = Nobody
  /\ \A w \in Workers : worker[w].pc \in {"lock", "count", "sleep"} =>
                          worker[w].key # NextMinute
  /\ minute' = NextMinute
  /\ counters' = [counters EXCEPT ![NextMinute] = AbsentKey]
  /\ admitted' = EmptyCounters
  /\ lapsed' = [lapsed EXCEPT !.minutes = @ \ {NextMinute}]
  /\ UNCHANGED <<product, stored, pdf, genLock, keyLock, runs, worker, faults>>

-----------------------------------------------------------------------------
(* OpenAI, and the step saved                                              *)

\* send_text_request_to_openai and save_step_result: the answer of the step
\* and its request are appended to the lists of the run.
AskDone(w) ==
  /\ At(w, "ask")
  /\ \E text \in Texts :
       LET request == [step |-> StepOf(w), details |-> RequestOf(w)]
           answer  == [step |-> StepOf(w),
                       answer |-> AnswerOf[product[worker[w].sel]][StepOf(w)][text]]
       IN  worker' = [worker EXCEPT ![w].pc = "save", ![w].last = @ + 1,
                        ![w].requests = Append(@, request), ![w].answers = Append(@, answer)]
  /\ UNCHANGED <<product, stored, pdf, redis, runs, minute, admitted, lapsed, faults>>

\* Mutant of Save: the number of the next step is saved.
SaveNextNumber(w) ==
  /\ At(w, "save")
  /\ stored' = [stored EXCEPT ![worker[w].sel] =
       [requests |-> worker[w].requests, answers |-> worker[w].answers,
        last |-> worker[w].last + 1, price |-> @.price]]
  /\ Goto(w, "step")
  /\ UNCHANGED <<product, pdf, redis, runs, minute, admitted, lapsed, faults>>

\* save_step: the three columns in one commit.  The lock is extended: here it
\* runs out when it may, GenLockLapses.
Save(w) ==
  /\ At(w, "save")
  /\ stored' = [stored EXCEPT ![worker[w].sel] =
       [requests |-> worker[w].requests, answers |-> worker[w].answers,
        last |-> worker[w].last, price |-> @.price]]
  /\ Goto(w, "step")
  /\ UNCHANGED <<product, pdf, redis, runs, minute, admitted, lapsed, faults>>

\* Mutant of Price: the step of the conclusion is not counted.
PriceEarly(w) ==
  /\ At(w, "step") /\ worker[w].last + 1 >= Total(worker[w].sel)
  /\ stored' = [stored EXCEPT ![worker[w].sel].price = PriceOf(worker[w].answers)]
  /\ Goto(w, "pdf")
  /\ UNCHANGED <<product, pdf, redis, runs, minute, admitted, lapsed, faults>>

\* No step is left, the end of _run_openai_analysis: the price of the steps of
\* this run and of the earlier ones, by the answers the session has
\* (expire_on_commit=False).
Price(w) ==
  /\ At(w, "step") /\ worker[w].last >= Total(worker[w].sel)
  /\ stored' = [stored EXCEPT ![worker[w].sel].price = PriceOf(worker[w].answers)]
  /\ Goto(w, "pdf")
  /\ UNCHANGED <<product, pdf, redis, runs, minute, admitted, lapsed, faults>>

-----------------------------------------------------------------------------
(* The PDF: generate_selection_pdf                                         *)

\* The template has its unit price, the image comes from S3.
BuildPdf(w) ==
  /\ At(w, "pdf")
  /\ HasUnitPrice(product[worker[w].sel])
  /\ \E status \in S3Statuses : status = 200
  /\ Goto(w, "upload")
  /\ UNCHANGED <<product, stored, pdf, redis, runs, minute, admitted, lapsed, faults>>

\* ValueError or ZeroDivisionError of calculate_price_per_standard_unit.
NoUnitPrice(w) ==
  /\ At(w, "pdf")
  /\ ~HasUnitPrice(product[worker[w].sel])
  /\ EndRun(w)
  /\ UNCHANGED <<product, stored, pdf, counters, keyLock, runs, minute, admitted,
                 lapsed, faults>>

\* The PDF is on S3: pdf_url and DONE are committed, and the run ends.
Upload(w) ==
  /\ At(w, "upload")
  /\ \E status \in S3Statuses : status = 200
  /\ pdf' = [pdf EXCEPT ![worker[w].sel] = worker[w].answers]
  /\ EndRun(w)
  /\ UNCHANGED <<product, stored, counters, keyLock, runs, minute, admitted, lapsed, faults>>

\* The image or the upload fails for S3Call: the run fails with it.
S3Fails(w) ==
  /\ worker[w].pc \in {"pdf", "upload"} /\ faults < MaxFaults
  /\ \E status \in S3Statuses : status # 200
  /\ faults' = faults + 1
  /\ EndRun(w)
  /\ UNCHANGED <<product, stored, pdf, counters, keyLock, runs, minute, admitted, lapsed>>

-----------------------------------------------------------------------------
(* Failures                                                                *)

\* An exception: of Redis, of OpenAI ({"error": True}, a key, a quota, an
\* answer without a tool call), of a commit.  A lock of the limiter that
\* Redis could not release expires by itself.
RunFails(w) ==
  /\ worker[w].pc \in {"step", "lock", "count", "ask", "save"} /\ faults < MaxFaults
  /\ faults' = faults + 1
  /\ EndRun(w)
  /\ UNCHANGED <<product, stored, pdf, counters, keyLock, runs, minute, admitted, lapsed>>

\* The process dies: its locks stay.
Crash(w) ==
  /\ ~At(w, "idle") /\ faults < MaxFaults
  /\ faults' = faults + 1
  /\ worker' = [worker EXCEPT ![w] = IdleWorker]
  /\ UNCHANGED <<product, stored, pdf, redis, runs, minute, admitted, lapsed>>

Runs(w, s) == ~At(w, "idle") /\ worker[w].sel = s
Counts(w, k) == At(w, "count") /\ worker[w].key = k

\* Mutant of GenLockExpires: the lock is set without an expiry.
GenLockStays(s) ==
  /\ \E w \in Workers : genLock[s] = w /\ ~Runs(w, s)
  /\ FALSE
  /\ UNCHANGED vars

\* SELECTION_LOCK_SECONDS after the process died.
GenLockExpires(s) ==
  /\ \E w \in Workers : genLock[s] = w /\ ~Runs(w, s)
  /\ genLock' = [genLock EXCEPT ![s] = Nobody]
  /\ UNCHANGED <<product, stored, pdf, counters, keyLock, runs, worker, minute, admitted,
                 lapsed, faults>>

KeyLockExpires(k) ==
  /\ \E w \in Workers : keyLock[k] = w /\ ~Counts(w, k)
  /\ keyLock' = [keyLock EXCEPT ![k] = Nobody]
  /\ UNCHANGED <<product, stored, pdf, genLock, counters, runs, worker, minute, admitted,
                 lapsed, faults>>

\* SELECTION_LOCK_SECONDS pass without a saved step.
GenLockLapses(s) ==
  /\ faults < MaxFaults
  /\ faults' = faults + 1
  /\ \E w \in Workers : genLock[s] = w /\ Runs(w, s)
  /\ genLock' = [genLock EXCEPT ![s] = Nobody]
  /\ lapsed' = [lapsed EXCEPT !.selections = @ \cup {s}]
  /\ UNCHANGED <<product, stored, pdf, counters, keyLock, runs, worker, minute, admitted>>

\* Five seconds pass between the lock of the limiter and its release.
KeyLockLapses(k) ==
  /\ faults < MaxFaults
  /\ faults' = faults + 1
  /\ \E w \in Workers : keyLock[k] = w /\ Counts(w, k)
  /\ keyLock' = [keyLock EXCEPT ![k] = Nobody]
  /\ lapsed' = [lapsed EXCEPT !.minutes = @ \cup {k}]
  /\ UNCHANGED <<product, stored, pdf, genLock, counters, runs, worker, minute, admitted>>

-----------------------------------------------------------------------------

Work(w) ==
  \/ NextStep(w) \/ LockKey(w) \/ Admit(w) \/ Decline(w) \/ WakeUp(w)
  \/ AskDone(w) \/ Save(w) \/ Price(w) \/ BuildPdf(w) \/ NoUnitPrice(w) \/ Upload(w)

Next ==
  \/ \E w \in Workers, s \in Selections : Take(w, s)
  \/ \E w \in Workers : Work(w) \/ S3Fails(w) \/ RunFails(w) \/ Crash(w)
  \/ \E k \in Clock : Expire(k) \/ KeyLockExpires(k) \/ KeyLockLapses(k)
  \/ \E s \in Selections : GenLockExpires(s) \/ GenLockLapses(s)
  \/ Tick

Spec == Init /\ [][Next]_vars

\* A worker goes on, a message that is left is taken by some worker, the
\* clock runs and the locks in Redis expire.  Nothing has to fail.
Fairness ==
  /\ \A w \in Workers : WF_vars(Work(w))
  /\ \A s \in Selections : SF_vars(\E w \in Workers : Take(w, s))
  /\ \A k \in Clock : WF_vars(KeyLockExpires(k))
  /\ \A s \in Selections : WF_vars(GenLockExpires(s))
  /\ WF_vars(Tick)

LiveSpec == Spec /\ Fairness

-----------------------------------------------------------------------------
(* Properties                                                              *)

\* Type invariant.
AnalysisTypeOK ==
  /\ \A s \in Selections :
       /\ stored[s].last \in 0 .. Total(s)
       /\ genLock[s] \in Workers \cup {Nobody}
       /\ runs[s] \in 0 .. MaxRuns
  /\ \A w \in Workers :
       /\ worker[w].pc \in {"idle", "step", "lock", "count", "sleep", "ask", "save",
                            "pdf", "upload"}
       /\ worker[w].key \in Clock /\ worker[w].seen \in Counters
       /\ ~At(w, "idle") => worker[w].sel \in Selections
       /\ worker[w].tries \in 0 .. Tries
  /\ minute \in Clock
  /\ \A k \in Clock : /\ counters[k].savedIn \in Clock \cup {-1}
                      /\ counters[k].used \in Counters
                      /\ keyLock[k] \in Workers \cup {Nobody}
  /\ admitted \in Counters

\* The numbers of the steps a list of requests or of answers is about.
StepsOf(list) == [i \in DOMAIN list |-> list[i].step]
FirstSteps(n) == [i \in 1 .. n |-> i]

\* A selection never holds a gap, a repetition or an answer without its
\* request: request_details and final_analysis are those of steps 1 to
\* analysis_last_step, in order, through crashes, retries and two workers
\* that both believe to hold the lock (save_step, TaskProcessing).
StoredStepsInOrder ==
  \A s \in Selections :
    /\ StepsOf(stored[s].answers) = FirstSteps(stored[s].last)
    /\ StepsOf(stored[s].requests) = FirstSteps(stored[s].last)

\* "pay OpenAI once more" is what the saved steps are for: while the lock of
\* the selection has not run out, a step that is asked for is not saved yet,
\* and it is the one after the last saved.
NothingPaidTwice ==
  \A w \in Workers, s \in Selections \ lapsed.selections :
    worker[w].sel = s /\ At(w, "ask") => StepOf(w) = stored[s].last + 1

\* A saved answer is not lost or replaced, unless two workers ran.
SavedForGood ==
  [][\A s \in Selections \ lapsed'.selections :
       IsPrefix(stored[s].answers, stored'[s].answers)]_vars

\* All elements of the composition are asked for, each once, under the
\* number it has in the composition, and then the conclusion (the limits of
\* the slices in detailed_analysis_composition, at and off a multiple of
\* StepSize).
EveryElementAskedOnce ==
  \A s \in Selections : stored[s].last = Total(s) =>
    LET asked == [i \in DOMAIN stored[s].requests |-> stored[s].requests[i].details.prompts]
        total == Total(s)
    IN  /\ FlattenSeq([i \in 1 .. total - 1 |-> asked[i].names])
             = Numbered(product[s].composition, 1)
        /\ \A i \in 1 .. total : asked[i].conclude <=> i = total

\* The PDF of a selection is printed from the answers of all its steps, even
\* when another worker has saved fewer of them meanwhile.
PdfFromAllSteps ==
  \A s \in Selections : pdf[s] # <<>> => StepsOf(pdf[s]) = FirstSteps(Total(s))

\* The words of a composition whose element gets an entry: a word that is
\* repeated within one step gets one.
EntryWords(composition) ==
  LET stepAt(i)  == (i - 1) \div StepSize
      repeats(i) == \E j \in 1 .. i - 1 : /\ stepAt(j) = stepAt(i)
                                          /\ Word(composition[j]) = Word(composition[i])
  IN  FlattenSeq([i \in DOMAIN composition |->
        IF repeats(i) THEN <<>> ELSE <<Word(composition[i])>>])

\* The reader of a PDF finds the elements of the composition in its order,
\* numbered from 1 without a gap across the steps, each with its use and its
\* danger, the unit price, and one conclusion that is not empty; nothing is
\* printed from a field that is missing.
PdfShowsComposition ==
  \A s \in Selections : pdf[s] # <<>> =>
    LET analysis == PdfAnalysis(pdf[s])
        document == Document(product[s], pdf[s])
        words    == EntryWords(product[s].composition)
    IN  /\ Printable(Structure(analysis), TemplateData(product[s], analysis))
        /\ Printed(document, "title") = [i \in DOMAIN words |-> <<i, words[i]>>]
        /\ Len(Printed(document, "use")) = Len(words)
        /\ Printed(document, "danger")
             = [i \in DOMAIN words |->
                  <<IF words[i] \in Dangerous THEN "warning" ELSE "check mark">>]
        /\ Printed(document, "conclusion") \in {<<<<t>>>> : t \in (Texts \ {""}) \cup {"done"}}
        /\ Len(Printed(document, "price_ratio")) = 1

\* The price of a finished selection is what all its answers cost: of every
\* run that paid for one of them.
PriceOfAllSteps ==
  \A s \in Selections : pdf[s] # <<>> =>
    LET tokens(part) ==
          FoldLeft(LAMBDA sum, row : sum + row.answer.cost[part].tokens, 0, pdf[s])
        usd == tokens("prompt") * PRICE_ONE_TOKEN_PROMPT_USD
                 + tokens("completion") * PRICE_ONE_TOKEN_RESPONSE_USD
    IN  /\ stored[s].price.total.USD = usd
        /\ stored[s].price.total.RUB = usd * USD_TO_RUB
        /\ stored[s].price.total.tokens = tokens("prompt") + tokens("completion")

\* What the limiter lets through in a minute, under the key of that minute,
\* stays within the limits of each account, unless the lock of that minute
\* ran out under its holder.
LimitsHold ==
  minute \notin lapsed.minutes =>
    \A a \in AccountNames, m \in Metrics : admitted[a][m] <= Limits[m]

\* With fewer failures than runs, every selection whose product has a unit
\* price gets its PDF: a run is not stuck in the limiter, at a lock that a
\* dead process left, or before a step that was saved.
PdfInTheEnd ==
  \A s \in Selections : HasUnitPrice(product[s]) ~> pdf[s] # <<>>
=============================================================================
