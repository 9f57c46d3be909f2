# Beauty Helper: TLA+ models and proofs

The program (FastAPI, PostgreSQL, Redis, Celery, OpenAI) takes a user's task
and a link to a cosmetic product and returns a *selection*: the composition of
the product, analysed step by step by a language model and rendered as a PDF. A generation costs one *spin* of the user's balance. One
selection may serve several users, each of whom pays for it.

The hard part is that money (spins) and work (selections) are moved by
processes that share only the database, Redis keys with a TTL, and a message
queue: API requests, several Celery workers and a beat task, any of which may
die, repeat itself or run late. The models ask whether a user is ever charged
twice, charged for nothing, given something for nothing, or left waiting.

Paths below are relative to `src/`; `tasks.py` is `infrastructure/celery/tasks.py`.

## 1. Inventory

| component | code | state | operations | what makes it correct |
|---|---|---|---|---|
| Spin ledger | `apps/balance` | `user_balances` (spins, reserved), `balance_history` | reserve, confirm, release, add; each under `SELECT ... FOR UPDATE` | nothing below zero; a reserved spin has exactly one order behind it |
| Orchestrator | `apps/orchestrator/service.py` | Redis `selection_request_lock` | `get_or_prepare_selection`, `start_parsing`, publishing of tasks after the commit | one order per user and selection, never on credit |
| Selections and waitings | `apps/selection`, `apps/waiting` | `selections`, `selection_users`, `waitings` | create, attach, `get_or_create` a waiting, close it | a waiting is open until its spin has moved, once |
| Generation task | `tasks.py` `run_create_selection_on_task` | Redis `selection_lock`, Celery retry counter | take, run, succeed, retry, give up | charge only for a PDF, return on failure |
| Beat rescue task | `tasks.py` `run_waiting_task`, `_check_stuck_parsing` | Redis `waiting_lock` | settle waitings of finished selections, send stuck ones again | every order is settled |
| Parse task | `tasks.py` `run_parse_product_task`, `_continue_selections_after_parse` | Redis `parse_lock`, `products` | fill a product, move PARSING selections on | no selection stays in PARSING |
| Step-by-step analysis | `tasks.py` `_run_openai_analysis`, `apps/content_generation/openai/task_processing` | columns `request_details`, `final_analysis`, `analysis_last_step`, `price` of a selection; the lists of a run | plan, ask, save a step, go on after a failure, sum up the price | no gap and no repetition in what is saved; no saved step is paid for again |
| OpenAI limiter | `apps/content_generation/openai/limiter` | Redis `openai_<minute>` (requests, tokens, images per account) and its lock | choose the key, lock, count, choose an account, sleep and try again | no account above its limits in a minute; a run is not stuck in it |
| Prompts, JSON schema, OpenAI client | `apps/content_generation/openai/*_constructor`, `main_openai.py`, `count_tokens` | none | schema, prompts, token count, cost | every element asked for once |
| PDF generation | `apps/pdf_generation` | none; reads the saved answers | join the answers, fill the template, lay out the flowables, unit price | the reader sees the whole composition, numbered through |
| S3 | `infrastructure/s3` | the bucket | upload, get, exists; each repeated up to three times | a failure reaches the caller as one |
| Proxy pool and list | `tasks.py` `_get_parser`, `refresh_proxies_task`; `apps/parser/proxy` | pool of a process, `proxies.txt`, Redis `parser:proxies` | take the first that answers, throw out a bad one, rebuild, refresh | a proxy thrown out stays out; a task never starts with an empty pool, and starts with the newest list that loads |
| Page parser | `apps/parser` (`goldapple`, `normalizer`, `service`), `apps/products` | columns of `products`, images in S3 | fetch the card, extract, normalize, store the picture, fill the product | DONE means complete; what was found is not lost |
| Authentication and tokens | `apps/auth`, `core/security.py`, `api/auth.py` | `users` flags, tokens of clients, Redis `blacklist:*` | register, confirm, log in, refresh, log out, `get_current_user` | revoked and banned stay out |
| Packages | `apps/package` | `packages`, `user_packages` | buy: package and spins in one commit; switch a package on and off | a purchase adds its spins once |
| Users, database layer, configuration | `apps/users`, `core`, `migrations` | `users` | sessions, commits, row locks; settings | what the others rely on |

Interactions. The API writes the tables and, *after* its commit, publishes a
message (`.delay`). A worker takes it, guarded by a Redis key per selection,
and closes the waitings in the commit that makes the selection DONE or FAILED.
Every 30 seconds the beat task reads the open waitings, settles those of
finished selections and publishes selections that have not been updated for
too long; it publishes *inside* its transaction, before its commit. All three
close a waiting by the same function, `_close_waiting_and_act`, a conditional
UPDATE followed by the ledger operation. The parse task moves selections from
PARSING to QUEUE and publishes them. Inside a generation, workers meet only in
the limiter's keys; inside a parse, processes meet only in the list of proxies
in Redis. Accounts meet the flow in one place, the row of `user_balances`.

Behaviours that are hard to test, each with its line and the properties that
cover it, are the `hazards` of `PROJECT.json`.

## 2. Modules

| module | role |
|---|---|
| `SpinLedger` | the ledger as operators on one user's record: `CanReserve`, `ReserveSpin`, `ConfirmSpins`, `ReleaseSpins` |
| `SpinContract` | abstract: what a user is promised. Per user: free spins, and per selection a promise none / held / charged / returned |
| `SelectionFlow` | the program: orchestrator, generation task, beat, tables, Redis keys, queue. Implements `SpinContract` |
| `ParseFlow` | the whole flow: `SelectionFlow` extended by the products, the parse task, its lock and queue, the requests that start it, and the second half of the beat |
| `AnalysisSteps` | the plan of steps of a composition, the request of a step, the answer and its cost: operators |
| `Limiter` | the counters of a minute: what fits, which account, the charge: operators |
| `PdfDocument` | from the saved answers to the flowables of the PDF, its prices: operators |
| `S3Calls` | one call of S3 with its repetitions, and the status the caller sees |
| `AnalysisFlow` | the inside of a generation: workers, limiter, saved steps, locks, PDF. Uses the four above |
| `Accounts` | users, tokens, blacklist, purchases. Uses `SpinLedger` |
| `ProxySource` | the lists of proxies, from file, site and Redis: operators |
| `ProductPage` | a card of the site: extraction, normalization, the columns of a product: operators |
| `PageParse` | the inside of a parse: proxies, fetch, picture, product. Uses `ProxySource`, `ProductPage`, `S3Calls` |
| `MCSelectionFlow`, `MCAnalysisFlow`, `MCServices` | instances for TLC; `MCServices` puts `Accounts` and `PageParse` in one run |
| `FoldFacts` | induction over positions without operator parameters; what `FoldLeft` and `FlattenSeq` compute |
| `SpinLedger_proofs` | facts about the ledger operators and finite cardinalities |
| `SelectionFlow_proofs` | type correctness, a lemma per action, and what no lock is needed for: reserve covers the open waitings, charges have a PDF |
| `SelectionContract_proofs` | with the request lock: exact reserve, exact charges, the refinement |
| `ParseFlow_proofs` | the whole flow: types, DONE for good, generated only when parsed, the ledger and the contract |
| `AnalysisFlow_proofs` | saved steps, the two locks, the limits, what was asked for, what the PDF shows, its price |
| `Accounts_proofs` | tokens, bans, confirmation, the sum of the purchases |
| `PageParse_proofs` | the product, the card, the composition, the list and the pool |

How the levels fit. `SelectionFlow` sees a generation as one span between
`GenStart` and an ending, with `GenSaveStep` for any saved step; `ParseFlow`
sees a parse as one step with a result. `AnalysisFlow` and `PageParse` open
these spans: they have the lock of the outer level, any of its outcomes, and no
message or waiting. The inner levels share no state with the orders, so their
product with the outer level would show nothing more.

### How `SelectionFlow` corresponds to the code

*Granularity.* A database transaction is one action, taken at its commit; what
it decided on by reads outside a row lock is read by an earlier action and may
be stale. So a request is `ReqArrive` (Redis lock), `ReqLookup` (the reads of
`get_or_prepare_selection`), one of `ReqBuy`, `ReqJoin`, `ReqCreate`,
`ReqRefused` (the reserve with its row lock, the attachment, the waiting and
the commit) and `ReqPublish`. `CanReserve` is tested in the committing action
because `reserve_spin` reads the balance under `FOR UPDATE`. The `finally` that
deletes the request lock is merged with the last step of the request. A request
that finds the lock busy answers "pending" and changes nothing: it is no step.

*Generation.* `GenTake` / `GenSkip` consume a message and try the Redis key;
`GenStart` is the first commit (PROCESS, unless DONE); `GenSaveStep` stands for
any commit of an analysis step (it only touches `updated_at`); `GenFinish`,
`GenGiveUp` and `GenRetry` are the three endings. `GenGiveUp` is the OpenAI
quota and authentication errors at any attempt, and any error at the last one.
A message carries its own retry counter, so `queue[s][r]` counts copies of the
message of selection `s` at attempt `r`.

*Beat.* `BeatScan` is the query; `BeatPublish` each `.delay` in the loop;
`BeatCommit` the end of the transaction. The waitings are closed with row locks
that are held until that commit and the statuses are flushed there, so both
belong to the commit. PROCESS is written with no condition on the present
status. Setting PROCESS on a selection that is already PROCESS sends no UPDATE
and leaves `updated_at` alone, so `mark` holds only those read as QUEUE, and
`GenStart` leaves such a selection `quiet`.

*Time.* `quiet` is the set of selections whose `updated_at` is older than the
beat tolerates (60 s in QUEUE, 600 s in PROCESS). `ReqLockExpires` and
`GenLockExpires` are the TTLs. A request is taken to be shorter than the 30 s
TTL of its lock. Whether a generation may outlive the 600 s of its lock is the
constant `LiveLockMayLapse`; leaving `redis_lock` then deletes a key that may
by now be another worker's, which `GenEnd` does as well.

*Failures.* `ReqCrash`, `GenCrash`, `BeatCrash` and `GenLost` each use one of
`MaxFaults`. A crashed worker's message is delivered again (`task_acks_late`,
the whole worker lost) or is gone (only the child process died, as
`task_reject_on_worker_lost` is not set). `RedisMayFail` lets the API find
Redis down, in which case it goes on without its lock.

*Abstractions.* A link stands for (normalised link, task type). `count` is
always 1. In `SelectionFlow` every product is already parsed; `ParseFlow` lifts
that. The analysis is one span
between `GenStart` and an ending, the subject of `AnalysisFlow`. The balance
history is kept as the number of
CONFIRM rows, and a closed waiting remembers which ledger row its closing
wrote. The order confirm-before-release in `CloseAndAct` is immaterial because
the reserve always covers both (`OpenWaitingsAreBacked`, proved).

### How `ParseFlow` corresponds to the code

`ParseFlow` extends `SelectionFlow`, keeps its variables and all its actions
except two that it refines: `ReqCreate` now asks whether the product is parsed
(`ReqCreateParsed`), and `BeatScan` is the first half of a task run with a
second one (`RescueScan`). `SelectionFlow` alone is thus the flow of products
that are parsed, small enough to check with two requests per user and two
generation workers.

*Requests.* Past the lookup, `ReqFindProduct` reads the product by its link;
`ReqInsertProduct` is `create_product`, which commits by itself and may find the
link inserted meanwhile (`IntegrityError`, an answer without an order);
`ReqStartParsing` is the commit of reserve, selection (PARSING), attachment and
waiting; `ReqPublishParse` the message after it. A product is known by its link;
with one task type per link a product has at most one selection in use, though
several after failures.

*Parse task.* `ParseTake` / `ParseSkip` try the Redis key; `ParseStart` either
finds DONE, or commits IN_PROGRESS; `ParseEnds` is the commit of the outcome,
for which the parser is any of DONE, INCOMPLETE, FAILED (an exception of the
parser and the soft time limit are FAILED); `ParseSettle` is the conditional
UPDATE of the selections in PARSING with the release of their waitings, a
second commit; `ParsePublish` each message after it. `parse_lock` lives 45
minutes and the task at most 40, so only a dead worker loses it
(`ParseLockExpires`). An error after the commit of the outcome leaves through
the `finally` of the lock: it is `ParseCrash` followed by `ParseLockExpires`.

*Beat.* `RescueScan` reads the open waitings *and the products of their
selections*: `Selection.product` is loaded by a join, and the session keeps it
(`expire_on_commit=False`, `core/database.py:41`), so `_check_stuck_parsing` looks
at `seen`, the products of that moment, while the set of stuck selections is
queried after the first commit (`RescueSelect`). A run that finds nothing in
PARSING when it starts takes no snapshot: what enters PARSING later is not stuck
within the run. The loop over the products is `RescueContinue`, with the messages
of each product before the next, or `RescueRestart`; the `updated_at` written for
a restart is committed at the latest by `RescueEnd`, where the model has it. One
run at a time: `waiting_lock` has a TTL of 55 s, far longer than a run.

### How `AnalysisFlow` corresponds to the code

| action | code |
|---|---|
| `Take` | `redis_lock` of the selection is taken, the row is read, `TaskProcessing` gets the saved requests, answers and last step |
| `NextStep` | the next round of `run_all_task_steps`; the limiter makes the key of the minute *before* it waits for its lock |
| `LockKey` | the lock of the key, and the read of the counters |
| `Admit`, `Decline` | an account with room is charged and the counters saved; none: sleep, or `LimiterChooseAccountException` at the last try. Leaving a lock that has run out is `LockNotOwnedError` |
| `WakeUp` | the next try, with the key of its own minute |
| `AskDone`, `Save` | the answer, appended to the lists of the run; `save_step`, the three columns in one commit |
| `Price`, `BuildPdf`, `NoUnitPrice`, `Upload` | the end of `_run_openai_analysis`, then `generate_selection_pdf`, with the exception of an unknown unit, and the commit of DONE |
| `S3Fails`, `RunFails`, `Crash` | an exception anywhere (the run ends and its `finally` deletes the lock, whoever holds it); the death of a process, whose locks stay |
| `GenLockExpires`, `KeyLockExpires` | the TTL after such a death |
| `GenLockLapses`, `KeyLockLapses` | the TTL (600 s, 5 s) under a live worker |
| `Expire`, `Tick` | the TTL of the counters, set at each `SET` to the end of that minute; the clock |

Several workers may be in a run of one selection, once its lock has lapsed; the
model lets each go on with what it read. What is asked and answered are the
operators of `AnalysisSteps`: `TaskStep` cuts the slices as the code does,
`RequestDetails` has the schema, the prompts and the token count, `Answer` what
strict structured output must contain. An answer without a tool call, a quota
or a key error is `RunFails`. Time is the limiter's minute, modulo `Minutes`;
`Tick` waits for a worker that is `Minutes - 1` minutes late. A retry that
comes from the queue is `Take` again, at most `MaxRuns` times.

### How `Accounts` corresponds to the code

Two awaits of a request are two actions: `RegisterStart` / `RegisterCommit`
(the unique email decides), `LoginStart` / `LoginIssue`, `RefreshStart` /
`RefreshIssue`, `LogoutStart` / `LogoutEnd` (access token, then refresh token),
`CheckToken` / `ServeUser` / `Answer` (`get_current_user` and an endpoint),
`BuyStart` / `BuyLock` / `BuyCommit` or `BuyRollback`. `ConfirmEmail` is the
letter's link. `Ban` and `UpdatePackage` are an administrator. `SpinsUsed` is
the flow of orders, on the same balance row. `Second` is the clock: `exp` of a
token and the TTL of a blacklist key are both seconds, and keys past their TTL
stay in `blacklist` with the time they ended, so that a wrong TTL would show.
Redis may be down for a `SETEX` (`MaxOutages`); it is logged and forgotten, as
in the code. A token is the record of what is signed; two tokens of one kind in
one second are one.

### How `PageParse` corresponds to the code

| action | code |
|---|---|
| `RefreshProxies` | `refresh_proxies_task` with a list that is not empty, through `save_proxies` and `Proxy.server` |
| `StartParse` | IN_PROGRESS, `_get_parser` with `load_proxies` (Redis up or down), `UnsupportedSite` |
| `ProxyAlive`, `ProxyDead`, `NoneAlive` | `ProxyPool.get`: the first proxy is checked, thrown out, or there is none |
| `SiteBlocks`, `NoCard`, `CardComes` | the outcomes of `fetch` over all statuses (`FetchResult`), and `fetch_card_via_pool` |
| `NoImage`, `ImageStored` | `ImageUploader.upload`; no key when a download or S3 fails |
| `Fill`, `FillFails` | the columns found, DONE or INCOMPLETE; a commit that fails leaves IN_PROGRESS |
| `TimeLimit`, `Restart` | `SoftTimeLimitExceeded` or another exception; the death of the process, with its parser |

What a list becomes on its way through Redis is modelled by what it does. The
key holds addresses, not proxies: `Server` writes a host as it is, and
`LoadProxies` parses each address again and skips those that do not parse. An
IPv6 address parses in brackets only (`IsProxy`), `hostname` takes them off, and
`Server` does not put them back: such a proxy is in the list of the site, and
not in the list that is loaded. A list that was not empty may so load as an
empty one, and the process goes on with the file. (The docstring at
`apps/parser/proxy/store.py:47` expects no such address in the key.)

`Extract` and `Normalize` have every field of the product but its link, which
is its key. A text is its lines, a line its pieces with what separates them, so
that cutting a composition at ", " and " - " but not at a bare comma is modelled
by what it does. `<<>>` is None, and `product` has the columns that are not
empty (`is_empty`): writing an empty value over a column takes it away. The
site, the browser and the checks of proxies are outcomes.

## 3. Runs

| run | instance | shows |
|---|---|---|
| `flow_safety` | 2 users, 2 requests each, 1 link, 2 workers, 1 selection, up to 1 spin, 1 retry, lock may lapse | types, current decisions, exact reserve, exact charges, charge only for a PDF, and the contract |
| `flow_live` | 1 user, 1 worker, 2 selections of a link, 1 retry, 1 fault, fairness | the contract under crashes, and that every order is settled |
| `flow_outage` | 2 users, 2 requests each, 1 worker, up to 2 spins, Redis down for the API | an open waiting is backed by a spin even so |
| `parse_safety` | 2 users, 1 product, 2 parse workers, 1 generation worker, 1 selection | types, generated only when parsed, DONE for good, charge only for a PDF, and the contract over the whole flow |
| `parse_ends` | 1 user, 1 parse worker, 2 selections, 1 fault, no generation worker, fairness | every selection leaves PARSING |
| `parse_live` | 1 user, 1 worker of each kind, 1 selection, 1 fault, fairness | every order is settled, from the first link to the end |
| `analysis` | 2 workers, 1 selection, 2 runs, 1 fault, 2 products (3 names in steps of 2, one repeated; 1 name and a unit without a price), 2 accounts that each admit one request a minute, 2 tries, fairness | saved steps in order, nothing paid twice, every element asked once, PDF and price of all steps, limits kept, a PDF in the end |
| `services` | accounts: 1 user, 2 requests, 3 seconds, 1 package, 1 outage; pages: 2 links, 4 cards, 4 site tables, 2 refreshes, 2 parses | revoked, banned and unconfirmed stay out, spins are bought; proxies thrown out stay out, a pool is of its list and of the newest one, one variant, whole compositions, DONE is complete, no column is emptied |
| `flow_orphan` | 2 users, 2 requests each, 1 worker, Redis down for the API | *violation*: a spin reserved twice for one waiting |
| `flow_free` | 1 user, 1 worker | *violation*: a selection that is DONE and was paid back |
| `flow_hang` | 1 user, 1 worker, fairness | *violation*: a selection that stays in PROCESS |
| `parse_stale` | 1 user, 1 worker of each kind, 2 selections | *violation*: a selection failed by an old result of its product |

*Why the bounds are enough.* Every race of the flow is about one selection and
two actors: two requests of one user, two users of one selection, two workers
with copies of one message, a worker against the beat. `flow_safety` has all of
them, with one retry (first and last attempt differ). `QueueCap` 1 counts
copies per attempt, so two copies (attempts 0 and 1) are in flight, and a copy
may run while another waits. The races of parsing are between two requests
(`ReqInsertProduct`), two parse workers with copies of one message, a parse
worker and the beat, and a parse that ends while a request starts another:
`parse_safety` has them, `parse_ends` those that need a second selection of the
product after a failed one. It has no generation worker: nothing in PARSING
waits for one. A second selection of the same link, after a failed
one, is in `flow_live`. `MaxFaults` 1 puts one fault at any point. The proofs
below remove all these bounds for the safety part.

The races of `analysis` are between two workers in the limiter, and between two
workers that both believe to hold one selection: one selection, two workers and
one lapse are both. With two accounts of one request a minute, a third step has
to wait, so `Decline`, `WakeUp` and an expired key happen; two minutes tell "the
key I chose" from "now". Three names in steps of two are a full slice, a short
one and the conclusion. With fewer faults than runs the last run is undisturbed
(185,404 states). In `services`, lives of 1, 1 and 2 seconds within 3 seconds
let a token be revoked before, at and after its end; the races on tokens and on
the balance are between two requests. The cards are a whole one, one whose only
variant is another article and has no price, one without a composition and an
empty one; two parses merge the columns of two of them. The tables of the site
include one without rows, one with an address twice under two protocols next to
an IPv6 address, one with rows that are skipped and a proxy of the file, and one
that leaves a list of which nothing loads. The two parts share nothing, so
`subject` chooses which one a behaviour moves and their states add instead of
multiplying (950,000 states). Requests are symmetric; no temporal property of
that run depends on one.

`CHECK_DEADLOCK FALSE` everywhere: the system may rest with nothing to do, and
the bounds stop it.

### Fairness (`flow_live`, `flow_hang`, `parse_ends`, `parse_live`, `analysis`)

Weak fairness on the steps of a worker that has taken a message, on each lock's
TTL, on time passing (`GoesQuiet`), and on the beat's scan, sends and commit:
Celery keeps its processes and its schedule running. Strong fairness on
`GenTake` for each message: the queue is first in first out, so a message is
delivered, and not every time at the very moment its lock is busy. In the code a
pool of workers is shared with other tasks; the assumption is that the pool is
not occupied for ever. Nothing is assumed of users, of `ReqPublish`, or of
faults: the message of a new selection may never be sent. `OrdersAreSettled`
holds because the beat finds it through its open waiting. The parse worker, its
queue, its lock and the two halves of the beat get the same: weak fairness on
each step of a task that has begun, on the TTL and on time in PARSING
(`GoesStuck`), strong fairness on `ParseTake` of a message. The parser returns,
as its soft time limit makes it. In `analysis`: weak fairness on the work of
each worker, on both TTLs after a death and on the clock, strong fairness on
taking a selection's message for as long as runs are left (the message is
redelivered, or the beat sends it again: that is `flow_live`). Nothing has to
fail, and no lock has to lapse. `PdfInTheEnd` is claimed for products with a
unit price only: for another one `NoUnitPrice` ends every run.

### Findings

* `flow_orphan`. With Redis down, two requests of one user join a selection in
  progress; both have read that the user is not attached. The second waits for
  the balance row, reserves a second spin and gets the first one's waiting from
  `get_or_create`. One waiting will move one spin: the other is frozen. The
  docstring of `is_user_in_selection` (`apps/selection/services.py:120`) offers
  the attachment as the protection against repeated reserves. The comment at
  `apps/orchestrator/service.py:218` accepts working without the lock because
  double clicks are rare; that the spin is lost is not said.
* `flow_free`. The beat sends a second copy of a message that was only late. The
  first fails for good: FAILED, spins returned. The second is not skipped, since
  only DONE is, and succeeds: the user has the selection for nothing. The
  docstring at `apps/orchestrator/service.py:92` ties the charge to DONE and the
  return to FAILED.
* `flow_hang`. The beat has read a selection in QUEUE and sent it; a worker runs
  it to its end before the beat commits; the commit writes PROCESS over DONE (or
  FAILED). The waitings are closed, so the beat, which starts from open ones,
  never comes back to it, although its comment (`tasks.py:647-653`) says that a
  selection left in PROCESS is restarted. The user is answered "pending". A late
  duplicate of a FAILED selection whose worker dies ends the same way.
* `parse_stale`. A product FAILED; a new selection of it enters PARSING, and its
  message waits in the Parse_Queue (or its worker died) until the selection is
  stuck. The beat starts a run and loads the product as FAILED; now the parse
  starts. `_check_stuck_parsing` finds the stuck selection, looks at the product
  it has in memory, and fails the selection with the error of the parse before;
  the running parse may well end in DONE. The docstring of
  `_continue_selections_after_parse` (`tasks.py:452-453`) ties FAILED to a product
  that is FAILED or INCOMPLETE. The spin is returned (`KeepsContract` holds), the
  user is told that the link could not be parsed.

## 4. Proofs

All by `tlapm` (Z3, Zenon, LS4), for every value of the constants: users, links,
requests, workers, selections, products, accounts, limits, lives, lists, cards,
and all bounds. `Users` need not be finite.

| theorem | statement | needs |
|---|---|---|
| `SelectionFlow_proofs!TypeCorrect` | `Spec => []TypeOK`; no balance below zero | nothing more |
| `SelectionFlow_proofs!Backed` | `Spec => []OpenWaitingsAreBacked` | nothing more |
| `SelectionFlow_proofs!ChargedForPdf` | `Spec => []ChargedOnlyForPdf` | nothing more |
| `SelectionContract_proofs!DecisionsStayCurrent` | `Spec => []DecisionsAreCurrent` | `~RedisMayFail` |
| `SelectionContract_proofs!ReserveIsExact` | `Spec => []ReservedIsOpenWaitings` | `~RedisMayFail` |
| `SelectionContract_proofs!ChargesAreExact` | `Spec => []ChargedOncePerSelection` | `~RedisMayFail` |
| `SelectionContract_proofs!ContractIsKept` | `Spec => KeepsContract` | `~RedisMayFail` |
| `ParseFlow_proofs!ParseTypeCorrect` | `ParseSpec => []ParseTypeOK` | nothing more |
| `ParseFlow_proofs!GeneratedAreParsed` | `ParseSpec => []GeneratedFromParsed` | nothing more |
| `ParseFlow_proofs!DoneForGood` | `ParseSpec => ParsedForGood` | nothing more |
| `ParseFlow_proofs!WholeFlowChargesForPdf` | `ParseSpec => []ChargedOnlyForPdf` | nothing more |
| `ParseFlow_proofs!WholeFlowIsBacked` | `ParseSpec => []OpenWaitingsAreBacked` | nothing more |
| `ParseFlow_proofs!WholeFlowDecidesOnTime` | `ParseSpec => []DecisionsAreCurrent` | `~RedisMayFail` |
| `ParseFlow_proofs!WholeFlowLedgerIsExact` | `ParseSpec => [](ReservedIsOpenWaitings /\ ChargedOncePerSelection)` | `~RedisMayFail` |
| `ParseFlow_proofs!WholeFlowKeepsContract` | `ParseSpec => KeepsContract` | `~RedisMayFail` |
| `AnalysisFlow_proofs!AnalysisTypes` | `Spec => []AnalysisTypeOK` | nothing more |
| `AnalysisFlow_proofs!StoredInOrder` | `Spec => []StoredStepsInOrder` | nothing more |
| `AnalysisFlow_proofs!PdfComplete` | `Spec => []PdfFromAllSteps` | nothing more |
| `AnalysisFlow_proofs!PaidOnce` | `Spec => []NothingPaidTwice` | nothing more |
| `AnalysisFlow_proofs!SavedAnswersStay` | `Spec => SavedForGood` | nothing more |
| `AnalysisFlow_proofs!LimitsAreKept` | `Spec => []LimitsHold` | nothing more |
| `AnalysisFlow_proofs!AllElementsAsked` | `Spec => []EveryElementAskedOnce` | nothing more |
| `AnalysisFlow_proofs!CompositionIsShown` | `Spec => []PdfShowsComposition` | nothing more |
| `AnalysisFlow_proofs!PriceAddsUp` | `Spec => []PriceOfAllSteps` | nothing more |
| `Accounts_proofs!AccountsTypes` | `AccountsSpec => []AccountsTypeOK` | nothing more |
| `Accounts_proofs!RevokedTokensStayOut` | `AccountsSpec => []RevokedStaysOut` | nothing more |
| `Accounts_proofs!BannedUsersStayOut` | `AccountsSpec => []BannedStaysOut` | nothing more |
| `Accounts_proofs!ServedAreConfirmed` | `AccountsSpec => []OnlyConfirmedServed` | nothing more |
| `Accounts_proofs!EverySpinIsBought` | `AccountsSpec => []SpinsAreBought` | nothing more |
| `PageParse_proofs!PagesAreTyped` | `PageSpec => []PageTypeOK` | nothing more |
| `PageParse_proofs!PartsOfOneVariant` | `PageSpec => []OneVariant` | nothing more |
| `PageParse_proofs!CompositionStays` | `PageSpec => []CompositionKept` | nothing more |
| `PageParse_proofs!DoneProductsAreComplete` | `PageSpec => []DoneIsComplete` | nothing more |
| `PageParse_proofs!EarlierDataStays` | `PageSpec => KeepsEarlierData` | nothing more |
| `PageParse_proofs!PoolsAreOfTheirLists` | `PageSpec => []PoolIsOfItsList` | nothing more |
| `PageParse_proofs!ThrownProxiesStayOut` | `PageSpec => []ThrownStayOut` | nothing more |
| `PageParse_proofs!RoundsEnd` | `PageSpec => RoundsShrinkPool` | nothing more |
| `PageParse_proofs!TasksHaveProxies` | `PageSpec => StartsWithProxies` | `FileProxies # <<>>` |

*Assumptions.* Those of the constants, each next to them, evaluated by TLC in
the runs: natural bounds and limits, Boolean flags, positive lives of tokens, a
free lock's holder is nobody, and the types of the data that comes from outside
(a composition is a list of words and marks of danger, cards have lists of
variants and sections, tables and the file have rows of proxies). Two
hypotheses are of single theorems. `~RedisMayFail` is needed: `flow_orphan` is
the counterexample without it. `FileProxies # <<>>`, that the file has a proxy,
is true of the repository's `proxies.txt`, and TLC evaluates it of the
instance's.

*Induction without operators.* The library's induction theorems take an
operator, which no prover here can instantiate. `FoldFacts` states induction
over sets of numbers instead: a set that has 0 and every successor has all of
`0 .. n` (`UpTo`), which follows from the well-foundedness of inclusion on
finite sets. A `FoldLeft` is a function on sets of positions chosen by `CHOOSE`;
`IterExists` gives one, so what was chosen satisfies its equation, and
`IterFollows` or `IterStays` goes through `1 .. 0`, `1 .. 1`, ... `1 .. n`. Each
fold of the model then has a lemma that names its *trace*, the values after 0,
1, ... n elements (`TraceExists`), and the rest is about traces.
`FlattenAppend` does the same for `FlattenSeq`.

*The orders.* `TypeOK` is inductive once it says that a request or worker past
its first step has a selection. Everything about the ledger rests on one lemma,
`LedgerSteps`: a step of the flow places an order for one user (buy, join or
create), or closes a set of open waitings, or leaves balances, attachments and
waitings alone. Cardinality is reasoned about only in two lemmas, of an order
and of a closing.

Without the lock, an order adds one to the reserve and *at most* one open
waiting, and a closing takes from the reserve exactly the waitings it closes:
that is `Backed`. `ChargedOnlyForPdf` is strengthened by *a waiting belongs to
an attached user* and *a DONE selection, and one a request is about to buy, has
a PDF*; the latter is needed because a `status` read as DONE may be overwritten
by the beat before the purchase.

With the lock, the invariant `LockedInv` adds that of the requests of a user on
a link at most one is live and holds the key, and that what it read of its own
user's attachment still holds. Hence an order is for a selection the user had no
part in, it opens *exactly* one waiting, and reserve and charges are exact
(`Exact`). The refinement then maps each order to `SpinContract`'s Order or Buy,
each closing to its settlement, everything else to a stutter. `LockedInv` and
`Exact` were checked by TLC on the instance of `flow_safety` before they were
proved.

*The whole flow.* The steps of `ParseFlow` are first sorted by what they do to
the variables of `SelectionFlow` (`FlowSteps`): a step of that module, a request
that turns aside, a new selection in PARSING, selections that continue, or a
message, a tick or a death. A new selection in PARSING is an order like any
other, a failed parse closes waitings, so the lemmas of an order and of a
closing are cited again, and `WholeFlowKeepsContract` needs `LockedInv` and
`Exact` only. The invariant `ParseInv` has four parts besides the types, and
each needs the others:

* `Linked`: an active request and an existing selection have a link; needed for
  the types, since the beat indexes the products by the links of stuck selections.
* `ParseAlone`: a parse task holds its key, and no two work on one product, so a
  product is not DONE while it is being parsed. From it, DONE is for good. It
  rests on the key outliving the task (`ParseLockExpires`).
* `DoneIsRead`: what a parse task carries, or the beat remembers, as DONE is DONE.
  The beat's other memories may be stale (run `parse_stale`); this one may not.
* `InHandIsReady`: `GeneratedFromParsed` alone is not inductive, because a late
  message, a worker or the beat's `mark` may write PROCESS or DONE over any
  status. So everything that could still lead to such a write (a status, a
  message of any attempt, a worker, a request or beat about to send) is counted
  as a selection *in hand*, and its product is DONE. A selection in FAILED with an
  old message in the queue is the case that a weaker invariant would miss.

*The analysis.* `StoredInv` (what is stored are steps 1 to `last`) is inductive
only with `WorkerInv`, the same of the lists of every worker: a worker that lost
its lock overwrites what another has stored by its own, shorter lists, which
are in order as well; and a worker prints only when its `last` is the total.
These need no lock. `LockInv` says that while a selection's lock has not lapsed, a
worker in a run holds it, and has saved what it has, or is about to save one
more: from it, nothing is paid twice. `LimitInv` is about the
lock of the present minute: while it has not lapsed, the key of the minute has
exactly what was let through, that is within the limits, and a worker that
counts holds the lock and has read just that; `Charge` keeps it by the test of
`Fits`. The key must also live to the end of its minute.

*What was asked for, and its price.* `AskedInv` says that every saved row, in a
table or in a worker's hands, is what the plan asks for at its step, and every
answer one the service may give to it; a worker about to print, and a printed
PDF, has a selection whose price is saved. With `StoredInv` (which steps those
are), a finished selection has asked for the slices of its composition, one
after the other. `StartsOfSteps` and `EndsOfSteps` show that the slices meet
without a gap and that the last one ends with the composition, at a multiple of
`StepSize` and off it, so joining them gives the composition (`SlicesCover`).
The price is the cost of two sums of tokens, of the prompts and of the answers.
A cost is linear in them, so the repeated addition of rows ends in the cost of
the sums (`PriceIsCost`); the sums depend on the plan alone, so a second worker
that overwrites the answers by other answers to the same steps does not change
the price, which is what the invariant needs.

*What the PDF shows.* From `AskedInv` every row of a printed PDF is the answer
to the slice of its step, for some text. The keys of one answer are the words of
its slice without repetitions; `StepEntries` shows that, step after step, they
are the entries of the composition in order, by an induction over the elements
of a slice inside one over the steps (`AnalysisOfAnswers`), where the test of a
repetition looks at positions of the whole composition and the answer only at
its own slice (`RepeatsInStep`). The template then has one field per name of the
cover and per name and element number (`DataOfWords`). What a reader finds under
a name is a flattening that distributes over the parts of the structure
(`ShownInBoth`): the cover shows the price and no element, the rows of the
elements show each element once and in order (`ElementsShow`), the last part
shows the conclusion (`DocumentShows`).

*Accounts.* A key of the blacklist ends with its token, and a request that is
being served was checked against it: from these two facts no later request
passes. For bans, a request remembers what was so when it began: a ban is never
taken back, and `ServeUser` reads the row again. That only confirmed users are
served needs *all tokens but that of the letter belong to confirmed users*.
`SpinsAreBought` is not inductive alone: between the read of the balance and
its commit a purchase holds a number that another commit would make stale. The
strengthening `SpinInv` says that a purchase at this point holds the row lock of
its user, and has read the present balance.

*Pages.* `DataInv`: a product that is DONE has no missing column; a task fills
what it found and empties nothing. `PoolInv`: pool and list name each proxy
once, the pool and the thrown out are disjoint, and a task that fetches has a
proxy of the pool, which is why each round makes the pool shorter. That the
loaders name each proxy once is proved of their folds (`LoadedOnce`,
`ShownOnce`), and of a list that went through Redis by induction on its length:
`LoadedAgain` says which proxies are left of it, and that each is there once.
`PoolIsOfItsList` is inductive with two facts about time: no pool is of a list
newer than the key (`parser.from <= proxyKey.at`), so a refresh cannot give an
old pool the newest time, and the key is empty before the first refresh. `CardInv`: what a task has found is the extraction of the card it
holds, but for the key of the picture. From it the article, the price, the
measure and the picture are of one variant, and the composition is that of the
card. Cutting is a fold over the pieces of a line; its invariant `SameWords`
compares what was cut so far with the words so far, and treats the name that
still goes on apart, since a mark at the start of a longer name is not dropped
(`OneMorePiece`).

Only model-checked: liveness (`OrdersAreSettled`, `ParsingEnds`, `PdfInTheEnd`),
which is out of this prover's reach, and the four counterexamples. Every safety
invariant and action property of the runs has its theorem.

## 5. Not modelled

* The layout of the PDF: fonts, styles, frames, colours, pixels to points. It
  is formatting; what is printed, in which order, is in `PdfDocument`. The price
  per quantity is there as what it is computed from, without the arithmetic of
  floats (`apps/pdf_generation/utils.py:187`).
* Link normalisation and request validation (schemas): pure functions on
  strings; a link of the models is a normalised one.
* Migrations, settings, logging, the debug data of the PDF.
* Queries that only read (lists of packages, history, statistics).
* Operations no route or task reaches: `UserService.create_user` and deletions,
  the branch `imagine` of the limiter's callers, `delete` of S3 and of rows.
* Creation and seeding of packages, done before any request.
* PostgreSQL's own deadlock detection: a beat that locks the rows of many users
  may wait for a worker that waits for it, and one of them is rolled back. In
  the models that is the crash of its owner, in the run that has it (`flow_live`).
* The OpenAI service, the site and the browser, PostgreSQL, Redis and Celery
  are modelled by how the code uses them.
