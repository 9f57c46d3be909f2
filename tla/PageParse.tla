------------------------------ MODULE PageParse -------------------------------
(***************************************************************************)
(* The inside of a parse: what run_parse_product_task                      *)
(* (infrastructure/celery/tasks.py) does between taking the lock of a      *)
(* product and going on with its selections, in one worker process.  The   *)
(* process has one parser with a pool of proxies, for all its tasks; the   *)
(* beat puts a fresh list of proxies in Redis once an hour.                *)
(*                                                                         *)
(* Module ParseFlow sees all of this as one step with a result, and has    *)
(* the locks, the messages and the selections.  Processes share nothing    *)
(* here but the list in Redis, so one is enough.                           *)
(***************************************************************************)
EXTENDS ProductPage, ProxySource, S3Calls

CONSTANTS
  Links,          \* links to products, [host, article]
  Cards,          \* what the site may answer for a link, a set of cards
  Hosts,          \* hosts with a strategy
  FileLines,      \* lines of proxies.txt
  SiteTables,     \* tables freeproxyupdate.com may show
  MaxRefreshes,   \* bound: lists saved in Redis
  MaxParses       \* bound: tasks of one product

ASSUME FileAssumption == FileLines \in Seq(Lines) /\ FileIsGood(FileLines)
ASSUME TablesAssumption == SiteTables \subseteq Seq(Rows)
ASSUME PageBoundsAssumption == {MaxRefreshes, MaxParses} \subseteq Nat
ASSUME CardsAssumption ==
  /\ DOMAIN Cards = Links
  /\ \A l \in Links : \A card \in Cards[l] :
       card.variants \in Seq(Variants) /\ card.sections \in Seq(Sections)

VARIABLES
  proxyKey,   \* key parser:proxies in Redis: updated_at (0: no key), and addresses
  parser,     \* the parser of the process: its pool, the updated_at of its list
  thrown,     \* proxies thrown out of the pool since it was built
  task,       \* the task the process is at
  product,    \* fill_status of a product, and its columns that are not empty
  images,     \* articles whose picture is in S3
  parses      \* tasks of a product so far

pageVars == <<proxyKey, parser, thrown, task, product, images, parses>>

FileProxies == LoadFromFile(FileLines)
SiteLists == {ParseSiteHtml(table) : table \in SiteTables}
Proxies == ToSet(FileProxies) \cup UNION {ToSet(list) : list \in SiteLists}

NoList == [at |-> 0, proxies |-> <<>>]
NoParser == [made |-> FALSE, pool |-> <<>>, from |-> 0]
NoTask == [at |-> "idle", link |-> <<>>, proxy |-> <<>>, card |-> <<>>, parsed |-> <<>>]

PageInit ==
  /\ proxyKey = NoList
  /\ parser = NoParser
  /\ thrown = {}
  /\ task = NoTask
  /\ product = [l \in Links |-> [status |-> "CREATED", columns |-> <<>>]]
  /\ images = {}
  /\ parses = [l \in Links |-> 0]

-----------------------------------------------------------------------------
(* The list of proxies and the pool                                        *)

\* refresh_proxies_task: the site has answered with a list that is not empty.
RefreshProxies ==
  /\ proxyKey.at < MaxRefreshes
  /\ \E list \in SiteLists \ {<<>>} :
       proxyKey' = [at |-> proxyKey.at + 1, proxies |-> SaveProxies(list)]
  /\ UNCHANGED <<parser, thrown, task, product, images, parses>>

\* _load_stored_proxies: the list in Redis; None when Redis is down, has no
\* key, or none of its addresses parses again.
Stored(redisUp) ==
  LET proxies == LoadProxies(proxyKey.proxies)
  IN  IF redisUp /\ proxies # <<>> THEN [at |-> proxyKey.at, proxies |-> proxies] ELSE NoList

\* Mutant of KeepsParser: the pool is kept when it is empty.
KeepsAnyParser(at) == parser.made /\ at = parser.from

\* Mutant of KeepsParser: a process without a parser goes on without.
KeepsNoParser(at) == at = parser.from

\* The parser of the process is good for another task.
KeepsParser(at) == parser.made /\ parser.pool # <<>> /\ at = parser.from

\* The list, or the file without one.
PoolOf(stored) == IF stored = NoList THEN FileProxies ELSE stored.proxies

\* Mutant of GetParser: the time of the list is left when the file is taken.
GetParserOldTime(redisUp) ==
  LET stored == Stored(redisUp)
  IN  IF KeepsParser(stored.at)
      THEN UNCHANGED <<parser, thrown>>
      ELSE /\ parser' = [made |-> TRUE, pool |-> PoolOf(stored),
                         from |-> IF stored = NoList THEN parser.from ELSE stored.at]
           /\ thrown' = {}

\* _get_parser
GetParser(redisUp) ==
  LET stored == Stored(redisUp)
  IN  IF KeepsParser(stored.at)
      THEN UNCHANGED <<parser, thrown>>
      ELSE /\ parser' = [made |-> TRUE, pool |-> PoolOf(stored), from |-> stored.at]
           /\ thrown' = {}

ThrowOut(proxy) ==
  /\ parser' = [parser EXCEPT !.pool = Without(@, proxy)]
  /\ thrown' = thrown \cup {proxy}

-----------------------------------------------------------------------------
(* What the site answers through a proxy: goldapple/client.py              *)

Statuses == {0, 200, 403, 404}     \* 0: no status
Responses == [arrives : BOOLEAN, page : Statuses, errorPage : BOOLEAN, status : Statuses,
              body : {"card", "other"}]

\* _check_status
CheckStatus(status) ==
  IF status < 400 THEN "card" ELSE IF status = 404 THEN "missing" ELSE "blocked"

\* fetch: the page's own status, then what comes first of the card and the
\* error page, the card's status, and its JSON.
FetchResult(r) ==
  CASE ~r.arrives -> "blocked"
    [] CheckStatus(r.page) # "card" -> CheckStatus(r.page)
    [] r.errorPage -> "missing"
    [] CheckStatus(r.status) # "card" -> CheckStatus(r.status)
    [] OTHER -> r.body

SiteMayAnswer(results) == \E r \in Responses : FetchResult(r) \in results

-----------------------------------------------------------------------------
(* The task                                                                *)

At(stage) == task.at = stage
SetStatus(l, status) == product' = [product EXCEPT ![l].status = status]

\* FAILED for a ParserError or any other exception.
Fails ==
  /\ SetStatus(task.link, "FAILED")
  /\ task' = NoTask

\* IN_PROGRESS is committed, the parser is there, the site has a strategy;
\* UnsupportedSite otherwise.  A crash has left IN_PROGRESS behind, a retry
\* starts from any status but DONE.
StartParse(l, redisUp) ==
  /\ At("idle") /\ product[l].status # "DONE" /\ parses[l] < MaxParses
  /\ parses' = [parses EXCEPT ![l] = @ + 1]
  /\ GetParser(redisUp)
  /\ IF l.host \in Hosts
     THEN /\ SetStatus(l, "IN_PROGRESS")
          /\ task' = [NoTask EXCEPT !.at = "check", !.link = l]
     ELSE /\ SetStatus(l, "FAILED")
          /\ UNCHANGED task
  /\ UNCHANGED <<proxyKey, images>>

\* ProxyPool.get: the first proxy answers the check,
ProxyAlive ==
  /\ At("check") /\ parser.pool # <<>>
  /\ task' = [task EXCEPT !.at = "fetch", !.proxy = Head(parser.pool)]
  /\ UNCHANGED <<proxyKey, parser, thrown, product, images, parses>>

\* or is thrown out, and the next one is the first;
ProxyDead ==
  /\ At("check") /\ parser.pool # <<>>
  /\ ThrowOut(Head(parser.pool))
  /\ UNCHANGED <<proxyKey, task, product, images, parses>>

\* NoAliveProxy.
NoneAlive ==
  /\ At("check") /\ parser.pool = <<>>
  /\ Fails
  /\ UNCHANGED <<proxyKey, parser, thrown, images, parses>>

\* Mutant of SiteBlocks: the next round asks for a proxy and gets this one.
SiteBlocksKept ==
  /\ At("fetch")
  /\ task' = [task EXCEPT !.at = "check", !.proxy = <<>>]
  /\ UNCHANGED <<proxyKey, parser, thrown, product, images, parses>>

\* SiteBlocked: 403, a timeout, a lost connection.  fetch_card_via_pool takes
\* the next proxy.
SiteBlocks ==
  /\ At("fetch") /\ SiteMayAnswer({"blocked"})
  /\ ThrowOut(task.proxy)
  /\ task' = [task EXCEPT !.at = "check", !.proxy = <<>>]
  /\ UNCHANGED <<proxyKey, product, images, parses>>

\* ProductNotFound, or an answer that is no JSON object with data.
NoCard ==
  /\ At("fetch") /\ SiteMayAnswer({"missing", "other"})
  /\ Fails
  /\ UNCHANGED <<proxyKey, parser, thrown, images, parses>>

\* The card has come; it is extracted and normalized.
CardComes ==
  /\ At("fetch") /\ SiteMayAnswer({"card"})
  /\ \E card \in Cards[task.link] :
       task' = [task EXCEPT !.at = "image", !.card = card,
                            !.parsed = Normalize(Extract(card, task.link))]
  /\ UNCHANGED <<proxyKey, parser, thrown, product, images, parses>>

\* ImageUploader.upload without a link or an article, or past a failure of
\* the download or of S3: no key.
NoImage ==
  /\ At("image")
  /\ task' = [task EXCEPT !.at = "fill"]
  /\ UNCHANGED <<proxyKey, parser, thrown, product, images, parses>>

\* The picture of the article is there (file_exists), or is downloaded
\* through the proxy of the card and uploaded.
ImageStored ==
  /\ At("image") /\ task.parsed.image_link # <<>> /\ task.parsed.article # <<>>
  /\ 200 \in S3Statuses
  /\ images' = images \cup {task.parsed.article}
  /\ task' = [task EXCEPT !.at = "fill", !.parsed.image_key = task.parsed.article]
  /\ UNCHANGED <<proxyKey, parser, thrown, product, parses>>

\* The columns that were found, and DONE when no critical one is missing.
Fill ==
  LET columns == UpdateWith(product[task.link].columns, task.parsed)
      status == IF MissingFields(columns) = {} THEN "DONE" ELSE "INCOMPLETE"
  IN  /\ At("fill")
      /\ product' = [product EXCEPT ![task.link] = [status |-> status, columns |-> columns]]
      /\ task' = NoTask
      /\ UNCHANGED <<proxyKey, parser, thrown, images, parses>>

\* SoftTimeLimitExceeded, or any other exception of the parser.
TimeLimit ==
  /\ task.at \in {"check", "fetch", "image"}
  /\ Fails
  /\ UNCHANGED <<proxyKey, parser, thrown, images, parses>>

\* A commit fails at the end: nothing catches it, and IN_PROGRESS stays.
FillFails ==
  /\ At("fill")
  /\ task' = NoTask
  /\ UNCHANGED <<proxyKey, parser, thrown, product, images, parses>>

\* The process dies, and another starts without a parser.
Restart ==
  /\ parser.made
  /\ parser' = NoParser /\ thrown' = {}
  /\ task' = NoTask
  /\ UNCHANGED <<proxyKey, product, images, parses>>

PageNext ==
  \/ RefreshProxies \/ (\E l \in Links, redisUp \in BOOLEAN : StartParse(l, redisUp))
  \/ ProxyAlive \/ ProxyDead \/ NoneAlive \/ SiteBlocks \/ NoCard \/ CardComes
  \/ NoImage \/ ImageStored \/ Fill \/ FillFails \/ TimeLimit \/ Restart

PageSpec == PageInit /\ [][PageNext]_pageVars

-----------------------------------------------------------------------------
(* Properties                                                              *)

\* Type invariant.
PageTypeOK ==
  /\ proxyKey.at \in 0 .. MaxRefreshes
  /\ ToSet(proxyKey.proxies) \subseteq {Server(p) : p \in Proxies}
  /\ parser.made \in BOOLEAN /\ parser.from \in 0 .. MaxRefreshes
  /\ ToSet(parser.pool) \subseteq Proxies
  /\ thrown \subseteq Proxies
  /\ task.at \in {"idle", "check", "fetch", "image", "fill"}
  /\ ~At("idle") => task.link \in Links /\ parser.made
  /\ At("fetch") => Contains(parser.pool, task.proxy)
  /\ \A l \in Links : product[l].status \in {"CREATED", "IN_PROGRESS", "DONE", "INCOMPLETE", "FAILED"}

\* A proxy that was thrown out is not in the pool again before the pool is
\* built anew: no task is ever given it ("proxies that were thrown out do not
\* come back").  It takes lists without repetitions, wherever they come from.
ThrownStayOut == ToSet(parser.pool) \cap thrown = {}

\* fetch_card_via_pool ends: each round of one task leaves a smaller pool
\* ("the loop is finite").
RoundsShrinkPool ==
  [][At("fetch") /\ task'.at = "check" => Len(parser'.pool) < Len(parser.pool)]_pageVars

\* A task never starts with an empty pool.  When it reaches Redis, and some
\* address of the newest list parses again, it starts with that list, and
\* otherwise with the file, whatever list the process had before.
StartsWithProxies ==
  [][At("idle") /\ task'.at = "check" =>
       \A l \in Links, redisUp \in BOOLEAN :
         StartParse(l, redisUp) =>
           /\ parser'.pool # <<>>
           /\ parser'.from =
                IF redisUp /\ \E i \in DOMAIN proxyKey.proxies : IsProxy(proxyKey.proxies[i])
                THEN proxyKey.at ELSE 0]_pageVars

\* The time kept with the pool tells which list it is of, and it is all that
\* _get_parser compares: a pool with the time of the list in Redis is that
\* list without what was thrown out, and one without a time is the file.
\* Tasks build the pool anew, or keep it, over outages of Redis, lists that
\* do not load and pools that ran empty.
PoolIsOfItsList ==
  LET all == ToSet(parser.pool) \cup thrown
  IN  parser.made =>
        /\ parser.from = 0 => all = ToSet(FileProxies)
        /\ parser.from > 0 /\ parser.from = proxyKey.at =>
             all = ToSet(LoadProxies(proxyKey.proxies))

\* What one parse finds belongs to one variant of the product: its price and
\* measure do not come under the article of another one, even when the
\* article of the link is not among the variants (extractor.py:52).
OneVariant ==
  At("fill") =>
    \E v \in ToSet(task.card.variants) \cup {NoVariant} :
      /\ v.itemId # <<>> => task.parsed.article = CleanText(v.itemId)
      /\ v.itemId = <<>> => task.parsed.article \in
           {CleanText(task.card.id), CleanText(ArticleFromLink(task.link))}
      /\ task.parsed.price_rub = ToDecimal(v.amount)
      /\ task.parsed.measure_value = ToDecimal(v.units)
      /\ task.parsed.image_link = ImageLink(v)

\* Piece i of a line has no letter, and separators on both sides: a mark
\* that is no name.
IsMark(line, i) ==
  /\ line[i].word = "*"
  /\ i = 1 \/ Separates(line[i - 1])
  /\ i = Len(line) \/ Separates(line[i])

\* The words of the first line of a card's composition, without marks.
CompositionWords(card) ==
  LET lines == HtmlToText(SectionNamed(card, "ingredients").content)
      line == IF lines = <<>> THEN <<>> ELSE Head(lines)
  IN  FlattenSeq([i \in DOMAIN line |-> IF IsMark(line, i) THEN <<>> ELSE <<line[i].word>>])

\* Cutting the composition loses no name and takes nothing from the
\* explanations under it.
CompositionKept ==
  At("fill") => FlattenSeq(task.parsed.ingredients_list) = CompositionWords(task.card)

\* A product that goes to the analysis has all the analysis needs, whether
\* one parse found it or several.
DoneIsComplete ==
  \A l \in Links : product[l].status = "DONE" =>
    CRITICAL_FIELDS \subseteq DOMAIN product[l].columns

\* A parse never empties a column that was filled before, by an earlier
\* parse or by an administrator.
KeepsEarlierData ==
  [][\A l \in Links : DOMAIN product[l].columns \subseteq DOMAIN product'[l].columns]_product
=============================================================================
