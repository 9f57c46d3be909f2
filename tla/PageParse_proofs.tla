--------------------------- MODULE PageParse_proofs ---------------------------
(***************************************************************************)
(* Proofs about PageParse, for any links, cards, files and tables of       *)
(* proxies and any number of tasks: what a product has is never lost, a    *)
(* product that is DONE is complete, what one parse finds is of one        *)
(* variant, no name of a composition is lost, a list of proxies names each *)
(* once, and a task has proxies, gets none twice, and ends.                *)
(***************************************************************************)
EXTENDS PageParse, FoldFacts, SequenceTheorems

-----------------------------------------------------------------------------
(* Lists of proxies                                                        *)

\* A list names each proxy once.
NoneTwice(list) == \A i, j \in DOMAIN list : list[i] = list[j] => i = j
AnyProxies == [protocol : STRING \cup {"http"}, host : Seq(STRING), port : Nat]
Lists == {list \in Seq(AnyProxies) : NoneTwice(list)}

\* A key of the dict keeps its place, a new one comes last.
LEMMA AddOne ==
  ASSUME NEW list \in Lists, NEW p \in AnyProxies
  PROVE  Add(list, p) \in Lists
<1> DEFINE n == Len(list)
           more == Append(list, p)
<1>1. list \in Seq(AnyProxies) /\ NoneTwice(list) /\ n \in Nat /\ DOMAIN list = 1 .. n
  BY DEF Lists
<1>2. CASE Contains(list, p)
  BY <1>2 DEF Add
<1>3. CASE ~Contains(list, p)
  <2>1. more \in Seq(AnyProxies) /\ DOMAIN more = 1 .. n + 1 /\ more[n + 1] = p
        /\ \A i \in 1 .. n : more[i] = list[i]
    BY <1>1
  <2>2. \A i \in 1 .. n : list[i] # p
    BY <1>1, <1>3 DEF Contains
  <2> HIDE DEF more
  <2>3. ASSUME NEW i \in 1 .. n + 1, NEW j \in 1 .. n + 1, more[i] = more[j] PROVE i = j
    <3>1. CASE i \in 1 .. n /\ j \in 1 .. n
      <4>1. list[i] = list[j]
        BY <2>1, <2>3, <3>1
      <4> QED BY <1>1, <3>1, <4>1 DEF NoneTwice
    <3>2. CASE i \in 1 .. n /\ j = n + 1
      BY <2>1, <2>2, <2>3, <3>2
    <3>3. CASE i = n + 1 /\ j \in 1 .. n
      BY <2>1, <2>2, <2>3, <3>3
    <3> QED BY <1>1, <3>1, <3>2, <3>3
  <2>4. NoneTwice(more)
    BY <2>1, <2>3 DEF NoneTwice
  <2>5. Add(list, p) = more
    BY <1>3 DEF Add, more
  <2> QED BY <2>1, <2>4, <2>5 DEF Lists
<1> QED BY <1>2, <1>3

LEMMA EmptyList == <<>> \in Lists
BY DEF Lists, NoneTwice

\* What a line, and a row, say of a proxy.
LEMMA AddressOf ==
  /\ \A line \in Lines : ParseProxy(line.address) \in AnyProxies
  /\ \A row \in Rows : ParseProxy(AddressIn(row)) \in AnyProxies
<1>1. ASSUME NEW line \in Lines PROVE ParseProxy(line.address) \in AnyProxies
  <2>1. line.address \in Addresses
    BY DEF Lines
  <2> QED BY <2>1 DEF Addresses, ParseProxy, AnyProxies
<1>2. ASSUME NEW row \in Rows PROVE ParseProxy(AddressIn(row)) \in AnyProxies
  <2>1. PICK address \in Addresses : address = row.address
    BY DEF Rows
  <2>2. SchemeOf(address.protocol) \in STRING \cup {"http"}
    BY DEF SchemeOf, Addresses
  <2>3. ParseProxy(AddressIn(row)) = [protocol |-> SchemeOf(address.protocol),
                                      host |-> address.host, port |-> address.port]
    BY <2>1 DEF AddressIn, ParseProxy, Addresses
  <2> QED BY <2>2, <2>3 DEF Addresses, AnyProxies
<1> QED BY <1>1, <1>2

\* What line i of the file, and row i of the table, does to the list so far.
LineSteps(lines) ==
  [i \in 1 .. Len(lines) |->
     [list \in Lists |-> IF lines[i].comment THEN list ELSE Add(list, ParseProxy(lines[i].address))]]
RowSteps(rows) ==
  [i \in 1 .. Len(rows) |->
     [list \in Lists |-> IF IsGoodRow(rows[i]) THEN Add(list, ParseProxy(AddressIn(rows[i]))) ELSE list]]

LEMMA LineFold ==
  ASSUME NEW lines \in Seq(Lines)
  PROVE  IsFold(Len(lines), Lists, <<>>, LineSteps(lines))
<1>1. ASSUME NEW i \in 1 .. Len(lines), NEW list \in Lists
      PROVE  (IF lines[i].comment THEN list ELSE Add(list, ParseProxy(lines[i].address))) \in Lists
  <2>1. lines[i] \in Lines
    OBVIOUS
  <2> QED BY <2>1, AddressOf, AddOne
<1> QED BY <1>1, EmptyList DEF IsFold, LineSteps

LEMMA RowFold ==
  ASSUME NEW rows \in Seq(Rows)
  PROVE  IsFold(Len(rows), Lists, <<>>, RowSteps(rows))
<1>1. ASSUME NEW i \in 1 .. Len(rows), NEW list \in Lists
      PROVE  (IF IsGoodRow(rows[i]) THEN Add(list, ParseProxy(AddressIn(rows[i]))) ELSE list) \in Lists
  <2>1. rows[i] \in Rows
    OBVIOUS
  <2> QED BY <2>1, AddressOf, AddOne
<1> QED BY <1>1, EmptyList DEF IsFold, RowSteps

\* The functions that the two folds choose have their values in Lists.
LEMMA LoadedOnce ==
  ASSUME NEW lines \in Seq(Lines)
  PROVE  LoadFromFile(lines) \in Lists
<1> DEFINE n == Len(lines)
           h == LineSteps(lines)
           Eq(iter) == iter = [t \in SUBSET DOMAIN lines |->
                         IF t = {} THEN <<>>
                         ELSE IF lines[Max(t)].comment THEN iter[t \ {Max(t)}]
                              ELSE Add(iter[t \ {Max(t)}], ParseProxy(lines[Max(t)].address))]
           chosen == CHOOSE iter : Eq(iter)
<1>1. n \in Nat /\ DOMAIN lines = 1 .. n
  OBVIOUS
<1>2. LoadFromFile(lines) = chosen[DOMAIN lines]
  BY DEF LoadFromFile, FoldLeft, MapThenFoldSet
<1>3. \E iter : Eq(iter)
  <2>1. PICK iter : IsIter(iter, n, Lists, <<>>, h)
    BY LineFold, IterExists
  <2>2. ASSUME NEW t \in SUBSET (1 .. n), t # {}
        PROVE  iter[t] = IF lines[Max(t)].comment THEN iter[t \ {Max(t)}]
                         ELSE Add(iter[t \ {Max(t)}], ParseProxy(lines[Max(t)].address))
    <3>1. Max(t) \in t
      BY <1>1, <2>2, GreatestPosition
    <3>2. Max(t) \in 1 .. n /\ iter[t \ {Max(t)}] \in Lists
      BY <2>1, <3>1 DEF IsIter
    <3>3. iter[t] = h[Max(t)][iter[t \ {Max(t)}]]
      BY <2>1, <2>2 DEF IsIter
    <3> QED BY <3>2, <3>3 DEF LineSteps
  <2>3. iter \in [SUBSET (1 .. n) -> Lists] /\ iter[{}] = <<>>
    BY <2>1 DEF IsIter
  <2> QED BY <1>1, <2>2, <2>3
<1>4. Eq(chosen)
  <2> HIDE DEF Eq
  <2> QED BY <1>3
<1>5. chosen[{}] \in Lists
  BY <1>4, EmptyList
<1>6. ASSUME NEW k \in 1 .. n, chosen[1 .. k - 1] \in Lists
      PROVE  chosen[1 .. k] \in Lists
  <2>1. 1 .. k # {} /\ Max(1 .. k) = k /\ (1 .. k) \ {k} = 1 .. k - 1
    BY <1>1, LastPosition
  <2>2. chosen[1 .. k] = IF lines[k].comment THEN chosen[1 .. k - 1]
                         ELSE Add(chosen[1 .. k - 1], ParseProxy(lines[k].address))
    <3>1. 1 .. k \in SUBSET DOMAIN lines
      BY <1>1
    <3> HIDE DEF chosen
    <3> QED BY <1>4, <2>1, <3>1
  <2>3. ParseProxy(lines[k].address) \in AnyProxies
    <3>1. lines[k] \in Lines
      OBVIOUS
    <3> QED BY <3>1, AddressOf
  <2> QED BY <1>6, <2>2, <2>3, AddOne
<1> HIDE DEF chosen
<1>7. chosen[1 .. n] \in Lists
  BY <1>1, <1>5, <1>6, IterStays
<1> QED BY <1>1, <1>2, <1>7

LEMMA ShownOnce ==
  ASSUME NEW rows \in Seq(Rows)
  PROVE  ParseSiteHtml(rows) \in Lists
<1> DEFINE n == Len(rows)
           h == RowSteps(rows)
           Eq(iter) == iter = [t \in SUBSET DOMAIN rows |->
                         IF t = {} THEN <<>>
                         ELSE IF IsGoodRow(rows[Max(t)])
                              THEN Add(iter[t \ {Max(t)}], ParseProxy(AddressIn(rows[Max(t)])))
                              ELSE iter[t \ {Max(t)}]]
           chosen == CHOOSE iter : Eq(iter)
<1>1. n \in Nat /\ DOMAIN rows = 1 .. n
  OBVIOUS
<1>2. ParseSiteHtml(rows) = chosen[DOMAIN rows]
  BY DEF ParseSiteHtml, FoldLeft, MapThenFoldSet
<1>3. \E iter : Eq(iter)
  <2>1. PICK iter : IsIter(iter, n, Lists, <<>>, h)
    BY RowFold, IterExists
  <2>2. ASSUME NEW t \in SUBSET (1 .. n), t # {}
        PROVE  iter[t] = IF IsGoodRow(rows[Max(t)])
                         THEN Add(iter[t \ {Max(t)}], ParseProxy(AddressIn(rows[Max(t)])))
                         ELSE iter[t \ {Max(t)}]
    <3>1. Max(t) \in t
      BY <1>1, <2>2, GreatestPosition
    <3>2. Max(t) \in 1 .. n /\ iter[t \ {Max(t)}] \in Lists
      BY <2>1, <3>1 DEF IsIter
    <3>3. iter[t] = h[Max(t)][iter[t \ {Max(t)}]]
      BY <2>1, <2>2 DEF IsIter
    <3> QED BY <3>2, <3>3 DEF RowSteps
  <2>3. iter \in [SUBSET (1 .. n) -> Lists] /\ iter[{}] = <<>>
    BY <2>1 DEF IsIter
  <2> QED BY <1>1, <2>2, <2>3
<1>4. Eq(chosen)
  <2> HIDE DEF Eq
  <2> QED BY <1>3
<1>5. chosen[{}] \in Lists
  BY <1>4, EmptyList
<1>6. ASSUME NEW k \in 1 .. n, chosen[1 .. k - 1] \in Lists
      PROVE  chosen[1 .. k] \in Lists
  <2>1. 1 .. k # {} /\ Max(1 .. k) = k /\ (1 .. k) \ {k} = 1 .. k - 1
    BY <1>1, LastPosition
  <2>2. chosen[1 .. k] = IF IsGoodRow(rows[k]) THEN Add(chosen[1 .. k - 1], ParseProxy(AddressIn(rows[k])))
                         ELSE chosen[1 .. k - 1]
    <3>1. 1 .. k \in SUBSET DOMAIN rows
      BY <1>1
    <3> HIDE DEF chosen
    <3> QED BY <1>4, <2>1, <3>1
  <2>3. ParseProxy(AddressIn(rows[k])) \in AnyProxies
    <3>1. rows[k] \in Rows
      OBVIOUS
    <3> QED BY <3>1, AddressOf
  <2> QED BY <1>6, <2>2, <2>3, AddOne
<1> HIDE DEF chosen
<1>7. chosen[1 .. n] \in Lists
  BY <1>1, <1>5, <1>6, IterStays
<1> QED BY <1>1, <1>2, <1>7

\* A list of this system: the proxies of its sources, each once.
GoodList(list) == list \in Seq(Proxies) /\ NoneTwice(list)

LEMMA SourcesAreGood ==
  \A list \in SiteLists \cup {FileProxies} : GoodList(list)
<1> SUFFICES ASSUME NEW list \in SiteLists \cup {FileProxies} PROVE GoodList(list)
  OBVIOUS
<1>1. FileProxies \in Lists
  BY FileAssumption, LoadedOnce DEF FileProxies
<1>2. \A l \in SiteLists : l \in Lists
  BY TablesAssumption, ShownOnce DEF SiteLists
<1>3. list \in Seq(AnyProxies) /\ NoneTwice(list)
  BY <1>1, <1>2 DEF Lists
<1>4. ToSet(list) \subseteq Proxies
  BY DEF Proxies
<1>5. \A i \in 1 .. Len(list) : list[i] \in Proxies
  BY <1>3, <1>4 DEF ToSet
<1>6. list \in Seq(Proxies)
  BY <1>3, <1>5
<1> QED BY <1>3, <1>6 DEF GoodList

\* What is loaded of a list that was saved: the proxies whose addresses parse
\* again, each once.
Again(list) == {list[i] : i \in {j \in DOMAIN list : IsProxy(Server(list[j]))}}

LEMMA LoadedAgain ==
  ASSUME NEW list \in Lists
  PROVE  /\ LoadProxies(SaveProxies(list)) \in Lists
         /\ ToSet(LoadProxies(SaveProxies(list))) = Again(list)
<1> DEFINE n == Len(list)
           part(i) == IF IsProxy(Server(list[i])) THEN <<list[i]>> ELSE <<>>
           f == [i \in 1 .. n |-> part(i)]
           loaded(k) == FlattenSeq(FirstOf(f, k))
           Upto(k) == {list[i] : i \in {j \in 1 .. k : IsProxy(Server(list[j]))}}
           Good == {k \in 0 .. n : loaded(k) \in Lists /\ ToSet(loaded(k)) = Upto(k)}
<1>1. n \in Nat /\ DOMAIN list = 1 .. n /\ NoneTwice(list)
      /\ \A i \in 1 .. n : list[i] \in AnyProxies
  BY DEF Lists
<1>2. LoadProxies(SaveProxies(list)) = FlattenSeq(f)
  <2>1. DOMAIN SaveProxies(list) = 1 .. n
        /\ \A i \in 1 .. n : SaveProxies(list)[i] = Server(list[i])
    BY <1>1 DEF SaveProxies
  <2>2. \A i \in 1 .. n : ParseProxy(Server(list[i])) = list[i]
    BY <1>1 DEF AnyProxies, ParseProxy, Server
  <2>3. [i \in DOMAIN SaveProxies(list) |->
           IF IsProxy(SaveProxies(list)[i]) THEN <<ParseProxy(SaveProxies(list)[i])>> ELSE <<>>] = f
    BY <2>1, <2>2
  <2> QED BY <2>3 DEF LoadProxies
<1>3. f \in Seq(Seq(AnyProxies)) /\ Len(f) = n /\ \A i \in 1 .. n : f[i] = part(i)
  <2>1. \A i \in 1 .. n : part(i) \in Seq(AnyProxies)
    BY <1>1
  <2> HIDE DEF part
  <2> QED BY <1>1, <2>1
<1> HIDE DEF f
<1>4. /\ FirstOf(f, n) = f /\ loaded(0) = <<>>
      /\ \A k \in 0 .. n - 1 : loaded(k + 1) = loaded(k) \o f[k + 1]
  BY <1>3, FlattenFirst
<1> HIDE DEF loaded, n
<1>5. 0 \in Good
  <2>1. ToSet(<<>>) = {} /\ Upto(0) = {}
    BY DEF ToSet
  <2> QED BY <1>1, <1>4, <2>1, EmptyList
<1>6. ASSUME NEW k \in 0 .. n - 1, k \in Good PROVE k + 1 \in Good
  <2>1. k + 1 \in 1 .. n /\ k \in 0 .. n /\ k + 1 \in 0 .. n
    BY <1>1
  <2>2. PICK p : p = list[k + 1]
    OBVIOUS
  <2>3. p \in AnyProxies
    BY <1>1, <2>1, <2>2
  <2>4. loaded(k) \in Lists /\ ToSet(loaded(k)) = Upto(k) /\ loaded(k) \in Seq(AnyProxies)
    BY <1>6 DEF Lists
  <2>5. loaded(k + 1) = loaded(k) \o part(k + 1)
    BY <1>3, <1>4, <2>1
  <2>6. CASE IsProxy(Server(p))
    <3>1. part(k + 1) = <<p>>
      BY <2>2, <2>6
    <3>2. Upto(k + 1) = Upto(k) \cup {p}
      <4>1. {j \in 1 .. k + 1 : IsProxy(Server(list[j]))}
              = {j \in 1 .. k : IsProxy(Server(list[j]))} \cup {k + 1}
        BY <1>1, <2>2, <2>6
      <4> QED BY <2>2, <4>1
    <3>3. p \notin Upto(k)
      <4>1. \A i \in 1 .. k : i \in 1 .. n /\ i # k + 1
        BY <1>1
      <4> QED BY <1>1, <2>1, <2>2, <4>1 DEF NoneTwice
    <3> HIDE DEF part, Upto
    <3>4. loaded(k + 1) = Append(loaded(k), p)
      <4>1. PICK some : some = loaded(k)
        OBVIOUS
      <4>2. some \in Seq(AnyProxies) /\ loaded(k + 1) = some \o <<p>>
        BY <2>4, <2>5, <3>1, <4>1
      <4>3. some \o <<p>> = Append(some, p)
        BY <2>3, <4>2
      <4> QED BY <4>1, <4>2, <4>3
    <3>5. ~Contains(loaded(k), p)
      BY <2>4, <3>3 DEF Contains, ToSet
    <3>6. loaded(k + 1) \in Lists
      BY <2>3, <2>4, <3>4, <3>5, AddOne DEF Add
    <3>7. ToSet(loaded(k + 1)) = ToSet(loaded(k)) \cup {p}
      <4>1. PICK some : some = loaded(k)
        OBVIOUS
      <4>2. some \in Seq(AnyProxies) /\ loaded(k + 1) = Append(some, p)
        BY <2>4, <3>4, <4>1
      <4>3. /\ DOMAIN some = 1 .. Len(some) /\ Len(some) \in Nat
            /\ DOMAIN Append(some, p) = 1 .. Len(some) + 1
            /\ Append(some, p)[Len(some) + 1] = p
            /\ \A i \in 1 .. Len(some) : Append(some, p)[i] = some[i]
        BY <2>3, <4>2
      <4>4. 1 .. Len(some) + 1 = (1 .. Len(some)) \cup {Len(some) + 1}
        BY <4>3
      <4>5. ToSet(Append(some, p)) = ToSet(some) \cup {p}
        BY <4>3, <4>4 DEF ToSet
      <4> QED BY <4>1, <4>2, <4>5
    <3> QED BY <2>1, <2>4, <3>2, <3>6, <3>7
  <2>7. CASE ~IsProxy(Server(p))
    <3>1. part(k + 1) = <<>>
      BY <2>2, <2>7
    <3>2. Upto(k + 1) = Upto(k)
      <4>1. {j \in 1 .. k + 1 : IsProxy(Server(list[j]))}
              = {j \in 1 .. k : IsProxy(Server(list[j]))}
        BY <1>1, <2>2, <2>7
      <4> QED BY <4>1
    <3> HIDE DEF part, Upto
    <3>3. loaded(k + 1) = loaded(k)
      BY <2>4, <2>5, <3>1
    <3> QED BY <2>1, <2>4, <3>2, <3>3
  <2> QED BY <2>6, <2>7
<1>7. n \in Good
  <2> HIDE DEF Good
  <2>1. \A k \in 0 .. n : k \in Good
    BY <1>1, <1>5, <1>6, UpTo
  <2> QED BY <1>1, <2>1
<1>8. loaded(n) = FlattenSeq(f)
  BY <1>4 DEF loaded
<1> QED BY <1>1, <1>2, <1>7, <1>8 DEF Again

\* A good list that was saved loads as a good list, of what was in it.
LEMMA GoodListLoads ==
  ASSUME NEW list, GoodList(list)
  PROVE  /\ GoodList(LoadProxies(SaveProxies(list)))
         /\ LoadProxies(SaveProxies(list)) # <<>> <=>
              \E i \in DOMAIN SaveProxies(list) : IsProxy(SaveProxies(list)[i])
         /\ ToSet(SaveProxies(list)) \subseteq {Server(p) : p \in Proxies}
<1> DEFINE loaded == LoadProxies(SaveProxies(list))
<1>1. list \in Seq(Proxies) /\ NoneTwice(list)
  BY DEF GoodList
<1>2. \A i \in DOMAIN list : list[i] \in Proxies
  BY <1>1
<1>3. list \in Lists
  <2>1. Proxies \subseteq AnyProxies
    <3>1. \A l \in SiteLists \cup {FileProxies} : ToSet(l) \subseteq AnyProxies
      <4>1. FileProxies \in Lists
        BY FileAssumption, LoadedOnce DEF FileProxies
      <4>2. \A l \in SiteLists : l \in Lists
        BY TablesAssumption, ShownOnce DEF SiteLists
      <4>3. \A l \in Lists : ToSet(l) \subseteq AnyProxies
        BY DEF Lists, ToSet
      <4> QED BY <4>1, <4>2, <4>3
    <3> QED BY <3>1 DEF Proxies
  <2>2. list \in Seq(AnyProxies)
    BY <1>1, <2>1
  <2> QED BY <1>1, <2>2 DEF Lists
<1>4. loaded \in Seq(AnyProxies) /\ NoneTwice(loaded) /\ ToSet(loaded) = Again(list)
  BY <1>3, LoadedAgain DEF Lists
<1> HIDE DEF loaded
<1>5. GoodList(loaded)
  <2>1. Again(list) \subseteq Proxies
    BY <1>2 DEF Again
  <2>2. \A i \in 1 .. Len(loaded) : loaded[i] \in Proxies
    BY <1>4, <2>1 DEF ToSet
  <2>3. loaded \in Seq(Proxies)
    BY <1>4, <2>2
  <2> QED BY <1>4, <2>3 DEF GoodList
<1>6. DOMAIN SaveProxies(list) = DOMAIN list
      /\ \A i \in DOMAIN list : SaveProxies(list)[i] = Server(list[i])
  BY DEF SaveProxies
<1>7. loaded # <<>> <=> \E i \in DOMAIN list : IsProxy(Server(list[i]))
  <2>1. loaded # <<>> <=> ToSet(loaded) # {}
    <3>1. loaded = <<>> => ToSet(loaded) = {}
      BY DEF ToSet
    <3>2. loaded # <<>> => 1 \in DOMAIN loaded
      BY <1>4
    <3> QED BY <3>1, <3>2 DEF ToSet
  <2> QED BY <1>4, <2>1 DEF Again
<1>8. ToSet(SaveProxies(list)) \subseteq {Server(p) : p \in Proxies}
  BY <1>2, <1>6 DEF ToSet
<1> QED BY <1>5, <1>6, <1>7, <1>8 DEF loaded

\* Min of a set of positions is one of them.
LEMMA LeastPosition ==
  ASSUME NEW n \in Nat, NEW S \in SUBSET (1 .. n), S # {}
  PROVE  Min(S) \in S
BY SmallestPosition DEF Min

\* mark_bad takes one proxy off a list, and leaves the others.
LEMMA WithoutOne ==
  ASSUME NEW S, NEW list \in Seq(S), NEW p, Contains(list, p)
  PROVE  /\ Without(list, p) \in Seq(S)
         /\ Len(Without(list, p)) = Len(list) - 1
         /\ NoneTwice(list) => /\ NoneTwice(Without(list, p))
                               /\ ToSet(Without(list, p)) = ToSet(list) \ {p}
<1> DEFINE n == Len(list)
           I == {i \in 1 .. n : list[i] = p}
           k == Min(I)
           w == Without(list, p)
<1>1. n \in Nat /\ I # {} /\ I \subseteq 1 .. n
  BY DEF Contains
<1>2. k \in 1 .. n /\ list[k] = p
  <2>1. k \in I
    BY <1>1, LeastPosition
  <2> QED BY <2>1
<1>3. w = RemoveAt(list, k)
  BY <1>1 DEF Without, RemoveFirst, SelectInSeq, Contains
<1> HIDE DEF k, w
<1>4. /\ w \in Seq(S) /\ Len(w) = n - 1
      /\ \A i \in 1 .. n - 1 : w[i] = IF i < k THEN list[i] ELSE list[i + 1]
  <2>1. w = SubSeq(list, 1, k - 1) \o SubSeq(list, k + 1, n)
    BY <1>3 DEF RemoveAt
  <2> DEFINE front == SubSeq(list, 1, k - 1)
             back == SubSeq(list, k + 1, n)
  <2>2. /\ front \in Seq(S) /\ Len(front) = k - 1
        /\ \A i \in 1 .. k - 1 : front[i] = list[i]
    BY <1>1, <1>2
  <2>3. /\ back \in Seq(S) /\ Len(back) = n - k
        /\ \A i \in 1 .. n - k : back[i] = list[i + k]
    BY <1>1, <1>2
  <2> HIDE DEF front, back
  <2>4. w = front \o back
    BY <2>1 DEF front, back
  <2>5. w \in Seq(S) /\ Len(w) = n - 1
    <3>1. w \in Seq(S) /\ Len(w) = Len(front) + Len(back)
      BY <2>2, <2>3, <2>4, ConcatProperties
    <3>2. Len(front) = k - 1 /\ Len(back) = n - k
      BY <2>2, <2>3
    <3> QED BY <1>1, <1>2, <3>1, <3>2
  <2>6. ASSUME NEW i \in 1 .. n - 1 PROVE w[i] = IF i < k THEN list[i] ELSE list[i + 1]
    <3>1. CASE i < k
      BY <1>1, <1>2, <2>2, <2>3, <2>4, <3>1
    <3>2. CASE ~(i < k)
      <4>1. i - (k - 1) \in 1 .. n - k /\ i - (k - 1) + k = i + 1
        BY <1>1, <1>2, <3>2
      <4>2. w[i] = back[i - (k - 1)]
        BY <1>1, <1>2, <2>2, <2>3, <2>4, <3>2
      <4> QED BY <2>3, <3>2, <4>1, <4>2
    <3> QED BY <3>1, <3>2
  <2> QED BY <2>5, <2>6
<1>5. ASSUME NoneTwice(list) PROVE NoneTwice(w) /\ ToSet(w) = ToSet(list) \ {p}
  <2>1. DOMAIN w = 1 .. n - 1 /\ DOMAIN list = 1 .. n
    BY <1>4
  <2>2. NoneTwice(w)
    <3> DEFINE place(i) == IF i < k THEN i ELSE i + 1
    <3>1. ASSUME NEW i \in 1 .. n - 1, NEW j \in 1 .. n - 1, w[i] = w[j] PROVE i = j
      <4>1. place(i) \in 1 .. n /\ place(j) \in 1 .. n
        BY <1>1, <1>2
      <4>2. w[i] = list[place(i)] /\ w[j] = list[place(j)]
        BY <1>4
      <4>3. place(i) = place(j)
        <5> HIDE DEF place
        <5> QED BY <1>5, <2>1, <3>1, <4>1, <4>2 DEF NoneTwice
      <4> QED BY <1>1, <1>2, <4>3
    <3> QED BY <2>1, <3>1 DEF NoneTwice
  <2>3. ASSUME NEW i \in 1 .. n - 1 PROVE w[i] \in ToSet(list) \ {p}
    <3>1. PICK j \in 1 .. n : j # k /\ w[i] = list[j]
      <4>1. CASE i < k
        <5>1. i \in 1 .. n /\ i # k /\ w[i] = list[i]
          BY <1>1, <1>2, <1>4, <4>1
        <5> QED BY <5>1
      <4>2. CASE ~(i < k)
        <5>1. i + 1 \in 1 .. n /\ i + 1 # k /\ w[i] = list[i + 1]
          BY <1>1, <1>2, <1>4, <4>2
        <5> QED BY <5>1
      <4> QED BY <4>1, <4>2
    <3>2. list[j] # p
      BY <1>2, <1>5, <2>1, <3>1 DEF NoneTwice
    <3> QED BY <2>1, <3>1, <3>2 DEF ToSet
  <2>4. ASSUME NEW i \in 1 .. n, list[i] # p PROVE list[i] \in ToSet(w)
    <3>1. CASE i < k
      <4>1. i \in 1 .. n - 1 /\ w[i] = list[i]
        BY <1>1, <1>2, <1>4, <3>1
      <4> QED BY <2>1, <4>1 DEF ToSet
    <3>2. CASE i > k
      <4>1. i - 1 \in 1 .. n - 1 /\ w[i - 1] = list[i]
        BY <1>1, <1>2, <1>4, <3>2
      <4> QED BY <2>1, <4>1 DEF ToSet
    <3> QED BY <1>2, <2>4, <3>1, <3>2
  <2> QED BY <2>1, <2>2, <2>3, <2>4 DEF ToSet
<1> QED BY <1>4, <1>5 DEF w

-----------------------------------------------------------------------------
(* Products and the task                                                   *)

FillStatuses == {"CREATED", "IN_PROGRESS", "DONE", "INCOMPLETE", "FAILED"}

ProductRow(row) ==
  /\ row = [status |-> row.status, columns |-> row.columns]
  /\ row.status \in FillStatuses
  /\ row.status = "DONE" => MissingFields(row.columns) = {}

ProductsInv ==
  /\ DOMAIN product = Links /\ product = [l \in Links |-> product[l]]
  /\ \A l \in Links : ProductRow(product[l])

TaskInv ==
  /\ task = [at |-> task.at, link |-> task.link, proxy |-> task.proxy, card |-> task.card,
             parsed |-> task.parsed]
  /\ task.at \in {"idle", "check", "fetch", "image", "fill"}
  /\ ~At("idle") => task.link \in Links /\ parser.made = TRUE

ParserRow ==
  /\ parser = [made |-> parser.made, pool |-> parser.pool, from |-> parser.from]
  /\ parser.made \in BOOLEAN

DataInv == ProductsInv /\ TaskInv /\ ParserRow

\* What a product had it has.
Kept == \A l \in Links : DOMAIN product[l].columns \subseteq DOMAIN product'[l].columns

LEMMA StatusSet ==
  ASSUME ProductsInv, NEW l \in Links, NEW status \in FillStatuses \ {"DONE"}, SetStatus(l, status)
  PROVE  ProductsInv' /\ Kept
<1> DEFINE row == [status |-> status, columns |-> product[l].columns]
<1>1. ProductRow(product[l])
  BY DEF ProductsInv
<1>2. ProductRow(row)
  BY <1>1 DEF ProductRow
<1>3. product' = [product EXCEPT ![l] = row]
  <2>1. [product[l] EXCEPT !.status = status] = row
    BY <1>1 DEF ProductRow
  <2> HIDE DEF row
  <2> QED BY <2>1 DEF SetStatus
<1>4. row.columns = product[l].columns
  OBVIOUS
<1> HIDE DEF row
<1>5. /\ DOMAIN product' = Links /\ product' = [k \in Links |-> product'[k]]
      /\ \A k \in Links : product'[k] = IF k = l THEN row ELSE product[k]
  BY <1>3 DEF ProductsInv
<1> QED BY <1>2, <1>4, <1>5 DEF ProductsInv, Kept

LEMMA ProductStays ==
  ASSUME ProductsInv, UNCHANGED product
  PROVE  ProductsInv' /\ Kept
BY DEF ProductsInv, Kept

\* The update of a product: what was found, and DONE when nothing is missing.
LEMMA FillKeeps ==
  ASSUME DataInv, Fill
  PROVE  ProductsInv' /\ Kept
<1> DEFINE l == task.link
           columns == UpdateWith(product[l].columns, task.parsed)
           status == IF MissingFields(columns) = {} THEN "DONE" ELSE "INCOMPLETE"
           row == [status |-> status, columns |-> columns]
<1>1. l \in Links /\ product' = [product EXCEPT ![l] = row]
  BY DEF DataInv, TaskInv, Fill, At
<1>2. ProductRow(product[l])
  BY <1>1 DEF DataInv, ProductsInv
<1>3. DOMAIN product[l].columns \subseteq DOMAIN columns
  BY DEF UpdateWith
<1>4. ProductRow(row) /\ row.columns = columns
  <2> HIDE DEF columns
  <2> QED BY DEF ProductRow, FillStatuses
<1> HIDE DEF row, columns, l
<1>5. /\ DOMAIN product' = Links /\ product' = [k \in Links |-> product'[k]]
      /\ \A k \in Links : product'[k] = IF k = l THEN row ELSE product[k]
  BY <1>1 DEF DataInv, ProductsInv
<1> QED BY <1>3, <1>4, <1>5 DEF DataInv, ProductsInv, Kept

LEMMA FailsKeeps ==
  ASSUME DataInv, ~At("idle"), Fails
  PROVE  ProductsInv' /\ Kept /\ task' = NoTask
BY StatusSet DEF DataInv, TaskInv, Fails, FillStatuses

LEMMA DataStep ==
  ASSUME DataInv, [PageNext]_pageVars
  PROVE  DataInv' /\ Kept
<1>1. CASE RefreshProxies
  BY <1>1, ProductStays DEF RefreshProxies, DataInv, TaskInv, ParserRow, At
<1>2. ASSUME NEW l \in Links, NEW up \in BOOLEAN, StartParse(l, up) PROVE DataInv' /\ Kept
  <2>1. ParserRow' /\ parser'.made = TRUE
    <3>1. GetParser(up)
      BY <1>2 DEF StartParse
    <3> DEFINE at == Stored(up).at
               pool == PoolOf(Stored(up))
    <3>2. IF KeepsParser(at) THEN UNCHANGED <<parser, thrown>>
          ELSE parser' = [made |-> TRUE, pool |-> pool, from |-> at] /\ thrown' = {}
      BY <3>1 DEF GetParser
    <3> HIDE DEF at, pool
    <3>3. CASE KeepsParser(at)
      <4>1. parser' = parser /\ parser.made
        BY <3>2, <3>3 DEF KeepsParser
      <4>2. parser.made = TRUE
        BY <4>1 DEF DataInv, ParserRow
      <4> QED BY <4>1, <4>2 DEF DataInv, ParserRow
    <3>4. CASE ~KeepsParser(at)
      <4>1. parser' = [made |-> TRUE, pool |-> pool, from |-> at]
        BY <3>2, <3>4
      <4> QED BY <4>1 DEF ParserRow
    <3> QED BY <3>3, <3>4
  <2>2. ProductsInv' /\ Kept
    BY <1>2, StatusSet DEF StartParse, DataInv, FillStatuses
  <2>3. TaskInv'
    BY <1>2, <2>1 DEF StartParse, DataInv, TaskInv, At, NoTask
  <2> QED BY <2>1, <2>2, <2>3 DEF DataInv
<1>3. CASE ProxyAlive
  BY <1>3, ProductStays DEF ProxyAlive, DataInv, TaskInv, ParserRow, At
<1>4. CASE ProxyDead
  BY <1>4, ProductStays DEF ProxyDead, ThrowOut, DataInv, TaskInv, ParserRow, At
<1>5. CASE NoneAlive \/ NoCard \/ TimeLimit
  <2>1. ~At("idle") /\ Fails /\ UNCHANGED parser
    BY <1>5 DEF NoneAlive, NoCard, TimeLimit, At
  <2>2. ProductsInv' /\ Kept /\ task' = NoTask
    BY <2>1, FailsKeeps
  <2>3. TaskInv'
    BY <2>2 DEF TaskInv, At, NoTask
  <2>4. ParserRow'
    BY <2>1 DEF DataInv, ParserRow
  <2> QED BY <2>2, <2>3, <2>4 DEF DataInv
<1>6. CASE SiteBlocks
  BY <1>6, ProductStays DEF SiteBlocks, ThrowOut, DataInv, TaskInv, ParserRow, At
<1>7. CASE CardComes
  BY <1>7, ProductStays DEF CardComes, DataInv, TaskInv, ParserRow, At
<1>8. CASE NoImage \/ ImageStored
  BY <1>8, ProductStays DEF NoImage, ImageStored, DataInv, TaskInv, ParserRow, At
<1>9. CASE Fill
  BY <1>9, FillKeeps DEF Fill, DataInv, TaskInv, ParserRow, At, NoTask
<1>10. CASE FillFails \/ Restart
  <2>1. task' = NoTask /\ UNCHANGED product
    BY <1>10 DEF FillFails, Restart
  <2>2. TaskInv'
    BY <2>1 DEF TaskInv, At, NoTask
  <2>3. ParserRow'
    <3>1. CASE FillFails
      BY <3>1 DEF FillFails, DataInv, ParserRow
    <3>2. CASE Restart
      BY <3>2 DEF Restart, ParserRow, NoParser
    <3> QED BY <1>10, <3>1, <3>2
  <2> QED BY <2>1, <2>2, <2>3, ProductStays DEF DataInv
<1>11. CASE UNCHANGED pageVars
  BY <1>11, ProductStays DEF pageVars, DataInv, TaskInv, ParserRow, At
<1> QED BY <1>1, <1>2, <1>3, <1>4, <1>5, <1>6, <1>7, <1>8, <1>9, <1>10, <1>11 DEF PageNext

LEMMA DataInit == PageInit => DataInv
<1> SUFFICES ASSUME PageInit PROVE DataInv
  OBVIOUS
<1>1. \A l \in Links : product[l] = [status |-> "CREATED", columns |-> <<>>]
  BY DEF PageInit
<1>2. ProductsInv
  BY <1>1 DEF PageInit, ProductsInv, ProductRow, FillStatuses
<1> QED BY <1>2 DEF PageInit, DataInv, TaskInv, ParserRow, NoTask, NoParser, At

\* The status of a product tells what its columns have.
THEOREM DataInductive == PageSpec => []DataInv
<1>1. DataInv /\ [PageNext]_pageVars => DataInv'
  BY DataStep
<1> QED BY <1>1, DataInit, PTL DEF PageSpec

\* A product that goes to the analysis has all the analysis needs.
THEOREM DoneProductsAreComplete == PageSpec => []DoneIsComplete
<1>1. DataInv => DoneIsComplete
  BY DEF DataInv, ProductsInv, ProductRow, MissingFields, DoneIsComplete
<1> QED BY <1>1, DataInductive, PTL

\* A parse never empties a column that was filled before.
THEOREM EarlierDataStays == PageSpec => KeepsEarlierData
<1>1. DataInv /\ [PageNext]_pageVars => Kept
  BY DataStep
<1>2. UNCHANGED pageVars => UNCHANGED product
  BY DEF pageVars
<1>3. PageSpec => [][Kept]_product
  BY <1>1, <1>2, DataInductive, PTL DEF PageSpec
<1> QED BY <1>3 DEF KeepsEarlierData, Kept

-----------------------------------------------------------------------------
(* The card and what was found in it                                       *)

Found(card, link) == Normalize(Extract(card, link))

\* A task that has its card has what is in it, and possibly a picture.
CardInv ==
  task.at \in {"image", "fill"} =>
    /\ task.card \in Cards[task.link]
    /\ DOMAIN task.parsed = DOMAIN Found(task.card, task.link)
    /\ \A f \in DOMAIN task.parsed \ {"image_key"} :
         task.parsed[f] = Found(task.card, task.link)[f]

LEMMA CardStep ==
  ASSUME TaskInv, CardInv, [PageNext]_pageVars
  PROVE  CardInv'
<1>1. CASE task' = NoTask
  BY <1>1 DEF CardInv, NoTask
<1>2. CASE UNCHANGED task
  BY <1>2 DEF CardInv
<1>3. ASSUME NEW l \in Links, NEW up \in BOOLEAN, StartParse(l, up) PROVE CardInv'
  <2>1. CASE l.host \in Hosts
    <3>1. task'.at = "check"
      BY <1>3, <2>1 DEF StartParse, NoTask
    <3> QED BY <3>1 DEF CardInv
  <2>2. CASE l.host \notin Hosts
    BY <1>2, <1>3, <2>2 DEF StartParse
  <2> QED BY <2>1, <2>2
<1>4. CASE ProxyAlive
  <2>1. task'.at = "fetch"
    BY <1>4 DEF ProxyAlive, TaskInv
  <2> QED BY <2>1 DEF CardInv
<1>5. CASE SiteBlocks
  <2>1. task'.at = "check"
    BY <1>5 DEF SiteBlocks, TaskInv
  <2> QED BY <2>1 DEF CardInv
<1>6. CASE CardComes
  <2>1. PICK card \in Cards[task.link] :
          task' = [task EXCEPT !.at = "image", !.card = card,
                               !.parsed = Normalize(Extract(card, task.link))]
    BY <1>6 DEF CardComes
  <2>2. task'.card = card /\ task'.link = task.link /\ task'.parsed = Found(card, task.link)
    BY <2>1 DEF TaskInv, Found
  <2> QED BY <2>1, <2>2 DEF CardInv
<1>7. CASE NoImage
  <2>1. /\ task.at = "image" /\ task'.card = task.card /\ task'.link = task.link
        /\ task'.parsed = task.parsed
    BY <1>7 DEF NoImage, TaskInv, At
  <2> QED BY <2>1 DEF CardInv
<1>8. CASE ImageStored
  <2>1. /\ task.at = "image" /\ task'.card = task.card /\ task'.link = task.link
        /\ task'.parsed = [task.parsed EXCEPT !.image_key = task.parsed.article]
    BY <1>8 DEF ImageStored, TaskInv, At
  <2>2. /\ DOMAIN task'.parsed = DOMAIN task.parsed
        /\ \A f \in DOMAIN task.parsed \ {"image_key"} : task'.parsed[f] = task.parsed[f]
    BY <2>1
  <2> QED BY <2>1, <2>2 DEF CardInv
<1> QED BY <1>1, <1>2, <1>3, <1>4, <1>5, <1>6, <1>7, <1>8
        DEF PageNext, RefreshProxies, ProxyDead, NoneAlive, NoCard, Fill, FillFails, TimeLimit,
            Restart, Fails, pageVars

THEOREM CardInductive == PageSpec => []CardInv
<1>1. PageInit => CardInv
  BY DEF PageInit, CardInv, NoTask
<1>2. DataInv /\ CardInv /\ [PageNext]_pageVars => CardInv'
  BY CardStep DEF DataInv
<1> QED BY <1>1, <1>2, DataInductive, PTL DEF PageSpec

\* _find_variant takes a variant of the card, if it has one.
LEMMA VariantOfCard ==
  ASSUME NEW card, card.variants \in Seq(Variants), NEW article
  PROVE  FindVariant(card, article) \in ToSet(card.variants) \cup {NoVariant}
<1> DEFINE list == card.variants
           found == {i \in DOMAIN list : list[i].itemId = article}
<1>1. Len(list) \in Nat /\ DOMAIN list = 1 .. Len(list)
  OBVIOUS
<1>2. CASE found # {}
  <2>1. \E i \in found : \A j \in found : i <= j
    BY <1>1, <1>2, SmallestPosition
  <2>2. Min(found) \in found
    BY <2>1 DEF Min
  <2>3. FindVariant(card, article) = list[Min(found)]
    BY <1>2 DEF FindVariant
  <2> QED BY <2>2, <2>3 DEF ToSet
<1>3. CASE found = {} /\ list # <<>>
  <2>1. FindVariant(card, article) = Head(list)
    BY <1>3 DEF FindVariant
  <2>2. Head(list) = list[1] /\ 1 \in DOMAIN list
    BY <1>1, <1>3
  <2> QED BY <2>1, <2>2 DEF ToSet
<1>4. CASE found = {} /\ list = <<>>
  BY <1>4 DEF FindVariant
<1> QED BY <1>2, <1>3, <1>4

\* What one parse finds belongs to one variant (extract).
THEOREM PartsOfOneVariant == PageSpec => []OneVariant
<1>1. ASSUME DataInv, CardInv PROVE OneVariant
  <2> SUFFICES ASSUME At("fill")
               PROVE  \E v \in ToSet(task.card.variants) \cup {NoVariant} :
                        /\ v.itemId # <<>> => task.parsed.article = CleanText(v.itemId)
                        /\ v.itemId = <<>> => task.parsed.article \in
                             {CleanText(task.card.id), CleanText(ArticleFromLink(task.link))}
                        /\ task.parsed.price_rub = ToDecimal(v.amount)
                        /\ task.parsed.measure_value = ToDecimal(v.units)
                        /\ task.parsed.image_link = ImageLink(v)
    BY DEF OneVariant
  <2>1. PICK card, link : card = task.card /\ link = task.link
    OBVIOUS
  <2>2. link \in Links /\ card \in Cards[link]
    BY <1>1, <2>1 DEF DataInv, TaskInv, CardInv, At
  <2>3. PICK v : v = FindVariant(card, Or(ArticleFromLink(link), card.id))
    OBVIOUS
  <2>4. v \in ToSet(card.variants) \cup {NoVariant}
    BY <2>2, <2>3, CardsAssumption, VariantOfCard
  <2>5. PICK raw : raw = Extract(card, link)
    OBVIOUS
  <2>6. /\ raw.article = Or(v.itemId, Or(card.id, ArticleFromLink(link)))
        /\ raw.price_rub = v.amount /\ raw.measure_value = v.units
        /\ raw.image_link = ImageLink(v)
        /\ {"article", "price_rub", "measure_value", "image_link"} \subseteq DOMAIN raw
    BY <2>3, <2>5 DEF Extract, FieldsOfCard
  <2>7. /\ Normalize(raw).article = CleanText(raw.article)
        /\ Normalize(raw).price_rub = ToDecimal(raw.price_rub)
        /\ Normalize(raw).measure_value = ToDecimal(raw.measure_value)
        /\ Normalize(raw).image_link = CleanText(raw.image_link)
        /\ DOMAIN raw \subseteq DOMAIN Normalize(raw)
    BY <2>6 DEF Normalize, TEXT_FIELDS, HTML_FIELDS, NUMBER_FIELDS
  <2>8. /\ task.parsed.article = Normalize(raw).article
        /\ task.parsed.price_rub = Normalize(raw).price_rub
        /\ task.parsed.measure_value = Normalize(raw).measure_value
        /\ task.parsed.image_link = Normalize(raw).image_link
    BY <1>1, <2>1, <2>5, <2>6, <2>7 DEF CardInv, Found, At
  <2>9. CleanText(ImageLink(v)) = ImageLink(v)
    BY DEF CleanText, ImageLink
  <2>10. /\ v.itemId # <<>> => raw.article = v.itemId
         /\ v.itemId = <<>> => raw.article \in {card.id, ArticleFromLink(link)}
    BY <2>6 DEF Or
  <2> QED BY <2>1, <2>4, <2>6, <2>7, <2>8, <2>9, <2>10
<1> QED BY <1>1, DataInductive, CardInductive, PTL

-----------------------------------------------------------------------------
(* The composition                                                         *)

LEMMA DroppingAppend ==
  ASSUME NEW S, NEW list \in Seq(S), NEW y \in S, NEW x
  PROVE  /\ Dropping(list, x) \in Seq(S)
         /\ Dropping(Append(list, y), x)
              = IF y = x THEN Dropping(list, x) ELSE Append(Dropping(list, x), y)
<1> DEFINE n == Len(list)
           more == Append(list, y)
           m(i) == IF more[i] = x THEN <<>> ELSE <<more[i]>>
           few == [i \in 1 .. n |-> m(i)]
           last == IF y = x THEN <<>> ELSE <<y>>
           V == Seq(S)
<1>1. /\ n \in Nat /\ DOMAIN list = 1 .. n
      /\ DOMAIN more = 1 .. n + 1 /\ more[n + 1] = y
      /\ \A i \in 1 .. n : more[i] = list[i] /\ list[i] \in S
  OBVIOUS
<1>2. \A i \in 1 .. n + 1 : m(i) \in V
  <2> SUFFICES ASSUME NEW i \in 1 .. n + 1 PROVE m(i) \in V
    OBVIOUS
  <2>1. more[i] \in S
    OBVIOUS
  <2>2. <<>> \in V /\ <<more[i]>> \in V
    BY <2>1
  <2> QED BY <2>2
<1>3. /\ Dropping(list, x) = FlattenSeq(few)
      /\ Dropping(more, x) = FlattenSeq([i \in 1 .. n + 1 |-> m(i)])
      /\ m(n + 1) = last
  <2>1. [i \in DOMAIN list |-> IF list[i] = x THEN <<>> ELSE <<list[i]>>] = few
    BY <1>1
  <2>2. [i \in DOMAIN more |-> IF more[i] = x THEN <<>> ELSE <<more[i]>>]
          = [i \in 1 .. n + 1 |-> m(i)]
    BY <1>1
  <2> HIDE DEF few, m
  <2>3. Dropping(list, x) = FlattenSeq(few)
        /\ Dropping(more, x) = FlattenSeq([i \in 1 .. n + 1 |-> m(i)])
    BY <2>1, <2>2 DEF Dropping
  <2> QED BY <1>1, <2>3 DEF m
<1> HIDE DEF m, more, n
<1>4. few \in Seq(V) /\ [i \in 1 .. n + 1 |-> m(i)] = Append(few, m(n + 1))
  <2> HIDE DEF V
  <2> QED BY <1>1, <1>2
<1> HIDE DEF few
<1>5. /\ FlattenSeq(few) \in Seq(S)
      /\ FlattenSeq(Append(few, m(n + 1))) = FlattenSeq(few) \o m(n + 1)
  <2>1. n + 1 \in 1 .. n + 1
    BY <1>1
  <2>2. m(n + 1) \in Seq(S)
    BY <1>2, <2>1
  <2> QED BY <1>4, <2>2, FlattenAppend
<1>6. Dropping(more, x) = FlattenSeq(few) \o last
  BY <1>3, <1>4, <1>5
<1>7. CASE y = x
  <2>1. FlattenSeq(few) \o last = FlattenSeq(few)
    BY <1>5, <1>7, ConcatEmptySeq
  <2> QED BY <1>3, <1>5, <1>6, <1>7, <2>1 DEF more
<1>8. CASE y # x
  <2>1. FlattenSeq(few) \o last = Append(FlattenSeq(few), y)
    BY <1>5, <1>8, AppendIsConcat
  <2> QED BY <1>3, <1>5, <1>6, <1>8, <2>1 DEF more
<1> QED BY <1>7, <1>8

LEMMA DroppingEmpty == \A x : Dropping(<<>>, x) = <<>>
BY DEF Dropping, FlattenSeq

\* What the names of a composition say in all, when the marks are dropped.
Parts == Seq(Seq(STRING))
Mark == <<"*">>
Flat(parts) == FlattenSeq(Dropping(parts, Mark))

LEMMA FlatAppend ==
  ASSUME NEW parts \in Parts, NEW x \in Seq(STRING)
  PROVE  /\ Flat(parts) \in Seq(STRING)
         /\ Flat(Append(parts, x)) = IF x = Mark THEN Flat(parts) ELSE Flat(parts) \o x
<1> DEFINE rest == Dropping(parts, Mark)
           V == Seq(STRING)
<1>1. /\ rest \in Seq(V)
      /\ Dropping(Append(parts, x), Mark) = IF x = Mark THEN rest ELSE Append(rest, x)
  <2>1. parts \in Seq(V) /\ x \in V
    BY DEF Parts
  <2> HIDE DEF V
  <2> QED BY <2>1, DroppingAppend
<1> HIDE DEF rest
<1>2. FlattenSeq(rest) \in Seq(STRING)
      /\ FlattenSeq(Append(rest, x)) = FlattenSeq(rest) \o x
  BY <1>1, FlattenAppend
<1> QED BY <1>1, <1>2 DEF Flat, rest

LEMMA PieceWords ==
  ASSUME NEW line \in Seq(Pieces), NEW i \in 1 .. Len(line)
  PROVE  line[i].word \in STRING /\ <<line[i].word>> \in Seq(STRING)
<1>1. line[i] \in Pieces
  OBVIOUS
<1>2. line[i].word \in STRING
  BY <1>1 DEF Pieces
<1> QED BY <1>2

\* The words of the first k pieces, without the marks.
WordsUpTo(line, k) ==
  FlattenSeq([i \in 1 .. k |-> IF IsMark(line, i) THEN <<>> ELSE <<line[i].word>>])

LEMMA OneMoreWord ==
  ASSUME NEW line \in Seq(Pieces), NEW k \in 0 .. Len(line) - 1
  PROVE  /\ WordsUpTo(line, k) \in Seq(STRING)
         /\ WordsUpTo(line, k + 1) = IF IsMark(line, k + 1) THEN WordsUpTo(line, k)
                                     ELSE WordsUpTo(line, k) \o <<line[k + 1].word>>
<1> DEFINE e(i) == IF IsMark(line, i) THEN <<>> ELSE <<line[i].word>>
           V == Seq(STRING)
<1>1. k \in Nat /\ \A i \in 1 .. k + 1 : e(i) \in V
  <2>1. \A i \in 1 .. Len(line) : <<>> \in V /\ <<line[i].word>> \in V
    BY PieceWords
  <2>2. k \in Nat /\ \A i \in 1 .. k + 1 : i \in 1 .. Len(line)
    OBVIOUS
  <2> HIDE DEF V
  <2>3. \A i \in 1 .. Len(line) : e(i) \in V
    BY <2>1
  <2> HIDE DEF e
  <2> QED BY <2>2, <2>3
<1>2. WordsUpTo(line, k) = FlattenSeq([i \in 1 .. k |-> e(i)])
      /\ WordsUpTo(line, k + 1) = FlattenSeq([i \in 1 .. k + 1 |-> e(i)])
  BY DEF WordsUpTo
<1>3. e(k + 1) = IF IsMark(line, k + 1) THEN <<>> ELSE <<line[k + 1].word>>
  OBVIOUS
<1> HIDE DEF e
<1>4. /\ [i \in 1 .. k |-> e(i)] \in Seq(V)
      /\ [i \in 1 .. k + 1 |-> e(i)] = Append([i \in 1 .. k |-> e(i)], e(k + 1))
  <2> HIDE DEF V
  <2> QED BY <1>1
<1>5. /\ WordsUpTo(line, k) \in Seq(STRING)
      /\ WordsUpTo(line, k + 1) = WordsUpTo(line, k) \o e(k + 1)
  <2>1. e(k + 1) \in Seq(STRING)
    BY <1>1
  <2> QED BY <1>2, <1>4, <2>1, FlattenAppend
<1>6. WordsUpTo(line, k) \o <<>> = WordsUpTo(line, k)
  BY <1>5, ConcatEmptySeq
<1> QED BY <1>3, <1>5, <1>6

\* What piece i of a line does to the names so far.
CutSteps(line) ==
  [i \in 1 .. Len(line) |->
     [items \in Parts |->
        IF i > 1 /\ ~Separates(line[i - 1])
        THEN [items EXCEPT ![Len(items)] = Append(@, line[i].word)]
        ELSE Append(items, <<line[i].word>>)]]

LEMMA CutFold ==
  ASSUME NEW line \in Seq(Pieces)
  PROVE  IsFold(Len(line), Parts, <<>>, CutSteps(line))
<1> DEFINE V == Seq(STRING)
<1>1. ASSUME NEW i \in 1 .. Len(line), NEW items \in Parts
      PROVE  /\ [items EXCEPT ![Len(items)] = Append(@, line[i].word)] \in Parts
             /\ Append(items, <<line[i].word>>) \in Parts
  <2>1. line[i].word \in STRING
    BY PieceWords
  <2>2. <<line[i].word>> \in V
    BY PieceWords
  <2>3. items \in Seq(V)
    BY DEF Parts
  <2>4. Append(items, <<line[i].word>>) \in Parts
    <3> HIDE DEF V
    <3>1. Append(items, <<line[i].word>>) \in Seq(V)
      BY <2>2, <2>3
    <3> QED BY <3>1 DEF Parts, V
  <2> DEFINE more == [items EXCEPT ![Len(items)] = Append(@, line[i].word)]
  <2>5. CASE items = <<>>
    <3>1. more = items
      BY <2>5
    <3> QED BY <2>4, <3>1
  <2>6. CASE items # <<>>
    <3>1. Len(items) \in 1 .. Len(items) /\ items[Len(items)] \in V
      <4> HIDE DEF V
      <4> QED BY <2>3, <2>6
    <3>2. Append(items[Len(items)], line[i].word) \in V
      BY <2>1, <3>1
    <3>3. more \in Seq(V)
      <4> HIDE DEF V
      <4> QED BY <2>3, <3>1, <3>2, ExceptSeq
    <3> QED BY <2>4, <3>3 DEF Parts
  <2> QED BY <2>5, <2>6
<1>2. <<>> \in Parts /\ Len(line) \in Nat
  BY DEF Parts
<1> QED BY <1>1, <1>2 DEF IsFold, CutSteps

LEMMA CutFollows ==
  ASSUME NEW line \in Seq(Pieces), NEW w,
         IsTrace(w, Len(line), Parts, <<>>, CutSteps(line))
  PROVE  Items(line) = Dropping(w[Len(line)], Mark)
<1> DEFINE n == Len(line)
           h == CutSteps(line)
           Cut(items, i) == IF i > 1 /\ ~Separates(line[i - 1])
                            THEN [items EXCEPT ![Len(items)] = Append(@, line[i].word)]
                            ELSE Append(items, <<line[i].word>>)
           at == [i \in DOMAIN line |-> i]
           Eq(iter) == iter = [t \in SUBSET DOMAIN at |->
                         IF t = {} THEN <<>> ELSE Cut(iter[t \ {Max(t)}], at[Max(t)])]
           chosen == CHOOSE iter : Eq(iter)
<1>1. n \in Nat /\ DOMAIN line = 1 .. n /\ DOMAIN at = 1 .. n /\ \A i \in 1 .. n : at[i] = i
  OBVIOUS
<1>2. Items(line) = Dropping(chosen[DOMAIN at], Mark)
  BY DEF Items, FoldLeftDomain, FoldLeft, MapThenFoldSet, Mark
<1>3. ASSUME NEW i \in 1 .. n, NEW items \in Parts PROVE h[i][items] = Cut(items, i)
  BY DEF CutSteps
<1> HIDE DEF Cut, h, at
<1>4. \E iter : Eq(iter)
  <2>1. PICK iter : IsIter(iter, n, Parts, <<>>, h)
    BY CutFold, IterExists DEF h
  <2>2. ASSUME NEW t \in SUBSET (1 .. n), t # {}
        PROVE  iter[t] = Cut(iter[t \ {Max(t)}], at[Max(t)])
    <3>1. Max(t) \in t
      BY <1>1, <2>2, GreatestPosition
    <3>2. Max(t) \in 1 .. n /\ iter[t \ {Max(t)}] \in Parts
      BY <2>1, <3>1 DEF IsIter
    <3>3. iter[t] = h[Max(t)][iter[t \ {Max(t)}]]
      BY <2>1, <2>2 DEF IsIter
    <3> QED BY <1>1, <1>3, <3>2, <3>3
  <2>3. iter \in [SUBSET (1 .. n) -> Parts] /\ iter[{}] = <<>>
    BY <2>1 DEF IsIter
  <2>4. \A t \in SUBSET (1 .. n) :
          iter[t] = IF t = {} THEN <<>> ELSE Cut(iter[t \ {Max(t)}], at[Max(t)])
    BY <2>2, <2>3
  <2>5. iter = [t \in SUBSET (1 .. n) |-> iter[t]]
    BY <2>3
  <2>6. iter = [t \in SUBSET (1 .. n) |->
                  IF t = {} THEN <<>> ELSE Cut(iter[t \ {Max(t)}], at[Max(t)])]
    BY <2>4, <2>5
  <2> QED BY <1>1, <2>6
<1>5. Eq(chosen)
  <2> HIDE DEF Eq
  <2> QED BY <1>4
<1>6. /\ w \in [0 .. n -> Parts] /\ w[0] = <<>>
      /\ \A k \in 1 .. n : w[k] = h[k][w[k - 1]]
  BY DEF IsTrace, h
<1>7. chosen[{}] = w[0]
  BY <1>5, <1>6
<1>8. ASSUME NEW k \in 1 .. n, chosen[1 .. k - 1] = w[k - 1]
      PROVE  chosen[1 .. k] = w[k]
  <2>1. 1 .. k # {} /\ Max(1 .. k) = k /\ (1 .. k) \ {k} = 1 .. k - 1
    <3>1. k \in Nat \ {0}
      BY <1>1
    <3> QED BY <3>1, LastPosition
  <2>2. chosen[1 .. k] = Cut(chosen[1 .. k - 1], k)
    <3>1. 1 .. k \in SUBSET DOMAIN at
      BY <1>1
    <3> HIDE DEF chosen
    <3> QED BY <1>1, <1>5, <2>1, <3>1
  <2>3. w[k - 1] \in Parts
    <3>1. k - 1 \in 0 .. n
      BY <1>1
    <3> QED BY <1>6, <3>1
  <2> QED BY <1>3, <1>6, <1>8, <2>2, <2>3
<1> HIDE DEF chosen
<1>9. chosen[1 .. n] = w[n]
  BY <1>1, <1>7, <1>8, IterFollows
<1> QED BY <1>1, <1>2, <1>9

\* The name that ends with piece k goes on with the next piece.
IsOpen(line, k) == k > 0 /\ k < Len(line) /\ ~Separates(line[k])

\* After k pieces the names so far have all words so far: a name that goes on
\* is no mark yet, whatever it says.
SameWords(line, items, k) ==
  /\ IsOpen(line, k) =>
       \E front \in Parts, last \in Seq(STRING) :
         /\ last # <<>> /\ items = Append(front, last)
         /\ WordsUpTo(line, k) = Flat(front) \o last
  /\ ~IsOpen(line, k) => WordsUpTo(line, k) = Flat(items)

LEMMA LongIsNoMark ==
  ASSUME NEW last \in Seq(STRING), last # <<>>, NEW word \in STRING
  PROVE  /\ Append(last, word) \in Seq(STRING) /\ Append(last, word) # <<>>
         /\ Append(last, word) # Mark
<1> PICK more : more = Append(last, word)
  OBVIOUS
<1>1. more \in Seq(STRING) /\ more # <<>> /\ Len(more) = Len(last) + 1
  BY AppendProperties
<1>2. Len(last) \in Nat /\ Len(last) # 0
  BY EmptySeq
<1>3. Len(Mark) = 1
  BY DEF Mark
<1>4. Len(more) # Len(Mark)
  BY <1>1, <1>2, <1>3
<1>5. more # Mark
  BY <1>4
<1> QED BY <1>1, <1>5

LEMMA OneMorePiece ==
  ASSUME NEW line \in Seq(Pieces), NEW k \in 0 .. Len(line) - 1,
         NEW items \in Parts, SameWords(line, items, k)
  PROVE  SameWords(line, CutSteps(line)[k + 1][items], k + 1)
<1> DEFINE n == Len(line)
           word == line[k + 1].word
           more == CutSteps(line)[k + 1][items]
           words == WordsUpTo(line, k)
           all == WordsUpTo(line, k + 1)
<1>1. n \in Nat /\ k \in Nat /\ k + 1 \in 1 .. n /\ (k + 1) - 1 = k /\ k < n
  OBVIOUS
<1>2. word \in STRING /\ <<word>> \in Seq(STRING) /\ <<word>> # <<>>
  BY <1>1, PieceWords
<1>3. words \in Seq(STRING) /\ all = IF IsMark(line, k + 1) THEN words ELSE words \o <<word>>
  BY OneMoreWord
<1>4. more = IF k > 0 /\ ~Separates(line[k])
             THEN [items EXCEPT ![Len(items)] = Append(items[Len(items)], word)]
             ELSE Append(items, <<word>>)
  <2>1. k + 1 > 1 <=> k > 0
    BY <1>1
  <2>2. more = IF k + 1 > 1 /\ ~Separates(line[(k + 1) - 1])
               THEN [items EXCEPT ![Len(items)] = Append(items[Len(items)], word)]
               ELSE Append(items, <<word>>)
    BY <1>1 DEF CutSteps
  <2> HIDE DEF more, word
  <2> QED BY <1>1, <2>1, <2>2
<1> HIDE DEF n, word, more, words, all
<1>5. CASE IsOpen(line, k)
  <2>1. PICK front \in Parts, last \in Seq(STRING) :
          last # <<>> /\ items = Append(front, last) /\ words = Flat(front) \o last
    BY <1>5 DEF SameWords, words
  <2> DEFINE longer == Append(last, word)
  <2>2. longer \in Seq(STRING) /\ longer # <<>> /\ longer # Mark
    BY <1>2, <2>1, LongIsNoMark
  <2>3. more = Append(front, longer)
    <3>1. more = [items EXCEPT ![Len(items)] = Append(items[Len(items)], word)]
      BY <1>4, <1>5 DEF IsOpen
    <3>2. front \in Seq(Seq(STRING))
      BY DEF Parts
    <3> DEFINE V == Seq(STRING)
    <3>3. front \in Seq(V) /\ last \in V /\ longer \in V
      BY <2>2, <3>2
    <3> HIDE DEF V, longer
    <3>4. Len(items) = Len(front) + 1 /\ items[Len(items)] = last
      BY <2>1, <3>3
    <3>5. more = [items EXCEPT ![Len(front) + 1] = longer]
      BY <3>1, <3>4 DEF longer
    <3>6. [Append(front, last) EXCEPT ![Len(front) + 1] = longer] = Append(front, longer)
      <4> DEFINE m == Len(front) + 1
                 a == Append(front, last)
                 b == Append(front, longer)
                 c == [a EXCEPT ![m] = longer]
      <4>1. /\ a \in Seq(V) /\ Len(a) = m /\ b \in Seq(V) /\ Len(b) = m /\ b[m] = longer
            /\ Len(front) \in Nat
            /\ \A i \in 1 .. Len(front) : a[i] = front[i] /\ b[i] = front[i]
        BY <3>3, AppendProperties
      <4> HIDE DEF a, b
      <4>2. m \in 1 .. Len(a)
        BY <4>1
      <4>3. /\ c \in Seq(V) /\ Len(c) = m
            /\ \A i \in 1 .. m : c[i] = IF i = m THEN longer ELSE a[i]
        BY <3>3, <4>1, <4>2, ExceptSeq
      <4>4. \A i \in 1 .. m : c[i] = b[i]
        BY <4>1, <4>3
      <4> HIDE DEF c, m
      <4>5. c = b
        BY <4>1, <4>3, <4>4, SeqEqual
      <4> QED BY <4>5 DEF a, b, c, m
    <3> QED BY <2>1, <3>5, <3>6
  <2>4. all = Flat(front) \o longer
    <3>1. ~IsMark(line, k + 1)
      BY <1>1, <1>5 DEF IsMark, IsOpen
    <3>2. Flat(front) \in Seq(STRING)
      BY FlatAppend
    <3>3. all = (Flat(front) \o last) \o <<word>>
      BY <1>3, <2>1, <3>1
    <3>4. (Flat(front) \o last) \o <<word>> = Flat(front) \o (last \o <<word>>)
      BY <1>2, <3>2, ConcatAssociative
    <3>5. last \o <<word>> = longer
      BY <1>2, AppendIsConcat
    <3> QED BY <3>3, <3>4, <3>5
  <2> HIDE DEF longer
  <2>5. Flat(more) = Flat(front) \o longer
    BY <2>2, <2>3, FlatAppend
  <2> QED BY <2>2, <2>3, <2>4, <2>5 DEF SameWords, more, all
<1>6. CASE ~IsOpen(line, k)
  <2>1. more = Append(items, <<word>>) /\ (k = 0 \/ Separates(line[k]))
    BY <1>1, <1>4, <1>6 DEF IsOpen, n
  <2>2. words = Flat(items)
    BY <1>6 DEF SameWords, words
  <2>3. IsMark(line, k + 1) <=> word = "*" /\ ~IsOpen(line, k + 1)
    BY <1>1, <2>1 DEF IsMark, IsOpen, n, word
  <2>4. <<word>> = Mark <=> word = "*"
    BY DEF Mark
  <2>5. Flat(more) = IF word = "*" THEN Flat(items) ELSE Flat(items) \o <<word>>
    BY <1>2, <2>1, <2>4, FlatAppend
  <2>6. CASE IsOpen(line, k + 1)
    <3>1. all = Flat(items) \o <<word>>
      BY <1>3, <2>2, <2>3, <2>6
    <3> QED BY <1>2, <2>1, <2>6, <3>1 DEF SameWords, more, all
  <2>7. CASE ~IsOpen(line, k + 1)
    <3>1. all = Flat(more)
      BY <1>3, <2>2, <2>3, <2>5, <2>7
    <3> QED BY <2>7, <3>1 DEF SameWords, more, all
  <2> QED BY <2>6, <2>7
<1> QED BY <1>5, <1>6

LEMMA NamesAreKept ==
  ASSUME NEW line \in Seq(Pieces)
  PROVE  FlattenSeq(Items(line)) = WordsUpTo(line, Len(line))
<1> DEFINE n == Len(line)
           h == CutSteps(line)
<1>1. PICK w : IsTrace(w, n, Parts, <<>>, h)
  BY CutFold, TraceExists
<1>2. /\ n \in Nat /\ w \in [0 .. n -> Parts] /\ w[0] = <<>>
      /\ \A k \in 1 .. n : w[k] = h[k][w[k - 1]]
  BY <1>1 DEF IsTrace
<1> DEFINE Same == {k \in 0 .. n : SameWords(line, w[k], k)}
<1>3. 0 \in Same
  <2>1. WordsUpTo(line, 0) = <<>>
    BY DEF WordsUpTo, FlattenSeq
  <2>2. Flat(<<>>) = <<>>
    BY DroppingEmpty DEF Flat, FlattenSeq
  <2> QED BY <1>2, <2>1, <2>2 DEF SameWords, IsOpen
<1>4. ASSUME NEW k \in 0 .. n - 1, k \in Same PROVE k + 1 \in Same
  <2>1. k + 1 \in 1 .. n /\ (k + 1) - 1 = k /\ k \in 0 .. n /\ k + 1 \in 0 .. n
    BY <1>2
  <2>2. w[k + 1] = h[k + 1][w[k]] /\ w[k] \in Parts
    BY <1>2, <2>1
  <2>3. SameWords(line, w[k], k)
    BY <1>4
  <2>4. SameWords(line, h[k + 1][w[k]], k + 1)
    BY <2>2, <2>3, OneMorePiece
  <2> QED BY <2>1, <2>2, <2>4
<1> HIDE DEF Same, n, h
<1>5. \A k \in 0 .. n : k \in Same
  BY <1>2, <1>3, <1>4, UpTo
<1>6. SameWords(line, w[n], n)
  <2>1. n \in 0 .. n
    BY <1>2
  <2> QED BY <1>5, <2>1 DEF Same
<1>7. ~IsOpen(line, n)
  BY <1>2 DEF IsOpen, n
<1>8. Items(line) = Dropping(w[n], Mark)
  BY <1>1, CutFollows DEF n, h
<1> QED BY <1>6, <1>7, <1>8 DEF SameWords, Flat, n

\* The lines of a composition on a card.
LEMMA LinesOfCard ==
  ASSUME NEW l \in Links, NEW card \in Cards[l]
  PROVE  HtmlToText(SectionNamed(card, "ingredients").content) \in Seq(Seq(Pieces))
<1> DEFINE list == card.sections
           found == {i \in DOMAIN list : list[i].text = "ingredients"}
           section == SectionNamed(card, "ingredients")
           V == Seq(Pieces)
<1>1. list \in Seq(Sections) /\ DOMAIN list = 1 .. Len(list) /\ Len(list) \in Nat
  <2>1. list \in Seq(Sections)
    BY CardsAssumption
  <2> HIDE DEF list
  <2> QED BY <2>1
<1>2. section = IF found # {} THEN list[Min(found)] ELSE NoSection
  BY DEF SectionNamed, FindSection
<1> HIDE DEF list, section
<1>3. section.content \in Seq(V)
  <2>1. CASE found = {}
    <3>1. section.content = <<>>
      BY <1>2, <2>1 DEF NoSection
    <3> QED BY <3>1
  <2>2. CASE found # {}
    <3>1. \E i \in found : \A j \in found : i <= j
      BY <1>1, <2>2, SmallestPosition
    <3>2. Min(found) \in found
      BY <3>1 DEF Min
    <3>3. section \in Sections
      <4>1. Min(found) \in 1 .. Len(list)
        BY <1>1, <3>2
      <4> HIDE DEF found
      <4> QED BY <1>1, <1>2, <2>2, <4>1
    <3>4. section.content \in Seq(Seq(Pieces))
      BY <3>3 DEF Sections
    <3> QED BY <3>4
  <2> QED BY <2>1, <2>2
<1>4. Dropping(section.content, <<>>) \in Seq(V)
  <2>1. <<>> \in V
    OBVIOUS
  <2> HIDE DEF V
  <2> QED BY <1>3, <2>1, DroppingAppend
<1> QED BY <1>4 DEF HtmlToText, section

\* Cutting the composition loses no name, and takes nothing from the
\* explanations under it (split_ingredients).
THEOREM CompositionStays == PageSpec => []CompositionKept
<1>1. ASSUME DataInv, CardInv PROVE CompositionKept
  <2> SUFFICES ASSUME At("fill")
               PROVE  FlattenSeq(task.parsed.ingredients_list) = CompositionWords(task.card)
    BY DEF CompositionKept
  <2>1. PICK card, link : card = task.card /\ link = task.link
    OBVIOUS
  <2>2. link \in Links /\ card \in Cards[link]
    BY <1>1, <2>1 DEF DataInv, TaskInv, CardInv, At
  <2>3. PICK raw : raw = Extract(card, link)
    OBVIOUS
  <2>4. raw.ingredients = SectionNamed(card, "ingredients").content
    BY <2>3 DEF Extract, FieldsOfCard
  <2>5. PICK lines : lines = HtmlToText(SectionNamed(card, "ingredients").content)
    OBVIOUS
  <2>6. /\ "ingredients_list" \in DOMAIN Normalize(raw)
        /\ Normalize(raw).ingredients_list = SplitIngredients(HtmlToText(raw.ingredients))
    BY DEF Normalize, TEXT_FIELDS, HTML_FIELDS, NUMBER_FIELDS
  <2>7. task.parsed.ingredients_list = SplitIngredients(lines)
    BY <1>1, <2>1, <2>3, <2>4, <2>5, <2>6 DEF CardInv, Found, At
  <2>8. lines \in Seq(Seq(Pieces))
    BY <2>2, <2>5, LinesOfCard
  <2>9. CASE lines = <<>>
    <3>1. SplitIngredients(lines) = <<>> /\ FlattenSeq(<<>>) = <<>>
      BY <2>9 DEF SplitIngredients, FlattenSeq
    <3>2. CompositionWords(card) = <<>>
      <4>1. PICK line : line = <<>>
        OBVIOUS
      <4> DEFINE words == [i \in DOMAIN line |->
                             IF IsMark(line, i) THEN <<>> ELSE <<line[i].word>>]
      <4>2. CompositionWords(card) = FlattenSeq(words)
        BY <2>5, <2>9, <4>1 DEF CompositionWords
      <4>3. words = <<>>
        BY <4>1
      <4> HIDE DEF words
      <4> QED BY <3>1, <4>2, <4>3
    <3> QED BY <2>1, <2>7, <3>1, <3>2
  <2>10. CASE lines # <<>>
    <3>1. PICK line : line = Head(lines)
      OBVIOUS
    <3>2. line \in Seq(Pieces) /\ DOMAIN line = 1 .. Len(line)
      <4>1. line \in Seq(Pieces)
        BY <2>8, <2>10, <3>1
      <4> QED BY <4>1
    <3>3. SplitIngredients(lines) = Items(line)
      BY <2>10, <3>1 DEF SplitIngredients
    <3>4. CompositionWords(card) = WordsUpTo(line, Len(line))
      BY <2>5, <2>10, <3>1, <3>2 DEF CompositionWords, WordsUpTo
    <3> QED BY <2>1, <2>7, <3>2, <3>3, <3>4, NamesAreKept
  <2> QED BY <2>9, <2>10
<1> QED BY <1>1, DataInductive, CardInductive, PTL

-----------------------------------------------------------------------------
(* The pool                                                                *)

\* The key has a good list, as it was saved.
KeyInv ==
  /\ proxyKey = [at |-> proxyKey.at, proxies |-> proxyKey.proxies]
  /\ proxyKey.at = 0 => proxyKey.proxies = <<>>
  /\ \E list : GoodList(list) /\ proxyKey.proxies = SaveProxies(list)

\* No pool is of a list that is newer than the key.
PoolInv ==
  /\ DataInv
  /\ KeyInv
  /\ {proxyKey.at, parser.from} \subseteq 0 .. MaxRefreshes /\ parser.from <= proxyKey.at
  /\ GoodList(parser.pool)
  /\ thrown \subseteq Proxies /\ ToSet(parser.pool) \cap thrown = {}
  /\ At("fetch") => Contains(parser.pool, task.proxy)
  /\ PoolIsOfItsList

\* A proxy of the pool is thrown out: the pool gets shorter, and the proxy is
\* not in it a second time.
LEMMA ThrowOutOne ==
  ASSUME PoolInv, NEW p, Contains(parser.pool, p), ThrowOut(p)
  PROVE  /\ GoodList(parser'.pool) /\ parser'.from = parser.from
         /\ Len(parser'.pool) < Len(parser.pool)
         /\ thrown' \subseteq Proxies /\ ToSet(parser'.pool) \cap thrown' = {}
         /\ UNCHANGED proxyKey => PoolIsOfItsList'
<1> DEFINE pool == parser.pool
<1>1. pool \in Seq(Proxies) /\ NoneTwice(pool) /\ ToSet(pool) \cap thrown = {}
  BY DEF PoolInv, GoodList
<1>2. /\ parser'.pool = Without(pool, p) /\ parser'.from = parser.from
      /\ thrown' = thrown \cup {p}
  BY DEF ThrowOut, PoolInv, DataInv, ParserRow
<1> HIDE DEF pool
<1>3. /\ Without(pool, p) \in Seq(Proxies) /\ Len(Without(pool, p)) = Len(pool) - 1
      /\ NoneTwice(Without(pool, p)) /\ ToSet(Without(pool, p)) = ToSet(pool) \ {p}
  BY <1>1, WithoutOne DEF pool
<1>4. Len(pool) \in Nat
  BY <1>1
<1>5. Len(parser'.pool) < Len(pool)
  BY <1>2, <1>3, <1>4
<1>6. ToSet(parser'.pool) \cap thrown' = {}
  BY <1>1, <1>2, <1>3
<1>7. thrown' \subseteq Proxies
  <2>1. p \in Proxies /\ thrown \subseteq Proxies
    BY <1>1 DEF PoolInv, Contains, pool
  <2> QED BY <1>2, <2>1
<1>8. ASSUME UNCHANGED proxyKey PROVE PoolIsOfItsList'
  <2>1. p \in ToSet(pool)
    BY DEF Contains, ToSet, pool
  <2>2. ToSet(parser'.pool) \cup thrown' = ToSet(pool) \cup thrown
    BY <1>2, <1>3, <2>1
  <2>3. parser'.made = parser.made
    BY DEF ThrowOut, PoolInv, DataInv, ParserRow
  <2> QED BY <1>2, <1>8, <2>2, <2>3 DEF PoolInv, PoolIsOfItsList, pool
<1> QED BY <1>2, <1>3, <1>5, <1>6, <1>7, <1>8 DEF GoodList, pool

\* What is loaded from the key.
LEMMA KeyLoads ==
  ASSUME KeyInv
  PROVE  /\ GoodList(LoadProxies(proxyKey.proxies))
         /\ LoadProxies(proxyKey.proxies) # <<>> <=>
              \E i \in DOMAIN proxyKey.proxies : IsProxy(proxyKey.proxies[i])
         /\ ToSet(proxyKey.proxies) \subseteq {Server(p) : p \in Proxies}
         /\ LoadProxies(proxyKey.proxies) # <<>> => proxyKey.at # 0
<1>1. PICK list : GoodList(list) /\ proxyKey.proxies = SaveProxies(list)
  BY DEF KeyInv
<1>2. /\ GoodList(LoadProxies(proxyKey.proxies))
      /\ LoadProxies(proxyKey.proxies) # <<>> <=>
           \E i \in DOMAIN proxyKey.proxies : IsProxy(proxyKey.proxies[i])
      /\ ToSet(proxyKey.proxies) \subseteq {Server(p) : p \in Proxies}
  BY <1>1, GoodListLoads
<1>3. proxyKey.at = 0 => DOMAIN proxyKey.proxies = {}
  BY DEF KeyInv
<1> QED BY <1>2, <1>3

\* The pool a task starts with.
LEMMA PoolOfStart ==
  ASSUME PoolInv, NEW up \in BOOLEAN, GetParser(up), UNCHANGED proxyKey
  PROVE  /\ GoodList(parser'.pool) /\ (FileProxies # <<>> => parser'.pool # <<>>)
         /\ thrown' \subseteq Proxies /\ ToSet(parser'.pool) \cap thrown' = {}
         /\ parser'.from =
              IF up /\ \E i \in DOMAIN proxyKey.proxies : IsProxy(proxyKey.proxies[i])
              THEN proxyKey.at ELSE 0
         /\ PoolIsOfItsList'
<1> DEFINE list == LoadProxies(proxyKey.proxies)
           fresh == up /\ list # <<>>
           at == IF fresh THEN proxyKey.at ELSE 0
           pool == IF fresh THEN list ELSE FileProxies
<1>1. IF KeepsParser(at) THEN UNCHANGED <<parser, thrown>>
      ELSE parser' = [made |-> TRUE, pool |-> pool, from |-> at] /\ thrown' = {}
  <2>1. GoodList(list) /\ (list # <<>> => proxyKey.at # 0)
    BY KeyLoads DEF PoolInv
  <2>2. Stored(up).at = at /\ PoolOf(Stored(up)) = pool
    <3>1. CASE fresh
      BY <2>1, <3>1 DEF Stored, PoolOf, NoList
    <3>2. CASE ~fresh
      BY <3>2 DEF Stored, PoolOf, NoList
    <3> QED BY <3>1, <3>2
  <2> HIDE DEF at, pool, fresh
  <2> QED BY <2>2 DEF GetParser
<1>2. GoodList(list) /\ (list # <<>> => proxyKey.at # 0)
      /\ (list # <<>> <=> \E i \in DOMAIN proxyKey.proxies : IsProxy(proxyKey.proxies[i]))
  BY KeyLoads DEF PoolInv
<1> HIDE DEF list
<1>3. GoodList(pool) /\ (FileProxies # <<>> => pool # <<>>)
  BY <1>2, SourcesAreGood
<1>4. at = IF up /\ \E i \in DOMAIN proxyKey.proxies : IsProxy(proxyKey.proxies[i])
           THEN proxyKey.at ELSE 0
  BY <1>2
<1>5. /\ at = 0 => pool = FileProxies
      /\ at > 0 => pool = list
  BY <1>2
<1> HIDE DEF at, pool, fresh
<1>6. CASE KeepsParser(at)
  <2>1. UNCHANGED <<parser, thrown>> /\ parser.pool # <<>> /\ parser.from = at
    BY <1>1, <1>6 DEF KeepsParser
  <2>2. PoolIsOfItsList'
    BY <2>1 DEF PoolInv, PoolIsOfItsList
  <2> QED BY <1>4, <2>1, <2>2 DEF PoolInv
<1>7. CASE ~KeepsParser(at)
  <2>1. parser' = [made |-> TRUE, pool |-> pool, from |-> at] /\ thrown' = {}
    BY <1>1, <1>7
  <2>2. PoolIsOfItsList'
    BY <1>5, <2>1 DEF PoolIsOfItsList, list
  <2> QED BY <1>3, <1>4, <2>1, <2>2
<1> QED BY <1>6, <1>7

LEMMA PoolStep ==
  ASSUME PoolInv, [PageNext]_pageVars
  PROVE  PoolInv'
<1>0. DataInv'
  BY DataStep DEF PoolInv
<1>k. UNCHANGED proxyKey => KeyInv'
  BY DEF PoolInv, KeyInv
<1>1. CASE RefreshProxies
  <2>1. PICK list \in SiteLists \ {<<>>} :
          proxyKey' = [at |-> proxyKey.at + 1, proxies |-> SaveProxies(list)]
    BY <1>1 DEF RefreshProxies
  <2>2. GoodList(list)
    BY SourcesAreGood
  <2>3. UNCHANGED <<parser, thrown, task>>
    BY <1>1 DEF RefreshProxies
  <2>4. proxyKey.at + 1 \in 0 .. MaxRefreshes /\ proxyKey.at + 1 # 0
        /\ parser.from <= proxyKey.at + 1 /\ parser.from # proxyKey.at + 1
    BY <1>1, PageBoundsAssumption DEF RefreshProxies, PoolInv
  <2>5. proxyKey'.at = proxyKey.at + 1 /\ proxyKey'.proxies = SaveProxies(list)
        /\ proxyKey' = [at |-> proxyKey'.at, proxies |-> proxyKey'.proxies]
    BY <2>1
  <2>6. KeyInv'
    BY <2>2, <2>4, <2>5 DEF KeyInv
  <2>7. PoolIsOfItsList'
    BY <2>3, <2>4, <2>5 DEF PoolInv, PoolIsOfItsList
  <2> QED BY <1>0, <2>3, <2>4, <2>5, <2>6, <2>7 DEF PoolInv, At
<1>2. ASSUME NEW l \in Links, NEW up \in BOOLEAN, StartParse(l, up) PROVE PoolInv'
  <2>1. GetParser(up)
    BY <1>2 DEF StartParse
  <2>2. ~(At("fetch")') /\ UNCHANGED proxyKey
    BY <1>2 DEF StartParse, At, NoTask
  <2>3. parser'.from \in {proxyKey.at, 0} /\ 0 \in 0 .. MaxRefreshes /\ 0 <= proxyKey.at
    BY <2>1, <2>2, PageBoundsAssumption, PoolOfStart DEF PoolInv
  <2>4. parser'.from \in 0 .. MaxRefreshes /\ parser'.from <= proxyKey.at
    BY <2>3 DEF PoolInv
  <2> QED BY <1>0, <1>k, <2>1, <2>2, <2>4, PoolOfStart DEF PoolInv
<1>3. CASE ProxyAlive
  <2>1. Contains(parser.pool, Head(parser.pool))
    <3>1. parser.pool \in Seq(Proxies) /\ parser.pool # <<>>
      BY <1>3 DEF ProxyAlive, PoolInv, GoodList
    <3> QED BY <3>1 DEF Contains
  <2>2. task'.proxy = Head(parser.pool)
    BY <1>3 DEF ProxyAlive, PoolInv, DataInv, TaskInv
  <2>3. UNCHANGED <<proxyKey, parser, thrown>>
    BY <1>3 DEF ProxyAlive
  <2>4. PoolIsOfItsList'
    BY <2>3 DEF PoolInv, PoolIsOfItsList
  <2> QED BY <1>0, <1>k, <2>1, <2>2, <2>3, <2>4 DEF PoolInv
<1>4. CASE ProxyDead
  <2>1. Contains(parser.pool, Head(parser.pool))
    <3>1. parser.pool \in Seq(Proxies) /\ parser.pool # <<>>
      BY <1>4 DEF ProxyDead, PoolInv, GoodList
    <3> QED BY <3>1 DEF Contains
  <2>2. ThrowOut(Head(parser.pool)) /\ ~(At("fetch")') /\ UNCHANGED proxyKey
    BY <1>4 DEF ProxyDead, At
  <2> QED BY <1>0, <1>k, <2>1, <2>2, ThrowOutOne DEF PoolInv
<1>5. CASE SiteBlocks
  <2>1. Contains(parser.pool, task.proxy) /\ ThrowOut(task.proxy) /\ UNCHANGED proxyKey
    BY <1>5 DEF SiteBlocks, PoolInv
  <2>2. ~(At("fetch")')
    BY <1>5 DEF SiteBlocks, At, PoolInv, DataInv, TaskInv
  <2> QED BY <1>0, <1>k, <2>1, <2>2, ThrowOutOne DEF PoolInv
<1>6. CASE Restart
  <2>1. GoodList(<<>>) /\ ToSet(<<>>) = {}
    BY DEF GoodList, NoneTwice, ToSet
  <2>2. /\ parser'.pool = <<>> /\ parser'.from = 0 /\ thrown' = {}
        /\ parser'.made = FALSE /\ ~(At("fetch")') /\ UNCHANGED proxyKey
    BY <1>6 DEF Restart, NoParser, NoTask, At
  <2>3. 0 \in 0 .. MaxRefreshes /\ 0 <= proxyKey.at
    BY PageBoundsAssumption DEF PoolInv
  <2>4. PoolIsOfItsList'
    BY <2>2 DEF PoolIsOfItsList
  <2> QED BY <1>0, <1>k, <2>1, <2>2, <2>3, <2>4 DEF PoolInv
<1>7. CASE UNCHANGED <<proxyKey, parser, thrown>> /\ (~(At("fetch")') \/ UNCHANGED task)
  <2>1. PoolIsOfItsList'
    BY <1>7 DEF PoolInv, PoolIsOfItsList
  <2> QED BY <1>0, <1>k, <1>7, <2>1 DEF PoolInv, At
<1>8. \/ RefreshProxies \/ (\E l \in Links, up \in BOOLEAN : StartParse(l, up)) \/ ProxyAlive \/ ProxyDead
      \/ SiteBlocks \/ Restart
      \/ UNCHANGED <<proxyKey, parser, thrown>> /\ (~(At("fetch")') \/ UNCHANGED task)
  <2>1. CASE NoneAlive \/ NoCard \/ TimeLimit \/ Fill \/ FillFails
    BY <2>1 DEF NoneAlive, NoCard, TimeLimit, Fill, FillFails, Fails, NoTask, At
  <2>2. CASE CardComes \/ NoImage \/ ImageStored
    <3>1. task = [at |-> task.at, link |-> task.link, proxy |-> task.proxy,
                  card |-> task.card, parsed |-> task.parsed]
      BY DEF PoolInv, DataInv, TaskInv
    <3>2. CASE CardComes
      BY <3>1, <3>2 DEF CardComes, At
    <3>3. CASE NoImage
      BY <3>1, <3>3 DEF NoImage, At
    <3>4. CASE ImageStored
      <4>1. PICK parsed : task' = [task EXCEPT !.at = "fill", !.parsed = parsed]
        BY <3>4 DEF ImageStored
      <4>2. task'.at = "fill"
        BY <3>1, <4>1
      <4> QED BY <3>4, <4>2 DEF ImageStored, At
    <3> QED BY <2>2, <3>2, <3>3, <3>4
  <2>3. CASE UNCHANGED pageVars
    BY <2>3 DEF pageVars
  <2> QED BY <2>1, <2>2, <2>3 DEF PageNext
<1> QED BY <1>1, <1>2, <1>3, <1>4, <1>5, <1>6, <1>7, <1>8

\* The pool of a process and the list in Redis name each proxy once, the proxy
\* a task is using is in the pool, and the time of the pool is of its list.
THEOREM PoolInductive == PageSpec => []PoolInv
<1>1. PageInit => PoolInv
  <2> SUFFICES ASSUME PageInit PROVE PoolInv
    OBVIOUS
  <2>1. GoodList(<<>>) /\ ToSet(<<>>) = {}
    BY DEF GoodList, NoneTwice, ToSet
  <2>2. 0 \in 0 .. MaxRefreshes
    BY PageBoundsAssumption
  <2>3. KeyInv
    <3>1. SaveProxies(<<>>) = <<>>
      BY DEF SaveProxies
    <3> QED BY <2>1, <3>1 DEF PageInit, NoList, KeyInv
  <2>4. PoolIsOfItsList
    BY DEF PageInit, NoParser, PoolIsOfItsList
  <2> QED BY <2>1, <2>2, <2>3, <2>4, DataInit
          DEF PageInit, PoolInv, NoList, NoParser, NoTask, At
<1>2. PoolInv /\ [PageNext]_pageVars => PoolInv'
  BY PoolStep
<1> QED BY <1>1, <1>2, PTL DEF PageSpec

\* Type invariant: the pool, and what was thrown out, are proxies of the
\* sources, and the proxy a task is using is in the pool.
THEOREM PagesAreTyped == PageSpec => []PageTypeOK
<1>1. PoolInv => PageTypeOK
  <2> SUFFICES ASSUME PoolInv PROVE PageTypeOK
    OBVIOUS
  <2>1. /\ ToSet(proxyKey.proxies) \subseteq {Server(p) : p \in Proxies}
        /\ ToSet(parser.pool) \subseteq Proxies
    <3>1. ToSet(parser.pool) \subseteq Proxies
      BY DEF PoolInv, GoodList, ToSet
    <3> QED BY <3>1, KeyLoads DEF PoolInv
  <2>2. \A l \in Links : product[l].status \in FillStatuses
    BY DEF PoolInv, DataInv, ProductsInv, ProductRow
  <2>3. parser.made \in BOOLEAN /\ task.at \in {"idle", "check", "fetch", "image", "fill"}
        /\ (~At("idle") => task.link \in Links /\ parser.made)
    BY DEF PoolInv, DataInv, ParserRow, TaskInv
  <2> QED BY <2>1, <2>2, <2>3 DEF PoolInv, PageTypeOK, FillStatuses
<1> QED BY <1>1, PoolInductive, PTL

\* A proxy that was thrown out is not in the pool before it is built anew.
THEOREM ThrownProxiesStayOut == PageSpec => []ThrownStayOut
<1>1. PoolInv => ThrownStayOut
  BY DEF PoolInv, ThrownStayOut
<1> QED BY <1>1, PoolInductive, PTL

\* The time kept with a pool tells which list it is of (_get_parser): a pool
\* with the time of the key has its proxies, and one without a time the file's,
\* but for those that were thrown out.
THEOREM PoolsAreOfTheirLists == PageSpec => []PoolIsOfItsList
<1>1. PoolInv => PoolIsOfItsList
  BY DEF PoolInv
<1> QED BY <1>1, PoolInductive, PTL

\* Each round of fetch_card_via_pool leaves a smaller pool: its loop ends.
THEOREM RoundsEnd == PageSpec => RoundsShrinkPool
<1> DEFINE Shrinks == At("fetch") /\ task'.at = "check" => Len(parser'.pool) < Len(parser.pool)
<1>1. PoolInv /\ [PageNext]_pageVars => Shrinks
  <2> SUFFICES ASSUME PoolInv, [PageNext]_pageVars, At("fetch"), task'.at = "check"
               PROVE  Len(parser'.pool) < Len(parser.pool)
    OBVIOUS
  <2>1. SiteBlocks
    <3>1. ~NoneAlive /\ ~NoCard /\ ~TimeLimit /\ ~Fill /\ ~FillFails /\ ~Restart
      BY DEF NoneAlive, NoCard, TimeLimit, Fill, FillFails, Fails, Restart, NoTask
    <3>2. ~CardComes /\ ~NoImage /\ ~ImageStored /\ ~ProxyAlive /\ ~ProxyDead
      BY DEF CardComes, NoImage, ImageStored, ProxyAlive, ProxyDead, At, PoolInv, DataInv, TaskInv
    <3>3. ~RefreshProxies /\ ~(UNCHANGED pageVars) /\ \A l \in Links, up \in BOOLEAN : ~StartParse(l, up)
      BY DEF RefreshProxies, pageVars, StartParse, At
    <3> QED BY <3>1, <3>2, <3>3 DEF PageNext
  <2>2. Contains(parser.pool, task.proxy) /\ ThrowOut(task.proxy)
    BY <2>1 DEF SiteBlocks, PoolInv
  <2> QED BY <2>2, ThrowOutOne
<1> QED BY <1>1, PoolInductive, PTL DEF PageSpec, RoundsShrinkPool, Shrinks

\* No task starts with an empty pool.  It starts with the newest list when it
\* reaches Redis and that list loads, and otherwise with the file.  The file of
\* the repository has proxies.
THEOREM TasksHaveProxies ==
  ASSUME FileProxies # <<>>
  PROVE  PageSpec => StartsWithProxies
<1> DEFINE Starts ==
             At("idle") /\ task'.at = "check" =>
               \A l \in Links, redisUp \in BOOLEAN :
                 StartParse(l, redisUp) =>
                   /\ parser'.pool # <<>>
                   /\ parser'.from =
                        IF redisUp /\ \E i \in DOMAIN proxyKey.proxies : IsProxy(proxyKey.proxies[i])
                        THEN proxyKey.at ELSE 0
<1>1. PoolInv => Starts
  <2> SUFFICES ASSUME PoolInv, NEW l \in Links, NEW redisUp \in BOOLEAN, StartParse(l, redisUp)
               PROVE  /\ parser'.pool # <<>>
                      /\ parser'.from =
                           IF redisUp /\ \E i \in DOMAIN proxyKey.proxies : IsProxy(proxyKey.proxies[i])
                           THEN proxyKey.at ELSE 0
    OBVIOUS
  <2>1. GetParser(redisUp) /\ UNCHANGED proxyKey
    BY DEF StartParse
  <2> QED BY <2>1, PoolOfStart
<1> QED BY <1>1, PoolInductive, PTL DEF PageSpec, StartsWithProxies, Starts
===============================================================================
