------------------------- MODULE AnalysisFlow_proofs -------------------------
(***************************************************************************)
(* Proofs about AnalysisFlow, for any number of workers, selections,       *)
(* steps, accounts, runs and faults: type correctness, the order of the    *)
(* saved steps, that no saved step is paid again while the lock of the     *)
(* selection holds, that a composition is asked for element by element,    *)
(* what its PDF shows, its price, and the limits of the limiter.           *)
(***************************************************************************)
EXTENDS AnalysisFlow, FoldFacts, SequenceTheorems

-----------------------------------------------------------------------------
(* Lists of steps                                                          *)

RequestRow == [step : Nat, details : {Request[p][n] : p \in Products, n \in Nat}]
AnswerRow == [step : Nat, answer : {AnswerOf[p][n][t] : p \in Products, n \in Nat, t \in Texts}]
Prices == {NoCost} \cup {PriceOf(list) : list \in Seq(AnswerRow)}

\* The rows of a list are those of the steps 1 to n.
InOrder(list, n) ==
  /\ Len(list) = n
  /\ \A i \in 1 .. n : list[i].step = i

LEMMA InOrderIsFirstSteps ==
  ASSUME NEW S, NEW list \in Seq(S), NEW n \in Nat, InOrder(list, n)
  PROVE  StepsOf(list) = FirstSteps(n)
<1>1. DOMAIN list = 1 .. n
  BY DEF InOrder
<1> QED BY <1>1 DEF InOrder, StepsOf, FirstSteps

LEMMA EmptyInOrder == InOrder(<<>>, 0)
BY DEF InOrder

LEMMA AppendInOrder ==
  ASSUME NEW S, NEW list \in Seq(S), NEW n \in Nat, InOrder(list, n),
         NEW row \in S, row.step = n + 1
  PROVE  Append(list, row) \in Seq(S) /\ InOrder(Append(list, row), n + 1)
<1>1. Len(list) = n
  BY DEF InOrder
<1>2. /\ Append(list, row) \in Seq(S)
      /\ Len(Append(list, row)) = n + 1
      /\ \A i \in 1 .. n : Append(list, row)[i] = list[i]
      /\ Append(list, row)[n + 1] = row
  BY <1>1, AppendProperties
<1>3. ASSUME NEW i \in 1 .. n + 1 PROVE Append(list, row)[i].step = i
  BY <1>2, i \in 1 .. n \/ i = n + 1 DEF InOrder
<1> QED BY <1>2, <1>3 DEF InOrder

-----------------------------------------------------------------------------
(* The plan: the slices of the composition                                 *)

LEMMA Tables ==
  ASSUME NEW p \in Products, NEW n \in StepNumbers(p)
  PROVE  /\ Request[p][n] = RequestDetails(p, n)
         /\ \A t \in Texts : AnswerOf[p][n][t] = Answer(p, n, t)
BY DEF Request, AnswerOf, Table

Names == STRING \X STRING

LEMMA DivMod ==
  ASSUME NEW a \in Nat, NEW b \in Nat \ {0}
  PROVE  a \div b \in Nat /\ (a \div b) * b <= a /\ a < (a \div b) * b + b
OBVIOUS

LEMMA Times ==
  ASSUME NEW a \in Int, NEW b \in Int, NEW z \in Nat, a <= b
  PROVE  a * z <= b * z /\ a * z \in Int /\ (a - 1) * z = a * z - z
OBVIOUS

\* The names of step i come after the first StartOf(i) ones and end with
\* name EndOf(composition, i).
StartOf(i) == (i - 1) * StepSize
EndOf(composition, i) ==
  IF StartOf(i) + StepSize <= Len(composition) THEN StartOf(i) + StepSize
  ELSE Len(composition)

LEMMA StartsOfSteps ==
  ASSUME NEW L \in Nat, NEW E, E = (L + StepSize - 1) \div StepSize
  PROVE  /\ E \in Nat /\ L <= StartOf(E) + StepSize /\ (E = 0 => L = 0)
         /\ \A i \in 1 .. E : /\ StartOf(i) \in Nat /\ StartOf(i) < L
                              /\ i = 1 => StartOf(i) = 0
                              /\ i > 1 => StartOf(i) = StartOf(i - 1) + StepSize
<1> DEFINE Z == StepSize
<1>1. Z \in Nat \ {0} /\ L + Z - 1 \in Nat
  BY StepSizeAssumption
<1> HIDE DEF Z
<1>2. E = (L + Z - 1) \div Z
  BY DEF Z
<1>3. E \in Nat /\ E * Z <= L + Z - 1 /\ L + Z - 1 < E * Z + Z
  BY <1>1, <1>2, DivMod
<1>4. E * Z \in Int /\ (E - 1) * Z = E * Z - Z
  BY <1>1, <1>3, Times
<1>5. StartOf(E) = (E - 1) * Z
  BY DEF StartOf, Z
<1>6. StartOf(E) \in Int /\ StartOf(E) < L /\ L <= StartOf(E) + Z
  BY <1>1, <1>3, <1>4, <1>5
<1>7. E = 0 => L = 0
  <2> SUFFICES ASSUME E = 0 PROVE L = 0
    OBVIOUS
  <2>1. E * Z = 0
    BY <1>1
  <2> QED BY <1>1, <1>3, <2>1
<1>8. ASSUME NEW i \in 1 .. E
      PROVE  /\ StartOf(i) \in Nat /\ StartOf(i) < L
             /\ i = 1 => StartOf(i) = 0
             /\ i > 1 => StartOf(i) = StartOf(i - 1) + StepSize
  <2>1. i - 1 \in Int /\ 0 \in Int /\ E - 1 \in Int /\ 0 <= i - 1 /\ i - 1 <= E - 1
    BY <1>3
  <2>2. StartOf(i) = (i - 1) * Z /\ StartOf(i - 1) = (i - 1 - 1) * Z
    BY DEF StartOf, Z
  <2>3. (i - 1) * Z <= (E - 1) * Z /\ (i - 1) * Z \in Int
        /\ (i - 1 - 1) * Z = (i - 1) * Z - Z
    BY <1>1, <2>1, Times
  <2>4. 0 * Z <= (i - 1) * Z /\ 0 * Z = 0
    BY <1>1, <2>1, Times
  <2>5. StartOf(i) \in Nat /\ StartOf(i) <= StartOf(E)
    BY <1>5, <2>2, <2>3, <2>4
  <2>6. i = 1 => StartOf(i) = 0
    BY <2>2, <2>4
  <2>7. StartOf(i) = StartOf(i - 1) + Z
    BY <1>1, <2>2, <2>3, <2>5
  <2> QED BY <1>6, <2>5, <2>6, <2>7 DEF Z
<1> QED BY <1>3, <1>6, <1>7, <1>8 DEF Z

LEMMA EndsOfSteps ==
  ASSUME NEW S, NEW c \in Seq(S)
  PROVE  /\ ElementSteps(c) \in Nat /\ (ElementSteps(c) = 0 => Len(c) = 0)
         /\ \A i \in 1 .. ElementSteps(c) :
              /\ StartOf(i) \in Nat /\ EndOf(c, i) \in Nat
              /\ StartOf(i) < EndOf(c, i) /\ EndOf(c, i) <= Len(c)
              /\ i = 1 => StartOf(i) = 0
              /\ i > 1 => EndOf(c, i - 1) = StartOf(i)
              /\ i = ElementSteps(c) => EndOf(c, i) = Len(c)
<1> DEFINE L == Len(c)
           E == ElementSteps(c)
<1>1. L \in Nat /\ E = (L + StepSize - 1) \div StepSize
  BY DEF ElementSteps
<1> HIDE DEF L, E
<1>2. /\ E \in Nat /\ L <= StartOf(E) + StepSize /\ (E = 0 => L = 0)
      /\ \A i \in 1 .. E : /\ StartOf(i) \in Nat /\ StartOf(i) < L
                           /\ i = 1 => StartOf(i) = 0
                           /\ i > 1 => StartOf(i) = StartOf(i - 1) + StepSize
  BY <1>1, StartsOfSteps
<1>3. \A i : EndOf(c, i) = IF StartOf(i) + StepSize <= L THEN StartOf(i) + StepSize ELSE L
  BY DEF EndOf, L
<1>4. ASSUME NEW i \in 1 .. E
      PROVE  /\ StartOf(i) \in Nat /\ EndOf(c, i) \in Nat
             /\ StartOf(i) < EndOf(c, i) /\ EndOf(c, i) <= L
             /\ i = 1 => StartOf(i) = 0
             /\ i > 1 => EndOf(c, i - 1) = StartOf(i)
             /\ i = E => EndOf(c, i) = L
  <2>1. StepSize \in Nat \ {0} /\ StartOf(i) \in Nat /\ StartOf(i) < L
    BY <1>2, StepSizeAssumption
  <2>2. /\ EndOf(c, i) \in Nat /\ StartOf(i) < EndOf(c, i) /\ EndOf(c, i) <= L
    BY <1>1, <1>3, <2>1
  <2>3. ASSUME i = E PROVE EndOf(c, i) = L
    <3>1. L <= StartOf(i) + StepSize
      BY <1>2, <2>3
    <3> QED BY <1>1, <1>3, <2>1, <3>1
  <2>4. i > 1 => EndOf(c, i - 1) = StartOf(i)
    BY <1>1, <1>2, <1>3, <2>1
  <2> QED BY <1>2, <2>1, <2>2, <2>3, <2>4
<1> QED BY <1>2, <1>4 DEF L, E

\* A step asks for the names between these, under their numbers in the
\* composition, and for no conclusion.
Slice(c, i) == [j \in 1 .. EndOf(c, i) - StartOf(i) |-> <<StartOf(i) + j, c[StartOf(i) + j]>>]

LEMMA StepNames ==
  ASSUME NEW S, NEW c \in Seq(S), NEW n \in 1 .. ElementSteps(c)
  PROVE  /\ TaskStep(c, n).last = FALSE
         /\ Numbered(TaskStep(c, n).elements, TaskStep(c, n).offset) = Slice(c, n)
<1> DEFINE elements == SubSeq(c, StartOf(n) + 1, EndOf(c, n))
<1>1. /\ StartOf(n) \in Nat /\ EndOf(c, n) \in Nat
      /\ StartOf(n) < EndOf(c, n) /\ EndOf(c, n) <= Len(c)
  BY EndsOfSteps
<1>2. n < TotalSteps(c)
  BY EndsOfSteps DEF TotalSteps
<1>3. /\ TaskStep(c, n).last = FALSE /\ TaskStep(c, n).offset = StartOf(n) + 1
      /\ TaskStep(c, n).elements = elements
  BY <1>2 DEF TaskStep, StartOf, EndOf
<1>4. PICK s, e : s = StartOf(n) /\ e = EndOf(c, n)
  OBVIOUS
<1>5. s \in Nat /\ e \in Nat /\ s < e /\ e <= Len(c) /\ elements = SubSeq(c, s + 1, e)
  BY <1>1, <1>4
<1> HIDE DEF elements
<1>6. DOMAIN elements = 1 .. e - s /\ \A i \in 1 .. e - s : elements[i] = c[s + i]
  BY <1>5
<1>7. Numbered(elements, s + 1) = [i \in 1 .. e - s |-> <<(s + 1) + i - 1, elements[i]>>]
  BY <1>6 DEF Numbered
<1>8. \A i \in 1 .. e - s : (s + 1) + i - 1 = s + i
  BY <1>5
<1>9. Numbered(elements, s + 1) = [i \in 1 .. e - s |-> <<s + i, c[s + i]>>]
  BY <1>6, <1>7, <1>8
<1> QED BY <1>3, <1>4, <1>9 DEF Slice

\* The first m names, numbered: what the first steps ask for together.
Upto(c, m) == [j \in 1 .. m |-> <<j, c[j]>>]

LEMMA SliceFollows ==
  ASSUME NEW S, NEW c \in Seq(S), NEW i \in 1 .. ElementSteps(c)
  PROVE  /\ Slice(c, i) \in Seq(Nat \X S)
         /\ Upto(c, EndOf(c, i)) =
              IF i = 1 THEN Slice(c, i) ELSE Upto(c, EndOf(c, i - 1)) \o Slice(c, i)
<1> DEFINE T == Nat \X S
<1>1. PICK s, e, L : s = StartOf(i) /\ e = EndOf(c, i) /\ L = Len(c)
  OBVIOUS
<1>2. /\ s \in Nat /\ e \in Nat /\ L \in Nat /\ s < e /\ e <= L
      /\ i = 1 => s = 0
      /\ i > 1 => EndOf(c, i - 1) = s
  BY <1>1, EndsOfSteps
<1>3. \A j \in 1 .. L : c[j] \in S
  BY <1>1
<1> DEFINE B == [j \in 1 .. e - s |-> <<s + j, c[s + j]>>]
<1>4. Slice(c, i) = B
  BY <1>1 DEF Slice
<1>5. B \in Seq(T) /\ Len(B) = e - s /\ \A j \in 1 .. e - s : B[j] = <<s + j, c[s + j]>>
  <2>1. \A j \in 1 .. e - s : <<s + j, c[s + j]>> \in T
    BY <1>2, <1>3
  <2>2. e - s \in Nat
    BY <1>2
  <2> QED BY <2>1, <2>2
<1>6. CASE i = 1
  <2>1. s = 0 /\ e - s = e /\ \A j \in 1 .. e : s + j = j
    BY <1>2, <1>6
  <2>2. B = Upto(c, e)
    BY <2>1 DEF Upto
  <2> QED BY <1>1, <1>4, <1>5, <1>6, <2>2
<1>7. CASE i # 1
  <2> DEFINE A == Upto(c, s)
             C == Upto(c, e)
  <2>1. A \in Seq(T) /\ Len(A) = s /\ \A j \in 1 .. s : A[j] = <<j, c[j]>>
    <3>1. \A j \in 1 .. s : <<j, c[j]>> \in T
      BY <1>2, <1>3
    <3> QED BY <1>2, <3>1 DEF Upto
  <2>2. C \in Seq(T) /\ Len(C) = e /\ \A j \in 1 .. e : C[j] = <<j, c[j]>>
    <3>1. \A j \in 1 .. e : <<j, c[j]>> \in T
      BY <1>2, <1>3
    <3> QED BY <1>2, <3>1 DEF Upto
  <2> HIDE DEF A, B, C, T
  <2>3. A \o B \in Seq(T) /\ Len(A \o B) = e
    <3>1. s + (e - s) = e
      BY <1>2
    <3>2. A \in Seq(T) /\ B \in Seq(T) /\ Len(A) = s /\ Len(B) = e - s
      BY <1>5, <2>1
    <3>3. A \o B \in Seq(T) /\ Len(A \o B) = Len(A) + Len(B)
      BY <3>2
    <3> QED BY <3>1, <3>2, <3>3
  <2>4. ASSUME NEW j \in 1 .. e PROVE (A \o B)[j] = C[j]
    <3>1. CASE j <= s
      <4>1. j \in 1 .. s /\ j \in 1 .. e
        BY <1>2, <3>1
      <4>2. (A \o B)[j] = A[j]
        BY <1>5, <2>1, <4>1
      <4> QED BY <2>1, <2>2, <4>1, <4>2
    <3>2. CASE ~(j <= s)
      <4>1. j - s \in 1 .. e - s /\ s + (j - s) = j
        BY <1>2, <3>2
      <4>2. (A \o B)[j] = B[j - s]
        BY <1>2, <1>5, <2>1, <3>2
      <4>3. B[j - s] = <<j, c[j]>>
        BY <1>5, <4>1
      <4> QED BY <2>2, <4>2, <4>3
    <3> QED BY <3>1, <3>2
  <2>5. A \o B = C
    BY <2>2, <2>3, <2>4, SeqEqual
  <2>6. EndOf(c, i - 1) = s
    BY <1>2, <1>7
  <2> QED BY <1>1, <1>4, <1>5, <1>7, <2>5, <2>6 DEF A, C, T
<1> QED BY <1>6, <1>7

\* The element steps together ask for the whole composition.
LEMMA SlicesCover ==
  ASSUME NEW S, NEW c \in Seq(S), NEW n, n = ElementSteps(c)
  PROVE  FlattenSeq([i \in 1 .. n |-> Slice(c, i)]) = Numbered(c, 1)
<1> DEFINE lists == [i \in 1 .. n |-> Slice(c, i)]
           U(i) == Upto(c, EndOf(c, i))
           G == [i \in 1 .. n |-> U(i)]
<1>1. n \in Nat /\ Len(c) \in Nat /\ DOMAIN c = 1 .. Len(c) /\ (n = 0 => Len(c) = 0)
  BY EndsOfSteps
<1>2. lists \in Seq(Seq(Nat \X S)) /\ Len(lists) = n
  BY <1>1, SliceFollows
<1>3. Numbered(c, 1) = Upto(c, Len(c))
  <2>1. \A j \in 1 .. Len(c) : 1 + j - 1 = j
    BY <1>1
  <2> QED BY <1>1, <2>1 DEF Numbered, Upto
<1>4. CASE n = 0
  <2>1. lists = <<>>
    BY <1>4
  <2>2. Upto(c, 0) = <<>>
    BY DEF Upto
  <2> HIDE DEF lists
  <2>3. FlattenSeq(lists) = <<>>
    BY <2>1 DEF FlattenSeq
  <2> QED BY <1>1, <1>3, <1>4, <2>2, <2>3 DEF lists
<1>5. CASE n # 0
  <2>1. IsJoin(G, n, lists)
    <3>1. ASSUME NEW i \in 1 .. n
          PROVE  U(i) = IF i = 1 THEN lists[i] ELSE U(i - 1) \o lists[i]
      BY SliceFollows
    <3> HIDE DEF U, lists
    <3>2. ASSUME NEW i \in 1 .. n
          PROVE  U(i) = IF i = 1 THEN lists[i] ELSE G[i - 1] \o lists[i]
      <4>1. i = 1 \/ (i # 1 /\ i - 1 \in 1 .. n)
        BY <1>1
      <4>2. i # 1 => G[i - 1] = U(i - 1)
        BY <4>1
      <4> QED BY <3>1, <4>2
    <3>3. [i \in 1 .. n |-> U(i)]
            = [i \in 1 .. n |-> IF i = 1 THEN lists[i] ELSE G[i - 1] \o lists[i]]
      <4> HIDE DEF G
      <4> QED BY <3>2
    <3> QED BY <3>3 DEF IsJoin
  <2>2. n \in 1 .. n
    BY <1>1, <1>5
  <2>3. G[n] = Upto(c, Len(c))
    <3>1. EndOf(c, n) = Len(c)
      BY <2>2, EndsOfSteps
    <3> QED BY <2>2, <3>1
  <2> DEFINE R == Seq(Nat \X S)
  <2>4. lists \in Seq(R)
    BY <1>2
  <2> HIDE DEF G, lists, R
  <2>5. FlattenSeq(lists) = G[n]
    BY <1>1, <1>2, <1>5, <2>1, <2>4, FlattenFollows, Zenon
  <2> QED BY <1>3, <2>3, <2>5 DEF lists
<1> QED BY <1>4, <1>5

\* The plan of a selection has at least its step of the conclusion.
LEMMA TotalIsNat ==
  ASSUME product \in [Selections -> Products], NEW s \in Selections
  PROVE  Total(s) \in Nat \ {0}
<1> DEFINE c == product[s].composition
<1>1. c \in Seq(Names)
  BY ProductsAssumption DEF Names
<1>2. ElementSteps(c) \in Nat
  <2> HIDE DEF c
  <2> QED BY <1>1, EndsOfSteps
<1> QED BY <1>2 DEF Total, TotalSteps

LEMMA StepElements ==
  ASSUME NEW S, NEW c \in Seq(S), NEW n \in 1 .. TotalSteps(c)
  PROVE  TaskStep(c, n).elements \in Seq(S)
<1>1. CASE n < TotalSteps(c)
  <2>1. ElementSteps(c) \in Nat
    BY EndsOfSteps
  <2>2. n \in 1 .. ElementSteps(c)
    BY <1>1, <2>1 DEF TotalSteps
  <2>3. /\ StartOf(n) \in Nat /\ EndOf(c, n) \in Nat
        /\ StartOf(n) < EndOf(c, n) /\ EndOf(c, n) <= Len(c)
    BY <2>2, EndsOfSteps
  <2>4. TaskStep(c, n).elements = SubSeq(c, StartOf(n) + 1, EndOf(c, n))
    BY <1>1 DEF TaskStep, StartOf, EndOf
  <2>5. PICK s, e : s = StartOf(n) + 1 /\ e = EndOf(c, n)
    OBVIOUS
  <2>6. SubSeq(c, s, e) \in Seq(S)
    BY <2>3, <2>5
  <2> QED BY <2>4, <2>5, <2>6
<1>2. CASE ~(n < TotalSteps(c))
  BY <1>2 DEF TaskStep
<1> QED BY <1>1, <1>2

-----------------------------------------------------------------------------
(* What a step asks for, and what it costs                                 *)

\* What element i of a step does to the keys so far.
MoreKeys(elements, i, keys) ==
  IF \A j \in 1 .. i - 1 : Word(elements[j]) # Word(elements[i])
  THEN Append(keys, Word(elements[i])) ELSE keys
KeySteps(elements) ==
  [i \in 1 .. Len(elements) |-> [keys \in Seq(STRING) |-> MoreKeys(elements, i, keys)]]

LEMMA OneKey ==
  ASSUME NEW elements \in Seq(Names), NEW i \in 1 .. Len(elements), NEW keys \in Seq(STRING)
  PROVE  MoreKeys(elements, i, keys) \in Seq(STRING)
<1>1. Word(elements[i]) \in STRING
  BY DEF Word, Names
<1>2. Append(keys, Word(elements[i])) \in Seq(STRING)
  BY <1>1
<1> QED BY <1>2 DEF MoreKeys

\* A sequence that starts empty and takes these steps ends in the keys.
LEMMA KeysFollow ==
  ASSUME NEW elements \in Seq(Names), NEW n, n = Len(elements),
         NEW w, IsTrace(w, n, Seq(STRING), <<>>, KeySteps(elements))
  PROVE  /\ ElementKeys(elements) = w[n]
         /\ \A k \in 1 .. n : w[k] = MoreKeys(elements, k, w[k - 1])
<1> DEFINE h == KeySteps(elements)
           positions == [i \in DOMAIN elements |-> i]
           Eq(iter) == iter = [t \in SUBSET DOMAIN positions |->
                         IF t = {} THEN <<>>
                         ELSE MoreKeys(elements, positions[Max(t)], iter[t \ {Max(t)}])]
           chosen == CHOOSE iter : Eq(iter)
<1>1. n \in Nat /\ DOMAIN elements = 1 .. n /\ DOMAIN positions = 1 .. n
      /\ \A i \in 1 .. n : positions[i] = i
  OBVIOUS
<1>2. ElementKeys(elements) = chosen[DOMAIN positions]
  BY DEF ElementKeys, FoldLeftDomain, FoldLeft, MapThenFoldSet, MoreKeys
<1> HIDE DEF positions
<1>3. \E iter : Eq(iter)
  <2>1. IsFold(n, Seq(STRING), <<>>, h)
    BY <1>1, OneKey DEF IsFold, KeySteps
  <2>2. PICK iter : IsIter(iter, n, Seq(STRING), <<>>, h)
    BY <2>1, IterExists
  <2>3. ASSUME NEW t \in SUBSET (1 .. n), t # {}
        PROVE  iter[t] = MoreKeys(elements, positions[Max(t)], iter[t \ {Max(t)}])
    <3>1. Max(t) \in t
      BY <1>1, <2>3, GreatestPosition
    <3>2. Max(t) \in 1 .. n /\ iter[t \ {Max(t)}] \in Seq(STRING)
      BY <2>2, <3>1 DEF IsIter
    <3>3. iter[t] = h[Max(t)][iter[t \ {Max(t)}]]
      BY <2>2, <2>3 DEF IsIter
    <3>4. positions[Max(t)] = Max(t)
      BY <1>1, <3>2
    <3> QED BY <3>2, <3>3, <3>4 DEF KeySteps
  <2>4. iter \in [SUBSET (1 .. n) -> Seq(STRING)] /\ iter[{}] = <<>>
    BY <2>2 DEF IsIter
  <2>5. ASSUME NEW t \in SUBSET (1 .. n)
        PROVE  iter[t] = IF t = {} THEN <<>>
                         ELSE MoreKeys(elements, positions[Max(t)], iter[t \ {Max(t)}])
    BY <2>3, <2>4
  <2>6. iter = [t \in SUBSET (1 .. n) |->
                  IF t = {} THEN <<>>
                  ELSE MoreKeys(elements, positions[Max(t)], iter[t \ {Max(t)}])]
    BY <2>4, <2>5
  <2>7. Eq(iter)
    BY <1>1, <2>6
  <2> HIDE DEF Eq
  <2> QED BY <2>7
<1>4. Eq(chosen)
  <2> HIDE DEF Eq
  <2> QED BY <1>3
<1>5. /\ w \in [0 .. n -> Seq(STRING)] /\ w[0] = <<>>
      /\ \A k \in 1 .. n : w[k] = h[k][w[k - 1]]
  BY DEF IsTrace
<1>6. ASSUME NEW k \in 1 .. n PROVE w[k] = MoreKeys(elements, k, w[k - 1])
  <2>1. w[k - 1] \in Seq(STRING) /\ k \in 1 .. Len(elements)
    BY <1>1, <1>5
  <2>2. w[k] = h[k][w[k - 1]]
    BY <1>5
  <2> QED BY <2>1, <2>2 DEF KeySteps
<1>7. chosen[{}] = w[0]
  <2>1. {} \in SUBSET DOMAIN positions
    OBVIOUS
  <2> HIDE DEF chosen
  <2> QED BY <1>4, <1>5, <2>1
<1>8. ASSUME NEW k \in 1 .. n, chosen[1 .. k - 1] = w[k - 1]
      PROVE  chosen[1 .. k] = w[k]
  <2>1. 1 .. k # {} /\ Max(1 .. k) = k /\ (1 .. k) \ {k} = 1 .. k - 1
    <3>1. k \in Nat \ {0}
      BY <1>1
    <3> QED BY <3>1, LastPosition
  <2>2. 1 .. k \in SUBSET DOMAIN positions /\ positions[k] = k
    BY <1>1
  <2> HIDE DEF chosen
  <2>3. chosen[1 .. k] = MoreKeys(elements, positions[Max(1 .. k)],
                                 chosen[(1 .. k) \ {Max(1 .. k)}])
    BY <1>4, <2>1, <2>2
  <2> QED BY <1>6, <1>8, <2>1, <2>2, <2>3
<1> HIDE DEF chosen
<1>9. chosen[1 .. n] = w[n]
  BY <1>1, <1>7, <1>8, IterFollows
<1> QED BY <1>1, <1>2, <1>6, <1>9

\* There is such a sequence.
LEMMA KeysExist ==
  ASSUME NEW elements \in Seq(Names), NEW n, n = Len(elements)
  PROVE  \E w : IsTrace(w, n, Seq(STRING), <<>>, KeySteps(elements))
<1>1. IsFold(n, Seq(STRING), <<>>, KeySteps(elements))
  BY OneKey DEF IsFold, KeySteps
<1> QED BY <1>1, TraceExists

LEMMA KeysAreWords ==
  ASSUME NEW elements \in Seq(Names)
  PROVE  ElementKeys(elements) \in Seq(STRING)
<1> DEFINE n == Len(elements)
<1>1. PICK w : IsTrace(w, n, Seq(STRING), <<>>, KeySteps(elements))
  BY KeysExist
<1>2. n \in 0 .. n /\ w \in [0 .. n -> Seq(STRING)]
  BY <1>1 DEF IsTrace
<1>3. ElementKeys(elements) = w[n]
  BY <1>1, KeysFollow
<1> QED BY <1>2, <1>3

LEMMA TokensAreNat ==
  ASSUME NEW prompts, NEW S, prompts.names \in Seq(S),
         NEW scheme, scheme.elements \in Seq(STRING)
  PROVE  CountTokens(Context(prompts), scheme) \in Nat
<1> DEFINE context == Context(prompts)
           h == [i \in 1 .. 2 |-> [n \in Nat |-> n + Len(context[i].text)]]
           Eq(iter) == iter = [t \in SUBSET DOMAIN context |->
                         IF t = {} THEN 0
                         ELSE iter[t \ {Max(t)}] + Len(context[Max(t)].text)]
           chosen == CHOOSE iter : Eq(iter)
<1>1. Len(context) = 2 /\ DOMAIN context = 1 .. 2
      /\ \A i \in 1 .. 2 : Len(context[i].text) \in Nat
  <2>1. Len(<<prompts.system>>) = 1 /\ Len(prompts.names) \in Nat
    OBVIOUS
  <2>2. context[1].text = <<prompts.system>> /\ context[2].text = prompts.names
    BY DEF Context
  <2> QED BY <2>1, <2>2 DEF Context
<1>2. CountTokens(context, scheme)
        = chosen[DOMAIN context] + (Len(scheme.elements) + 1)
            + (Len(context) + ADD_INDENTATION) * HEADER_TOKENS_COUNT + ADD_TOKENS_FOR_STOCK
  BY DEF CountTokens, FoldLeft, MapThenFoldSet
<1> HIDE DEF context
<1>3. \E iter : Eq(iter)
  <2>1. PICK iter : IsIter(iter, 2, Nat, 0, h)
    <3>1. IsFold(2, Nat, 0, h)
      BY <1>1 DEF IsFold
    <3> HIDE DEF h
    <3> QED BY <3>1, IterExists
  <2>2. ASSUME NEW t \in SUBSET (1 .. 2), t # {}
        PROVE  iter[t] = iter[t \ {Max(t)}] + Len(context[Max(t)].text)
    <3>1. Max(t) \in t
      BY <2>2, GreatestPosition
    <3>2. Max(t) \in 1 .. 2 /\ iter[t \ {Max(t)}] \in Nat
      BY <2>1, <3>1 DEF IsIter
    <3>3. iter[t] = h[Max(t)][iter[t \ {Max(t)}]]
      BY <2>1, <2>2 DEF IsIter
    <3> QED BY <3>2, <3>3
  <2>3. iter \in [SUBSET (1 .. 2) -> Nat] /\ iter[{}] = 0
    BY <2>1 DEF IsIter
  <2> QED BY <1>1, <2>2, <2>3
<1>4. Eq(chosen)
  <2> HIDE DEF Eq
  <2> QED BY <1>3
<1>5. chosen[{}] \in Nat
  <2>1. {} \in SUBSET DOMAIN context
    OBVIOUS
  <2> HIDE DEF chosen
  <2>2. chosen[{}] = 0
    BY <1>4, <2>1
  <2> QED BY <2>2
<1>6. ASSUME NEW k \in 1 .. 2, chosen[1 .. k - 1] \in Nat
      PROVE  chosen[1 .. k] \in Nat
  <2>1. 1 .. k # {} /\ Max(1 .. k) = k /\ (1 .. k) \ {k} = 1 .. k - 1
    BY LastPosition
  <2>2. 1 .. k \in SUBSET DOMAIN context
    BY <1>1
  <2> HIDE DEF chosen
  <2>3. chosen[1 .. k] = chosen[1 .. k - 1] + Len(context[k].text)
    BY <1>4, <2>1, <2>2
  <2> QED BY <1>1, <1>6, <2>3
<1> HIDE DEF chosen
<1>7. chosen[1 .. 2] \in Nat
  BY <1>5, <1>6, IterStays
<1>8. Len(scheme.elements) \in Nat
  OBVIOUS
<1> QED BY <1>1, <1>2, <1>7, <1>8 DEF context, ADD_INDENTATION, HEADER_TOKENS_COUNT,
          ADD_TOKENS_FOR_STOCK

LEMMA NumberedIsSeq ==
  ASSUME NEW S, NEW c \in Seq(S), NEW start \in Int
  PROVE  Numbered(c, start) \in Seq(Int \X S)
<1>1. Len(c) \in Nat /\ DOMAIN c = 1 .. Len(c)
  OBVIOUS
<1>2. \A i \in 1 .. Len(c) : start + i - 1 \in Int /\ c[i] \in S
  OBVIOUS
<1>3. [i \in 1 .. Len(c) |-> <<start + i - 1, c[i]>>] \in Seq(Int \X S)
  BY <1>1, <1>2
<1> QED BY <1>1, <1>3 DEF Numbered

\* The limiter is asked about texts, with the tokens that were counted.
LEMMA RequestIsText ==
  ASSUME NEW p \in Products, NEW n \in StepNumbers(p)
  PROVE  /\ Request[p][n].target = "text" /\ Request[p][n].tokens \in Nat
         /\ Request[p][n].scheme.elements \in Seq(STRING)
<1> DEFINE c == p.composition
           step == TaskStep(c, n)
           scheme == JsonScheme(p, step)
           prompts == Prompts(p, step)
<1>1. c \in Seq(Names) /\ n \in 1 .. TotalSteps(c)
  BY ProductsAssumption DEF StepNumbers, Names
<1>2. step.elements \in Seq(Names)
  <2> HIDE DEF c
  <2> QED BY <1>1, StepElements
<1>3. scheme.elements \in Seq(STRING)
  <2>1. scheme.elements = ElementKeys(step.elements)
    BY DEF JsonScheme
  <2> HIDE DEF step, scheme
  <2> QED BY <1>2, <2>1, KeysAreWords
<1>4. step.last \in BOOLEAN /\ step.offset \in Int
  <2>1. ElementSteps(c) \in Nat
    <3> HIDE DEF c
    <3> QED BY <1>1, EndsOfSteps
  <2>2. CASE n < TotalSteps(c)
    <3>1. n \in 1 .. ElementSteps(c)
      BY <1>1, <2>1, <2>2 DEF TotalSteps
    <3>2. StartOf(n) \in Nat
      <4> HIDE DEF c
      <4> QED BY <1>1, <3>1, EndsOfSteps
    <3>3. step.last = FALSE /\ step.offset = StartOf(n) + 1
      BY <2>2 DEF TaskStep, StartOf
    <3>4. StartOf(n) + 1 \in Int
      BY <3>2
    <3> HIDE DEF step
    <3> QED BY <3>3, <3>4
  <2>3. CASE ~(n < TotalSteps(c))
    <3>1. step.last = TRUE /\ step.offset = Len(c) + 1
      BY <2>3 DEF TaskStep
    <3>2. Len(c) + 1 \in Int
      BY <1>1
    <3> HIDE DEF step
    <3> QED BY <3>1, <3>2
  <2> QED BY <2>2, <2>3
<1>5. prompts.names \in Seq(Int \X Names)
  <2>1. prompts.names = IF step.last THEN Numbered(c, 1)
                        ELSE Numbered(step.elements, step.offset)
    BY DEF Prompts
  <2> HIDE DEF prompts, step, c
  <2>2. Numbered(c, 1) \in Seq(Int \X Names)
    BY <1>1, NumberedIsSeq
  <2>3. Numbered(step.elements, step.offset) \in Seq(Int \X Names)
    BY <1>2, <1>4, NumberedIsSeq
  <2> QED BY <1>4, <2>1, <2>2, <2>3
<1>6. CountTokens(Context(prompts), scheme) \in Nat
  <2> HIDE DEF prompts, scheme
  <2> QED BY <1>3, <1>5, TokensAreNat
<1>7. Request[p][n] = [target |-> "text", scheme |-> scheme, prompts |-> prompts,
                       tokens |-> CountTokens(Context(prompts), scheme)]
  BY Tables DEF RequestDetails
<1> HIDE DEF scheme, prompts
<1> QED BY <1>3, <1>6, <1>7

\* What an answer costs does not depend on the text of its conclusion.
LEMMA AnswerCosts ==
  ASSUME NEW p \in Products, NEW n \in StepNumbers(p), NEW t \in Texts
  PROVE  AnswerOf[p][n][t].cost
           = CostOf(Request[p][n].tokens, Len(Request[p][n].scheme.elements) + 1)
<1>1. AnswerOf[p][n][t] = Answer(p, n, t) /\ Request[p][n] = RequestDetails(p, n)
  BY Tables
<1> DEFINE scheme == RequestDetails(p, n).scheme
           elements == Message(scheme, t).elements
<1>2. scheme.elements \in Seq(STRING)
  BY <1>1, RequestIsText
<1>3. Answer(p, n, t).cost = CostOf(RequestDetails(p, n).tokens, Len(elements) + 1)
  BY DEF Answer
<1>4. elements = [i \in DOMAIN scheme.elements |-> ElementAnswer(scheme.elements[i])]
  BY DEF Message
<1> HIDE DEF scheme, elements
<1>5. PICK keys : keys = scheme.elements
  OBVIOUS
<1>6. keys \in Seq(STRING) /\ elements = [i \in 1 .. Len(keys) |-> ElementAnswer(keys[i])]
  BY <1>2, <1>4, <1>5
<1>7. Len(elements) = Len(keys)
  BY <1>6
<1> QED BY <1>1, <1>3, <1>5, <1>7 DEF scheme

-----------------------------------------------------------------------------
(* The price of an analysis                                                *)

Costs == {CostOf(a, b) : a \in Nat, b \in Nat}

TokensOf(answers, part) ==
  FoldLeft(LAMBDA sum, row : sum + row.answer.cost[part].tokens, 0, answers)

LEMMA CostsAddUp ==
  ASSUME NEW a \in Nat, NEW b \in Nat, NEW c \in Nat, NEW d \in Nat
  PROVE  AddCost(CostOf(a, b), CostOf(c, d)) = CostOf(a + c, b + d)
<1> DEFINE Parts == {"prompt", "completion", "total"}
           Fields == {"tokens", "USD", "RUB"}
<1>1. \A x, y : DOMAIN CostOf(x, y) = Parts /\ \A p \in Parts : DOMAIN CostOf(x, y)[p] = Fields
  BY DEF CostOf
<1>2. \A x, y : CostOf(x, y) = [p \in Parts |-> [f \in Fields |-> CostOf(x, y)[p][f]]]
  BY DEF CostOf
<1>3. AddCost(CostOf(a, b), CostOf(c, d))
        = [p \in Parts |-> [f \in Fields |-> CostOf(a, b)[p][f] + CostOf(c, d)[p][f]]]
  BY <1>1 DEF AddCost
<1>4. ASSUME NEW p \in Parts, NEW f \in Fields
      PROVE  CostOf(a, b)[p][f] + CostOf(c, d)[p][f] = CostOf(a + c, b + d)[p][f]
  BY DEF CostOf, PRICE_ONE_TOKEN_PROMPT_USD, PRICE_ONE_TOKEN_RESPONSE_USD, USD_TO_RUB
<1> QED BY <1>2, <1>3, <1>4

LEMMA CostsAreCosts == \A x, y \in Nat : CostOf(x, y) \in Costs
BY DEF Costs

LEMMA NothingCosts == NoCost = CostOf(0, 0)
BY DEF NoCost, CostOf, PRICE_ONE_TOKEN_PROMPT_USD, PRICE_ONE_TOKEN_RESPONSE_USD, USD_TO_RUB

\* u and v add up the tokens of the prompts and of the completions of answers
\* that cost CostOf(a[i], b[i]).
IsSum(u, n, a) ==
  u \in [0 .. n -> Nat] /\ u[0] = 0 /\ \A k \in 1 .. n : u[k] = u[k - 1] + a[k]

LEMMA SumExists ==
  ASSUME NEW n \in Nat, NEW a \in [1 .. n -> Nat]
  PROVE  \E u : IsSum(u, n, a)
<1> DEFINE h == [i \in 1 .. n |-> [m \in Nat |-> m + a[i]]]
<1>1. IsFold(n, Nat, 0, h)
  BY DEF IsFold
<1> HIDE DEF h
<1>2. PICK u : IsTrace(u, n, Nat, 0, h)
  BY <1>1, TraceExists
<1>3. u \in [0 .. n -> Nat] /\ u[0] = 0 /\ \A k \in 1 .. n : u[k] = h[k][u[k - 1]]
  BY <1>2 DEF IsTrace
<1>4. ASSUME NEW k \in 1 .. n PROVE u[k] = u[k - 1] + a[k]
  <2>1. u[k - 1] \in Nat
    BY <1>3
  <2> QED BY <1>3, <2>1 DEF h
<1> QED BY <1>3, <1>4 DEF IsSum

\* n answers have a[i] tokens in a part of their cost, cost CostOf(a[i], b[i]).
HaveTokens(answers, part, n, a) ==
  /\ n \in Nat /\ DOMAIN answers = 1 .. n /\ a \in [1 .. n -> Nat]
  /\ \A i \in 1 .. n : answers[i].answer.cost[part].tokens = a[i]
HaveCosts(answers, n, a, b) ==
  /\ n \in Nat /\ DOMAIN answers = 1 .. n /\ a \in [1 .. n -> Nat] /\ b \in [1 .. n -> Nat]
  /\ \A i \in 1 .. n : answers[i].answer.cost = CostOf(a[i], b[i])

LEMMA TokensAddUp ==
  ASSUME NEW answers, NEW part, NEW n, NEW a, HaveTokens(answers, part, n, a),
         NEW u, IsSum(u, n, a)
  PROVE  TokensOf(answers, part) = u[n]
<1> DEFINE h == [i \in 1 .. n |-> [m \in Nat |-> m + a[i]]]
           Eq(iter) == iter = [t \in SUBSET DOMAIN answers |->
                         IF t = {} THEN 0
                         ELSE iter[t \ {Max(t)}] + answers[Max(t)].answer.cost[part].tokens]
           chosen == CHOOSE iter : Eq(iter)
<1>1. /\ n \in Nat /\ DOMAIN answers = 1 .. n /\ a \in [1 .. n -> Nat]
      /\ \A i \in 1 .. n : answers[i].answer.cost[part].tokens = a[i]
  BY DEF HaveTokens
<1>2. TokensOf(answers, part) = chosen[DOMAIN answers]
  BY DEF TokensOf, FoldLeft, MapThenFoldSet
<1>3. \E iter : Eq(iter)
  <2>1. IsFold(n, Nat, 0, h)
    BY <1>1 DEF IsFold
  <2>2. PICK iter : IsIter(iter, n, Nat, 0, h)
    <3> HIDE DEF h
    <3> QED BY <2>1, IterExists
  <2>3. ASSUME NEW t \in SUBSET (1 .. n), t # {}
        PROVE  iter[t] = iter[t \ {Max(t)}] + answers[Max(t)].answer.cost[part].tokens
    <3>1. Max(t) \in t
      BY <1>1, <2>3, GreatestPosition
    <3>2. Max(t) \in 1 .. n /\ iter[t \ {Max(t)}] \in Nat
      BY <2>2, <3>1 DEF IsIter
    <3>3. iter[t] = h[Max(t)][iter[t \ {Max(t)}]]
      BY <2>2, <2>3 DEF IsIter
    <3>4. iter[t] = iter[t \ {Max(t)}] + a[Max(t)]
      BY <3>2, <3>3
    <3> QED BY <1>1, <3>2, <3>4
  <2>4. iter \in [SUBSET (1 .. n) -> Nat] /\ iter[{}] = 0
    BY <2>2 DEF IsIter
  <2>5. iter = [t \in SUBSET (1 .. n) |->
                  IF t = {} THEN 0
                  ELSE iter[t \ {Max(t)}] + answers[Max(t)].answer.cost[part].tokens]
    BY <2>3, <2>4
  <2>6. Eq(iter)
    BY <1>1, <2>5
  <2> HIDE DEF Eq
  <2> QED BY <2>6
<1>4. Eq(chosen)
  <2> HIDE DEF Eq
  <2> QED BY <1>3
<1>5. u[0] = 0 /\ \A k \in 1 .. n : u[k] = u[k - 1] + a[k]
  BY DEF IsSum
<1>6. chosen[{}] = u[0]
  <2>1. {} \in SUBSET DOMAIN answers
    OBVIOUS
  <2> HIDE DEF chosen
  <2> QED BY <1>4, <1>5, <2>1
<1>7. ASSUME NEW k \in 1 .. n, chosen[1 .. k - 1] = u[k - 1]
      PROVE  chosen[1 .. k] = u[k]
  <2>0. k \in Nat \ {0}
    BY <1>1
  <2>1. 1 .. k # {} /\ Max(1 .. k) = k /\ (1 .. k) \ {k} = 1 .. k - 1
    BY <2>0, LastPosition
  <2>2. 1 .. k \in SUBSET DOMAIN answers
    BY <1>1
  <2> HIDE DEF chosen
  <2>3. chosen[1 .. k] = chosen[(1 .. k) \ {Max(1 .. k)}]
                          + answers[Max(1 .. k)].answer.cost[part].tokens
    BY <1>4, <2>1, <2>2
  <2>4. chosen[1 .. k] = chosen[1 .. k - 1] + answers[k].answer.cost[part].tokens
    BY <2>1, <2>3
  <2> QED BY <1>1, <1>5, <1>7, <2>4
<1> HIDE DEF chosen
<1>8. chosen[1 .. n] = u[n]
  BY <1>1, <1>6, <1>7, IterFollows
<1> QED BY <1>1, <1>2, <1>8

LEMMA PriceIsCost ==
  ASSUME NEW answers, NEW n, NEW a, NEW b, HaveCosts(answers, n, a, b),
         NEW u, IsSum(u, n, a), NEW v, IsSum(v, n, b)
  PROVE  PriceOf(answers) = CostOf(u[n], v[n])
<1> DEFINE h == [i \in 1 .. n |-> [c \in Costs |-> AddCost(c, CostOf(a[i], b[i]))]]
           Eq(iter) == iter = [t \in SUBSET DOMAIN answers |->
                         IF t = {} THEN NoCost
                         ELSE AddCost(iter[t \ {Max(t)}], answers[Max(t)].answer.cost)]
           chosen == CHOOSE iter : Eq(iter)
<1>0. PICK w : w = [k \in 0 .. n |-> CostOf(u[k], v[k])]
  OBVIOUS
<1>1. /\ n \in Nat /\ DOMAIN answers = 1 .. n
      /\ a \in [1 .. n -> Nat] /\ b \in [1 .. n -> Nat]
      /\ \A i \in 1 .. n : answers[i].answer.cost = CostOf(a[i], b[i])
  BY DEF HaveCosts
<1>2. PriceOf(answers) = chosen[DOMAIN answers]
  BY DEF PriceOf, FoldLeft, MapThenFoldSet
<1>3. \E iter : Eq(iter)
  <2>1. IsFold(n, Costs, NoCost, h)
    <3>1. NoCost \in Costs
      BY NothingCosts, CostsAreCosts
    <3>2. ASSUME NEW i \in 1 .. n, NEW c \in Costs
          PROVE  AddCost(c, CostOf(a[i], b[i])) \in Costs
      <4>1. PICK x \in Nat, y \in Nat : c = CostOf(x, y)
        BY DEF Costs
      <4>2. PICK d \in Nat, e \in Nat : d = a[i] /\ e = b[i]
        BY <1>1
      <4>3. AddCost(c, CostOf(d, e)) = CostOf(x + d, y + e)
        BY <4>1, CostsAddUp
      <4>4. x + d \in Nat /\ y + e \in Nat
        OBVIOUS
      <4> QED BY <4>2, <4>3, <4>4, CostsAreCosts
    <3> QED BY <1>1, <3>1, <3>2 DEF IsFold
  <2>2. PICK iter : IsIter(iter, n, Costs, NoCost, h)
    <3> HIDE DEF h
    <3> QED BY <2>1, IterExists
  <2>3. ASSUME NEW t \in SUBSET (1 .. n), t # {}
        PROVE  iter[t] = AddCost(iter[t \ {Max(t)}], answers[Max(t)].answer.cost)
    <3>1. Max(t) \in t
      BY <1>1, <2>3, GreatestPosition
    <3>2. Max(t) \in 1 .. n /\ iter[t \ {Max(t)}] \in Costs
      BY <2>2, <3>1 DEF IsIter
    <3>3. iter[t] = h[Max(t)][iter[t \ {Max(t)}]]
      BY <2>2, <2>3 DEF IsIter
    <3>4. iter[t] = AddCost(iter[t \ {Max(t)}], CostOf(a[Max(t)], b[Max(t)]))
      BY <3>2, <3>3
    <3> QED BY <1>1, <3>2, <3>4
  <2>4. iter \in [SUBSET (1 .. n) -> Costs] /\ iter[{}] = NoCost
    BY <2>2 DEF IsIter
  <2>5. iter = [t \in SUBSET (1 .. n) |->
                  IF t = {} THEN NoCost
                  ELSE AddCost(iter[t \ {Max(t)}], answers[Max(t)].answer.cost)]
    BY <2>3, <2>4
  <2>6. Eq(iter)
    BY <1>1, <2>5
  <2> HIDE DEF Eq
  <2> QED BY <2>6
<1>4. Eq(chosen)
  <2> HIDE DEF Eq
  <2> QED BY <1>3
<1>5. /\ u[0] = 0 /\ \A k \in 1 .. n : u[k] = u[k - 1] + a[k]
      /\ v[0] = 0 /\ \A k \in 1 .. n : v[k] = v[k - 1] + b[k]
      /\ \A k \in 0 .. n : u[k] \in Nat /\ v[k] \in Nat
  BY DEF IsSum
<1>6. chosen[{}] = w[0]
  <2>1. {} \in SUBSET DOMAIN answers
    OBVIOUS
  <2>2. w[0] = NoCost
    BY <1>0, <1>1, <1>5, NothingCosts
  <2> HIDE DEF chosen
  <2> QED BY <1>4, <2>1, <2>2
<1>7. ASSUME NEW k \in 1 .. n, chosen[1 .. k - 1] = w[k - 1]
      PROVE  chosen[1 .. k] = w[k]
  <2>0. k \in Nat \ {0}
    BY <1>1
  <2>1. 1 .. k # {} /\ Max(1 .. k) = k /\ (1 .. k) \ {k} = 1 .. k - 1
    BY <2>0, LastPosition
  <2>2. 1 .. k \in SUBSET DOMAIN answers
    BY <1>1
  <2>3. chosen[1 .. k] = AddCost(chosen[1 .. k - 1], answers[k].answer.cost)
    <3> HIDE DEF chosen
    <3> QED BY <1>4, <2>1, <2>2
  <2>4. k - 1 \in 0 .. n /\ k \in 0 .. n
    BY <1>1
  <2>5. w[k - 1] = CostOf(u[k - 1], v[k - 1]) /\ w[k] = CostOf(u[k], v[k])
    BY <1>0, <2>4
  <2> HIDE DEF chosen
  <2>6. chosen[1 .. k] = AddCost(CostOf(u[k - 1], v[k - 1]), CostOf(a[k], b[k]))
    BY <1>1, <1>7, <2>3, <2>5
  <2>7. u[k - 1] \in Nat /\ v[k - 1] \in Nat /\ a[k] \in Nat /\ b[k] \in Nat
    BY <1>1, <1>5, <2>4
  <2>8. AddCost(CostOf(u[k - 1], v[k - 1]), CostOf(a[k], b[k]))
          = CostOf(u[k - 1] + a[k], v[k - 1] + b[k])
    <3>1. PICK x \in Nat, y \in Nat, c \in Nat, d \in Nat :
            x = u[k - 1] /\ y = v[k - 1] /\ c = a[k] /\ d = b[k]
      BY <2>7
    <3>2. AddCost(CostOf(x, y), CostOf(c, d)) = CostOf(x + c, y + d)
      BY CostsAddUp
    <3> QED BY <3>1, <3>2
  <2> QED BY <1>5, <2>5, <2>6, <2>8
<1> HIDE DEF chosen
<1>8. n \in 0 .. n /\ w[n] = CostOf(u[n], v[n])
  BY <1>0, <1>1
<1>9. chosen[1 .. n] = w[n]
  <2>0. PICK m \in Nat : m = n
    BY <1>1
  <2>1. PICK iter : iter = chosen
    OBVIOUS
  <2>2. iter[{}] = w[0]
    BY <1>6, <2>1
  <2>3. \A k \in 1 .. m : iter[1 .. k - 1] = w[k - 1] => iter[1 .. k] = w[k]
    BY <1>7, <2>0, <2>1
  <2>4. iter[1 .. m] = w[m]
    BY <2>2, <2>3, IterFollows
  <2> QED BY <2>0, <2>1, <2>4
<1> QED BY <1>1, <1>2, <1>8, <1>9

-----------------------------------------------------------------------------
(* The limiter                                                             *)

LEMMA EmptyCountersType == EmptyCounters \in Counters /\ NoUsage \in Usage
BY DEF EmptyCounters, Counters, NoUsage, Usage

\* The request of a step that is left has a usage.
LEMMA RequestUsage ==
  ASSUME NEW p \in Products, NEW n \in StepNumbers(p)
  PROVE  UsageOf(Request[p][n]) \in Usage
<1>1. Request[p][n].target = "text" /\ Request[p][n].tokens \in Nat
  BY RequestIsText
<1>2. UsageOf(Request[p][n]) = [RPM |-> 1, TPM |-> Request[p][n].tokens, IPM |-> 0]
  BY <1>1 DEF UsageOf
<1> QED BY <1>1, <1>2 DEF Usage, Metrics

\* The account that is chosen has room.
LEMMA FirstSuitableFits ==
  ASSUME NEW used \in Counters, NEW request \in Usage, Suitable(used, request) # {}
  PROVE  LET account == Accounts[FirstSuitable(used, request)]
         IN  account \in AccountNames /\ Fits(used[account], request)
<1> DEFINE S == Suitable(used, request)
<1>1. S \subseteq 1 .. Len(Accounts) /\ Len(Accounts) \in Nat
  BY AccountsAssumption DEF Suitable
<1>2. \E i \in S : \A j \in S : i <= j
  BY <1>1, SmallestPosition
<1>3. FirstSuitable(used, request) \in S
  BY <1>2 DEF FirstSuitable
<1> QED BY <1>3 DEF Suitable, AccountNames

\* A counted request leaves the counters within the limits they were in.
LEMMA ChargeWithinLimits ==
  ASSUME NEW used \in Counters, NEW request \in Usage, NEW account \in AccountNames
  PROVE  /\ Charge(used, account, request) \in Counters
         /\ Fits(used[account], request)
              /\ (\A a \in AccountNames, m \in Metrics : used[a][m] <= Limits[m])
            => \A a \in AccountNames, m \in Metrics :
                 Charge(used, account, request)[a][m] <= Limits[m]
<1>1. Limits \in [Metrics -> Nat]
  BY LimitsAssumption DEF Limits, Metrics
<1>2. Plus(used[account], request) \in Usage
  BY DEF Plus, Counters, Usage
<1>3. Charge(used, account, request) \in Counters
  BY <1>2 DEF Charge, Counters
<1>4. ASSUME Fits(used[account], request),
             \A a \in AccountNames, m \in Metrics : used[a][m] <= Limits[m],
             NEW a \in AccountNames, NEW m \in Metrics
      PROVE  Charge(used, account, request)[a][m] <= Limits[m]
  <2>1. CASE a # account
    BY <2>1, <1>4 DEF Charge, Counters
  <2>2. CASE a = account
    <3>1. Charge(used, account, request)[a][m] = used[a][m] + request[m]
      BY <2>2 DEF Charge, Counters, Plus
    <3>2. used[a][m] \in Nat /\ request[m] \in Nat /\ Limits[m] \in Nat
      BY <1>1 DEF Counters, Usage
    <3>3. CASE request[m] > 0
      BY <3>1, <3>2, <3>3, <2>2, <1>4 DEF Fits
    <3>4. CASE request[m] = 0
      BY <3>1, <3>2, <3>4, <1>4
    <3> QED BY <3>2, <3>3, <3>4
  <2> QED BY <2>1, <2>2
<1> QED BY <1>3, <1>4

-----------------------------------------------------------------------------
(* Types, and the steps each list holds                                    *)

WorkerRow ==
  [pc : {"idle", "step", "lock", "count", "sleep", "ask", "save", "pdf", "upload"},
   sel : Selections \cup {NoSelection}, requests : Seq(RequestRow), answers : Seq(AnswerRow),
   last : Nat, key : Clock, seen : Counters, tries : 0 .. Tries]

StoredRow ==
  [requests : Seq(RequestRow), answers : Seq(AnswerRow), last : Nat, price : Prices]

TypeInv ==
  /\ product \in [Selections -> Products]
  /\ stored \in [Selections -> StoredRow]
  /\ pdf \in [Selections -> Seq(AnswerRow)]
  /\ genLock \in [Selections -> Workers \cup {Nobody}]
  /\ runs \in [Selections -> 0 .. MaxRuns]
  /\ worker \in [Workers -> WorkerRow]
  /\ \A w \in Workers : ~At(w, "idle") => worker[w].sel \in Selections
  /\ minute \in Clock
  /\ counters \in [Clock -> [savedIn : Clock \cup {-1}, used : Counters]]
  /\ keyLock \in [Clock -> Workers \cup {Nobody}]
  /\ admitted \in Counters
  /\ lapsed \in [selections : SUBSET Selections, minutes : SUBSET Clock]

\* What is saved, what a worker has and what is printed are steps 1 to last.
StoredInv ==
  \A s \in Selections :
    /\ stored[s].last <= Total(s)
    /\ InOrder(stored[s].requests, stored[s].last)
    /\ InOrder(stored[s].answers, stored[s].last)
    /\ pdf[s] # <<>> => InOrder(pdf[s], Total(s))

WorkerInv ==
  \A w \in Workers : ~At(w, "idle") =>
    LET last  == worker[w].last
        total == Total(worker[w].sel)
    IN  /\ last <= total
        /\ worker[w].pc \in {"lock", "count", "sleep", "ask"} => last < total
        /\ worker[w].pc \in {"pdf", "upload"} => last = total
        /\ InOrder(worker[w].requests, last)
        /\ InOrder(worker[w].answers, last)

IInv == TypeInv /\ StoredInv /\ WorkerInv

LEMMA IdleTypes == IdleWorker \in WorkerRow /\ IdleWorker.pc = "idle"
<1>1. 0 \in Clock /\ 0 \in 0 .. Tries
  BY FlowBoundsAssumption DEF Clock
<1> QED BY <1>1, EmptyCountersType DEF IdleWorker, WorkerRow

LEMMA NextMinuteType == minute \in Clock => NextMinute \in Clock
<1>1. Minutes \in Nat \ {0}
  BY FlowBoundsAssumption
<1>2. \A n \in Nat : n % Minutes \in 0 .. Minutes - 1
  BY <1>1
<1> QED BY <1>1, <1>2 DEF NextMinute, Clock

LEMMA InitInv == Init => IInv
<1> SUFFICES ASSUME Init PROVE IInv
  OBVIOUS
<1>1. 0 \in Clock /\ 0 \in 0 .. MaxRuns
  BY FlowBoundsAssumption DEF Clock
<1>2. TypeInv
  <2>1. NothingStored \in StoredRow
    BY DEF NothingStored, StoredRow, Prices
  <2>2. AbsentKey \in [savedIn : Clock \cup {-1}, used : Counters]
    BY EmptyCountersType DEF AbsentKey
  <2> QED BY <1>1, <2>1, <2>2, IdleTypes, EmptyCountersType DEF Init, TypeInv, At
<1>3. StoredInv
  BY EmptyInOrder, TotalIsNat DEF Init, StoredInv, NothingStored
<1>4. WorkerInv
  BY IdleTypes DEF Init, WorkerInv, At
<1> QED BY <1>2, <1>3, <1>4 DEF IInv

\* The request a worker is at, and its usage.
LEMMA StepRequest ==
  ASSUME IInv, NEW w \in Workers, worker[w].pc \in {"lock", "count", "sleep", "ask"}
  PROVE  /\ worker[w].sel \in Selections
         /\ StepOf(w) \in Nat /\ StepOf(w) <= Total(worker[w].sel)
         /\ RequestOf(w) \in {Request[p][n] : p \in Products, n \in Nat}
         /\ UsageOf(RequestOf(w)) \in Usage
<1>1. /\ worker[w].sel \in Selections
      /\ worker[w].last \in Nat
      /\ worker[w].last < Total(worker[w].sel)
  BY DEF IInv, TypeInv, WorkerInv, WorkerRow, At
<1>2. Total(worker[w].sel) \in Nat
  BY <1>1, TotalIsNat DEF IInv, TypeInv
<1>3. StepOf(w) \in StepNumbers(product[worker[w].sel])
  BY <1>1, <1>2 DEF StepOf, StepNumbers, Total
<1>4. product[worker[w].sel] \in Products
  BY <1>1 DEF IInv, TypeInv
<1> QED BY <1>1, <1>2, <1>3, <1>4, RequestUsage DEF StepOf, RequestOf

-----------------------------------------------------------------------------
(* One lemma for each kind of step                                         *)

\* A worker that goes on within its step, or to the next.
LEMMA WorkerGoesOn ==
  ASSUME IInv, NEW w \in Workers, NEW row \in WorkerRow,
         worker' = [worker EXCEPT ![w] = row],
         ~At(w, "idle"), row.sel = worker[w].sel, row.last = worker[w].last,
         row.requests = worker[w].requests, row.answers = worker[w].answers,
         row.pc \in {"lock", "count", "sleep", "ask"} => row.last < Total(row.sel),
         row.pc \in {"pdf", "upload"} => row.last = Total(row.sel),
         UNCHANGED product
  PROVE  /\ worker' \in [Workers -> WorkerRow]
         /\ (\A v \in Workers : ~At(v, "idle") => worker[v].sel \in Selections)'
         /\ WorkerInv'
<1>1. worker' \in [Workers -> WorkerRow]
  BY DEF IInv, TypeInv
<1>2. \A v \in Workers : worker'[v] = IF v = w THEN row ELSE worker[v]
  BY DEF IInv, TypeInv
<1>3. \A s \in Selections : Total(s)' = Total(s)
  BY DEF Total
<1>4. (\A v \in Workers : ~At(v, "idle") => worker[v].sel \in Selections)'
  BY <1>2 DEF IInv, TypeInv, At
<1>5. WorkerInv'
  BY <1>2, <1>3 DEF IInv, TypeInv, WorkerInv, At
<1> QED BY <1>1, <1>4, <1>5

\* A worker that has one more answer.
LEMMA ListsGrow ==
  ASSUME IInv, NEW w \in Workers, NEW row \in WorkerRow,
         worker' = [worker EXCEPT ![w] = row],
         row.sel \in Selections, row.pc \in {"step", "save"}, row.last <= Total(row.sel),
         InOrder(row.requests, row.last), InOrder(row.answers, row.last),
         UNCHANGED product
  PROVE  /\ worker' \in [Workers -> WorkerRow]
         /\ (\A v \in Workers : ~At(v, "idle") => worker[v].sel \in Selections)'
         /\ WorkerInv'
<1>1. worker' \in [Workers -> WorkerRow]
  BY DEF IInv, TypeInv
<1>2. \A v \in Workers : worker'[v] = IF v = w THEN row ELSE worker[v]
  BY DEF IInv, TypeInv
<1>3. \A s \in Selections : Total(s)' = Total(s)
  BY DEF Total
<1>4. (\A v \in Workers : ~At(v, "idle") => worker[v].sel \in Selections)'
  BY <1>2 DEF IInv, TypeInv, At
<1>5. WorkerInv'
  BY <1>2, <1>3 DEF IInv, TypeInv, WorkerInv, At
<1> QED BY <1>1, <1>4, <1>5

\* A run that ends.
LEMMA RunEnds ==
  ASSUME IInv, NEW w \in Workers, worker' = [worker EXCEPT ![w] = IdleWorker],
         UNCHANGED product
  PROVE  /\ worker' \in [Workers -> WorkerRow]
         /\ (\A v \in Workers : ~At(v, "idle") => worker[v].sel \in Selections)'
         /\ WorkerInv'
<1>1. worker' \in [Workers -> WorkerRow]
  BY IdleTypes DEF IInv, TypeInv
<1>2. \A v \in Workers : worker'[v] = IF v = w THEN IdleWorker ELSE worker[v]
  BY DEF IInv, TypeInv
<1>3. \A s \in Selections : Total(s)' = Total(s)
  BY DEF Total
<1>4. (\A v \in Workers : ~At(v, "idle") => worker[v].sel \in Selections)'
  BY <1>2, IdleTypes DEF IInv, TypeInv, At
<1>5. WorkerInv'
  BY <1>2, <1>3, IdleTypes DEF IInv, TypeInv, WorkerInv, At
<1> QED BY <1>1, <1>4, <1>5

LEMMA StoredStays ==
  ASSUME IInv, UNCHANGED <<product, stored, pdf>>
  PROVE  StoredInv'
BY DEF IInv, StoredInv, Total

\* The variables a run that ends leaves as they are, but for the lock.
LEMMA EndRunInv ==
  ASSUME IInv, NEW w \in Workers, ~At(w, "idle"), EndRun(w),
         UNCHANGED <<product, stored, runs, minute, lapsed>>, admitted' \in Counters,
         counters' \in [Clock -> [savedIn : Clock \cup {-1}, used : Counters]],
         keyLock' \in [Clock -> Workers \cup {Nobody}],
         pdf' \in [Selections -> Seq(AnswerRow)], StoredInv'
  PROVE  IInv'
<1>1. genLock' \in [Selections -> Workers \cup {Nobody}]
  BY DEF EndRun, IInv, TypeInv
<1>2. WorkerInv' /\ worker' \in [Workers -> WorkerRow]
      /\ (\A v \in Workers : ~At(v, "idle") => worker[v].sel \in Selections)'
  BY RunEnds DEF EndRun
<1> QED BY <1>1, <1>2 DEF IInv, TypeInv

LEMMA TakeInv ==
  ASSUME IInv, NEW w \in Workers, NEW s \in Selections, Take(w, s)
  PROVE  IInv'
<1> DEFINE row == [IdleWorker EXCEPT !.pc = "step", !.sel = s, !.requests = stored[s].requests,
                                     !.answers = stored[s].answers, !.last = stored[s].last]
<1>1. row \in WorkerRow
  BY IdleTypes DEF IInv, TypeInv, StoredRow, WorkerRow
<1>2. /\ row.pc = "step" /\ row.sel = s /\ row.last = stored[s].last
      /\ row.requests = stored[s].requests /\ row.answers = stored[s].answers
  BY DEF IdleWorker
<1> HIDE DEF row
<1>3. worker' = [worker EXCEPT ![w] = row]
  BY DEF Take, row
<1>4. /\ row.sel \in Selections /\ row.last <= Total(row.sel)
      /\ InOrder(row.requests, row.last) /\ InOrder(row.answers, row.last)
  BY <1>2 DEF IInv, StoredInv
<1>5. /\ WorkerInv' /\ worker' \in [Workers -> WorkerRow]
      /\ (\A v \in Workers : ~At(v, "idle") => worker[v].sel \in Selections)'
  <2>1. UNCHANGED product /\ row.pc \in {"step", "save"}
    BY <1>2 DEF Take
  <2> QED BY <1>1, <1>3, <1>4, <2>1, ListsGrow
<1>6. runs' \in [Selections -> 0 .. MaxRuns]
  <2>1. runs[s] \in 0 .. MaxRuns /\ runs[s] < MaxRuns
    BY DEF Take, IInv, TypeInv
  <2>2. runs[s] + 1 \in 0 .. MaxRuns
    BY <2>1, FlowBoundsAssumption
  <2> QED BY <2>2 DEF Take, IInv, TypeInv
<1>7. genLock' \in [Selections -> Workers \cup {Nobody}]
  BY DEF Take, IInv, TypeInv
<1>8. StoredInv'
  BY StoredStays DEF Take
<1> QED BY <1>5, <1>6, <1>7, <1>8 DEF Take, IInv, TypeInv

\* Steps that change a worker and at most the lock of a minute.
LEMMA WorkerStepInv ==
  ASSUME IInv, NEW w \in Workers, NEW row \in WorkerRow, ~At(w, "idle"),
         worker' = [worker EXCEPT ![w] = row],
         row.sel = worker[w].sel, row.last = worker[w].last,
         row.requests = worker[w].requests, row.answers = worker[w].answers,
         row.pc \in {"lock", "count", "sleep", "ask"} => row.last < Total(row.sel),
         row.pc \in {"pdf", "upload"} => row.last = Total(row.sel),
         UNCHANGED <<product, stored, pdf, genLock, runs, minute, lapsed>>,
         counters' \in [Clock -> [savedIn : Clock \cup {-1}, used : Counters]],
         keyLock' \in [Clock -> Workers \cup {Nobody}],
         admitted' \in Counters
  PROVE  IInv'
<1>1. /\ worker' \in [Workers -> WorkerRow]
      /\ (\A v \in Workers : ~At(v, "idle") => worker[v].sel \in Selections)'
      /\ WorkerInv'
  BY WorkerGoesOn
<1>2. StoredInv'
  BY StoredStays
<1> QED BY <1>1, <1>2 DEF IInv, TypeInv

LEMMA NextStepInv ==
  ASSUME IInv, NEW w \in Workers, NextStep(w)
  PROVE  IInv'
<1> DEFINE row == [worker[w] EXCEPT !.pc = "lock", !.tries = Tries, !.key = minute]
<1>1. row \in WorkerRow
  <2>1. worker[w] \in WorkerRow /\ minute \in Clock
    BY DEF IInv, TypeInv
  <2>2. Tries \in 0 .. Tries
    BY FlowBoundsAssumption
  <2> QED BY <2>1, <2>2 DEF WorkerRow
<1>2. worker' = [worker EXCEPT ![w] = row]
  BY DEF NextStep, IInv, TypeInv
<1>3. /\ row.pc = "lock" /\ row.sel = worker[w].sel /\ row.last = worker[w].last
      /\ row.requests = worker[w].requests /\ row.answers = worker[w].answers
  BY DEF IInv, TypeInv, WorkerRow
<1>4. ~At(w, "idle") /\ row.last < Total(row.sel)
  BY <1>3 DEF NextStep, At
<1>5. /\ UNCHANGED <<product, stored, pdf, genLock, runs, minute, lapsed>>
      /\ counters' \in [Clock -> [savedIn : Clock \cup {-1}, used : Counters]]
      /\ keyLock' \in [Clock -> Workers \cup {Nobody}]
      /\ admitted' \in Counters
  BY DEF NextStep, redis, IInv, TypeInv
<1> HIDE DEF row
<1> QED BY <1>1, <1>2, <1>3, <1>4, <1>5, WorkerStepInv

LEMMA LockKeyInv ==
  ASSUME IInv, NEW w \in Workers, LockKey(w)
  PROVE  IInv'
<1> DEFINE k == worker[w].key
           row == [worker[w] EXCEPT !.pc = "count", !.seen = counters[k].used]
<1>1. k \in Clock
  BY DEF IInv, TypeInv, WorkerRow
<1>2. row \in WorkerRow
  <2>1. worker[w] \in WorkerRow /\ counters[k].used \in Counters
    BY <1>1 DEF IInv, TypeInv
  <2> QED BY <2>1 DEF WorkerRow
<1>3. worker' = [worker EXCEPT ![w] = row]
  BY DEF LockKey, IInv, TypeInv
<1>4. /\ row.pc = "count" /\ row.sel = worker[w].sel /\ row.last = worker[w].last
      /\ row.requests = worker[w].requests /\ row.answers = worker[w].answers
  BY DEF IInv, TypeInv, WorkerRow
<1>5. ~At(w, "idle") /\ row.last < Total(row.sel)
  BY <1>4 DEF LockKey, At, IInv, WorkerInv
<1>6. /\ UNCHANGED <<product, stored, pdf, genLock, runs, minute, lapsed>>
      /\ counters' \in [Clock -> [savedIn : Clock \cup {-1}, used : Counters]]
      /\ keyLock' \in [Clock -> Workers \cup {Nobody}]
      /\ admitted' \in Counters
  BY DEF LockKey, IInv, TypeInv
<1> HIDE DEF row
<1> QED BY <1>2, <1>3, <1>4, <1>5, <1>6, WorkerStepInv

\* What Admit and Decline make of the counters.
LEMMA AdmitTypes ==
  ASSUME IInv, NEW w \in Workers, Admit(w)
  PROVE  /\ counters' \in [Clock -> [savedIn : Clock \cup {-1}, used : Counters]]
         /\ admitted' \in Counters
<1> DEFINE k == worker[w].key
           request == UsageOf(RequestOf(w))
           seen == worker[w].seen
           account == Accounts[FirstSuitable(seen, request)]
<1>1. At(w, "count") /\ Suitable(seen, request) # {}
  BY DEF Admit
<1>2. k \in Clock /\ seen \in Counters
  BY DEF IInv, TypeInv, WorkerRow
<1>3. request \in Usage
  BY <1>1, StepRequest DEF At
<1>4. account \in AccountNames
  BY <1>1, <1>2, <1>3, FirstSuitableFits
<1>5. Charge(seen, account, request) \in Counters /\ Charge(admitted, account, request) \in Counters
  BY <1>2, <1>3, <1>4, ChargeWithinLimits DEF IInv, TypeInv
<1>6. counters' = [counters EXCEPT ![k] = [savedIn |-> minute,
                                           used |-> Charge(seen, account, request)]]
  BY DEF Admit
<1>7. admitted' = IF k = minute THEN Charge(admitted, account, request) ELSE admitted
  BY DEF Admit
<1> HIDE DEF account, request, seen, k
<1> QED BY <1>2, <1>5, <1>6, <1>7 DEF IInv, TypeInv

LEMMA AdmitInv ==
  ASSUME IInv, NEW w \in Workers, Admit(w)
  PROVE  IInv'
<1> DEFINE k == worker[w].key
           row == [worker[w] EXCEPT !.pc = "ask", !.seen = EmptyCounters, !.key = 0, !.tries = 0]
<1>1. /\ counters' \in [Clock -> [savedIn : Clock \cup {-1}, used : Counters]]
      /\ admitted' \in Counters
  BY AdmitTypes
<1>2. ~At(w, "idle") /\ UNCHANGED <<product, stored, pdf, runs, minute, lapsed>>
  BY DEF Admit, At
<1>3. CASE keyLock[k] = w
  <2>1. row \in WorkerRow
    <3>1. worker[w] \in WorkerRow /\ 0 \in Clock /\ 0 \in 0 .. Tries
      BY FlowBoundsAssumption DEF IInv, TypeInv, Clock
    <3> QED BY <3>1, EmptyCountersType DEF WorkerRow
  <2>2. worker' = [worker EXCEPT ![w] = row]
    BY <1>3 DEF Admit, IInv, TypeInv
  <2>3. /\ row.pc = "ask" /\ row.sel = worker[w].sel /\ row.last = worker[w].last
        /\ row.requests = worker[w].requests /\ row.answers = worker[w].answers
    BY DEF IInv, TypeInv, WorkerRow
  <2>4. row.last < Total(row.sel)
    BY <2>3 DEF Admit, At, IInv, WorkerInv
  <2>5. keyLock' \in [Clock -> Workers \cup {Nobody}] /\ UNCHANGED genLock
    BY <1>3 DEF Admit, IInv, TypeInv
  <2> HIDE DEF row
  <2> QED BY <1>1, <1>2, <2>1, <2>2, <2>3, <2>4, <2>5, WorkerStepInv
<1>4. CASE keyLock[k] # w
  <2>1. EndRun(w) /\ UNCHANGED keyLock
    BY <1>4 DEF Admit
  <2>2. keyLock' \in [Clock -> Workers \cup {Nobody}] /\ pdf' \in [Selections -> Seq(AnswerRow)]
    BY <1>2, <2>1 DEF IInv, TypeInv
  <2>3. StoredInv'
    BY <1>2, StoredStays
  <2> QED BY <1>1, <1>2, <2>1, <2>2, <2>3, EndRunInv
<1> QED BY <1>3, <1>4

LEMMA DeclineInv ==
  ASSUME IInv, NEW w \in Workers, Decline(w)
  PROVE  IInv'
<1> DEFINE k == worker[w].key
           row == [worker[w] EXCEPT !.pc = "sleep", !.key = minute, !.tries = @ - 1,
                                    !.seen = EmptyCounters]
<1>1. /\ ~At(w, "idle") /\ UNCHANGED <<product, stored, pdf, runs, minute, admitted, lapsed>>
      /\ counters' \in [Clock -> [savedIn : Clock \cup {-1}, used : Counters]]
      /\ keyLock' \in [Clock -> Workers \cup {Nobody}]
      /\ admitted' \in Counters
      /\ pdf' \in [Selections -> Seq(AnswerRow)]
  BY DEF Decline, At, IInv, TypeInv
<1>2. CASE keyLock[k] = w /\ worker[w].tries > 1
  <2>1. row \in WorkerRow
    <3>1. worker[w] \in WorkerRow /\ minute \in Clock
      BY DEF IInv, TypeInv
    <3>2. worker[w].tries \in 0 .. Tries /\ Tries \in Nat
      BY <3>1, FlowBoundsAssumption DEF WorkerRow
    <3>3. worker[w].tries - 1 \in 0 .. Tries
      BY <1>2, <3>2
    <3> QED BY <3>1, <3>3, EmptyCountersType DEF WorkerRow
  <2>2. worker' = [worker EXCEPT ![w] = row] /\ UNCHANGED genLock
    BY <1>2 DEF Decline, IInv, TypeInv
  <2>3. /\ row.pc = "sleep" /\ row.sel = worker[w].sel /\ row.last = worker[w].last
        /\ row.requests = worker[w].requests /\ row.answers = worker[w].answers
    BY DEF IInv, TypeInv, WorkerRow
  <2>4. row.last < Total(row.sel)
    BY <2>3 DEF Decline, At, IInv, WorkerInv
  <2> HIDE DEF row
  <2> QED BY <1>1, <2>1, <2>2, <2>3, <2>4, WorkerStepInv
<1>3. CASE ~(keyLock[k] = w /\ worker[w].tries > 1)
  <2>1. EndRun(w)
    BY <1>3 DEF Decline
  <2>2. StoredInv'
    BY <1>1, StoredStays
  <2> QED BY <1>1, <2>1, <2>2, EndRunInv
<1> QED BY <1>2, <1>3

LEMMA WakeUpInv ==
  ASSUME IInv, NEW w \in Workers, WakeUp(w)
  PROVE  IInv'
<1> DEFINE row == [worker[w] EXCEPT !.pc = "lock", !.key = minute]
<1>1. row \in WorkerRow
  <2>1. worker[w] \in WorkerRow /\ minute \in Clock
    BY DEF IInv, TypeInv
  <2> QED BY <2>1 DEF WorkerRow
<1>2. worker' = [worker EXCEPT ![w] = row]
  BY DEF WakeUp, IInv, TypeInv
<1>3. /\ row.pc = "lock" /\ row.sel = worker[w].sel /\ row.last = worker[w].last
      /\ row.requests = worker[w].requests /\ row.answers = worker[w].answers
  BY DEF IInv, TypeInv, WorkerRow
<1>4. ~At(w, "idle") /\ row.last < Total(row.sel)
  BY <1>3 DEF WakeUp, At, IInv, WorkerInv
<1>5. /\ UNCHANGED <<product, stored, pdf, genLock, runs, minute, lapsed>>
      /\ counters' \in [Clock -> [savedIn : Clock \cup {-1}, used : Counters]]
      /\ keyLock' \in [Clock -> Workers \cup {Nobody}]
      /\ admitted' \in Counters
  BY DEF WakeUp, redis, IInv, TypeInv
<1> HIDE DEF row
<1> QED BY <1>1, <1>2, <1>3, <1>4, <1>5, WorkerStepInv

\* What the answer of a step does to the row of its process: it goes to the
\* save, one step further, with one more entry in each list.
LEMMA AnsweredRow ==
  ASSUME NEW r \in WorkerRow, NEW rq, NEW an
  PROVE  [r EXCEPT !.pc = "save", !.last = @ + 1,
            !.requests = Append(@, rq), !.answers = Append(@, an)]
         = [pc |-> "save", sel |-> r.sel,
            requests |-> Append(r.requests, rq), answers |-> Append(r.answers, an),
            last |-> r.last + 1, key |-> r.key, seen |-> r.seen, tries |-> r.tries]
<1>1. r = [pc |-> r.pc, sel |-> r.sel, requests |-> r.requests, answers |-> r.answers,
           last |-> r.last, key |-> r.key, seen |-> r.seen, tries |-> r.tries]
  BY DEF WorkerRow
<1> DEFINE n == r.last + 1
           more == Append(r.requests, rq)
           back == Append(r.answers, an)
           Row(pc, requests, answers, last) ==
             [pc |-> pc, sel |-> r.sel, requests |-> requests, answers |-> answers,
              last |-> last, key |-> r.key, seen |-> r.seen, tries |-> r.tries]
           old   == Row(r.pc, r.requests, r.answers, r.last)
           moved == Row("save", r.requests, r.answers, r.last)
           ahead == Row("save", r.requests, r.answers, n)
           asked == Row("save", more, r.answers, n)
           new   == Row("save", more, back, n)
<1> HIDE DEF n, more, back
<1>2. /\ [old EXCEPT !.pc = "save"] = moved
      /\ [moved EXCEPT !.last = n] = ahead
      /\ [ahead EXCEPT !.requests = more] = asked
      /\ [asked EXCEPT !.answers = back] = new
  OBVIOUS
<1>3. r = old
  BY <1>1
<1> HIDE DEF old, moved, ahead, asked, new
<1>4. [r EXCEPT !.pc = "save", !.last = n, !.requests = more, !.answers = back] = new
  BY <1>2, <1>3
<1> QED BY <1>4 DEF n, more, back, new

\* The answer makes both lists one step longer.
LEMMA AskDoneInv ==
  ASSUME IInv, NEW w \in Workers, AskDone(w)
  PROVE  IInv'
<1> DEFINE n == worker[w].last
           rq == [step |-> StepOf(w), details |-> RequestOf(w)]
           An(text) == [step |-> StepOf(w),
                        answer |-> AnswerOf[product[worker[w].sel]][StepOf(w)][text]]
<1>1. PICK text \in Texts :
        worker' = [worker EXCEPT ![w].pc = "save", ![w].last = @ + 1,
                     ![w].requests = Append(@, rq), ![w].answers = Append(@, An(text))]
  BY DEF AskDone
<1> DEFINE an == An(text)
           row == [pc |-> "save", sel |-> worker[w].sel,
                   requests |-> Append(worker[w].requests, rq),
                   answers |-> Append(worker[w].answers, an), last |-> n + 1,
                   key |-> worker[w].key, seen |-> worker[w].seen, tries |-> worker[w].tries]
<1>2. /\ At(w, "ask") /\ worker[w] \in WorkerRow /\ n \in Nat
      /\ worker[w].requests \in Seq(RequestRow) /\ worker[w].answers \in Seq(AnswerRow)
      /\ InOrder(worker[w].requests, n) /\ InOrder(worker[w].answers, n)
  BY DEF AskDone, IInv, TypeInv, WorkerInv, WorkerRow, At
<1>3. /\ worker[w].sel \in Selections
      /\ StepOf(w) = n + 1 /\ StepOf(w) \in Nat /\ StepOf(w) <= Total(worker[w].sel)
      /\ RequestOf(w) \in {Request[p][i] : p \in Products, i \in Nat}
  BY <1>2, StepRequest DEF StepOf, At
<1>4. product[worker[w].sel] \in Products
  BY <1>3 DEF IInv, TypeInv
<1>5. rq \in RequestRow /\ an \in AnswerRow /\ rq.step = n + 1 /\ an.step = n + 1
  BY <1>3, <1>4 DEF RequestRow, AnswerRow
<1> HIDE DEF rq, an
<1>7. worker' = [worker EXCEPT ![w] = row]
  <2>1. worker' = [worker EXCEPT ![w].pc = "save", ![w].last = @ + 1,
                     ![w].requests = Append(@, rq), ![w].answers = Append(@, an)]
    BY <1>1 DEF an
  <2>2. worker[w] \in WorkerRow
    BY <1>2
  <2>3. [worker[w] EXCEPT !.pc = "save", !.last = @ + 1,
           !.requests = Append(@, rq), !.answers = Append(@, an)] = row
    BY <2>2, AnsweredRow
  <2>4. worker' = [worker EXCEPT ![w] = [worker[w] EXCEPT !.pc = "save", !.last = @ + 1,
                     !.requests = Append(@, rq), !.answers = Append(@, an)]]
    BY <2>1
  <2> HIDE DEF row
  <2> QED BY <2>3, <2>4
<1>6. /\ Append(worker[w].requests, rq) \in Seq(RequestRow)
      /\ InOrder(Append(worker[w].requests, rq), n + 1)
      /\ Append(worker[w].answers, an) \in Seq(AnswerRow)
      /\ InOrder(Append(worker[w].answers, an), n + 1)
  <2> HIDE DEF n
  <2>1. Append(worker[w].requests, rq) \in Seq(RequestRow)
        /\ InOrder(Append(worker[w].requests, rq), n + 1)
    BY <1>2, <1>5, AppendInOrder
  <2>2. Append(worker[w].answers, an) \in Seq(AnswerRow)
        /\ InOrder(Append(worker[w].answers, an), n + 1)
    BY <1>2, <1>5, AppendInOrder
  <2> QED BY <2>1, <2>2
<1>8. /\ row \in WorkerRow
      /\ row.pc = "save" /\ row.sel = worker[w].sel /\ row.last = n + 1
      /\ row.requests = Append(worker[w].requests, rq)
      /\ row.answers = Append(worker[w].answers, an)
  <2> HIDE DEF n
  <2>1. n + 1 \in Nat /\ n = worker[w].last
    BY <1>2 DEF n
  <2> QED BY <1>2, <1>6, <2>1 DEF WorkerRow
<1> HIDE DEF row
<1>9. /\ row.sel \in Selections /\ row.last <= Total(row.sel)
      /\ InOrder(row.requests, row.last) /\ InOrder(row.answers, row.last)
  <2> HIDE DEF n
  <2>1. row.last <= Total(worker[w].sel)
    <3>1. row.last = n + 1
      BY <1>8
    <3>2. StepOf(w) = n + 1 /\ StepOf(w) <= Total(worker[w].sel)
      BY <1>3
    <3> QED BY <3>1, <3>2
  <2> QED BY <2>1, <1>3, <1>6, <1>8
<1>11. /\ WorkerInv' /\ worker' \in [Workers -> WorkerRow]
       /\ (\A v \in Workers : ~At(v, "idle") => worker[v].sel \in Selections)'
  BY <1>7, <1>8, <1>9, ListsGrow DEF AskDone
<1>14. StoredInv'
  BY StoredStays DEF AskDone
<1> QED BY <1>11, <1>14 DEF AskDone, redis, IInv, TypeInv

\* A worker that goes to its next place, with a column changed or not.
LEMMA GotoRow ==
  ASSUME IInv, NEW w \in Workers, NEW pc \in {"step", "pdf", "upload"},
         Goto(w, pc), ~At(w, "idle"), UNCHANGED product,
         pc \in {"pdf", "upload"} => worker[w].last = Total(worker[w].sel)
  PROVE  /\ worker' \in [Workers -> WorkerRow]
         /\ (\A v \in Workers : ~At(v, "idle") => worker[v].sel \in Selections)'
         /\ WorkerInv'
<1> DEFINE row == [worker[w] EXCEPT !.pc = pc]
<1>1. worker[w] \in WorkerRow
  BY DEF IInv, TypeInv
<1>2. row \in WorkerRow /\ worker' = [worker EXCEPT ![w] = row]
  BY <1>1 DEF Goto, WorkerRow, IInv, TypeInv
<1>3. /\ row.pc = pc /\ row.sel = worker[w].sel /\ row.last = worker[w].last
      /\ row.requests = worker[w].requests /\ row.answers = worker[w].answers
  BY <1>1 DEF WorkerRow
<1> HIDE DEF row
<1> QED BY <1>2, <1>3, WorkerGoesOn

\* What save_step commits: the lists of the worker.
LEMMA SaveInv ==
  ASSUME IInv, NEW w \in Workers, Save(w)
  PROVE  IInv'
<1> DEFINE s == worker[w].sel
           row == [requests |-> worker[w].requests, answers |-> worker[w].answers,
                   last |-> worker[w].last, price |-> stored[s].price]
<1>1. ~At(w, "idle") /\ s \in Selections /\ worker[w] \in WorkerRow
  BY DEF Save, At, IInv, TypeInv
<1>2. stored[s] \in StoredRow
  BY <1>1 DEF IInv, TypeInv
<1>3. row \in StoredRow
  BY <1>1, <1>2 DEF WorkerRow, StoredRow
<1>4. stored' = [stored EXCEPT ![s] = row]
  BY DEF Save
<1>11. /\ row.requests = worker[w].requests /\ row.answers = worker[w].answers
       /\ row.last = worker[w].last
  OBVIOUS
<1>5. /\ row.last <= Total(s) /\ InOrder(row.requests, row.last)
      /\ InOrder(row.answers, row.last)
  BY <1>1, <1>11 DEF IInv, WorkerInv
<1> HIDE DEF row, s
<1>6. /\ worker' \in [Workers -> WorkerRow] /\ WorkerInv'
      /\ (\A v \in Workers : ~At(v, "idle") => worker[v].sel \in Selections)'
  BY <1>1, GotoRow DEF Save
<1>7. stored' \in [Selections -> StoredRow]
  BY <1>3, <1>4 DEF IInv, TypeInv
<1>8. \A t \in Selections : stored'[t] = IF t = s THEN row ELSE stored[t]
  BY <1>4 DEF IInv, TypeInv
<1>9. \A t \in Selections : Total(t)' = Total(t)
  BY DEF Save, Total
<1>10. StoredInv'
  BY <1>1, <1>5, <1>8, <1>9 DEF Save, IInv, StoredInv
<1> QED BY <1>6, <1>7, <1>10 DEF Save, redis, IInv, TypeInv

LEMMA PriceInv ==
  ASSUME IInv, NEW w \in Workers, Price(w)
  PROVE  IInv'
<1> DEFINE s == worker[w].sel
           price == PriceOf(worker[w].answers)
           row == [requests |-> stored[s].requests, answers |-> stored[s].answers,
                   last |-> stored[s].last, price |-> price]
<1>1. ~At(w, "idle") /\ s \in Selections /\ worker[w].answers \in Seq(AnswerRow)
      /\ worker[w].last \in Nat
  BY DEF Price, At, IInv, TypeInv, WorkerRow
<1>2. stored[s] \in StoredRow
  BY <1>1 DEF IInv, TypeInv
<1>3. price \in Prices
  BY <1>1 DEF Prices
<1>4. stored' = [stored EXCEPT ![s].price = price]
  BY DEF Price
<1> HIDE DEF price
<1>5. row \in StoredRow /\ stored' = [stored EXCEPT ![s] = row]
  <2> HIDE DEF s
  <2>1. stored \in [Selections -> StoredRow]
    BY DEF IInv, TypeInv
  <2>2. row \in StoredRow
    BY <1>2, <1>3 DEF StoredRow
  <2>4. row = [stored[s] EXCEPT !.price = price]
    BY <1>2 DEF StoredRow
  <2> HIDE DEF row
  <2>3. stored' = [stored EXCEPT ![s] = row]
    BY <1>1, <1>4, <2>1, <2>4
  <2> QED BY <2>2, <2>3
<1>6. row.last = stored[s].last /\ row.requests = stored[s].requests
      /\ row.answers = stored[s].answers
  OBVIOUS
<1>7. worker[w].last = Total(s)
  <2>1. worker[w].last >= Total(s) /\ worker[w].last <= Total(s)
    BY <1>1 DEF Price, IInv, WorkerInv
  <2>2. Total(s) \in Nat
    BY <1>1, TotalIsNat DEF IInv, TypeInv
  <2> HIDE DEF s
  <2> QED BY <2>1, <2>2, <1>1
<1>8. /\ worker' \in [Workers -> WorkerRow] /\ WorkerInv'
      /\ (\A v \in Workers : ~At(v, "idle") => worker[v].sel \in Selections)'
  BY <1>1, <1>7, GotoRow DEF Price
<1> HIDE DEF row, s
<1>9. stored' \in [Selections -> StoredRow]
  BY <1>5 DEF IInv, TypeInv
<1>10. \A t \in Selections : stored'[t] = IF t = s THEN row ELSE stored[t]
  BY <1>5 DEF IInv, TypeInv
<1>11. \A t \in Selections : Total(t)' = Total(t)
  BY DEF Price, Total
<1>12. StoredInv'
  BY <1>1, <1>6, <1>10, <1>11 DEF Price, IInv, StoredInv
<1> QED BY <1>8, <1>9, <1>12 DEF Price, redis, IInv, TypeInv

LEMMA BuildPdfInv ==
  ASSUME IInv, NEW w \in Workers, BuildPdf(w)
  PROVE  IInv'
<1>1. ~At(w, "idle") /\ worker[w].last = Total(worker[w].sel)
  BY DEF BuildPdf, At, IInv, WorkerInv
<1>2. /\ worker' \in [Workers -> WorkerRow] /\ WorkerInv'
      /\ (\A v \in Workers : ~At(v, "idle") => worker[v].sel \in Selections)'
  BY <1>1, GotoRow DEF BuildPdf
<1>3. StoredInv'
  BY StoredStays DEF BuildPdf
<1> QED BY <1>2, <1>3 DEF BuildPdf, redis, IInv, TypeInv

\* A run that ends with nothing but its lock changed.
LEMMA RunIsOver ==
  ASSUME IInv, NEW w \in Workers, ~At(w, "idle"), EndRun(w),
         UNCHANGED <<product, stored, pdf, counters, keyLock, runs, minute, admitted, lapsed>>
  PROVE  IInv'
<1>1. StoredInv'
  BY StoredStays
<1> QED BY <1>1, EndRunInv DEF IInv, TypeInv

\* The PDF is built from the answers of a run that has none left to ask for.
LEMMA UploadInv ==
  ASSUME IInv, NEW w \in Workers, Upload(w)
  PROVE  IInv'
<1> DEFINE s == worker[w].sel
           answers == worker[w].answers
<1>1. ~At(w, "idle") /\ s \in Selections /\ answers \in Seq(AnswerRow)
  BY DEF Upload, At, IInv, TypeInv, WorkerRow
<1>2. InOrder(answers, Total(s))
  BY DEF Upload, At, IInv, WorkerInv
<1>3. pdf' = [pdf EXCEPT ![s] = answers]
  BY DEF Upload
<1> HIDE DEF s, answers
<1>4. pdf' \in [Selections -> Seq(AnswerRow)]
  BY <1>1, <1>3 DEF IInv, TypeInv
<1>5. \A t \in Selections : pdf'[t] = IF t = s THEN answers ELSE pdf[t]
  BY <1>3 DEF IInv, TypeInv
<1>6. \A t \in Selections : Total(t)' = Total(t)
  BY DEF Upload, Total
<1>7. StoredInv'
  BY <1>1, <1>2, <1>5, <1>6 DEF Upload, IInv, StoredInv
<1> QED BY <1>1, <1>4, <1>7, EndRunInv DEF Upload, IInv, TypeInv

\* A process that dies leaves its locks.
LEMMA CrashInv ==
  ASSUME IInv, NEW w \in Workers, Crash(w)
  PROVE  IInv'
<1>1. /\ worker' \in [Workers -> WorkerRow] /\ WorkerInv'
      /\ (\A v \in Workers : ~At(v, "idle") => worker[v].sel \in Selections)'
  BY RunEnds DEF Crash
<1>2. StoredInv'
  BY StoredStays DEF Crash
<1> QED BY <1>1, <1>2 DEF Crash, redis, IInv, TypeInv

\* The steps of Redis and of the clock change no selection and no worker.
LEMMA RedisInv ==
  ASSUME IInv, UNCHANGED <<product, stored, pdf, runs, worker>>,
         minute' \in Clock,
         genLock' \in [Selections -> Workers \cup {Nobody}],
         counters' \in [Clock -> [savedIn : Clock \cup {-1}, used : Counters]],
         keyLock' \in [Clock -> Workers \cup {Nobody}],
         admitted' \in Counters,
         lapsed' \in [selections : SUBSET Selections, minutes : SUBSET Clock]
  PROVE  IInv'
<1>1. StoredInv'
  BY StoredStays
<1>2. WorkerInv' /\ (\A v \in Workers : ~At(v, "idle") => worker[v].sel \in Selections)'
  BY DEF IInv, TypeInv, WorkerInv, At, Total
<1> QED BY <1>1, <1>2 DEF IInv, TypeInv

LEMMA LocksAndClockInv ==
  ASSUME IInv
  PROVE  /\ \A k \in Clock : Expire(k) \/ KeyLockExpires(k) \/ KeyLockLapses(k) => IInv'
         /\ \A s \in Selections : GenLockExpires(s) \/ GenLockLapses(s) => IInv'
         /\ Tick => IInv'
<1>1. AbsentKey \in [savedIn : Clock \cup {-1}, used : Counters]
  BY EmptyCountersType DEF AbsentKey
<1>2. ASSUME NEW k \in Clock, Expire(k) PROVE IInv'
  <2>1. counters' \in [Clock -> [savedIn : Clock \cup {-1}, used : Counters]]
    BY <1>1, <1>2 DEF Expire, IInv, TypeInv
  <2> QED BY <1>2, <2>1, RedisInv DEF Expire, IInv, TypeInv
<1>3. ASSUME NEW k \in Clock, KeyLockExpires(k) PROVE IInv'
  <2>1. keyLock' \in [Clock -> Workers \cup {Nobody}]
    BY <1>3 DEF KeyLockExpires, IInv, TypeInv
  <2> QED BY <1>3, <2>1, RedisInv DEF KeyLockExpires, IInv, TypeInv
<1>4. ASSUME NEW k \in Clock, KeyLockLapses(k) PROVE IInv'
  <2>1. keyLock' \in [Clock -> Workers \cup {Nobody}]
    BY <1>4 DEF KeyLockLapses, IInv, TypeInv
  <2>2. lapsed' \in [selections : SUBSET Selections, minutes : SUBSET Clock]
    BY <1>4 DEF KeyLockLapses, IInv, TypeInv
  <2> QED BY <1>4, <2>1, <2>2, RedisInv DEF KeyLockLapses, IInv, TypeInv
<1>5. ASSUME NEW s \in Selections, GenLockExpires(s) PROVE IInv'
  <2>1. genLock' \in [Selections -> Workers \cup {Nobody}]
    BY <1>5 DEF GenLockExpires, IInv, TypeInv
  <2> QED BY <1>5, <2>1, RedisInv DEF GenLockExpires, IInv, TypeInv
<1>6. ASSUME NEW s \in Selections, GenLockLapses(s) PROVE IInv'
  <2>1. genLock' \in [Selections -> Workers \cup {Nobody}]
    BY <1>6 DEF GenLockLapses, IInv, TypeInv
  <2>2. lapsed' \in [selections : SUBSET Selections, minutes : SUBSET Clock]
    BY <1>6 DEF GenLockLapses, IInv, TypeInv
  <2> QED BY <1>6, <2>1, <2>2, RedisInv DEF GenLockLapses, IInv, TypeInv
<1>7. ASSUME Tick PROVE IInv'
  <2>1. counters' \in [Clock -> [savedIn : Clock \cup {-1}, used : Counters]]
    BY <1>1, <1>7 DEF Tick, IInv, TypeInv
  <2>2. lapsed' \in [selections : SUBSET Selections, minutes : SUBSET Clock]
    BY <1>7 DEF Tick, IInv, TypeInv
  <2>3. minute' \in Clock /\ admitted' \in Counters
    BY <1>7, NextMinuteType, EmptyCountersType DEF Tick, IInv, TypeInv
  <2>4. genLock' \in [Selections -> Workers \cup {Nobody}] /\ keyLock' \in [Clock -> Workers \cup {Nobody}]
    BY <1>7 DEF Tick, IInv, TypeInv
  <2>5. UNCHANGED <<product, stored, pdf, runs, worker>>
    BY <1>7 DEF Tick
  <2> QED BY <2>1, <2>2, <2>3, <2>4, <2>5, RedisInv
<1> QED BY <1>2, <1>3, <1>4, <1>5, <1>6, <1>7

LEMMA StepInv ==
  ASSUME IInv, [Next]_vars
  PROVE  IInv'
<1>1. ASSUME NEW w \in Workers, NEW s \in Selections, Take(w, s) PROVE IInv'
  BY <1>1, TakeInv
<1>2. ASSUME NEW w \in Workers, Work(w) PROVE IInv'
  <2>1. ASSUME NoUnitPrice(w) PROVE IInv'
    BY <2>1, RunIsOver DEF NoUnitPrice, At
  <2> QED BY <1>2, <2>1, NextStepInv, LockKeyInv, AdmitInv, DeclineInv, WakeUpInv,
             AskDoneInv, SaveInv, PriceInv, BuildPdfInv, UploadInv DEF Work
<1>3. ASSUME NEW w \in Workers, S3Fails(w) \/ RunFails(w) PROVE IInv'
  BY <1>3, RunIsOver DEF S3Fails, RunFails, At
<1>4. ASSUME NEW w \in Workers, Crash(w) PROVE IInv'
  BY <1>4, CrashInv
<1>5. ASSUME UNCHANGED vars PROVE IInv'
  <2>1. UNCHANGED <<product, stored, pdf, genLock, counters, keyLock, runs, worker, minute,
                    admitted, lapsed>>
    BY <1>5 DEF vars, redis
  <2> QED BY <2>1, RedisInv DEF IInv, TypeInv
<1> QED BY <1>1, <1>2, <1>3, <1>4, <1>5, LocksAndClockInv DEF Next

\* Every selection and every worker has the steps 1 to last, in order.
THEOREM AnalysisInductive == Spec => []IInv
<1>1. IInv /\ [Next]_vars => IInv'
  BY StepInv
<1> QED BY <1>1, InitInv, PTL DEF Spec

\* The type invariant of the runs.
THEOREM AnalysisTypes == Spec => []AnalysisTypeOK
<1>1. IInv => AnalysisTypeOK
  <2> SUFFICES ASSUME IInv PROVE AnalysisTypeOK
    OBVIOUS
  <2>1. ASSUME NEW s \in Selections
        PROVE  stored[s].last \in 0 .. Total(s) /\ genLock[s] \in Workers \cup {Nobody}
               /\ runs[s] \in 0 .. MaxRuns
    <3>1. stored[s].last \in Nat /\ stored[s].last <= Total(s)
      BY DEF IInv, TypeInv, StoredInv, StoredRow
    <3>2. Total(s) \in Nat
      BY TotalIsNat DEF IInv, TypeInv
    <3> QED BY <3>1, <3>2 DEF IInv, TypeInv
  <2>2. ASSUME NEW w \in Workers
        PROVE  /\ worker[w].pc \in {"idle", "step", "lock", "count", "sleep", "ask", "save",
                                    "pdf", "upload"}
               /\ worker[w].key \in Clock /\ worker[w].seen \in Counters
               /\ ~At(w, "idle") => worker[w].sel \in Selections
               /\ worker[w].tries \in 0 .. Tries
    BY DEF IInv, TypeInv, WorkerRow
  <2>3. ASSUME NEW k \in Clock
        PROVE  /\ counters[k].savedIn \in Clock \cup {-1} /\ counters[k].used \in Counters
               /\ keyLock[k] \in Workers \cup {Nobody}
    BY DEF IInv, TypeInv
  <2> QED BY <2>1, <2>2, <2>3 DEF IInv, TypeInv, AnalysisTypeOK
<1> QED BY <1>1, AnalysisInductive, PTL

\* A selection holds the requests and the answers of the steps 1 to
\* analysis_last_step, without a gap or a repetition (save_step).
THEOREM StoredInOrder == Spec => []StoredStepsInOrder
<1>1. IInv => StoredStepsInOrder
  <2> SUFFICES ASSUME IInv, NEW s \in Selections
               PROVE  /\ StepsOf(stored[s].answers) = FirstSteps(stored[s].last)
                      /\ StepsOf(stored[s].requests) = FirstSteps(stored[s].last)
    BY DEF StoredStepsInOrder
  <2>1. /\ stored[s].answers \in Seq(AnswerRow) /\ stored[s].requests \in Seq(RequestRow)
        /\ stored[s].last \in Nat
    BY DEF IInv, TypeInv, StoredRow
  <2>2. InOrder(stored[s].answers, stored[s].last) /\ InOrder(stored[s].requests, stored[s].last)
    BY DEF IInv, StoredInv
  <2>3. StepsOf(stored[s].answers) = FirstSteps(stored[s].last)
    BY <2>1, <2>2, InOrderIsFirstSteps
  <2>4. StepsOf(stored[s].requests) = FirstSteps(stored[s].last)
    BY <2>1, <2>2, InOrderIsFirstSteps
  <2> QED BY <2>3, <2>4
<1> QED BY <1>1, AnalysisInductive, PTL

\* The PDF of a selection is printed from the answers of all its steps.
THEOREM PdfComplete == Spec => []PdfFromAllSteps
<1>1. IInv => PdfFromAllSteps
  <2> SUFFICES ASSUME IInv, NEW s \in Selections, pdf[s] # <<>>
               PROVE  StepsOf(pdf[s]) = FirstSteps(Total(s))
    BY DEF PdfFromAllSteps
  <2>1. pdf[s] \in Seq(AnswerRow) /\ InOrder(pdf[s], Total(s))
    BY DEF IInv, TypeInv, StoredInv
  <2>2. Total(s) \in Nat
    BY TotalIsNat DEF IInv, TypeInv
  <2> QED BY <2>1, <2>2, InOrderIsFirstSteps
<1> QED BY <1>1, AnalysisInductive, PTL

-----------------------------------------------------------------------------
(* The lock of a selection                                                 *)

\* While the lock of a selection has not run out, the worker that runs it
\* holds the lock, and has what is saved, or one answer more.
Holds(w, s) ==
  /\ genLock[s] = w
  /\ ~At(w, "save") => /\ worker[w].last = stored[s].last
                       /\ worker[w].answers = stored[s].answers
  /\ At(w, "save") =>
       /\ worker[w].last = stored[s].last + 1
       /\ \E row \in AnswerRow : worker[w].answers = Append(stored[s].answers, row)

LockInv ==
  \A w \in Workers, s \in Selections \ lapsed.selections : Runs(w, s) => Holds(w, s)

\* A step that brings a worker neither to the end of its run nor to an answer.
SameLists(w) ==
  /\ \A v \in Workers \ {w} : worker'[v] = worker[v]
  /\ worker'[w].sel = worker[w].sel /\ worker'[w].last = worker[w].last
  /\ worker'[w].answers = worker[w].answers
  /\ worker[w].pc \notin {"idle", "save"} /\ worker'[w].pc \notin {"idle", "save"}

LEMMA SameListsLock ==
  ASSUME LockInv, NEW w \in Workers, SameLists(w), UNCHANGED genLock,
         \A s \in Selections : stored'[s].last = stored[s].last
                             /\ stored'[s].answers = stored[s].answers,
         lapsed'.selections = lapsed.selections
  PROVE  LockInv'
<1> SUFFICES ASSUME NEW v \in Workers, NEW s \in Selections, s \notin lapsed.selections,
                    worker'[v].pc # "idle", worker'[v].sel = s
             PROVE  Holds(v, s)'
  BY DEF LockInv, Runs, At
<1>1. worker[v].pc # "idle" /\ worker[v].sel = s
  BY DEF SameLists
<1>2. Holds(v, s)
  BY <1>1 DEF LockInv, Runs, At
<1>3. CASE v = w
  BY <1>2, <1>3 DEF Holds, SameLists, At
<1>4. CASE v # w
  <2>1. worker'[v] = worker[v] /\ genLock'[s] = genLock[s]
    BY <1>4 DEF SameLists
  <2>2. stored'[s].last = stored[s].last /\ stored'[s].answers = stored[s].answers
    OBVIOUS
  <2> QED BY <1>2, <2>1, <2>2 DEF Holds, At
<1> QED BY <1>3, <1>4

\* A worker that ends its run, and releases a lock that is its own: no other
\* worker runs the selection.
LEMMA EndRunLock ==
  ASSUME IInv, LockInv, NEW w \in Workers, ~At(w, "idle"), EndRun(w), UNCHANGED stored,
         lapsed'.selections = lapsed.selections
  PROVE  LockInv'
<1>1. worker[w].sel \in Selections
  BY DEF IInv, TypeInv
<1>2. \A v \in Workers : worker'[v] = IF v = w THEN IdleWorker ELSE worker[v]
  BY DEF EndRun, IInv, TypeInv
<1>3. \A s \in Selections : genLock'[s] = IF s = worker[w].sel THEN Nobody ELSE genLock[s]
  BY DEF EndRun, IInv, TypeInv
<1> SUFFICES ASSUME NEW v \in Workers, NEW s \in Selections, s \notin lapsed.selections,
                    worker'[v].pc # "idle", worker'[v].sel = s
             PROVE  Holds(v, s)'
  BY DEF LockInv, Runs, At
<1>4. v # w /\ worker'[v] = worker[v]
  BY <1>2, IdleTypes
<1>5. Holds(v, s)
  BY <1>4 DEF LockInv, Runs, At
<1>6. s # worker[w].sel
  <2>1. ASSUME s = worker[w].sel PROVE genLock[s] = w
    BY <2>1 DEF LockInv, Runs, Holds
  <2> QED BY <2>1, <1>4, <1>5 DEF Holds
<1> QED BY <1>3, <1>4, <1>5, <1>6 DEF Holds, At

\* Only a free lock is taken, and with what is saved.
LEMMA TakeLock ==
  ASSUME IInv, LockInv, NEW w \in Workers, NEW t \in Selections, Take(w, t)
  PROVE  LockInv'
<1> DEFINE row == [IdleWorker EXCEPT !.pc = "step", !.sel = t, !.requests = stored[t].requests,
                                     !.answers = stored[t].answers, !.last = stored[t].last]
<1>1. /\ row.pc = "step" /\ row.sel = t /\ row.last = stored[t].last
      /\ row.answers = stored[t].answers
  BY DEF IdleWorker
<1> HIDE DEF row
<1>2. \A v \in Workers : worker'[v] = IF v = w THEN row ELSE worker[v]
  BY DEF Take, row, IInv, TypeInv
<1>3. \A s \in Selections : genLock'[s] = IF s = t THEN w ELSE genLock[s]
  BY DEF Take, IInv, TypeInv
<1>4. genLock[t] = Nobody /\ UNCHANGED <<stored, lapsed>>
  BY DEF Take
<1> SUFFICES ASSUME NEW v \in Workers, NEW s \in Selections, s \notin lapsed.selections,
                    worker'[v].pc # "idle", worker'[v].sel = s
             PROVE  Holds(v, s)'
  BY <1>4 DEF LockInv, Runs, At
<1>5. CASE v = w
  <2>1. worker'[v] = row /\ s = t
    BY <1>1, <1>2, <1>5
  <2> QED BY <1>1, <1>3, <1>4, <1>5, <2>1 DEF Holds, At
<1>6. CASE v # w
  <2>1. worker'[v] = worker[v]
    BY <1>2, <1>6
  <2>2. Holds(v, s)
    BY <2>1 DEF LockInv, Runs, At
  <2>3. s # t
    BY <1>4, <2>2, NobodyAssumption DEF Holds
  <2> QED BY <1>3, <1>4, <2>1, <2>2, <2>3 DEF Holds, At
<1> QED BY <1>5, <1>6

\* The answer that is not saved yet.
LEMMA AskDoneLock ==
  ASSUME IInv, LockInv, NEW w \in Workers, AskDone(w)
  PROVE  LockInv'
<1> DEFINE rq == [step |-> StepOf(w), details |-> RequestOf(w)]
           An(text) == [step |-> StepOf(w),
                        answer |-> AnswerOf[product[worker[w].sel]][StepOf(w)][text]]
<1>1. PICK text \in Texts :
        worker' = [worker EXCEPT ![w].pc = "save", ![w].last = @ + 1,
                     ![w].requests = Append(@, rq), ![w].answers = Append(@, An(text))]
  BY DEF AskDone
<1> DEFINE an == An(text)
<1>2. an \in AnswerRow
  <2>1. worker[w].sel \in Selections /\ StepOf(w) \in Nat
    BY StepRequest DEF AskDone, At
  <2>2. product[worker[w].sel] \in Products
    BY <2>1 DEF IInv, TypeInv
  <2> QED BY <2>1, <2>2 DEF AnswerRow
<1>3. worker' = [worker EXCEPT ![w].pc = "save", ![w].last = @ + 1,
                   ![w].requests = Append(@, rq), ![w].answers = Append(@, an)]
  BY <1>1
<1> HIDE DEF rq, an
<1>4. /\ \A v \in Workers \ {w} : worker'[v] = worker[v]
      /\ worker'[w].pc = "save" /\ worker'[w].sel = worker[w].sel
      /\ worker'[w].last = worker[w].last + 1
      /\ worker'[w].answers = Append(worker[w].answers, an)
  BY <1>3 DEF IInv, TypeInv, WorkerRow
<1>5. At(w, "ask") /\ UNCHANGED <<stored, genLock, lapsed>>
  BY DEF AskDone, redis
<1> SUFFICES ASSUME NEW v \in Workers, NEW s \in Selections, s \notin lapsed.selections,
                    worker'[v].pc # "idle", worker'[v].sel = s
             PROVE  Holds(v, s)'
  BY <1>5 DEF LockInv, Runs, At
<1>6. CASE v = w
  <2>1. Holds(w, s)
    BY <1>4, <1>5, <1>6 DEF LockInv, Runs, At
  <2> QED BY <1>2, <1>4, <1>5, <1>6, <2>1 DEF Holds, At
<1>7. CASE v # w
  <2>1. worker'[v] = worker[v]
    BY <1>4, <1>7
  <2>2. Holds(v, s)
    BY <2>1 DEF LockInv, Runs, At
  <2> QED BY <1>5, <2>1, <2>2 DEF Holds, At
<1> QED BY <1>6, <1>7

\* What save_step changes: by one answer, while the lock holds.
LEMMA SaveLock ==
  ASSUME IInv, LockInv, NEW w \in Workers, Save(w)
  PROVE  /\ LockInv'
         /\ \A s \in Selections \ lapsed.selections :
              \/ stored'[s].answers = stored[s].answers
              \/ \E row \in AnswerRow : stored'[s].answers = Append(stored[s].answers, row)
<1> DEFINE t == worker[w].sel
           row == [requests |-> worker[w].requests, answers |-> worker[w].answers,
                   last |-> worker[w].last, price |-> stored[t].price]
<1>1. At(w, "save") /\ ~At(w, "idle") /\ t \in Selections
  BY DEF Save, At, IInv, TypeInv
<1>2. \A s \in Selections : stored'[s] = IF s = t THEN row ELSE stored[s]
  BY DEF Save, IInv, TypeInv
<1>3. row.answers = worker[w].answers /\ row.last = worker[w].last
  OBVIOUS
<1> HIDE DEF row
<1>4. /\ \A v \in Workers \ {w} : worker'[v] = worker[v]
      /\ worker'[w].pc = "step" /\ worker'[w].sel = t /\ worker'[w].last = worker[w].last
      /\ worker'[w].answers = worker[w].answers
  BY DEF Save, Goto, IInv, TypeInv, WorkerRow
<1>5. UNCHANGED <<genLock, lapsed>>
  BY DEF Save, redis
<1>9. t \notin lapsed.selections => Holds(w, t)
  BY <1>1 DEF LockInv, Runs
<1> HIDE DEF t
<1>6. ASSUME NEW v \in Workers, NEW s \in Selections, s \notin lapsed.selections,
             worker'[v].pc # "idle", worker'[v].sel = s
      PROVE  Holds(v, s)'
  <2>1. CASE v = w
    <3>1. s = t /\ stored'[s] = row
      BY <1>2, <1>4, <1>6, <2>1
    <3>2. genLock[s] = w
      BY <1>6, <1>9, <3>1 DEF Holds
    <3> QED BY <1>3, <1>4, <1>5, <2>1, <3>1, <3>2 DEF Holds, At
  <2>2. CASE v # w
    <3>1. worker'[v] = worker[v]
      BY <1>4, <2>2
    <3>2. Holds(v, s)
      BY <1>6, <3>1 DEF LockInv, Runs, At
    <3>3. s # t
      <4>1. ASSUME s = t PROVE genLock[s] = w
        BY <1>6, <1>9, <4>1 DEF Holds
      <4> QED BY <4>1, <2>2, <3>2 DEF Holds
    <3>4. stored'[s] = stored[s]
      BY <1>2, <3>3
    <3> QED BY <1>5, <3>1, <3>2, <3>4 DEF Holds, At
  <2> QED BY <2>1, <2>2
<1>7. LockInv'
  BY <1>5, <1>6 DEF LockInv, Runs, At
<1>8. ASSUME NEW s \in Selections, s \notin lapsed.selections
      PROVE  \/ stored'[s].answers = stored[s].answers
             \/ \E r \in AnswerRow : stored'[s].answers = Append(stored[s].answers, r)
  <2>1. CASE s = t
    <3>1. Holds(w, s)
      BY <1>8, <1>9, <2>1
    <3> QED BY <1>1, <1>2, <1>3, <2>1, <3>1 DEF Holds
  <2>2. CASE s # t
    BY <1>2, <2>2
  <2> QED BY <2>1, <2>2
<1> QED BY <1>7, <1>8

\* A worker in its step, at the limiter or at its PDF.
LEMMA QuietLock ==
  ASSUME IInv, LockInv, NEW w \in Workers,
         NextStep(w) \/ LockKey(w) \/ Admit(w) \/ Decline(w) \/ WakeUp(w) \/ Price(w)
           \/ BuildPdf(w)
  PROVE  LockInv'
<1>1. worker \in [Workers -> WorkerRow] /\ worker[w] \in WorkerRow
  BY DEF IInv, TypeInv
<1>2. CASE NextStep(w)
  <2>1. SameLists(w)
    BY <1>1, <1>2 DEF NextStep, SameLists, At, WorkerRow
  <2> QED BY <1>2, <2>1, SameListsLock DEF NextStep, redis
<1>3. CASE LockKey(w)
  <2>1. SameLists(w)
    BY <1>1, <1>3 DEF LockKey, SameLists, At, WorkerRow
  <2> QED BY <1>3, <2>1, SameListsLock DEF LockKey
<1>4. CASE Admit(w)
  <2>1. CASE EndRun(w)
    BY <1>4, <2>1, EndRunLock DEF Admit, At
  <2>2. CASE ~EndRun(w)
    <3>1. /\ worker' = [worker EXCEPT ![w].pc = "ask", ![w].seen = EmptyCounters,
                          ![w].key = 0, ![w].tries = 0]
          /\ At(w, "count") /\ UNCHANGED <<stored, genLock, lapsed>>
      BY <1>4, <2>2 DEF Admit
    <3>2. SameLists(w)
      BY <1>1, <3>1 DEF SameLists, At, WorkerRow
    <3> QED BY <3>1, <3>2, SameListsLock
  <2> QED BY <2>1, <2>2
<1>5. CASE Decline(w)
  <2>1. CASE EndRun(w)
    BY <1>5, <2>1, EndRunLock DEF Decline, At
  <2>2. CASE ~EndRun(w)
    <3>1. /\ worker' = [worker EXCEPT ![w].pc = "sleep", ![w].key = minute,
                          ![w].tries = @ - 1, ![w].seen = EmptyCounters]
          /\ At(w, "count") /\ UNCHANGED <<stored, genLock, lapsed>>
      BY <1>5, <2>2 DEF Decline
    <3>2. SameLists(w)
      BY <1>1, <3>1 DEF SameLists, At, WorkerRow
    <3> QED BY <3>1, <3>2, SameListsLock
  <2> QED BY <2>1, <2>2
<1>6. CASE WakeUp(w)
  <2>1. SameLists(w)
    BY <1>1, <1>6 DEF WakeUp, SameLists, At, WorkerRow
  <2> QED BY <1>6, <2>1, SameListsLock DEF WakeUp, redis
<1>7. CASE Price(w)
  <2>1. SameLists(w)
    BY <1>1, <1>7 DEF Price, Goto, SameLists, At, WorkerRow
  <2>2. \A s \in Selections : stored'[s].last = stored[s].last
                           /\ stored'[s].answers = stored[s].answers
    BY <1>7 DEF Price, IInv, TypeInv, StoredRow
  <2> QED BY <1>7, <2>1, <2>2, SameListsLock DEF Price, redis
<1>8. CASE BuildPdf(w)
  <2>1. SameLists(w)
    BY <1>1, <1>8 DEF BuildPdf, Goto, SameLists, At, WorkerRow
  <2> QED BY <1>8, <2>1, SameListsLock DEF BuildPdf, redis
<1> QED BY <1>2, <1>3, <1>4, <1>5, <1>6, <1>7, <1>8

\* What Redis, the clock and a crash do: a lock that is held by a worker in
\* its run is lost only with a trace in lapsed.
LEMMA LapseLock ==
  ASSUME IInv, LockInv, UNCHANGED <<stored>>,
         \A v \in Workers : worker'[v] = worker[v] \/ worker'[v] = IdleWorker,
         lapsed.selections \subseteq lapsed'.selections,
         \A s \in Selections : \/ genLock'[s] = genLock[s]
                             \/ s \in lapsed'.selections
                             \/ \E v \in Workers : genLock[s] = v /\ ~Runs(v, s)
  PROVE  LockInv'
<1> SUFFICES ASSUME NEW v \in Workers, NEW s \in Selections, s \notin lapsed'.selections,
                    worker'[v].pc # "idle", worker'[v].sel = s
             PROVE  Holds(v, s)'
  BY DEF LockInv, Runs, At
<1>1. worker'[v] = worker[v]
  BY IdleTypes
<1>2. Runs(v, s) /\ Holds(v, s)
  BY <1>1 DEF LockInv, Runs, At
<1>3. genLock'[s] = genLock[s]
  BY <1>2 DEF Holds
<1> QED BY <1>1, <1>2, <1>3 DEF Holds, At

LEMMA StepLock ==
  ASSUME IInv, LockInv, [Next]_vars
  PROVE  /\ LockInv'
         /\ \A s \in Selections \ lapsed'.selections :
              \/ stored'[s].answers = stored[s].answers
              \/ \E row \in AnswerRow : stored'[s].answers = Append(stored[s].answers, row)
<1> DEFINE Grows == \A s \in Selections \ lapsed'.selections :
              \/ stored'[s].answers = stored[s].answers
              \/ \E row \in AnswerRow : stored'[s].answers = Append(stored[s].answers, row)
<1>1. ASSUME NEW w \in Workers, NEW s \in Selections, Take(w, s) PROVE LockInv' /\ Grows
  BY <1>1, TakeLock DEF Take
<1>2. ASSUME NEW w \in Workers, Work(w) PROVE LockInv' /\ Grows
  <2>1. CASE AskDone(w)
    BY <2>1, AskDoneLock DEF AskDone
  <2>2. CASE Save(w)
    BY <2>2, SaveLock DEF Save
  <2>3. CASE NoUnitPrice(w)
    BY <2>3, EndRunLock DEF NoUnitPrice, At
  <2>4. CASE Upload(w)
    BY <2>4, EndRunLock DEF Upload, At
  <2>5. CASE Price(w)
    <3>1. \A s \in Selections : stored'[s].answers = stored[s].answers
      BY <2>5 DEF Price, IInv, TypeInv, StoredRow
    <3> QED BY <2>5, <3>1, QuietLock
  <2>6. CASE NextStep(w) \/ LockKey(w) \/ Admit(w) \/ Decline(w) \/ WakeUp(w) \/ BuildPdf(w)
    <3>1. UNCHANGED stored
      BY <2>6 DEF NextStep, LockKey, Admit, Decline, WakeUp, BuildPdf
    <3>2. LockInv'
      BY <2>6, QuietLock
    <3> QED BY <3>1, <3>2
  <2> HIDE DEF Grows
  <2> QED BY <1>2, <2>1, <2>2, <2>3, <2>4, <2>5, <2>6 DEF Work
<1>3. ASSUME NEW w \in Workers, S3Fails(w) \/ RunFails(w) PROVE LockInv' /\ Grows
  BY <1>3, EndRunLock DEF S3Fails, RunFails, At
<1>4. ASSUME NEW w \in Workers, Crash(w) PROVE LockInv' /\ Grows
  <2>1. \A v \in Workers : worker'[v] = worker[v] \/ worker'[v] = IdleWorker
    BY <1>4 DEF Crash, IInv, TypeInv
  <2>2. UNCHANGED <<stored, genLock, lapsed>>
    BY <1>4 DEF Crash, redis
  <2> QED BY <2>1, <2>2, LapseLock
<1>5. ASSUME NEW k \in Clock, Expire(k) \/ KeyLockExpires(k) \/ KeyLockLapses(k)
      PROVE  LockInv' /\ Grows
  <2>1. UNCHANGED <<stored, genLock, worker>> /\ lapsed'.selections = lapsed.selections
    BY <1>5 DEF Expire, KeyLockExpires, KeyLockLapses, IInv, TypeInv
  <2> QED BY <2>1, LapseLock
<1>6. ASSUME NEW t \in Selections, GenLockExpires(t) \/ GenLockLapses(t)
      PROVE  LockInv' /\ Grows
  <2>1. UNCHANGED <<stored, worker>> /\ lapsed.selections \subseteq lapsed'.selections
    BY <1>6 DEF GenLockExpires, GenLockLapses, IInv, TypeInv
  <2>2. \A s \in Selections : \/ genLock'[s] = genLock[s]
                            \/ s \in lapsed'.selections
                            \/ \E v \in Workers : genLock[s] = v /\ ~Runs(v, s)
    BY <1>6 DEF GenLockExpires, GenLockLapses, IInv, TypeInv
  <2> QED BY <2>1, <2>2, LapseLock
<1>7. ASSUME Tick PROVE LockInv' /\ Grows
  <2>1. UNCHANGED <<stored, genLock, worker>> /\ lapsed'.selections = lapsed.selections
    BY <1>7 DEF Tick, IInv, TypeInv
  <2> QED BY <2>1, LapseLock
<1>8. ASSUME UNCHANGED vars PROVE LockInv' /\ Grows
  BY <1>8, LapseLock DEF vars, redis
<1> HIDE DEF Grows
<1>9. LockInv' /\ Grows
  BY <1>1, <1>2, <1>3, <1>4, <1>5, <1>6, <1>7, <1>8 DEF Next
<1> QED BY <1>9 DEF Grows

\* No worker runs a selection at first.
THEOREM LockInductive == Spec => [](IInv /\ LockInv)
<1>1. Init => LockInv
  BY IdleTypes DEF Init, LockInv, Runs, At
<1>2. IInv /\ LockInv /\ [Next]_vars => (IInv /\ LockInv)'
  BY StepInv, StepLock
<1> QED BY <1>1, <1>2, InitInv, PTL DEF Spec

\* A step that a worker asks OpenAI for is not saved yet, and the one after
\* the last saved, while the lock of the selection has not run out.
THEOREM PaidOnce == Spec => []NothingPaidTwice
<1>1. IInv /\ LockInv => NothingPaidTwice
  BY DEF LockInv, Holds, Runs, At, NothingPaidTwice, StepOf
<1> QED BY <1>1, LockInductive, PTL

\* A saved answer is not lost or replaced, unless two workers ran.
THEOREM SavedAnswersStay == Spec => SavedForGood
<1> DEFINE Kept == \A s \in Selections \ lapsed'.selections :
                     IsPrefix(stored[s].answers, stored'[s].answers)
<1>1. IInv /\ LockInv /\ [Next]_vars => Kept
  <2> SUFFICES ASSUME IInv, LockInv, [Next]_vars, NEW s \in Selections \ lapsed'.selections
               PROVE  IsPrefix(stored[s].answers, stored'[s].answers)
    OBVIOUS
  <2> DEFINE list == stored[s].answers
  <2>1. list \in Seq(AnswerRow) /\ Len(list) \in Nat
    BY DEF IInv, TypeInv, StoredRow
  <2>2. \/ stored'[s].answers = list
        \/ \E row \in AnswerRow : stored'[s].answers = Append(list, row)
    BY StepLock
  <2> HIDE DEF list
  <2>3. IsPrefix(list, list)
    BY <2>1 DEF IsPrefix
  <2>4. ASSUME NEW row \in AnswerRow PROVE IsPrefix(list, Append(list, row))
    BY <2>1 DEF IsPrefix
  <2>5. IsPrefix(list, stored'[s].answers)
    BY <2>2, <2>3, <2>4
  <2> QED BY <2>5 DEF list
<1> HIDE DEF Kept
<1>2. Spec => [][Kept]_vars
  BY <1>1, LockInductive, PTL DEF Spec
<1> QED BY <1>2 DEF SavedForGood, Kept

-----------------------------------------------------------------------------
(* What the saved steps say                                                *)

\* Each row of a list of requests, of answers, is the request of its step of
\* the product, an answer to it.
RightRequests(p, list) ==
  \A i \in DOMAIN list : list[i].details = Request[p][list[i].step]
RightAnswers(p, list) ==
  \A i \in DOMAIN list : \E t \in Texts : list[i].answer = AnswerOf[p][list[i].step][t]

\* The price of a selection is that of answers to all its steps.
Complete(s, list) ==
  list \in Seq(AnswerRow) /\ InOrder(list, Total(s)) /\ RightAnswers(product[s], list)
Priced(s) == \E list \in Seq(AnswerRow) : Complete(s, list) /\ stored[s].price = PriceOf(list)

AskedInv ==
  /\ \A s \in Selections :
       /\ RightRequests(product[s], stored[s].requests)
       /\ RightAnswers(product[s], stored[s].answers)
       /\ RightAnswers(product[s], pdf[s])
       /\ pdf[s] # <<>> => Priced(s)
  /\ \A w \in Workers : worker[w].pc # "idle" =>
       /\ RightRequests(product[worker[w].sel], worker[w].requests)
       /\ RightAnswers(product[worker[w].sel], worker[w].answers)
       /\ worker[w].pc \in {"pdf", "upload"} => Priced(worker[w].sel)

LEMMA AppendRight ==
  ASSUME NEW p, NEW S, NEW list \in Seq(S), NEW row
  PROVE  /\ RightRequests(p, list) /\ row.details = Request[p][row.step]
              => RightRequests(p, Append(list, row))
         /\ RightAnswers(p, list) /\ (\E t \in Texts : row.answer = AnswerOf[p][row.step][t])
              => RightAnswers(p, Append(list, row))
<1> DEFINE more == Append(list, row)
           n == Len(list)
<1>1. /\ n \in Nat /\ DOMAIN list = 1 .. n /\ DOMAIN more = 1 .. n + 1
      /\ more[n + 1] = row /\ \A i \in 1 .. n : more[i] = list[i]
  OBVIOUS
<1> HIDE DEF more, n
<1>2. ASSUME RightRequests(p, list), row.details = Request[p][row.step]
      PROVE  RightRequests(p, more)
  BY <1>1, <1>2 DEF RightRequests
<1>3. ASSUME RightAnswers(p, list), \E t \in Texts : row.answer = AnswerOf[p][row.step][t]
      PROVE  RightAnswers(p, more)
  BY <1>1, <1>3 DEF RightAnswers
<1> QED BY <1>2, <1>3 DEF more

\* A worker that is idle now, or has the lists it had.
Goes(v) ==
  \/ worker'[v].pc = "idle"
  \/ /\ worker[v].pc # "idle" /\ worker'[v].sel = worker[v].sel
     /\ worker'[v].requests = worker[v].requests /\ worker'[v].answers = worker[v].answers
     /\ worker'[v].pc \in {"pdf", "upload"} => worker[v].pc \in {"pdf", "upload"}

LEMMA PricedStays ==
  ASSUME NEW s \in Selections, Priced(s), UNCHANGED product, stored'[s].price = stored[s].price
  PROVE  Priced(s)'
BY DEF Priced, Complete, Total

LEMMA RowsStay ==
  ASSUME IInv, AskedInv, UNCHANGED <<product, stored, pdf>>, \A v \in Workers : Goes(v)
  PROVE  AskedInv'
<1>1. \A s \in Selections : Priced(s) => Priced(s)'
  BY PricedStays
<1>2. ASSUME NEW s \in Selections
      PROVE  (/\ RightRequests(product[s], stored[s].requests)
              /\ RightAnswers(product[s], stored[s].answers)
              /\ RightAnswers(product[s], pdf[s])
              /\ pdf[s] # <<>> => Priced(s))'
  BY <1>1 DEF AskedInv, RightRequests, RightAnswers
<1>3. ASSUME NEW v \in Workers, worker'[v].pc # "idle"
      PROVE  (/\ RightRequests(product[worker[v].sel], worker[v].requests)
              /\ RightAnswers(product[worker[v].sel], worker[v].answers)
              /\ worker[v].pc \in {"pdf", "upload"} => Priced(worker[v].sel))'
  <2>1. Goes(v) /\ worker[v].pc # "idle" /\ worker[v].sel \in Selections
    BY <1>3 DEF Goes, IInv, TypeInv, At
  <2> DEFINE s == worker[v].sel
  <2>2. /\ worker'[v].sel = s /\ worker'[v].requests = worker[v].requests
        /\ worker'[v].answers = worker[v].answers
        /\ worker'[v].pc \in {"pdf", "upload"} => worker[v].pc \in {"pdf", "upload"}
    BY <1>3, <2>1 DEF Goes
  <2>3. /\ RightRequests(product[s], worker[v].requests)
        /\ RightAnswers(product[s], worker[v].answers)
        /\ worker[v].pc \in {"pdf", "upload"} => Priced(s)
    BY <2>1 DEF AskedInv
  <2>4. (RightRequests(product[worker[v].sel], worker[v].requests))'
    BY <1>3, <2>2, <2>3 DEF RightRequests
  <2>5. (RightAnswers(product[worker[v].sel], worker[v].answers))'
    BY <1>3, <2>2, <2>3 DEF RightAnswers
  <2>6. worker'[v].pc \in {"pdf", "upload"} => (Priced(worker[v].sel))'
    BY <1>1, <2>1, <2>2, <2>3
  <2> QED BY <2>4, <2>5, <2>6
<1> QED BY <1>2, <1>3 DEF AskedInv

LEMMA EndRunRows ==
  ASSUME IInv, AskedInv, NEW w \in Workers, worker' = [worker EXCEPT ![w] = IdleWorker],
         UNCHANGED <<product, stored, pdf>>
  PROVE  AskedInv'
<1>1. ASSUME NEW v \in Workers PROVE Goes(v)
  BY IdleTypes DEF Goes, IInv, TypeInv
<1> QED BY <1>1, RowsStay

LEMMA TakeRows ==
  ASSUME IInv, AskedInv, NEW w \in Workers, NEW t \in Selections, Take(w, t)
  PROVE  AskedInv'
<1> DEFINE row == [IdleWorker EXCEPT !.pc = "step", !.sel = t, !.requests = stored[t].requests,
                                     !.answers = stored[t].answers, !.last = stored[t].last]
<1>1. /\ row.pc = "step" /\ row.sel = t /\ row.requests = stored[t].requests
      /\ row.answers = stored[t].answers
  BY DEF IdleWorker
<1> HIDE DEF row
<1>2. \A v \in Workers : worker'[v] = IF v = w THEN row ELSE worker[v]
  BY DEF Take, row, IInv, TypeInv
<1>3. UNCHANGED <<product, stored, pdf>>
  BY DEF Take
<1>4. \A s \in Selections : Priced(s) => Priced(s)'
  BY <1>3, PricedStays
<1>5. ASSUME NEW v \in Workers, worker'[v].pc # "idle"
      PROVE  (/\ RightRequests(product[worker[v].sel], worker[v].requests)
              /\ RightAnswers(product[worker[v].sel], worker[v].answers)
              /\ worker[v].pc \in {"pdf", "upload"} => Priced(worker[v].sel))'
  <2>1. CASE v = w
    <3>1. worker'[v] = row
      BY <1>2, <2>1
    <3>2. RightRequests(product[t], stored[t].requests) /\ RightAnswers(product[t], stored[t].answers)
      BY DEF AskedInv
    <3> QED BY <1>1, <1>3, <3>1, <3>2 DEF RightRequests, RightAnswers
  <2>2. CASE v # w
    <3>1. worker'[v] = worker[v] /\ worker[v].sel \in Selections
      BY <1>2, <1>5, <2>2 DEF IInv, TypeInv, At
    <3> QED BY <1>3, <1>4, <1>5, <3>1 DEF AskedInv, RightRequests, RightAnswers
  <2> QED BY <2>1, <2>2
<1>6. \A s \in Selections :
        (/\ RightRequests(product[s], stored[s].requests)
         /\ RightAnswers(product[s], stored[s].answers)
         /\ RightAnswers(product[s], pdf[s])
         /\ pdf[s] # <<>> => Priced(s))'
  BY <1>3, <1>4 DEF AskedInv, RightRequests, RightAnswers
<1> QED BY <1>5, <1>6 DEF AskedInv

LEMMA AskDoneRows ==
  ASSUME IInv, AskedInv, NEW w \in Workers, AskDone(w)
  PROVE  AskedInv'
<1> DEFINE p == product[worker[w].sel]
           n == StepOf(w)
           rq == [step |-> n, details |-> RequestOf(w)]
           An(text) == [step |-> n, answer |-> AnswerOf[p][n][text]]
<1>1. PICK text \in Texts :
        worker' = [worker EXCEPT ![w].pc = "save", ![w].last = @ + 1,
                     ![w].requests = Append(@, rq), ![w].answers = Append(@, An(text))]
  BY DEF AskDone
<1> DEFINE an == An(text)
<1>2. /\ rq.details = Request[p][rq.step]
      /\ \E t \in Texts : an.answer = AnswerOf[p][an.step][t]
  BY DEF RequestOf
<1>3. worker' = [worker EXCEPT ![w].pc = "save", ![w].last = @ + 1,
                   ![w].requests = Append(@, rq), ![w].answers = Append(@, an)]
  BY <1>1
<1> HIDE DEF rq, an
<1>4. /\ \A v \in Workers \ {w} : worker'[v] = worker[v]
      /\ worker'[w].pc = "save" /\ worker'[w].sel = worker[w].sel
      /\ worker'[w].requests = Append(worker[w].requests, rq)
      /\ worker'[w].answers = Append(worker[w].answers, an)
  BY <1>3 DEF IInv, TypeInv, WorkerRow
<1>5. /\ worker[w].pc = "ask" /\ UNCHANGED <<product, stored, pdf>>
      /\ worker[w].requests \in Seq(RequestRow) /\ worker[w].answers \in Seq(AnswerRow)
  BY DEF AskDone, At, IInv, TypeInv, WorkerRow
<1>6. RightRequests(p, worker[w].requests) /\ RightAnswers(p, worker[w].answers)
  BY <1>5 DEF AskedInv
<1>7. /\ RightRequests(p, Append(worker[w].requests, rq))
      /\ RightAnswers(p, Append(worker[w].answers, an))
  <2> HIDE DEF p
  <2> QED BY <1>2, <1>5, <1>6, AppendRight
<1>8. \A s \in Selections : Priced(s) => Priced(s)'
  BY <1>5, PricedStays
<1>9. ASSUME NEW v \in Workers, worker'[v].pc # "idle"
      PROVE  (/\ RightRequests(product[worker[v].sel], worker[v].requests)
              /\ RightAnswers(product[worker[v].sel], worker[v].answers)
              /\ worker[v].pc \in {"pdf", "upload"} => Priced(worker[v].sel))'
  <2>1. CASE v = w
    <3>1. product'[worker'[v].sel] = p
      BY <1>4, <1>5, <2>1
    <3> HIDE DEF p
    <3>2. RightRequests(p, worker'[v].requests) /\ RightAnswers(p, worker'[v].answers)
      BY <1>4, <1>7, <2>1
    <3>3. worker'[v].pc = "save"
      BY <1>4, <2>1
    <3> QED BY <3>1, <3>2, <3>3 DEF RightRequests, RightAnswers
  <2>2. CASE v # w
    <3>1. worker'[v] = worker[v] /\ worker[v].sel \in Selections
      BY <1>4, <1>9, <2>2 DEF IInv, TypeInv, At
    <3> QED BY <1>5, <1>8, <1>9, <3>1 DEF AskedInv, RightRequests, RightAnswers
  <2> QED BY <2>1, <2>2
<1>10. \A s \in Selections :
        (/\ RightRequests(product[s], stored[s].requests)
         /\ RightAnswers(product[s], stored[s].answers)
         /\ RightAnswers(product[s], pdf[s])
         /\ pdf[s] # <<>> => Priced(s))'
  BY <1>5, <1>8 DEF AskedInv, RightRequests, RightAnswers
<1> QED BY <1>9, <1>10 DEF AskedInv

LEMMA SaveRows ==
  ASSUME IInv, AskedInv, NEW w \in Workers, Save(w)
  PROVE  AskedInv'
<1> DEFINE t == worker[w].sel
           row == [requests |-> worker[w].requests, answers |-> worker[w].answers,
                   last |-> worker[w].last, price |-> stored[t].price]
<1>1. worker[w].pc = "save" /\ t \in Selections
  BY DEF Save, At, IInv, TypeInv
<1>2. \A s \in Selections : stored'[s] = IF s = t THEN row ELSE stored[s]
  BY DEF Save, IInv, TypeInv
<1>3. /\ row.requests = worker[w].requests /\ row.answers = worker[w].answers
      /\ row.price = stored[t].price
  OBVIOUS
<1> HIDE DEF row
<1>4. UNCHANGED <<product, pdf>>
  BY DEF Save
<1>5. \A s \in Selections : Priced(s) => Priced(s)'
  BY <1>2, <1>3, <1>4, PricedStays
<1>6. \A v \in Workers : Goes(v)
  BY <1>1 DEF Save, Goto, Goes, IInv, TypeInv, WorkerRow
<1>7. ASSUME NEW s \in Selections
      PROVE  (/\ RightRequests(product[s], stored[s].requests)
              /\ RightAnswers(product[s], stored[s].answers)
              /\ RightAnswers(product[s], pdf[s])
              /\ pdf[s] # <<>> => Priced(s))'
  <2>1. CASE s = t
    <3>1. /\ RightRequests(product[s], worker[w].requests)
          /\ RightAnswers(product[s], worker[w].answers)
      BY <1>1, <2>1 DEF AskedInv
    <3>2. stored'[s].requests = worker[w].requests /\ stored'[s].answers = worker[w].answers
      BY <1>2, <1>3, <2>1
    <3>3. RightAnswers(product[s], pdf[s]) /\ (pdf[s] # <<>> => Priced(s))
      BY DEF AskedInv
    <3>4. (RightRequests(product[s], stored[s].requests))'
      BY <1>4, <3>1, <3>2 DEF RightRequests
    <3>5. (RightAnswers(product[s], stored[s].answers) /\ RightAnswers(product[s], pdf[s]))'
      BY <1>4, <3>1, <3>2, <3>3 DEF RightAnswers
    <3> QED BY <1>4, <1>5, <3>3, <3>4, <3>5
  <2>2. CASE s # t
    BY <1>2, <1>4, <1>5, <2>2 DEF AskedInv, RightRequests, RightAnswers
  <2> QED BY <2>1, <2>2
<1>8. ASSUME NEW v \in Workers, worker'[v].pc # "idle"
      PROVE  (/\ RightRequests(product[worker[v].sel], worker[v].requests)
              /\ RightAnswers(product[worker[v].sel], worker[v].answers)
              /\ worker[v].pc \in {"pdf", "upload"} => Priced(worker[v].sel))'
  <2>1. Goes(v) /\ worker[v].pc # "idle" /\ worker[v].sel \in Selections
    BY <1>6, <1>8 DEF Goes, IInv, TypeInv, At
  <2> DEFINE s == worker[v].sel
  <2>2. /\ worker'[v].sel = s /\ worker'[v].requests = worker[v].requests
        /\ worker'[v].answers = worker[v].answers
        /\ worker'[v].pc \in {"pdf", "upload"} => worker[v].pc \in {"pdf", "upload"}
    BY <1>8, <2>1 DEF Goes
  <2>3. /\ RightRequests(product[s], worker[v].requests)
        /\ RightAnswers(product[s], worker[v].answers)
        /\ worker[v].pc \in {"pdf", "upload"} => Priced(s)
    BY <2>1 DEF AskedInv
  <2>4. (RightRequests(product[worker[v].sel], worker[v].requests))'
    BY <1>4, <2>2, <2>3 DEF RightRequests
  <2>5. (RightAnswers(product[worker[v].sel], worker[v].answers))'
    BY <1>4, <2>2, <2>3 DEF RightAnswers
  <2>6. worker'[v].pc \in {"pdf", "upload"} => (Priced(worker[v].sel))'
    BY <1>5, <2>1, <2>2, <2>3
  <2> QED BY <2>4, <2>5, <2>6
<1> QED BY <1>7, <1>8 DEF AskedInv

\* The price is that of the answers of a run that has none left to ask for.
LEMMA PriceRows ==
  ASSUME IInv, AskedInv, NEW w \in Workers, Price(w)
  PROVE  AskedInv'
<1>1. PICK t \in Selections, list \in Seq(AnswerRow) :
        t = worker[w].sel /\ list = worker[w].answers
  BY DEF Price, At, IInv, TypeInv, WorkerRow
<1>2. worker[w].pc = "step" /\ worker[w].last \in Nat
  BY DEF Price, At, IInv, TypeInv, WorkerRow
<1>3. worker[w].last = Total(t)
  <2>1. worker[w].last >= Total(t) /\ worker[w].last <= Total(t)
    BY <1>1, <1>2 DEF Price, At, IInv, WorkerInv
  <2>2. Total(t) \in Nat
    BY TotalIsNat DEF IInv, TypeInv
  <2> QED BY <1>2, <2>1, <2>2
<1>4. Complete(t, list)
  <2>1. InOrder(list, worker[w].last)
    BY <1>1, <1>2 DEF IInv, WorkerInv, At
  <2>2. RightAnswers(product[t], list)
    BY <1>1, <1>2 DEF AskedInv
  <2> QED BY <1>3, <2>1, <2>2 DEF Complete
<1> DEFINE price == PriceOf(list)
<1>5. /\ \A s \in Selections : /\ stored'[s].requests = stored[s].requests
                               /\ stored'[s].answers = stored[s].answers
                               /\ stored'[s].price = IF s = t THEN price ELSE stored[s].price
      /\ UNCHANGED <<product, pdf>>
  <2>1. stored' = [stored EXCEPT ![t].price = price]
    BY <1>1 DEF Price
  <2> HIDE DEF price
  <2>2. \A s \in Selections : stored[s] \in StoredRow
    BY DEF IInv, TypeInv
  <2> QED BY <2>1, <2>2 DEF Price, StoredRow, IInv, TypeInv
<1>6. /\ \A v \in Workers \ {w} : worker'[v] = worker[v]
      /\ worker'[w].sel = t /\ worker'[w].requests = worker[w].requests
      /\ worker'[w].answers = list
  BY <1>1 DEF Price, Goto, IInv, TypeInv, WorkerRow
<1>7. Priced(t)'
  <2>1. Complete(t, list)'
    BY <1>4, <1>5 DEF Complete, Total
  <2> QED BY <1>5, <2>1 DEF Priced
<1> HIDE DEF price
<1>8. \A s \in Selections : Priced(s) => Priced(s)'
  <2>1. ASSUME NEW s \in Selections, s # t, Priced(s) PROVE Priced(s)'
    BY <1>5, <2>1, PricedStays
  <2> QED BY <1>7, <2>1
<1>9. ASSUME NEW s \in Selections
      PROVE  (/\ RightRequests(product[s], stored[s].requests)
              /\ RightAnswers(product[s], stored[s].answers)
              /\ RightAnswers(product[s], pdf[s])
              /\ pdf[s] # <<>> => Priced(s))'
  BY <1>5, <1>8 DEF AskedInv, RightRequests, RightAnswers
<1>10. ASSUME NEW v \in Workers, worker'[v].pc # "idle"
       PROVE  (/\ RightRequests(product[worker[v].sel], worker[v].requests)
               /\ RightAnswers(product[worker[v].sel], worker[v].answers)
               /\ worker[v].pc \in {"pdf", "upload"} => Priced(worker[v].sel))'
  <2>1. CASE v = w
    <3>1. RightRequests(product[t], worker[w].requests) /\ RightAnswers(product[t], list)
      BY <1>1, <1>2 DEF AskedInv
    <3> QED BY <1>5, <1>6, <1>7, <2>1, <3>1 DEF RightRequests, RightAnswers
  <2>2. CASE v # w
    <3>1. worker'[v] = worker[v] /\ worker[v].sel \in Selections
      BY <1>6, <1>10, <2>2 DEF IInv, TypeInv, At
    <3> QED BY <1>5, <1>8, <1>10, <3>1 DEF AskedInv, RightRequests, RightAnswers
  <2> QED BY <2>1, <2>2
<1> QED BY <1>9, <1>10 DEF AskedInv

LEMMA UploadRows ==
  ASSUME IInv, AskedInv, NEW w \in Workers, Upload(w)
  PROVE  AskedInv'
<1>1. PICK t \in Selections, list \in Seq(AnswerRow) :
        t = worker[w].sel /\ list = worker[w].answers
  BY DEF Upload, At, IInv, TypeInv, WorkerRow
<1>2. Priced(t) /\ RightAnswers(product[t], list)
  BY <1>1 DEF Upload, At, AskedInv
<1>3. /\ \A s \in Selections : pdf'[s] = IF s = t THEN list ELSE pdf[s]
      /\ \A v \in Workers : worker'[v] = IF v = w THEN IdleWorker ELSE worker[v]
      /\ UNCHANGED <<product, stored>>
  BY <1>1 DEF Upload, EndRun, IInv, TypeInv
<1>4. \A s \in Selections : Priced(s) => Priced(s)'
  BY <1>3, PricedStays
<1>5. ASSUME NEW s \in Selections
      PROVE  (/\ RightRequests(product[s], stored[s].requests)
              /\ RightAnswers(product[s], stored[s].answers)
              /\ RightAnswers(product[s], pdf[s])
              /\ pdf[s] # <<>> => Priced(s))'
  BY <1>2, <1>3, <1>4 DEF AskedInv, RightRequests, RightAnswers
<1>6. ASSUME NEW v \in Workers, worker'[v].pc # "idle"
      PROVE  (/\ RightRequests(product[worker[v].sel], worker[v].requests)
              /\ RightAnswers(product[worker[v].sel], worker[v].answers)
              /\ worker[v].pc \in {"pdf", "upload"} => Priced(worker[v].sel))'
  <2>1. worker'[v] = worker[v] /\ worker[v].sel \in Selections
    BY <1>3, <1>6, IdleTypes DEF IInv, TypeInv, At
  <2> QED BY <1>3, <1>4, <1>6, <2>1 DEF AskedInv, RightRequests, RightAnswers
<1> QED BY <1>5, <1>6 DEF AskedInv

LEMMA StepRows ==
  ASSUME IInv, AskedInv, [Next]_vars
  PROVE  AskedInv'
<1>1. ASSUME NEW w \in Workers, NEW s \in Selections, Take(w, s) PROVE AskedInv'
  BY <1>1, TakeRows
<1>2. ASSUME NEW w \in Workers, Work(w) PROVE AskedInv'
  <2>1. worker \in [Workers -> WorkerRow]
    BY DEF IInv, TypeInv
  <2>2. CASE AskDone(w)
    BY <2>2, AskDoneRows
  <2>3. CASE Save(w)
    BY <2>3, SaveRows
  <2>4. CASE Price(w)
    BY <2>4, PriceRows
  <2>5. CASE Upload(w)
    BY <2>5, UploadRows
  <2>6. CASE NoUnitPrice(w)
    BY <2>6, EndRunRows DEF NoUnitPrice, EndRun
  <2>7. CASE NextStep(w)
    <3>1. \A v \in Workers : Goes(v)
      BY <2>1, <2>7 DEF NextStep, Goes, At, WorkerRow
    <3> QED BY <2>7, <3>1, RowsStay DEF NextStep
  <2>8. CASE LockKey(w)
    <3>1. \A v \in Workers : Goes(v)
      BY <2>1, <2>8 DEF LockKey, Goes, At, WorkerRow
    <3> QED BY <2>8, <3>1, RowsStay DEF LockKey
  <2>9. CASE Admit(w)
    <3>1. UNCHANGED <<product, stored, pdf>> /\ At(w, "count")
      BY <2>9 DEF Admit
    <3>2. CASE EndRun(w)
      BY <3>1, <3>2, EndRunRows DEF EndRun
    <3>3. CASE ~EndRun(w)
      <4>1. worker' = [worker EXCEPT ![w].pc = "ask", ![w].seen = EmptyCounters,
                         ![w].key = 0, ![w].tries = 0]
        BY <2>9, <3>3 DEF Admit
      <4>2. \A v \in Workers : Goes(v)
        BY <2>1, <3>1, <4>1 DEF Goes, At, WorkerRow
      <4> QED BY <3>1, <4>2, RowsStay
    <3> QED BY <3>2, <3>3
  <2>10. CASE Decline(w)
    <3>1. UNCHANGED <<product, stored, pdf>> /\ At(w, "count")
      BY <2>10 DEF Decline
    <3>2. CASE EndRun(w)
      BY <3>1, <3>2, EndRunRows DEF EndRun
    <3>3. CASE ~EndRun(w)
      <4>1. worker' = [worker EXCEPT ![w].pc = "sleep", ![w].key = minute,
                         ![w].tries = @ - 1, ![w].seen = EmptyCounters]
        BY <2>10, <3>3 DEF Decline
      <4>2. \A v \in Workers : Goes(v)
        BY <2>1, <3>1, <4>1 DEF Goes, At, WorkerRow
      <4> QED BY <3>1, <4>2, RowsStay
    <3> QED BY <3>2, <3>3
  <2>11. CASE WakeUp(w)
    <3>1. \A v \in Workers : Goes(v)
      BY <2>1, <2>11 DEF WakeUp, Goes, At, WorkerRow
    <3> QED BY <2>11, <3>1, RowsStay DEF WakeUp
  <2>12. CASE BuildPdf(w)
    <3>1. \A v \in Workers : Goes(v)
      BY <2>1, <2>12 DEF BuildPdf, Goto, Goes, At, WorkerRow
    <3> QED BY <2>12, <3>1, RowsStay DEF BuildPdf
  <2> QED BY <1>2, <2>2, <2>3, <2>4, <2>5, <2>6, <2>7, <2>8, <2>9, <2>10, <2>11, <2>12 DEF Work
<1>3. ASSUME NEW w \in Workers, S3Fails(w) \/ RunFails(w) \/ Crash(w) PROVE AskedInv'
  BY <1>3, EndRunRows DEF S3Fails, RunFails, Crash, EndRun
<1>4. CASE UNCHANGED <<product, stored, pdf, worker>>
  <2>1. \A v \in Workers : Goes(v)
    BY <1>4 DEF Goes
  <2> QED BY <1>4, <2>1, RowsStay
<1>5. \/ \E w \in Workers, s \in Selections : Take(w, s)
      \/ \E w \in Workers : Work(w) \/ S3Fails(w) \/ RunFails(w) \/ Crash(w)
      \/ UNCHANGED <<product, stored, pdf, worker>>
  BY DEF Next, Expire, KeyLockExpires, KeyLockLapses, GenLockExpires, GenLockLapses, Tick,
         vars
<1> QED BY <1>1, <1>2, <1>3, <1>4, <1>5

\* The saved rows are the requests of their steps and answers to them.
THEOREM AskedInductive == Spec => [](IInv /\ AskedInv)
<1>1. Init => AskedInv
  BY IdleTypes DEF Init, AskedInv, NothingStored, RightRequests, RightAnswers
<1>2. IInv /\ AskedInv /\ [Next]_vars => AskedInv'
  BY StepRows
<1> QED BY <1>1, <1>2, AnalysisInductive, PTL DEF Spec

-----------------------------------------------------------------------------
(* What a finished analysis has asked for, and what it costs               *)

\* All elements of the composition are asked for, each once, under its number
\* in the composition, and then the conclusion (detailed_analysis_composition).
THEOREM AllElementsAsked == Spec => []EveryElementAskedOnce
<1> DEFINE Asked(s) == [i \in DOMAIN stored[s].requests |->
                          stored[s].requests[i].details.prompts]
           Once(s) == /\ FlattenSeq([i \in 1 .. Total(s) - 1 |-> Asked(s)[i].names])
                            = Numbered(product[s].composition, 1)
                      /\ \A i \in 1 .. Total(s) : Asked(s)[i].conclude <=> i = Total(s)
<1>1. (\A s \in Selections : stored[s].last = Total(s) => Once(s)) => EveryElementAskedOnce
  BY DEF EveryElementAskedOnce
<1>2. ASSUME IInv, AskedInv PROVE EveryElementAskedOnce
  <2>0. SUFFICES ASSUME NEW s \in Selections, stored[s].last = Total(s) PROVE Once(s)
    <3> HIDE DEF Once
    <3> QED BY <1>1
  <2> DEFINE p == product[s]
             c == p.composition
             n == ElementSteps(c)
             requests == stored[s].requests
             asked == [i \in DOMAIN requests |-> requests[i].details.prompts]
  <2>1. p \in Products /\ c \in Seq(Names)
    BY <1>2, ProductsAssumption DEF IInv, TypeInv, Names
  <2>2. Total(s) = n + 1 /\ n \in Nat
    <3>1. n \in Nat
      BY <2>1, EndsOfSteps
    <3> QED BY <3>1 DEF Total, TotalSteps
  <2>3. requests \in Seq(RequestRow) /\ Len(requests) = n + 1
        /\ \A i \in 1 .. n + 1 : requests[i].step = i
    BY <1>2, <2>0, <2>2 DEF IInv, TypeInv, StoredInv, StoredRow, InOrder
  <2>4. RightRequests(p, requests)
    BY <1>2 DEF AskedInv
  <2> HIDE DEF requests
  <2>5. ASSUME NEW i \in 1 .. n + 1
        PROVE  asked[i] = Prompts(p, TaskStep(c, i))
    <3>1. i \in DOMAIN requests /\ requests[i].step = i
      BY <2>2, <2>3
    <3>2. asked[i] = Request[p][i].prompts
      BY <2>4, <3>1 DEF RightRequests
    <3>3. i \in StepNumbers(p)
      BY <2>2 DEF StepNumbers, TotalSteps
    <3>4. Request[p][i] = RequestDetails(p, i)
      BY <2>1, <3>3, Tables
    <3> QED BY <3>2, <3>4 DEF RequestDetails
  <2>6. PICK got : got = asked
    OBVIOUS
  <2>7. \A i \in 1 .. n + 1 : got[i] = Prompts(p, TaskStep(c, i))
    BY <2>5, <2>6
  <2>8. TaskStep(c, n + 1).last = TRUE
    BY <2>2 DEF TaskStep, TotalSteps
  <2> HIDE DEF asked
  <2>9. PICK k, prod : k = n /\ prod = p
    OBVIOUS
  <2>10. k \in Nat /\ k = ElementSteps(prod.composition) /\ prod.composition \in Seq(Names)
    BY <2>1, <2>2, <2>9
  <2>11. \A i \in 1 .. k + 1 : got[i] = Prompts(prod, TaskStep(prod.composition, i))
    BY <2>7, <2>9
  <2>12. TaskStep(prod.composition, k + 1).last = TRUE
    BY <2>8, <2>9
  <2> HIDE DEF n, c, p
  <2>13. \A i \in 1 .. k : /\ got[i].names = Slice(prod.composition, i)
                           /\ got[i].conclude = FALSE
    <3> SUFFICES ASSUME NEW i \in 1 .. k
                 PROVE  got[i].names = Slice(prod.composition, i) /\ got[i].conclude = FALSE
      OBVIOUS
    <3>1. got[i] = Prompts(prod, TaskStep(prod.composition, i))
      BY <2>10, <2>11
    <3>2. /\ TaskStep(prod.composition, i).last = FALSE
          /\ Numbered(TaskStep(prod.composition, i).elements,
                      TaskStep(prod.composition, i).offset) = Slice(prod.composition, i)
      BY <2>10, StepNames
    <3> QED BY <3>1, <3>2 DEF Prompts
  <2>14. got[k + 1].conclude = TRUE
    <3>1. got[k + 1] = Prompts(prod, TaskStep(prod.composition, k + 1))
      BY <2>10, <2>11
    <3> QED BY <2>12, <3>1 DEF Prompts
  <2>15. [i \in 1 .. k |-> got[i].names] = [i \in 1 .. k |-> Slice(prod.composition, i)]
    BY <2>13
  <2>16. FlattenSeq([i \in 1 .. k |-> got[i].names]) = Numbered(prod.composition, 1)
    BY <2>10, <2>15, SlicesCover
  <2>17. ASSUME NEW i \in 1 .. k + 1 PROVE got[i].conclude <=> i = k + 1
    <3>1. CASE i = k + 1
      BY <2>14, <3>1
    <3>2. CASE i # k + 1
      <4>1. i \in 1 .. k
        BY <2>10, <3>2
      <4> QED BY <2>13, <3>2, <4>1
    <3> QED BY <3>1, <3>2
  <2>18. Total(s) = k + 1 /\ Total(s) - 1 = k
    BY <2>2, <2>9, <2>10
  <2>19. /\ FlattenSeq([i \in 1 .. Total(s) - 1 |-> got[i].names])
              = Numbered(product[s].composition, 1)
         /\ \A i \in 1 .. Total(s) : got[i].conclude <=> i = Total(s)
    BY <2>9, <2>16, <2>17, <2>18 DEF p
  <2>20. got = Asked(s)
    BY <2>6 DEF asked, requests
  <2> HIDE DEF Asked
  <2> QED BY <2>19, <2>20
<1> QED BY <1>2, AskedInductive, PTL

\* Answers to all steps of a selection cost the same, whoever asked for them
\* and whatever the conclusion says.
LEMMA CompletePrice ==
  ASSUME product \in [Selections -> Products], NEW s \in Selections,
         NEW list, Complete(s, list), NEW n, n = Total(s),
         NEW a, a = [i \in 1 .. n |-> Request[product[s]][i].tokens],
         NEW b, b = [i \in 1 .. n |-> Len(Request[product[s]][i].scheme.elements) + 1],
         NEW u, IsSum(u, n, a), NEW v, IsSum(v, n, b)
  PROVE  /\ PriceOf(list) = CostOf(u[n], v[n])
         /\ TokensOf(list, "prompt") = u[n] /\ TokensOf(list, "completion") = v[n]
<1> DEFINE p == product[s]
<1>1. p \in Products /\ n \in Nat /\ 1 .. n = StepNumbers(p)
  BY TotalIsNat DEF Total, StepNumbers
<1>2. list \in Seq(AnswerRow) /\ Len(list) = n /\ DOMAIN list = 1 .. n
      /\ \A i \in 1 .. n : list[i].step = i
  BY DEF Complete, InOrder
<1>3. a \in [1 .. n -> Nat] /\ b \in [1 .. n -> Nat]
  <2>1. ASSUME NEW i \in 1 .. n
        PROVE  Request[p][i].tokens \in Nat /\ Len(Request[p][i].scheme.elements) + 1 \in Nat
    <3>1. Request[p][i].tokens \in Nat /\ Request[p][i].scheme.elements \in Seq(STRING)
      BY <1>1, RequestIsText
    <3>2. Len(Request[p][i].scheme.elements) \in Nat
      BY <3>1
    <3> QED BY <3>1, <3>2
  <2> QED BY <2>1
<1>4. ASSUME NEW i \in 1 .. n PROVE list[i].answer.cost = CostOf(a[i], b[i])
  <2>1. PICK t \in Texts : list[i].answer = AnswerOf[p][list[i].step][t]
    BY <1>2 DEF Complete, RightAnswers
  <2>2. list[i].answer = AnswerOf[p][i][t]
    BY <1>2, <2>1
  <2>3. AnswerOf[p][i][t].cost
          = CostOf(Request[p][i].tokens, Len(Request[p][i].scheme.elements) + 1)
    BY <1>1, AnswerCosts
  <2>4. a[i] = Request[p][i].tokens /\ b[i] = Len(Request[p][i].scheme.elements) + 1
    OBVIOUS
  <2> QED BY <2>2, <2>3, <2>4
<1>5. ASSUME NEW i \in 1 .. n
      PROVE  /\ list[i].answer.cost["prompt"].tokens = a[i]
             /\ list[i].answer.cost["completion"].tokens = b[i]
  <2>1. \A x, y : CostOf(x, y)["prompt"].tokens = x /\ CostOf(x, y)["completion"].tokens = y
    BY DEF CostOf
  <2> QED BY <1>4, <2>1
<1>6. /\ HaveCosts(list, n, a, b)
      /\ HaveTokens(list, "prompt", n, a) /\ HaveTokens(list, "completion", n, b)
  BY <1>1, <1>2, <1>3, <1>4, <1>5 DEF HaveCosts, HaveTokens
<1> QED BY <1>6, PriceIsCost, TokensAddUp

\* A finished selection costs what the answers in its PDF cost, however many
\* runs they took (calculate_price_full_request).
THEOREM PriceAddsUp == Spec => []PriceOfAllSteps
<1>1. ASSUME IInv, AskedInv PROVE PriceOfAllSteps
  <2> SUFFICES ASSUME NEW s \in Selections, pdf[s] # <<>>
               PROVE  LET usd == TokensOf(pdf[s], "prompt") * PRICE_ONE_TOKEN_PROMPT_USD
                            + TokensOf(pdf[s], "completion") * PRICE_ONE_TOKEN_RESPONSE_USD
                      IN  /\ stored[s].price.total.USD = usd
                          /\ stored[s].price.total.RUB = usd * USD_TO_RUB
                          /\ stored[s].price.total.tokens
                               = TokensOf(pdf[s], "prompt") + TokensOf(pdf[s], "completion")
    BY DEF PriceOfAllSteps, TokensOf
  <2>1. product \in [Selections -> Products]
    BY <1>1 DEF IInv, TypeInv
  <2>2. Complete(s, pdf[s])
    BY <1>1 DEF IInv, TypeInv, StoredInv, AskedInv, Complete
  <2>3. PICK list : Complete(s, list) /\ stored[s].price = PriceOf(list)
    BY <1>1 DEF AskedInv, Priced
  <2>4. PICK n, a, b : /\ n = Total(s)
                       /\ a = [i \in 1 .. n |-> Request[product[s]][i].tokens]
                       /\ b = [i \in 1 .. n |-> Len(Request[product[s]][i].scheme.elements) + 1]
    OBVIOUS
  <2>5. n \in Nat /\ a \in [1 .. n -> Nat] /\ b \in [1 .. n -> Nat]
    <3>1. product[s] \in Products /\ n \in Nat /\ 1 .. n = StepNumbers(product[s])
      BY <2>1, <2>4, TotalIsNat DEF Total, StepNumbers
    <3>2. ASSUME NEW i \in 1 .. n
          PROVE  /\ Request[product[s]][i].tokens \in Nat
                 /\ Len(Request[product[s]][i].scheme.elements) + 1 \in Nat
      <4>1. /\ Request[product[s]][i].tokens \in Nat
            /\ Request[product[s]][i].scheme.elements \in Seq(STRING)
        BY <3>1, RequestIsText
      <4>2. Len(Request[product[s]][i].scheme.elements) \in Nat
        BY <4>1
      <4> QED BY <4>1, <4>2
    <3> QED BY <2>4, <3>1, <3>2
  <2>6. PICK u, v : IsSum(u, n, a) /\ IsSum(v, n, b)
    BY <2>5, SumExists
  <2>7. PriceOf(list) = CostOf(u[n], v[n])
    BY <2>1, <2>3, <2>4, <2>6, CompletePrice
  <2>8. TokensOf(pdf[s], "prompt") = u[n] /\ TokensOf(pdf[s], "completion") = v[n]
    BY <2>1, <2>2, <2>4, <2>6, CompletePrice
  <2>9. \A x, y : /\ CostOf(x, y).total.tokens = x + y
                  /\ CostOf(x, y).total.USD = x * PRICE_ONE_TOKEN_PROMPT_USD
                                                + y * PRICE_ONE_TOKEN_RESPONSE_USD
    BY DEF CostOf
  <2>10. u[n] \in Nat /\ v[n] \in Nat
    BY <2>5, <2>6 DEF IsSum
  <2>11. CostOf(u[n], v[n]).total.RUB
           = (u[n] * PRICE_ONE_TOKEN_PROMPT_USD + v[n] * PRICE_ONE_TOKEN_RESPONSE_USD)
               * USD_TO_RUB
    BY <2>10 DEF CostOf, PRICE_ONE_TOKEN_PROMPT_USD, PRICE_ONE_TOKEN_RESPONSE_USD, USD_TO_RUB
  <2> QED BY <2>3, <2>7, <2>8, <2>9, <2>11
<1> QED BY <1>1, AskedInductive, PTL

-----------------------------------------------------------------------------
(* What the PDF of an analysis shows: its entries                          *)

StepAt(i) == (i - 1) \div StepSize
Repeats(c, i) ==
  \E j \in 1 .. i - 1 : StepAt(j) = StepAt(i) /\ Word(c[j]) = Word(c[i])
Entry(c, i) == IF Repeats(c, i) THEN <<>> ELSE <<Word(c[i])>>
EntriesOf(c) == [i \in 1 .. Len(c) |-> Entry(c, i)]
EntriesUpto(c, m) == FlattenSeq(FirstOf(EntriesOf(c), m))

LEMMA EntriesGrow ==
  ASSUME NEW c \in Seq(Names)
  PROVE  /\ EntriesUpto(c, 0) = <<>> /\ EntryWords(c) = EntriesUpto(c, Len(c))
         /\ \A m \in 0 .. Len(c) : EntriesUpto(c, m) \in Seq(STRING)
         /\ \A m \in 0 .. Len(c) - 1 :
              /\ Entry(c, m + 1) \in Seq(STRING)
              /\ EntriesUpto(c, m + 1) = EntriesUpto(c, m) \o Entry(c, m + 1)
<1> DEFINE f == EntriesOf(c)
           n == Len(c)
<1>1. n \in Nat /\ DOMAIN c = 1 .. n
  OBVIOUS
<1>2. \A i \in 1 .. n : Entry(c, i) \in Seq(STRING)
  <2>1. ASSUME NEW i \in 1 .. n PROVE Entry(c, i) \in Seq(STRING)
    <3>1. Word(c[i]) \in STRING
      BY DEF Word, Names
    <3>2. <<Word(c[i])>> \in Seq(STRING) /\ <<>> \in Seq(STRING)
      BY <3>1
    <3> QED BY <3>2 DEF Entry
  <2> QED BY <2>1
<1>3. f \in Seq(Seq(STRING)) /\ Len(f) = n /\ \A i \in 1 .. n : f[i] = Entry(c, i)
  BY <1>1, <1>2 DEF EntriesOf
<1>4. EntryWords(c) = FlattenSeq(f)
  <2>1. [i \in DOMAIN c |->
           IF \E j \in 1 .. i - 1 : /\ (j - 1) \div StepSize = (i - 1) \div StepSize
                                    /\ Word(c[j]) = Word(c[i])
           THEN <<>> ELSE <<Word(c[i])>>] = f
    BY <1>1 DEF EntriesOf, Entry, Repeats, StepAt
  <2> HIDE DEF f
  <2> QED BY <2>1 DEF EntryWords
<1>5. \A m \in 0 .. n - 1 : f[m + 1] = Entry(c, m + 1) /\ Entry(c, m + 1) \in Seq(STRING)
  <2>1. \A m \in 0 .. n - 1 : m + 1 \in 1 .. n
    BY <1>1
  <2> QED BY <1>2, <1>3, <2>1
<1> HIDE DEF n, f
<1>6. /\ FlattenSeq(FirstOf(f, 0)) = <<>> /\ FirstOf(f, n) = f
      /\ \A m \in 0 .. n : FlattenSeq(FirstOf(f, m)) \in Seq(STRING)
      /\ \A m \in 0 .. n - 1 :
           FlattenSeq(FirstOf(f, m + 1)) = FlattenSeq(FirstOf(f, m)) \o f[m + 1]
  BY <1>3, FlattenFirst
<1> QED BY <1>4, <1>5, <1>6 DEF EntriesUpto, f, n

\* The positions of step n, and only they, have its quotient.
LEMMA Quotient ==
  ASSUME NEW a \in Nat, NEW b \in Nat \ {0}, NEW q \in Nat
  PROVE  a \div b = q <=> q * b <= a /\ a < q * b + b
<1>1. PICK d : d = a \div b
  OBVIOUS
<1>2. d \in Nat /\ d * b <= a /\ a < d * b + b
  BY <1>1, DivMod
<1>3. q * b \in Int /\ d * b \in Int /\ b \in Int
  BY <1>2
<1>4. ASSUME d < q PROVE d * b + b <= q * b
  <2>1. d <= q - 1 /\ q - 1 \in Int /\ d \in Int
    BY <1>2, <1>4
  <2>2. d * b <= (q - 1) * b /\ (q - 1) * b = q * b - b
    BY <2>1, Times
  <2> QED BY <1>3, <2>2
<1>5. ASSUME q < d PROVE q * b + b <= d * b
  <2>1. q <= d - 1 /\ d - 1 \in Int /\ q \in Int
    BY <1>2, <1>5
  <2>2. q * b <= (d - 1) * b /\ (d - 1) * b = d * b - b
    BY <1>2, <2>1, Times
  <2> QED BY <1>3, <2>2
<1> QED BY <1>1, <1>2, <1>3, <1>4, <1>5

LEMMA RepeatsInStep ==
  ASSUME NEW c, NEW n \in Nat \ {0}, NEW s, s = StartOf(n),
         NEW k \in 0 .. StepSize - 1
  PROVE  Repeats(c, s + k + 1) <=> \E j \in 1 .. k : Word(c[s + j]) = Word(c[s + k + 1])
<1> DEFINE Z == StepSize
<1>1. Z \in Nat \ {0}
  BY StepSizeAssumption
<1> HIDE DEF Z
<1>2. n - 1 \in Nat /\ s = (n - 1) * Z /\ s \in Nat /\ k \in Nat /\ k < Z
  <2>1. n - 1 \in Nat /\ s = (n - 1) * Z /\ k \in Nat /\ k < Z
    BY <1>1 DEF StartOf, Z
  <2>2. (n - 1) * Z \in Nat
    BY <1>1, <2>1
  <2> QED BY <2>1, <2>2
<1>3. ASSUME NEW i \in Nat \ {0}
      PROVE  StepAt(i) = n - 1 <=> s < i /\ i <= s + Z
  <2>1. i - 1 \in Nat
    OBVIOUS
  <2>2. StepAt(i) = n - 1 <=> s <= i - 1 /\ i - 1 < s + Z
    BY <1>1, <1>2, <2>1, Quotient DEF StepAt, Z
  <2> QED BY <1>1, <1>2, <2>2
<1>4. StepAt(s + k + 1) = n - 1
  <2>1. s + k + 1 \in Nat \ {0} /\ s < s + k + 1 /\ s + k + 1 <= s + Z
    BY <1>1, <1>2
  <2> QED BY <1>3, <2>1
<1>5. (s + k + 1) - 1 = s + k
  BY <1>2
<1>6. ASSUME NEW j \in 1 .. s + k, StepAt(j) = n - 1, Word(c[j]) = Word(c[s + k + 1])
      PROVE  \E i \in 1 .. k : Word(c[s + i]) = Word(c[s + k + 1])
  <2>1. j \in Nat \ {0} /\ s < j
    BY <1>2, <1>3, <1>6
  <2>2. j - s \in 1 .. k /\ s + (j - s) = j
    BY <1>2, <2>1
  <2> QED BY <1>6, <2>2
<1>7. ASSUME NEW i \in 1 .. k, Word(c[s + i]) = Word(c[s + k + 1])
      PROVE  \E j \in 1 .. s + k : StepAt(j) = n - 1 /\ Word(c[j]) = Word(c[s + k + 1])
  <2>1. s + i \in 1 .. s + k /\ s + i \in Nat \ {0} /\ s < s + i /\ s + i <= s + Z
    BY <1>1, <1>2
  <2> QED BY <1>3, <1>7, <2>1
<1> QED BY <1>4, <1>5, <1>6, <1>7 DEF Repeats

\* The entries of a step are the keys of its JSON schema.
LEMMA StepEntries ==
  ASSUME NEW c \in Seq(Names), NEW n \in 1 .. ElementSteps(c)
  PROVE  EntriesUpto(c, EndOf(c, n))
           = EntriesUpto(c, StartOf(n)) \o ElementKeys(TaskStep(c, n).elements)
<1>1. PICK s, e, elements : /\ s = StartOf(n) /\ e = EndOf(c, n)
                            /\ elements = SubSeq(c, s + 1, e)
  OBVIOUS
<1>2. s \in Nat /\ e \in Nat /\ s < e /\ e <= Len(c)
  BY <1>1, EndsOfSteps
<1>3. e - s \in Nat /\ e - s <= StepSize
  <2>1. StepSize \in Nat
    BY StepSizeAssumption
  <2>2. Len(c) \in Nat /\ e = IF s + StepSize <= Len(c) THEN s + StepSize ELSE Len(c)
    BY <1>1 DEF EndOf
  <2> QED BY <1>2, <2>1, <2>2
<1>4. TaskStep(c, n).elements = elements
  <2>1. n < TotalSteps(c)
    BY EndsOfSteps DEF TotalSteps
  <2> QED BY <1>1, <2>1 DEF TaskStep, StartOf, EndOf
<1>5. /\ elements \in Seq(Names) /\ Len(elements) = e - s
      /\ \A j \in 1 .. e - s : elements[j] = c[s + j]
  <2>1. elements \in Seq(Names)
    BY <1>1, <1>2
  <2> QED BY <1>1, <1>2, <2>1
<1> DEFINE m == e - s
           V == Seq(STRING)
<1>6. PICK w : IsTrace(w, m, V, <<>>, KeySteps(elements))
  BY <1>5, KeysExist
<1>7. /\ ElementKeys(elements) = w[m]
      /\ \A k \in 1 .. m : w[k] = MoreKeys(elements, k, w[k - 1])
  BY <1>5, <1>6, KeysFollow
<1>8. w[0] = <<>> /\ \A k \in 0 .. m : w[k] \in V
  BY <1>6 DEF IsTrace
<1>9. /\ \A k \in 0 .. Len(c) : EntriesUpto(c, k) \in V
      /\ \A k \in 0 .. Len(c) - 1 :
           /\ Entry(c, k + 1) \in V
           /\ EntriesUpto(c, k + 1) = EntriesUpto(c, k) \o Entry(c, k + 1)
  BY EntriesGrow
<1> DEFINE before == EntriesUpto(c, s)
           Good == {k \in 0 .. m : EntriesUpto(c, s + k) = before \o w[k]}
<1>10. before \in V
  <2>1. s \in 0 .. Len(c)
    BY <1>2
  <2> QED BY <1>9, <2>1
<1> HIDE DEF V, before
<1>11. 0 \in Good
  <2>1. before \o <<>> = before
    BY <1>10, ConcatEmptySeq DEF V
  <2>2. s + 0 = s /\ 0 \in 0 .. m
    BY <1>2, <1>3
  <2> QED BY <1>8, <2>1, <2>2 DEF before
<1>12. ASSUME NEW k \in 0 .. m - 1, k \in Good PROVE k + 1 \in Good
  <2>1. /\ k \in Nat /\ k + 1 \in 1 .. m /\ k + 1 \in 0 .. m /\ k \in 0 .. m
        /\ s + k \in 0 .. Len(c) - 1 /\ s + (k + 1) = s + k + 1
        /\ k \in 0 .. StepSize - 1 /\ (k + 1) - 1 = k
    <3>1. Len(c) \in Nat /\ StepSize \in Nat
      BY StepSizeAssumption
    <3> QED BY <1>2, <1>3, <3>1
  <2>2. EntriesUpto(c, s + k + 1) = (before \o w[k]) \o Entry(c, s + k + 1)
        /\ Entry(c, s + k + 1) \in V
    BY <1>9, <1>12, <2>1
  <2> DEFINE x == Word(elements[k + 1])
  <2>3. x = Word(c[s + k + 1])
    BY <1>5, <2>1
  <2>4. Entry(c, s + k + 1)
          = IF \A j \in 1 .. k : Word(elements[j]) # x THEN <<x>> ELSE <<>>
    <3>1. Repeats(c, s + k + 1) <=> \E j \in 1 .. k : Word(c[s + j]) = Word(c[s + k + 1])
      <4>1. n \in Nat \ {0}
        BY EndsOfSteps
      <4> QED BY <1>1, <2>1, <4>1, RepeatsInStep
    <3>2. \A j \in 1 .. k : elements[j] = c[s + j]
      BY <1>3, <1>5, <2>1
    <3>3. Repeats(c, s + k + 1) <=> ~ \A j \in 1 .. k : Word(elements[j]) # x
      BY <2>3, <3>1, <3>2
    <3> QED BY <2>3, <3>3 DEF Entry
  <2>5. w[k + 1] = IF \A j \in 1 .. k : Word(elements[j]) # x THEN Append(w[k], x) ELSE w[k]
    <3>1. w[k + 1] = MoreKeys(elements, k + 1, w[(k + 1) - 1])
      BY <1>7, <2>1
    <3>2. w[k + 1] = MoreKeys(elements, k + 1, w[k])
      BY <2>1, <3>1
    <3> QED BY <2>1, <3>2 DEF MoreKeys
  <2>6. x \in STRING
    <3>1. elements[k + 1] \in Names
      BY <1>3, <1>5, <2>1
    <3> QED BY <3>1 DEF Names, Word
  <2> HIDE DEF x
  <2>7. w[k] \in V
    BY <1>8, <2>1
  <2>8. w[k] \o <<x>> = Append(w[k], x) /\ w[k] \o <<>> = w[k]
    BY <2>6, <2>7, AppendIsConcat, ConcatEmptySeq DEF V
  <2>9. w[k] \o Entry(c, s + k + 1) = w[k + 1]
    BY <2>4, <2>5, <2>8
  <2>10. (before \o w[k]) \o Entry(c, s + k + 1) = before \o (w[k] \o Entry(c, s + k + 1))
    <3>1. PICK a \in V, b \in V, d \in V :
            a = before /\ b = w[k] /\ d = Entry(c, s + k + 1)
      BY <1>10, <2>2, <2>7
    <3>2. PICK T : a \in Seq(T) /\ b \in Seq(T) /\ d \in Seq(T)
      BY DEF V
    <3>3. (a \o b) \o d = a \o (b \o d)
      BY <3>2, ConcatAssociative, SMTT(20)
    <3> QED BY <3>1, <3>3
  <2> QED BY <2>1, <2>2, <2>9, <2>10
<1> HIDE DEF Good
<1>13. \A k \in 0 .. m : k \in Good
  BY <1>3, <1>11, <1>12, UpTo
<1>14. m \in Good /\ s + m = e
  <2>1. m \in 0 .. m /\ s + m = e
    BY <1>2, <1>3
  <2> QED BY <1>13, <2>1
<1> QED BY <1>1, <1>4, <1>7, <1>14 DEF Good, before

-----------------------------------------------------------------------------
(* What the PDF of an analysis shows: the analysis of all answers          *)

Answers(words) == [i \in DOMAIN words |-> ElementAnswer(words[i])]
ElementAnswers == {ElementAnswer(word) : word \in STRING}

LEMMA AnswersToBoth ==
  ASSUME NEW words \in Seq(STRING), NEW more \in Seq(STRING)
  PROVE  /\ Answers(words) \in Seq(ElementAnswers) /\ Len(Answers(words)) = Len(words)
         /\ \A i \in 1 .. Len(words) : Answers(words)[i] = ElementAnswer(words[i])
         /\ Answers(words \o more) = Answers(words) \o Answers(more)
<1>1. ASSUME NEW list \in Seq(STRING)
      PROVE  /\ Answers(list) \in Seq(ElementAnswers) /\ Len(Answers(list)) = Len(list)
             /\ \A i \in 1 .. Len(list) : Answers(list)[i] = ElementAnswer(list[i])
  <2>1. \A i \in 1 .. Len(list) : ElementAnswer(list[i]) \in ElementAnswers
    BY DEF ElementAnswers
  <2>2. Len(list) \in Nat /\ DOMAIN list = 1 .. Len(list)
    OBVIOUS
  <2> QED BY <2>1, <2>2 DEF Answers
<1> DEFINE a == Answers(words)
           b == Answers(more)
           m == Len(words)
           n == Len(more)
<1>2. /\ words \o more \in Seq(STRING) /\ Len(words \o more) = m + n
      /\ m \in Nat /\ n \in Nat
      /\ \A i \in 1 .. m + n : (words \o more)[i] = IF i <= m THEN words[i] ELSE more[i - m]
  BY ConcatProperties
<1>3. /\ a \in Seq(ElementAnswers) /\ b \in Seq(ElementAnswers) /\ Len(a) = m /\ Len(b) = n
      /\ \A i \in 1 .. m : a[i] = ElementAnswer(words[i])
      /\ \A i \in 1 .. n : b[i] = ElementAnswer(more[i])
  BY <1>1
<1>4. /\ Answers(words \o more) \in Seq(ElementAnswers)
      /\ Len(Answers(words \o more)) = m + n
      /\ \A i \in 1 .. m + n : Answers(words \o more)[i] = ElementAnswer((words \o more)[i])
  BY <1>1, <1>2
<1> HIDE DEF a, b, m, n
<1>5. /\ a \o b \in Seq(ElementAnswers) /\ Len(a \o b) = m + n
      /\ \A i \in 1 .. m + n : (a \o b)[i] = IF i <= m THEN a[i] ELSE b[i - m]
  BY <1>3, ConcatProperties
<1>6. ASSUME NEW i \in 1 .. m + n PROVE Answers(words \o more)[i] = (a \o b)[i]
  <2>1. CASE i <= m
    <3>1. i \in 1 .. m
      BY <1>2, <2>1
    <3> QED BY <1>2, <1>3, <1>4, <1>5, <2>1, <3>1
  <2>2. CASE ~(i <= m)
    <3>1. i - m \in 1 .. n
      BY <1>2, <2>2
    <3>2. (words \o more)[i] = more[i - m] /\ (a \o b)[i] = b[i - m]
      BY <1>2, <1>5, <2>2
    <3> QED BY <1>3, <1>4, <3>1, <3>2
  <2> QED BY <2>1, <2>2
<1>7. Answers(words \o more) = a \o b
  BY <1>4, <1>5, <1>6, SeqEqual
<1> QED BY <1>1, <1>7 DEF a, b

LEMMA NoKeys ==
  ASSUME NEW elements \in Seq(Names), NEW n, n = 0, n = Len(elements)
  PROVE  ElementKeys(elements) = <<>>
<1>1. PICK w : IsTrace(w, n, Seq(STRING), <<>>, KeySteps(elements))
  BY KeysExist
<1>2. w[0] = <<>>
  BY <1>1 DEF IsTrace
<1>3. ElementKeys(elements) = w[n]
  BY <1>1, KeysFollow
<1> QED BY <1>2, <1>3

\* The answer of a step: the keys it was asked for, or a conclusion.
LEMMA AnswerSays ==
  ASSUME NEW p \in Products, NEW n \in StepNumbers(p), NEW t \in Texts
  PROVE  LET message == AnswerOf[p][n][t].message
         IN  /\ message.elements = Answers(ElementKeys(TaskStep(p.composition, n).elements))
             /\ message.result = IF n = TotalSteps(p.composition) THEN <<t>> ELSE <<>>
<1> DEFINE step == TaskStep(p.composition, n)
           scheme == JsonScheme(p, step)
<1>1. AnswerOf[p][n][t].message = Message(RequestDetails(p, n).scheme, t)
  <2>1. AnswerOf[p][n][t] = Answer(p, n, t)
    BY Tables
  <2>2. Answer(p, n, t).message = Message(RequestDetails(p, n).scheme, t)
    BY DEF Answer
  <2> QED BY <2>1, <2>2
<1>2. RequestDetails(p, n).scheme = scheme
  BY DEF RequestDetails
<1>3. scheme.elements = ElementKeys(step.elements) /\ scheme.result = step.last
  BY DEF JsonScheme
<1>4. step.last <=> n = TotalSteps(p.composition)
  <2>1. p.composition \in Seq(Names)
    BY ProductsAssumption DEF Names
  <2>2. TotalSteps(p.composition) \in Nat
    BY <2>1, EndsOfSteps DEF TotalSteps
  <2>3. n <= TotalSteps(p.composition) /\ n \in Nat
    BY <2>2 DEF StepNumbers
  <2> QED BY <2>2, <2>3 DEF TaskStep
<1> HIDE DEF scheme, step
<1>5. /\ Message(scheme, t).elements = Answers(scheme.elements)
      /\ Message(scheme, t).result = IF scheme.result THEN <<t>> ELSE <<>>
  BY DEF Message, Answers
<1> QED BY <1>1, <1>2, <1>3, <1>4, <1>5 DEF step

\* All answers together say what the words of the composition are, in order,
\* and one conclusion.
LEMMA AnalysisOfAnswers ==
  ASSUME NEW p \in Products, NEW list \in Seq(AnswerRow),
         InOrder(list, TotalSteps(p.composition)), RightAnswers(p, list)
  PROVE  \E t \in Texts :
           PdfAnalysis(list) = [elements |-> Answers(EntryWords(p.composition)), result |-> t]
<1> DEFINE c == p.composition
           E == ElementSteps(c)
           n == TotalSteps(c)
           lists == [i \in DOMAIN list |-> list[i].answer.message.elements]
           results == [i \in DOMAIN list |-> list[i].answer.message.result]
           keys(i) == ElementKeys(TaskStep(c, i).elements)
           V == Seq(ElementAnswers)
<1>1. c \in Seq(Names)
  BY ProductsAssumption DEF Names
<1> HIDE DEF c
<1>2. E \in Nat /\ n = E + 1 /\ (E = 0 => Len(c) = 0)
  BY <1>1, EndsOfSteps DEF TotalSteps
<1>3. DOMAIN list = 1 .. n /\ \A i \in 1 .. n : list[i].step = i
  BY DEF InOrder, c
<1>4. 1 .. n = StepNumbers(p)
  BY DEF StepNumbers, c
<1>5. ASSUME NEW i \in 1 .. n
      PROVE  /\ keys(i) \in Seq(STRING) /\ lists[i] = Answers(keys(i))
             /\ \E t \in Texts : results[i] = IF i = n THEN <<t>> ELSE <<>>
  <2>1. PICK t \in Texts : list[i].answer = AnswerOf[p][i][t]
    BY <1>3 DEF RightAnswers
  <2>2. /\ AnswerOf[p][i][t].message.elements = Answers(keys(i))
        /\ AnswerOf[p][i][t].message.result = IF i = n THEN <<t>> ELSE <<>>
    BY <1>4, AnswerSays DEF c
  <2>3. keys(i) \in Seq(STRING)
    BY <1>1, StepElements, KeysAreWords
  <2> HIDE DEF keys, n
  <2>4. lists[i] = Answers(keys(i)) /\ results[i] = IF i = n THEN <<t>> ELSE <<>>
    BY <1>3, <2>1, <2>2
  <2> QED BY <2>3, <2>4
<1>6. keys(n) = <<>>
  <2>1. TaskStep(c, n).elements = <<>>
    BY <1>2 DEF TaskStep
  <2>2. PICK none : none = <<>>
    OBVIOUS
  <2>3. none \in Seq(Names) /\ 0 = Len(none)
    BY <2>2
  <2> HIDE DEF n
  <2>4. ElementKeys(none) = <<>>
    BY <2>3, NoKeys
  <2> QED BY <2>1, <2>2, <2>4
<1>7. ASSUME NEW i \in 1 .. E
      PROVE  /\ StartOf(i) \in 0 .. Len(c) /\ EndOf(c, i) \in 0 .. Len(c)
             /\ StartOf(i) = IF i = 1 THEN 0 ELSE EndOf(c, i - 1)
             /\ i = E => EndOf(c, i) = Len(c)
             /\ EntriesUpto(c, EndOf(c, i)) = EntriesUpto(c, StartOf(i)) \o keys(i)
  <2>1. /\ StartOf(i) \in Nat /\ EndOf(c, i) \in Nat
        /\ StartOf(i) < EndOf(c, i) /\ EndOf(c, i) <= Len(c)
        /\ i = 1 => StartOf(i) = 0
        /\ i > 1 => EndOf(c, i - 1) = StartOf(i)
        /\ i = E => EndOf(c, i) = Len(c)
    BY <1>1, EndsOfSteps
  <2>2. EntriesUpto(c, EndOf(c, i)) = EntriesUpto(c, StartOf(i)) \o keys(i)
    BY <1>1, StepEntries
  <2>3. Len(c) \in Nat /\ i \in Nat /\ i >= 1
    BY <1>1, <1>2
  <2> HIDE DEF keys, E
  <2> QED BY <2>1, <2>2, <2>3
<1> HIDE DEF E, n, keys
<1>8. /\ \A k \in 0 .. Len(c) : EntriesUpto(c, k) \in Seq(STRING)
      /\ EntriesUpto(c, 0) = <<>> /\ EntryWords(c) = EntriesUpto(c, Len(c))
      /\ Len(c) \in Nat
  BY <1>1, EntriesGrow
<1>9. Answers(<<>>) = <<>>
  BY DEF Answers
<1>10. /\ lists \in Seq(V) /\ Len(lists) = n
       /\ \A i \in 1 .. n : lists[i] = Answers(keys(i))
  <2>1. ASSUME NEW i \in 1 .. n PROVE lists[i] \in V
    BY <1>5, AnswersToBoth
  <2>2. DOMAIN lists = 1 .. n /\ n \in Nat
    BY <1>2, <1>3
  <2>3. lists = [i \in 1 .. n |-> lists[i]]
    BY <1>3
  <2>4. \A i \in 1 .. n : lists[i] = Answers(keys(i))
    BY <1>5
  <2> HIDE DEF lists, V
  <2>5. lists \in Seq(V) /\ Len(lists) = n
    <3>1. \A i \in 1 .. n : lists[i] \in V
      BY <2>1
    <3> QED BY <2>2, <2>3, <3>1
  <2> QED BY <2>4, <2>5
<1> HIDE DEF lists, results
<1> DEFINE M(k) == IF k = 0 THEN 0 ELSE EndOf(c, k)
           Good == {k \in 0 .. E : FlattenSeq(FirstOf(lists, k)) = Answers(EntriesUpto(c, M(k)))}
<1>11. /\ FlattenSeq(FirstOf(lists, 0)) = <<>> /\ FirstOf(lists, n) = lists
       /\ \A k \in 0 .. n - 1 :
            FlattenSeq(FirstOf(lists, k + 1)) = FlattenSeq(FirstOf(lists, k)) \o lists[k + 1]
  BY <1>10, FlattenFirst
<1>12. 0 \in Good
  BY <1>2, <1>8, <1>9, <1>11
<1>13. ASSUME NEW k \in 0 .. E - 1, k \in Good PROVE k + 1 \in Good
  <2>1. /\ k \in Nat /\ k + 1 \in 1 .. E /\ k + 1 \in 0 .. E /\ k \in 0 .. n - 1
        /\ k + 1 \in 1 .. n /\ (k + 1 = 1 <=> k = 0) /\ (k + 1) - 1 = k /\ k + 1 # 0
    BY <1>2
  <2>2. /\ StartOf(k + 1) = M(k) /\ M(k + 1) = EndOf(c, k + 1)
        /\ M(k) \in 0 .. Len(c)
        /\ EntriesUpto(c, EndOf(c, k + 1)) = EntriesUpto(c, StartOf(k + 1)) \o keys(k + 1)
    BY <1>7, <2>1
  <2>3. EntriesUpto(c, M(k)) \in Seq(STRING) /\ keys(k + 1) \in Seq(STRING)
    BY <1>5, <1>8, <2>1, <2>2
  <2>4. FlattenSeq(FirstOf(lists, k)) = Answers(EntriesUpto(c, M(k)))
    BY <1>13
  <2> HIDE DEF M, Good
  <2>5. FlattenSeq(FirstOf(lists, k + 1))
          = Answers(EntriesUpto(c, M(k))) \o Answers(keys(k + 1))
    BY <1>10, <1>11, <2>1, <2>4
  <2>6. Answers(EntriesUpto(c, M(k)) \o keys(k + 1))
          = Answers(EntriesUpto(c, M(k))) \o Answers(keys(k + 1))
    BY <2>3, AnswersToBoth
  <2>7. FlattenSeq(FirstOf(lists, k + 1)) = Answers(EntriesUpto(c, M(k + 1)))
    BY <2>2, <2>5, <2>6
  <2> QED BY <2>1, <2>7 DEF Good
<1> HIDE DEF Good
<1>14. \A k \in 0 .. E : k \in Good
  BY <1>2, <1>12, <1>13, UpTo
<1>15. FlattenSeq(lists) = Answers(EntryWords(c))
  <2>1. E \in 0 .. E /\ E \in 0 .. n - 1 /\ n \in 1 .. n
    BY <1>2
  <2>2. M(E) = Len(c)
    <3>1. CASE E = 0
      BY <1>2, <3>1
    <3>2. CASE E # 0
      <4>1. E \in 1 .. E
        BY <1>2, <3>2
      <4> QED BY <1>7, <3>2, <4>1
    <3> QED BY <3>1, <3>2
  <2>3. FlattenSeq(FirstOf(lists, E)) = Answers(EntryWords(c))
    BY <1>8, <1>14, <2>1, <2>2 DEF Good
  <2>4. lists[n] = <<>>
    BY <1>6, <1>9, <1>10, <2>1
  <2>5. FlattenSeq(lists) = Answers(EntryWords(c)) \o <<>>
    BY <1>2, <1>11, <2>1, <2>3, <2>4
  <2>6. Answers(EntryWords(c)) \in V
    <3>1. EntryWords(c) \in Seq(STRING)
      BY <1>8
    <3> QED BY <3>1, AnswersToBoth
  <2> QED BY <2>5, <2>6, ConcatEmptySeq
<1>16. PICK t \in Texts : results[n] = <<t>>
  <2>1. n \in 1 .. n
    BY <1>2
  <2> QED BY <1>5, <2>1
<1>17. FlattenSeq(results) = <<t>>
  <2>1. n \in 1 .. n /\ n \in Nat /\ DOMAIN results = 1 .. n
    BY <1>2, <1>3 DEF results
  <2>2. \A i \in 1 .. n : i # n => results[i] = <<>>
    BY <1>5
  <2>3. \A i \in 1 .. n : results[i] \in Seq(Texts)
    <3>1. ASSUME NEW i \in 1 .. n PROVE results[i] \in Seq(Texts)
      <4>1. CASE i = n
        <5>1. <<t>> \in Seq(Texts)
          OBVIOUS
        <5> QED BY <1>16, <4>1, <5>1
      <4>2. CASE i # n
        <5>1. <<>> \in Seq(Texts)
          OBVIOUS
        <5> QED BY <2>2, <4>2, <5>1
      <4> QED BY <4>1, <4>2
    <3> QED BY <3>1
  <2>4. results = [i \in 1 .. n |-> results[i]]
    BY <1>3 DEF results
  <2> DEFINE W == Seq(Texts)
  <2>5. results \in Seq(W) /\ Len(results) = n
    <3> HIDE DEF W
    <3>1. \A i \in 1 .. n : results[i] \in W
      BY <2>3 DEF W
    <3> QED BY <2>1, <2>4, <3>1
  <2> QED BY <1>16, <2>1, <2>2, <2>5, FlattenOne
<1>18. PdfAnalysis(list) = [elements |-> FlattenSeq(lists),
                            result |-> LET all == FlattenSeq(results)
                                       IN  IF all = <<>> THEN "" ELSE all[Len(all)]]
  BY DEF PdfAnalysis, lists, results
<1>19. <<t>> # <<>> /\ <<t>>[Len(<<t>>)] = t
  OBVIOUS
<1>20. PdfAnalysis(list) = [elements |-> Answers(EntryWords(c)), result |-> t]
  BY <1>15, <1>17, <1>18, <1>19
<1> QED BY <1>20 DEF c

-----------------------------------------------------------------------------
(* What the PDF of an analysis shows: the document                         *)

Kinds == {"Image", "FreeText", "Paragraph", "PageBreak"}
Blank == <<"", 0>>

\* What an entry of the structure adds to what is printed of a field, and
\* what the whole structure prints of it.
Shown(entry, data, name) ==
  IF entry[2] # Blank /\ entry[2][1] = name THEN <<data[entry[2]]>> ELSE <<>>
ShownIn(structure, data, name) ==
  [i \in 1 .. Len(structure) |-> Shown(structure[i], data, name)]

\* Structures whose fields are all in the data.
Structures(data) == Seq(Kinds \X ({Blank} \cup DOMAIN data))
Contents(data) == {data[field] : field \in DOMAIN data}

LEMMA PrintedIsShown ==
  ASSUME NEW data, NEW structure \in Structures(data), NEW name
  PROVE  /\ Printed(Flowables(structure, data), name)
              = FlattenSeq(ShownIn(structure, data, name))
         /\ ShownIn(structure, data, name) \in Seq(Seq(Contents(data)))
         /\ Len(ShownIn(structure, data, name)) = Len(structure)
         /\ Printable(structure, data)
<1> DEFINE n == Len(structure)
           F == {Blank} \cup DOMAIN data
           document == Flowables(structure, data)
           V == Seq(Contents(data))
<1>1. /\ n \in Nat /\ DOMAIN structure = 1 .. n
      /\ \A i \in 1 .. n : structure[i] \in Kinds \X F
  BY DEF Structures
<1>2. \A i \in 1 .. n : structure[i][2] \in F
  BY <1>1
<1>3. document = [i \in 1 .. n |->
         IF structure[i][2] = Blank THEN <<structure[i][1]>>
         ELSE <<structure[i][1], structure[i][2][1], data[structure[i][2]]>>]
  BY <1>1 DEF Flowables, Blank
<1> HIDE DEF document, n
<1>4. ASSUME NEW i \in 1 .. n
      PROVE  (IF Len(document[i]) = 3 /\ document[i][2] = name THEN <<document[i][3]>> ELSE <<>>)
               = Shown(structure[i], data, name)
  <2>1. CASE structure[i][2] = Blank
    <3>1. document[i] = <<structure[i][1]>>
      BY <1>3, <2>1
    <3>2. Len(document[i]) = 1
      BY <3>1
    <3> QED BY <2>1, <3>2 DEF Shown
  <2>2. CASE structure[i][2] # Blank
    <3>1. document[i] = <<structure[i][1], structure[i][2][1], data[structure[i][2]]>>
      BY <1>3, <2>2
    <3>2. /\ Len(document[i]) = 3 /\ document[i][2] = structure[i][2][1]
          /\ document[i][3] = data[structure[i][2]]
      BY <3>1
    <3> QED BY <2>2, <3>2 DEF Shown
  <2> QED BY <2>1, <2>2
<1>5. Printed(document, name) = FlattenSeq(ShownIn(structure, data, name))
  <2>1. DOMAIN document = 1 .. n
    BY <1>3
  <2>2. [i \in DOMAIN document |->
           IF Len(document[i]) = 3 /\ document[i][2] = name THEN <<document[i][3]>> ELSE <<>>]
        = ShownIn(structure, data, name)
    BY <1>4, <2>1 DEF ShownIn, n
  <2> QED BY <2>2 DEF Printed
<1>6. ASSUME NEW i \in 1 .. n PROVE Shown(structure[i], data, name) \in V
  <2>1. structure[i][2] # Blank => data[structure[i][2]] \in Contents(data)
    BY <1>2 DEF Contents
  <2>2. <<>> \in V /\ \A x \in Contents(data) : <<x>> \in V
    OBVIOUS
  <2> HIDE DEF V
  <2> QED BY <2>1, <2>2 DEF Shown
<1>7. ShownIn(structure, data, name) \in Seq(V) /\ Len(ShownIn(structure, data, name)) = n
  <2> HIDE DEF V
  <2> QED BY <1>1, <1>6 DEF ShownIn, n
<1>8. Printable(structure, data)
  BY <1>1, <1>2 DEF Printable, Blank
<1> QED BY <1>5, <1>7, <1>8 DEF document, n

\* A structure that is continued.
LEMMA ShownInBoth ==
  ASSUME NEW data, NEW a \in Structures(data), NEW b \in Structures(data), NEW name
  PROVE  /\ a \o b \in Structures(data)
         /\ FlattenSeq(ShownIn(a \o b, data, name))
              = FlattenSeq(ShownIn(a, data, name)) \o FlattenSeq(ShownIn(b, data, name))
<1> DEFINE V == Seq(Contents(data))
           x == ShownIn(a, data, name)
           y == ShownIn(b, data, name)
           z == ShownIn(a \o b, data, name)
           m == Len(a)
           n == Len(b)
<1>1. /\ a \o b \in Structures(data) /\ Len(a \o b) = m + n /\ m \in Nat /\ n \in Nat
      /\ \A i \in 1 .. m + n : (a \o b)[i] = IF i <= m THEN a[i] ELSE b[i - m]
  BY ConcatProperties DEF Structures
<1>2. /\ x \in Seq(V) /\ Len(x) = m /\ y \in Seq(V) /\ Len(y) = n
      /\ z \in Seq(V) /\ Len(z) = m + n
  BY <1>1, PrintedIsShown
<1>3. /\ \A i \in 1 .. m : x[i] = Shown(a[i], data, name)
      /\ \A i \in 1 .. n : y[i] = Shown(b[i], data, name)
      /\ \A i \in 1 .. m + n : z[i] = Shown((a \o b)[i], data, name)
  BY <1>1 DEF ShownIn
<1>4. FlattenSeq(x \o y) = FlattenSeq(x) \o FlattenSeq(y)
  BY <1>2, FlattenBoth
<1> HIDE DEF V, x, y, z, m, n
<1>5. /\ x \o y \in Seq(V) /\ Len(x \o y) = m + n
      /\ \A i \in 1 .. m + n : (x \o y)[i] = IF i <= m THEN x[i] ELSE y[i - m]
  BY <1>2, ConcatProperties
<1>6. ASSUME NEW i \in 1 .. m + n PROVE z[i] = (x \o y)[i]
  <2>1. CASE i <= m
    <3>1. i \in 1 .. m
      BY <1>1, <2>1
    <3> QED BY <1>1, <1>3, <1>5, <2>1, <3>1
  <2>2. CASE ~(i <= m)
    <3>1. i - m \in 1 .. n
      BY <1>1, <2>2
    <3> QED BY <1>1, <1>3, <1>5, <2>2, <3>1
  <2> QED BY <2>1, <2>2
<1>7. z = x \o y
  BY <1>2, <1>5, <1>6, SeqEqual
<1> QED BY <1>1, <1>4, <1>7 DEF x, y, z

\* A structure that shows a field once, or nowhere.
LEMMA ShownOnce ==
  ASSUME NEW data, NEW structure \in Structures(data), NEW name, NEW m \in 1 .. Len(structure),
         structure[m][2] # Blank, structure[m][2][1] = name,
         \A i \in 1 .. Len(structure) : i # m => structure[i][2] = Blank \/ structure[i][2][1] # name
  PROVE  FlattenSeq(ShownIn(structure, data, name)) = <<data[structure[m][2]]>>
<1> DEFINE f == ShownIn(structure, data, name)
<1>1. f \in Seq(Seq(Contents(data))) /\ Len(f) = Len(structure)
  BY PrintedIsShown
<1>2. f[m] = <<data[structure[m][2]]>>
  BY DEF ShownIn, Shown
<1>3. \A i \in 1 .. Len(f) : i # m => f[i] = <<>>
  BY <1>1 DEF ShownIn, Shown
<1> HIDE DEF f
<1>4. FlattenSeq(f) = f[m]
  BY <1>1, <1>3, FlattenOne
<1> QED BY <1>2, <1>4 DEF f

LEMMA ShownNowhere ==
  ASSUME NEW data, NEW structure \in Structures(data), NEW name,
         \A i \in 1 .. Len(structure) : structure[i][2] = Blank \/ structure[i][2][1] # name
  PROVE  FlattenSeq(ShownIn(structure, data, name)) = <<>>
<1> DEFINE f == ShownIn(structure, data, name)
<1>1. f \in Seq(Seq(Contents(data))) /\ Len(f) = Len(structure)
  BY PrintedIsShown
<1>2. \A i \in 1 .. Len(f) : f[i] = <<>>
  BY <1>1 DEF ShownIn, Shown
<1> HIDE DEF f
<1> QED BY <1>1, <1>2, FlattenNone DEF f

CoverNames == {"name", "article", "type", "price", "price_ratio", "conclusion"}
ElementNames == {"title", "use", "danger"}
FieldsOf(m) == {<<name, 0>> : name \in CoverNames}
                 \cup {<<name, i>> : name \in ElementNames, i \in 1 .. m}
Conclusion(text) == IF text = "" THEN "done" ELSE text
Sign(word) == IF word \in Dangerous THEN "warning" ELSE "check mark"

\* The analysis of the answers about words, and what its data say.
AnalysisOf(words, text) == [elements |-> Answers(words), result |-> text]
DataSay(data, words, text) ==
  /\ DOMAIN data = FieldsOf(Len(words))
  /\ data[<<"conclusion", 0>>] = <<Conclusion(text)>>
  /\ \A i \in 1 .. Len(words) :
       /\ data[<<"title", i>>] = <<i, words[i]>>
       /\ data[<<"danger", i>>] = <<Sign(words[i])>>

LEMMA DataOfWords ==
  ASSUME NEW p, NEW words \in Seq(STRING), NEW t
  PROVE  DataSay(TemplateData(p, AnalysisOf(words, t)), words, t)
<1>0. SUFFICES ASSUME NEW m, m = Len(words),
                      NEW data, data = TemplateData(p, [elements |-> Answers(words), result |-> t])
      PROVE  /\ DOMAIN data = FieldsOf(m)
             /\ data[<<"conclusion", 0>>] = <<Conclusion(t)>>
             /\ \A i \in 1 .. m :
                  /\ data[<<"title", i>>] = <<i, words[i]>>
                  /\ data[<<"danger", i>>] = <<Sign(words[i])>>
  BY DEF AnalysisOf, DataSay
<1> DEFINE analysis == [elements |-> Answers(words), result |-> t]
           cover == CoverFields(p, analysis)
           rows == [i \in DOMAIN analysis.elements |-> ElementFields(i, analysis.elements[i])]
           fields == FieldsOf(m)
<1>1. /\ m \in Nat /\ DOMAIN analysis.elements = 1 .. m
      /\ \A i \in 1 .. m : analysis.elements[i] = ElementAnswer(words[i])
  BY <1>0, AnswersToBoth DEF Answers
<1>2. DOMAIN cover = CoverNames
  BY DEF CoverFields, CoverNames
<1>3. cover.conclusion = <<Conclusion(t)>>
  BY DEF CoverFields, Conclusion
<1>4. ASSUME NEW i \in 1 .. m
      PROVE  /\ rows[i].title = <<i, words[i]>>
             /\ rows[i].danger = <<Sign(words[i])>>
  <2>1. rows[i] = ElementFields(i, ElementAnswer(words[i]))
    BY <1>1
  <2>2. /\ ElementAnswer(words[i]).title = words[i]
        /\ ElementAnswer(words[i]).danger = (words[i] \in Dangerous)
    BY DEF ElementAnswer
  <2>3. \A e : /\ ElementFields(i, e).title = <<i, e.title>>
              /\ ElementFields(i, e).danger = <<IF e.danger THEN "warning" ELSE "check mark">>
    BY DEF ElementFields
  <2> HIDE DEF rows
  <2>4. rows[i].title = <<i, words[i]>>
    BY <2>1, <2>2, <2>3
  <2>5. rows[i].danger
          = <<IF ElementAnswer(words[i]).danger THEN "warning" ELSE "check mark">>
    BY <2>1, <2>3
  <2>6. rows[i].danger = <<Sign(words[i])>>
    BY <2>2, <2>5, Zenon DEF Sign
  <2> QED BY <2>4, <2>6
<1>5. DOMAIN rows = 1 .. m
  BY <1>1
<1> HIDE DEF analysis, cover, rows
<1>6. data = [field \in fields |-> IF field[2] = 0 THEN cover[field[1]]
                                  ELSE rows[field[2]][field[1]]]
  <2> DEFINE named == {<<name, 0>> : name \in DOMAIN cover}
                        \cup {<<name, i>> : name \in {"title", "use", "danger"}, i \in DOMAIN rows}
  <2>1. data = [field \in named |-> IF field[2] = 0 THEN cover[field[1]]
                                    ELSE rows[field[2]][field[1]]]
    BY <1>0 DEF TemplateData, analysis, cover, rows
  <2>2. named = fields
    BY <1>2, <1>5 DEF ElementNames, FieldsOf
  <2> HIDE DEF named, fields
  <2> QED BY <2>1, <2>2
<1>7. /\ <<"conclusion", 0>> \in fields
      /\ \A i \in 1 .. m : <<"title", i>> \in fields /\ <<"danger", i>> \in fields
  BY DEF CoverNames, ElementNames, FieldsOf
<1>8. \A i \in 1 .. m : i # 0
  BY <1>1
<1> HIDE DEF fields
<1>9. DOMAIN data = fields
  BY <1>6
<1>10. data[<<"conclusion", 0>>] = cover["conclusion"]
  BY <1>6, <1>7
<1>11. ASSUME NEW i \in 1 .. m
       PROVE  data[<<"title", i>>] = rows[i]["title"] /\ data[<<"danger", i>>] = rows[i]["danger"]
  <2>1. /\ <<"title", i>>[1] = "title" /\ <<"title", i>>[2] = i
        /\ <<"danger", i>>[1] = "danger" /\ <<"danger", i>>[2] = i
    OBVIOUS
  <2>2. \A field \in fields : field[2] # 0 => data[field] = rows[field[2]][field[1]]
    BY <1>6
  <2>3. PICK a \in fields, b \in fields : a = <<"title", i>> /\ b = <<"danger", i>>
    BY <1>7
  <2>4. /\ data[a] = rows[a[2]][a[1]] /\ a[2] = i /\ a[1] = "title"
        /\ data[b] = rows[b[2]][b[1]] /\ b[2] = i /\ b[1] = "danger"
    BY <1>8, <2>1, <2>2, <2>3
  <2> QED BY <2>3, <2>4
<1>12. \A i \in 1 .. m : /\ data[<<"title", i>>] = <<i, words[i]>>
                         /\ data[<<"danger", i>>] = <<Sign(words[i])>>
  BY <1>4, <1>11
<1>13. data[<<"conclusion", 0>>] = <<Conclusion(t)>>
  BY <1>3, <1>10
<1>14. DOMAIN data = FieldsOf(m)
  BY <1>9 DEF fields
<1> HIDE DEF fields
<1> QED BY <1>12, <1>13, <1>14

\* A field that has a name.
LEMMA FieldOfName ==
  ASSUME NEW name, name # "", NEW i
  PROVE  <<name, i>> # Blank /\ <<name, i>>[1] = name
<1>1. <<name, i>>[1] = name /\ Blank[1] = ""
  BY DEF Blank
<1> QED BY <1>1

\* The cover, the rows of one element and the conclusion: their fields are in
\* the data, and each shows what it is there for.
LEMMA CoverShows ==
  ASSUME NEW data, NEW m, DOMAIN data = FieldsOf(m)
  PROVE  /\ CoverStructure \in Structures(data) /\ ConclusionStructure \in Structures(data)
         /\ FlattenSeq(ShownIn(CoverStructure, data, "price_ratio"))
              = <<data[<<"price_ratio", 0>>]>>
         /\ FlattenSeq(ShownIn(ConclusionStructure, data, "conclusion"))
              = <<data[<<"conclusion", 0>>]>>
         /\ \A name \in ElementNames \cup {"conclusion"} :
              FlattenSeq(ShownIn(CoverStructure, data, name)) = <<>>
         /\ \A name \in ElementNames \cup {"price_ratio"} :
              FlattenSeq(ShownIn(ConclusionStructure, data, name)) = <<>>
<1> DEFINE F == {Blank} \cup DOMAIN data
           a == CoverStructure
           b == ConclusionStructure
<1>1. \A name \in CoverNames : <<"Paragraph", <<name, 0>>>> \in Kinds \X F
                               /\ <<"FreeText", <<name, 0>>>> \in Kinds \X F
  BY DEF Kinds, FieldsOf
<1>2. \A kind \in Kinds : Fixed(kind) \in Kinds \X F
  BY DEF Fixed, Blank
<1>3. /\ Len(a) = 8
      /\ a[1] = <<"Image", Blank>> /\ a[2] = <<"FreeText", <<"article", 0>>>>
      /\ a[3] = <<"FreeText", Blank>> /\ a[4] = <<"Paragraph", <<"type", 0>>>>
      /\ a[5] = <<"Paragraph", <<"name", 0>>>> /\ a[6] = <<"Paragraph", <<"price", 0>>>>
      /\ a[7] = <<"Paragraph", <<"price_ratio", 0>>>> /\ a[8] = <<"PageBreak", Blank>>
  BY DEF CoverStructure, Fixed, Shows, Blank
<1>4. Len(b) = 1 /\ b[1] = <<"Paragraph", <<"conclusion", 0>>>>
  BY DEF ConclusionStructure, Shows
<1>5. a \in Structures(data)
  <2>1. /\ Shows(<<"type", 0>>) \in Kinds \X F /\ Shows(<<"name", 0>>) \in Kinds \X F
        /\ Shows(<<"price", 0>>) \in Kinds \X F /\ Shows(<<"price_ratio", 0>>) \in Kinds \X F
        /\ <<"FreeText", <<"article", 0>>>> \in Kinds \X F
    BY <1>1 DEF CoverNames, Shows
  <2>2. /\ Fixed("Image") \in Kinds \X F /\ Fixed("FreeText") \in Kinds \X F
        /\ Fixed("PageBreak") \in Kinds \X F
    BY <1>2 DEF Kinds
  <2> DEFINE T == Kinds \X F
  <2> HIDE DEF T
  <2>3. \A x1, x2, x3, x4, x5, x6, x7, x8 \in T :
          <<x1, x2, x3, x4, x5, x6, x7, x8>> \in Seq(T)
    OBVIOUS
  <2> QED BY <2>1, <2>2, <2>3 DEF CoverStructure, Structures, T
<1>6. b \in Structures(data)
  <2>1. Shows(<<"conclusion", 0>>) \in Kinds \X F
    BY <1>1 DEF CoverNames, Shows
  <2> DEFINE T == Kinds \X F
  <2> HIDE DEF T
  <2>2. \A x \in T : <<x>> \in Seq(T)
    OBVIOUS
  <2> QED BY <2>1, <2>2 DEF ConclusionStructure, Structures, T
<1>7. \A i \in 1 .. 8 : i \in {1, 2, 3, 4, 5, 6, 7, 8}
  OBVIOUS
<1> HIDE DEF a, b
<1>8. FlattenSeq(ShownIn(a, data, "price_ratio")) = <<data[<<"price_ratio", 0>>]>>
  <2>1. /\ 7 \in 1 .. Len(a) /\ a[7][2] # Blank /\ a[7][2][1] = "price_ratio"
        /\ a[7][2] = <<"price_ratio", 0>>
    <3>1. 7 \in 1 .. Len(a) /\ a[7][2] = <<"price_ratio", 0>>
      BY <1>3
    <3> QED BY <3>1, FieldOfName
  <2>2. \A i \in 1 .. Len(a) : i # 7 => a[i][2] = Blank \/ a[i][2][1] # "price_ratio"
    BY <1>3, <1>7
  <2> QED BY <1>5, <2>1, <2>2, ShownOnce
<1>9. ASSUME NEW name \in ElementNames \cup {"conclusion"}
      PROVE  FlattenSeq(ShownIn(a, data, name)) = <<>>
  <2>1. \A i \in 1 .. Len(a) : a[i][2] = Blank \/ a[i][2][1] # name
    BY <1>3, <1>7 DEF ElementNames
  <2> QED BY <1>5, <2>1, ShownNowhere
<1>10. FlattenSeq(ShownIn(b, data, "conclusion")) = <<data[<<"conclusion", 0>>]>>
  <2>1. /\ 1 \in 1 .. Len(b) /\ b[1][2] # Blank /\ b[1][2][1] = "conclusion"
        /\ b[1][2] = <<"conclusion", 0>> /\ \A i \in 1 .. Len(b) : i = 1
    BY <1>4 DEF Blank
  <2> QED BY <1>6, <2>1, ShownOnce
<1>11. ASSUME NEW name \in ElementNames \cup {"price_ratio"}
       PROVE  FlattenSeq(ShownIn(b, data, name)) = <<>>
  <2>1. \A i \in 1 .. Len(b) : b[i][2][1] # name
    BY <1>4 DEF ElementNames
  <2> QED BY <1>6, <2>1, ShownNowhere
<1> QED BY <1>5, <1>6, <1>8, <1>9, <1>10, <1>11 DEF a, b

LEMMA ElementShows ==
  ASSUME NEW data, NEW k \in Nat, {<<name, k>> : name \in ElementNames} \subseteq DOMAIN data
  PROVE  /\ ElementStructure(k) \in Structures(data)
         /\ \A name \in ElementNames :
              FlattenSeq(ShownIn(ElementStructure(k), data, name)) = <<data[<<name, k>>]>>
         /\ \A name \in {"price_ratio", "conclusion"} :
              FlattenSeq(ShownIn(ElementStructure(k), data, name)) = <<>>
<1> DEFINE F == {Blank} \cup DOMAIN data
           a == ElementStructure(k)
<1>1. /\ Len(a) = 3 /\ a[1] = <<"Paragraph", <<"title", k>>>>
      /\ a[2] = <<"Paragraph", <<"use", k>>>> /\ a[3] = <<"Paragraph", <<"danger", k>>>>
  BY DEF ElementStructure, Shows
<1>2. a \in Structures(data)
  <2>1. \A name \in ElementNames : Shows(<<name, k>>) \in Kinds \X F
    BY DEF Shows, Kinds
  <2> DEFINE T == Kinds \X F
  <2> HIDE DEF T
  <2>2. \A x, y, z \in T : <<x, y, z>> \in Seq(T)
    OBVIOUS
  <2>3. /\ Shows(<<"title", k>>) \in T /\ Shows(<<"use", k>>) \in T
        /\ Shows(<<"danger", k>>) \in T
    BY <2>1 DEF T, ElementNames
  <2> QED BY <2>2, <2>3 DEF ElementStructure, Structures, T
<1>3. \A i \in 1 .. 3 : i \in {1, 2, 3}
  OBVIOUS
<1> HIDE DEF a
<1>4. ASSUME NEW name \in ElementNames
      PROVE  FlattenSeq(ShownIn(a, data, name)) = <<data[<<name, k>>]>>
  <2>1. PICK m \in 1 .. 3 : a[m][2] = <<name, k>>
    BY <1>1 DEF ElementNames
  <2>2. a[m][2] # Blank /\ a[m][2][1] = name /\ m \in 1 .. Len(a)
    <3>1. name # ""
      BY DEF ElementNames
    <3> QED BY <1>1, <2>1, <3>1, FieldOfName
  <2>3. \A i \in 1 .. Len(a) : i # m => a[i][2][1] # name
    BY <1>1, <1>3, <2>1
  <2> QED BY <1>2, <2>1, <2>2, <2>3, ShownOnce
<1>5. ASSUME NEW name \in {"price_ratio", "conclusion"}
      PROVE  FlattenSeq(ShownIn(a, data, name)) = <<>>
  <2>1. \A i \in 1 .. Len(a) : a[i][2][1] # name
    BY <1>1, <1>3
  <2> QED BY <1>2, <2>1, ShownNowhere
<1> QED BY <1>2, <1>4, <1>5 DEF a

\* The rows of the elements show, of each of their fields, one value for each
\* element in order, and nothing of the fields of the cover.
ElementRows(m) == FlattenSeq([i \in 1 .. m |-> ElementStructure(i)])
ElementValues(data, name, m) == [i \in 1 .. m |-> data[<<name, i>>]]

LEMMA ElementsShow ==
  ASSUME NEW data, NEW m \in Nat, DOMAIN data = FieldsOf(m)
  PROVE  /\ ElementRows(m) \in Structures(data)
         /\ \A name \in ElementNames :
              FlattenSeq(ShownIn(ElementRows(m), data, name)) = ElementValues(data, name, m)
         /\ \A name \in {"price_ratio", "conclusion"} :
              FlattenSeq(ShownIn(ElementRows(m), data, name)) = <<>>
<1>0. SUFFICES ASSUME NEW lists, lists = [i \in 1 .. m |-> ElementStructure(i)]
      PROVE  /\ FlattenSeq(lists) \in Structures(data)
             /\ \A name \in ElementNames :
                  FlattenSeq(ShownIn(FlattenSeq(lists), data, name))
                    = [i \in 1 .. m |-> data[<<name, i>>]]
             /\ \A name \in {"price_ratio", "conclusion"} :
                  FlattenSeq(ShownIn(FlattenSeq(lists), data, name)) = <<>>
  BY DEF ElementRows, ElementValues
<1> DEFINE T == Kinds \X ({Blank} \cup DOMAIN data)
           V == Seq(T)
           S(k) == FlattenSeq(FirstOf(lists, k))
           Rows(name, k) == [i \in 1 .. k |-> data[<<name, i>>]]
           Good == {k \in 0 .. m :
             /\ \A name \in ElementNames :
                  FlattenSeq(ShownIn(S(k), data, name)) = Rows(name, k)
             /\ \A name \in {"price_ratio", "conclusion"} :
                  FlattenSeq(ShownIn(S(k), data, name)) = <<>>}
<1>1. ASSUME NEW i \in 1 .. m
      PROVE  /\ lists[i] \in V
             /\ \A name \in ElementNames :
                  /\ <<name, i>> \in DOMAIN data
                  /\ FlattenSeq(ShownIn(lists[i], data, name)) = <<data[<<name, i>>]>>
             /\ \A name \in {"price_ratio", "conclusion"} :
                  FlattenSeq(ShownIn(lists[i], data, name)) = <<>>
  <2>1. i \in Nat /\ {<<name, i>> : name \in ElementNames} \subseteq DOMAIN data
    BY DEF FieldsOf
  <2>2. lists[i] = ElementStructure(i)
    BY <1>0
  <2>3. \A name \in ElementNames : <<name, i>> \in DOMAIN data
    BY <2>1
  <2> QED BY <2>1, <2>2, <2>3, ElementShows DEF Structures
<1>2. lists \in Seq(V) /\ Len(lists) = m
  <2>1. \A i \in 1 .. m : lists[i] \in V
    BY <1>1
  <2>2. DOMAIN lists = 1 .. m /\ lists = [i \in 1 .. m |-> lists[i]]
    BY <1>0
  <2> HIDE DEF V
  <2> QED BY <2>1, <2>2
<1>3. /\ S(0) = <<>> /\ FirstOf(lists, m) = lists
      /\ \A k \in 0 .. m : S(k) \in V
      /\ \A k \in 0 .. m - 1 : S(k + 1) = S(k) \o lists[k + 1]
  BY <1>2, FlattenFirst
<1> HIDE DEF S
<1>4. 0 \in Good
  <2>1. \A name : FlattenSeq(ShownIn(<<>>, data, name)) = <<>>
    <3>1. <<>> \in Structures(data) /\ Len(<<>>) = 0
      BY DEF Structures
    <3> QED BY <3>1, ShownNowhere
  <2>2. \A name : Rows(name, 0) = <<>>
    OBVIOUS
  <2> QED BY <1>3, <2>1, <2>2
<1>5. ASSUME NEW k \in 0 .. m - 1, k \in Good PROVE k + 1 \in Good
  <2>1. k \in Nat /\ k \in 0 .. m /\ k + 1 \in 0 .. m /\ k + 1 \in 1 .. m
    OBVIOUS
  <2>2. S(k) \in Structures(data) /\ lists[k + 1] \in Structures(data)
    <3>1. V = Structures(data)
      BY DEF Structures
    <3> HIDE DEF V
    <3> QED BY <1>1, <1>3, <2>1, <3>1
  <2>3. ASSUME NEW name
        PROVE  FlattenSeq(ShownIn(S(k + 1), data, name))
                 = FlattenSeq(ShownIn(S(k), data, name))
                     \o FlattenSeq(ShownIn(lists[k + 1], data, name))
    <3>1. FlattenSeq(ShownIn(S(k) \o lists[k + 1], data, name))
            = FlattenSeq(ShownIn(S(k), data, name))
                \o FlattenSeq(ShownIn(lists[k + 1], data, name))
      BY <2>2, ShownInBoth
    <3> QED BY <1>3, <3>1
  <2>4. ASSUME NEW name \in ElementNames
        PROVE  FlattenSeq(ShownIn(S(k + 1), data, name)) = Rows(name, k + 1)
    <3>1. FlattenSeq(ShownIn(S(k + 1), data, name)) = Rows(name, k) \o <<data[<<name, k + 1>>]>>
      <4>1. FlattenSeq(ShownIn(S(k), data, name)) = Rows(name, k)
        BY <1>5
      <4>2. FlattenSeq(ShownIn(lists[k + 1], data, name)) = <<data[<<name, k + 1>>]>>
        BY <1>1, <2>1
      <4> HIDE DEF Rows
      <4> QED BY <2>3, <4>1, <4>2
    <3>2. Rows(name, k) \o <<data[<<name, k + 1>>]>> = Rows(name, k + 1)
      <4> DEFINE D == {data[<<name, i>>] : i \in 1 .. m}
                 x == data[<<name, k + 1>>]
      <4>1. \A i \in 1 .. m : data[<<name, i>>] \in D
        OBVIOUS
      <4>2. /\ Rows(name, k) \in Seq(D) /\ Len(Rows(name, k)) = k
            /\ \A i \in 1 .. k : Rows(name, k)[i] = data[<<name, i>>]
        <5> HIDE DEF D
        <5> QED BY <2>1, <4>1
      <4>3. /\ Rows(name, k + 1) \in Seq(D) /\ Len(Rows(name, k + 1)) = k + 1
            /\ \A i \in 1 .. k + 1 : Rows(name, k + 1)[i] = data[<<name, i>>]
        <5> HIDE DEF D
        <5> QED BY <2>1, <4>1
      <4>4. x \in D
        BY <2>1, <4>1
      <4> HIDE DEF Rows, D, x
      <4>5. /\ Append(Rows(name, k), x) \in Seq(D) /\ Len(Append(Rows(name, k), x)) = k + 1
            /\ \A i \in 1 .. k : Append(Rows(name, k), x)[i] = Rows(name, k)[i]
            /\ Append(Rows(name, k), x)[k + 1] = x
            /\ Append(Rows(name, k), x) = Rows(name, k) \o <<x>>
        BY <4>2, <4>4, AppendProperties, AppendIsConcat
      <4>6. ASSUME NEW i \in 1 .. k + 1
            PROVE  Append(Rows(name, k), x)[i] = Rows(name, k + 1)[i]
        <5>1. i \in 1 .. k \/ i = k + 1
          BY <2>1
        <5> QED BY <4>2, <4>3, <4>5, <5>1 DEF x
      <4>7. Append(Rows(name, k), x) = Rows(name, k + 1)
        BY <4>3, <4>5, <4>6, SeqEqual
      <4> QED BY <4>5, <4>7 DEF x
    <3> QED BY <3>1, <3>2
  <2>5. ASSUME NEW name \in {"price_ratio", "conclusion"}
        PROVE  FlattenSeq(ShownIn(S(k + 1), data, name)) = <<>>
    <3>1. FlattenSeq(ShownIn(S(k + 1), data, name)) = <<>> \o <<>>
      BY <1>1, <1>5, <2>1, <2>3
    <3>2. <<>> \o <<>> = <<>>
      OBVIOUS
    <3> QED BY <3>1, <3>2
  <2> HIDE DEF Rows
  <2> QED BY <2>1, <2>4, <2>5
<1> HIDE DEF Good
<1>6. \A k \in 0 .. m : k \in Good
  BY <1>4, <1>5, UpTo
<1>7. m \in 0 .. m /\ S(m) = FlattenSeq(lists) /\ S(m) \in V
  BY <1>3 DEF S
<1>8. FlattenSeq(lists) \in Structures(data)
  BY <1>7 DEF Structures
<1>9. m \in Good
  BY <1>6, <1>7
<1> QED BY <1>7, <1>8, <1>9 DEF Good

\* What the document of a product prints, when the elements are answers about
\* words.
DocumentSays(structure, data, m) ==
  /\ Printable(structure, data)
  /\ \A name \in ElementNames :
       Printed(Flowables(structure, data), name) = ElementValues(data, name, m)
  /\ Printed(Flowables(structure, data), "price_ratio") = <<data[<<"price_ratio", 0>>]>>
  /\ Printed(Flowables(structure, data), "conclusion") = <<data[<<"conclusion", 0>>]>>

LEMMA DocumentShows ==
  ASSUME NEW words \in Seq(STRING), NEW t, NEW data, DOMAIN data = FieldsOf(Len(words))
  PROVE  DocumentSays(Structure(AnalysisOf(words, t)), data, Len(words))
<1> DEFINE m == Len(words)
           rows == ElementRows(m)
           a == CoverStructure
           b == ConclusionStructure
           structure == (a \o rows) \o b
           document == Flowables(structure, data)
           P(s, name) == FlattenSeq(ShownIn(s, data, name))
<1>1. m \in Nat /\ DOMAIN Answers(words) = 1 .. m
  BY AnswersToBoth
<1>2. DOMAIN data = FieldsOf(m)
  OBVIOUS
<1>3. Structure(AnalysisOf(words, t)) = structure
  BY <1>1 DEF Structure, AnalysisOf, ElementRows
<1> HIDE DEF m
<1>4. /\ rows \in Structures(data)
      /\ \A name \in ElementNames : P(rows, name) = ElementValues(data, name, m)
      /\ \A name \in {"price_ratio", "conclusion"} : P(rows, name) = <<>>
  BY <1>1, <1>2, ElementsShow
<1>5. /\ a \in Structures(data) /\ b \in Structures(data)
      /\ P(a, "price_ratio") = <<data[<<"price_ratio", 0>>]>>
      /\ P(b, "conclusion") = <<data[<<"conclusion", 0>>]>>
      /\ \A name \in ElementNames \cup {"conclusion"} : P(a, name) = <<>>
      /\ \A name \in ElementNames \cup {"price_ratio"} : P(b, name) = <<>>
  BY <1>2, CoverShows
<1> HIDE DEF rows, a, b
<1>6. structure \in Structures(data)
  BY <1>4, <1>5, ShownInBoth
<1>7. ASSUME NEW name
      PROVE  Printed(document, name) = (P(a, name) \o P(rows, name)) \o P(b, name)
  <2>1. \A x, y \in Structures(data) :
          /\ x \o y \in Structures(data)
          /\ P(x \o y, name) = P(x, name) \o P(y, name)
    BY ShownInBoth
  <2>2. Printed(document, name) = P((a \o rows) \o b, name)
    BY <1>6, PrintedIsShown
  <2> HIDE DEF P, document
  <2>3. a \in Structures(data) /\ rows \in Structures(data) /\ b \in Structures(data)
    BY <1>4, <1>5
  <2>4. P(a \o rows, name) = P(a, name) \o P(rows, name) /\ a \o rows \in Structures(data)
    BY <2>1, <2>3
  <2>5. P((a \o rows) \o b, name) = P(a \o rows, name) \o P(b, name)
    BY <2>1, <2>3, <2>4
  <2> QED BY <2>2, <2>4, <2>5
<1>8. Printable(structure, data)
  BY <1>6, PrintedIsShown
<1> HIDE DEF P, document, structure
<1>9. \A x : <<>> \o <<>> = <<>> /\ (<<>> \o <<x>>) \o <<>> = <<x>>
             /\ (<<x>> \o <<>>) \o <<>> = <<x>> /\ (<<>> \o <<>>) \o <<x>> = <<x>>
  <2>1. ASSUME NEW x
        PROVE  <<>> \o <<>> = <<>> /\ <<>> \o <<x>> = <<x>> /\ <<x>> \o <<>> = <<x>>
    <3>1. <<x>> \in Seq({x}) /\ <<>> \in Seq({x})
      OBVIOUS
    <3> QED BY <3>1, ConcatEmptySeq
  <2> QED BY <2>1
<1>10. ASSUME NEW name \in ElementNames
       PROVE  Printed(document, name) = ElementValues(data, name, m)
  <2> DEFINE list == ElementValues(data, name, m)
  <2>1. (<<>> \o list) \o <<>> = list
    <3> DEFINE D == {data[<<name, i>>] : i \in 1 .. m}
    <3>1. list \in Seq(D)
      <4>1. \A i \in 1 .. m : data[<<name, i>>] \in D
        OBVIOUS
      <4> HIDE DEF D
      <4> QED BY <1>1, <4>1 DEF ElementValues
    <3> HIDE DEF D, list
    <3> QED BY <3>1, ConcatEmptySeq
  <2>2. P(a, name) = <<>> /\ P(b, name) = <<>> /\ P(rows, name) = list
    BY <1>4, <1>5
  <2> HIDE DEF list
  <2>3. Printed(document, name) = list
    BY <1>7, <2>1, <2>2
  <2> QED BY <2>3 DEF list
<1>11. Printed(document, "price_ratio") = <<data[<<"price_ratio", 0>>]>>
  BY <1>4, <1>5, <1>7, <1>9
<1>12. Printed(document, "conclusion") = <<data[<<"conclusion", 0>>]>>
  BY <1>4, <1>5, <1>7, <1>9
<1>13. DocumentSays(structure, data, m)
  BY <1>8, <1>10, <1>11, <1>12 DEF DocumentSays, document
<1> QED BY <1>3, <1>13 DEF m

\* The reader of a PDF finds the words of the composition in order, numbered
\* from 1 through all steps, each with its use and its danger, the unit price
\* and one conclusion that is not empty, from fields that are all there
\* (convert_analysis_to_pdf_data, get_base_template, create_flowables).
THEOREM CompositionIsShown == Spec => []PdfShowsComposition
<1>1. ASSUME IInv, AskedInv PROVE PdfShowsComposition
  <2>1. SUFFICES ASSUME NEW s \in Selections, pdf[s] # <<>>,
                        NEW words, words = EntryWords(product[s].composition),
                        NEW analysis, analysis = PdfAnalysis(pdf[s]),
                        NEW document, document = Document(product[s], pdf[s])
        PROVE  /\ Printable(Structure(analysis), TemplateData(product[s], analysis))
               /\ Printed(document, "title") = [i \in DOMAIN words |-> <<i, words[i]>>]
               /\ Len(Printed(document, "use")) = Len(words)
               /\ Printed(document, "danger")
                    = [i \in DOMAIN words |->
                         <<IF words[i] \in Dangerous THEN "warning" ELSE "check mark">>]
               /\ Printed(document, "conclusion")
                    \in {<<<<x>>>> : x \in (Texts \ {""}) \cup {"done"}}
               /\ Len(Printed(document, "price_ratio")) = 1
    BY Zenon DEF PdfShowsComposition
  <2> DEFINE p == product[s]
             data == TemplateData(p, analysis)
             m == Len(words)
  <2>2. /\ p \in Products /\ pdf[s] \in Seq(AnswerRow)
        /\ InOrder(pdf[s], TotalSteps(p.composition)) /\ RightAnswers(p, pdf[s])
    BY <1>1, <2>1 DEF IInv, TypeInv, StoredInv, AskedInv, Total
  <2>3. PICK t \in Texts : analysis = AnalysisOf(words, t)
    BY <2>1, <2>2, AnalysisOfAnswers DEF AnalysisOf
  <2>4. words \in Seq(STRING)
    <3>1. p.composition \in Seq(Names)
      BY <2>2, ProductsAssumption DEF Names
    <3>2. Len(p.composition) \in 0 .. Len(p.composition)
      BY <3>1
    <3> QED BY <2>1, <3>1, <3>2, EntriesGrow
  <2>5. m \in Nat /\ DOMAIN words = 1 .. m
    BY <2>4
  <2>6. document = Flowables(Structure(analysis), data)
    BY <2>1 DEF Document
  <2>7. DataSay(data, words, t)
    BY <2>3, <2>4, DataOfWords
  <2> HIDE DEF data
  <2>8. DocumentSays(Structure(analysis), data, m)
    BY <2>3, <2>4, <2>7, DocumentShows DEF DataSay
  <2> HIDE DEF p, m
  <2>9. Printed(document, "title") = [i \in DOMAIN words |-> <<i, words[i]>>]
    <3>1. Printed(document, "title") = [i \in 1 .. m |-> data[<<"title", i>>]]
      BY <2>6, <2>8 DEF DocumentSays, ElementNames, ElementValues
    <3> QED BY <2>5, <2>7, <3>1 DEF DataSay, m
  <2>10. Len(Printed(document, "use")) = Len(words)
    <3>1. Printed(document, "use") = [i \in 1 .. m |-> data[<<"use", i>>]]
      BY <2>6, <2>8 DEF DocumentSays, ElementNames, ElementValues
    <3> QED BY <2>5, <3>1 DEF m
  <2>11. Printed(document, "danger")
           = [i \in DOMAIN words |->
                <<IF words[i] \in Dangerous THEN "warning" ELSE "check mark">>]
    <3>1. Printed(document, "danger") = [i \in 1 .. m |-> data[<<"danger", i>>]]
      BY <2>6, <2>8 DEF DocumentSays, ElementNames, ElementValues
    <3>2. Printed(document, "danger") = [i \in DOMAIN words |-> <<Sign(words[i])>>]
      BY <2>5, <2>7, <3>1 DEF DataSay, m
    <3> QED BY <3>2, Zenon DEF Sign
  <2>12. Printed(document, "conclusion") \in {<<<<x>>>> : x \in (Texts \ {""}) \cup {"done"}}
    <3>1. Conclusion(t) \in (Texts \ {""}) \cup {"done"}
      BY <2>3, Zenon DEF Conclusion
    <3>2. Printed(document, "conclusion") = <<<<Conclusion(t)>>>>
      BY <2>6, <2>7, <2>8 DEF DataSay, DocumentSays
    <3> QED BY <3>1, <3>2, Zenon
  <2>13. Len(Printed(document, "price_ratio")) = 1
    <3>1. Printed(document, "price_ratio") = <<data[<<"price_ratio", 0>>]>>
      BY <2>6, <2>8 DEF DocumentSays
    <3> QED BY <3>1
  <2>14. Printable(Structure(analysis), data)
    BY <2>8 DEF DocumentSays
  <2> QED BY <2>9, <2>10, <2>11, <2>12, <2>13, <2>14, Zenon DEF data, p
<1> QED BY <1>1, AskedInductive, PTL

-----------------------------------------------------------------------------
(* The limits of a minute                                                  *)

WithinLimits(used) == \A a \in AccountNames, m \in Metrics : used[a][m] <= Limits[m]

\* While the lock of the minute has not run out, its key has what was let
\* through, one worker counts at a time, and it has read what the key has.
\* The key does not expire before the minute ends.
LimitInv ==
  /\ counters[minute].savedIn \in {-1, minute}
  /\ minute \notin lapsed.minutes =>
       /\ counters[minute].used = admitted
       /\ WithinLimits(admitted)
       /\ \A w \in Workers : Counts(w, minute) =>
            keyLock[minute] = w /\ worker[w].seen = admitted

\* The steps that neither count nor begin to count in this minute.
LEMMA LimitStays ==
  ASSUME LimitInv, UNCHANGED <<minute, admitted>>, counters'[minute] = counters[minute],
         minute \in lapsed.minutes => minute \in lapsed'.minutes,
         \A v \in Workers : worker'[v].pc = "count" => worker'[v] = worker[v],
         \A v \in Workers :
           worker'[v].pc = "count" /\ worker'[v].key = minute /\ keyLock[minute] = v
             => keyLock'[minute] = v \/ minute \in lapsed'.minutes
  PROVE  LimitInv'
<1>1. counters'[minute'].savedIn \in {-1, minute'}
  BY DEF LimitInv
<1>2. ASSUME minute' \notin lapsed'.minutes
      PROVE  counters'[minute'].used = admitted' /\ WithinLimits(admitted)'
  BY <1>2 DEF LimitInv, WithinLimits
<1>3. ASSUME minute \notin lapsed'.minutes, NEW v \in Workers,
             worker'[v].pc = "count", worker'[v].key = minute
      PROVE  keyLock'[minute] = v /\ worker'[v].seen = admitted
  <2>1. worker'[v] = worker[v]
    BY <1>3
  <2>2. keyLock[minute] = v /\ worker[v].seen = admitted
    BY <1>3, <2>1 DEF LimitInv, Counts, At
  <2> QED BY <1>3, <2>1, <2>2
<1> QED BY <1>1, <1>2, <1>3 DEF LimitInv, Counts, At

\* A worker other than w does not change, and w does not count.
Leaves(w) ==
  /\ \A v \in Workers \ {w} : worker'[v] = worker[v]
  /\ worker'[w].pc # "count"

LEMMA LeavesLimit ==
  ASSUME LimitInv, NEW w \in Workers, Leaves(w),
         UNCHANGED <<minute, admitted, counters, keyLock, lapsed>>
  PROVE  LimitInv'
<1>1. \A v \in Workers : worker'[v].pc = "count" => worker'[v] = worker[v]
  BY DEF Leaves
<1> QED BY <1>1, LimitStays

LEMMA EndRunLeaves ==
  ASSUME IInv, NEW w \in Workers, EndRun(w)
  PROVE  Leaves(w)
<1>1. \A v \in Workers : worker'[v] = IF v = w THEN IdleWorker ELSE worker[v]
  BY DEF EndRun, IInv, TypeInv
<1> QED BY <1>1, IdleTypes DEF Leaves

\* Only a free lock is taken: nobody else counts.
LEMMA LockKeyLimit ==
  ASSUME IInv, LimitInv, NEW w \in Workers, LockKey(w)
  PROVE  LimitInv'
<1> DEFINE k == worker[w].key
<1>1. k \in Clock /\ keyLock[k] = Nobody
  BY DEF LockKey, IInv, TypeInv, WorkerRow
<1>2. UNCHANGED <<minute, admitted, counters, lapsed>>
  BY DEF LockKey
<1>3. /\ \A v \in Workers \ {w} : worker'[v] = worker[v]
      /\ worker'[w].key = k /\ worker'[w].seen = counters[k].used
  BY DEF LockKey, IInv, TypeInv, WorkerRow
<1>4. \A j \in Clock : keyLock'[j] = IF j = k THEN w ELSE keyLock[j]
  BY DEF LockKey, IInv, TypeInv
<1>5. minute \in Clock
  BY DEF IInv, TypeInv
<1> HIDE DEF k
<1>6. ASSUME minute \notin lapsed.minutes, NEW v \in Workers,
             worker'[v].pc = "count", worker'[v].key = minute
      PROVE  keyLock'[minute] = v /\ worker'[v].seen = admitted
  <2>1. CASE v = w
    BY <1>3, <1>4, <1>5, <1>6, <2>1 DEF LimitInv
  <2>2. CASE v # w
    <3>1. worker'[v] = worker[v] /\ keyLock[minute] = v /\ worker[v].seen = admitted
      BY <1>3, <1>6, <2>2 DEF LimitInv, Counts, At
    <3>2. k # minute
      BY <1>1, <3>1, NobodyAssumption
    <3> QED BY <1>4, <1>5, <3>1, <3>2
  <2> QED BY <2>1, <2>2
<1>7. minute' \notin lapsed'.minutes =>
        counters'[minute'].used = admitted' /\ WithinLimits(admitted)'
  BY <1>2 DEF LimitInv, WithinLimits
<1> QED BY <1>2, <1>6, <1>7 DEF LimitInv, Counts, At

\* The request is counted from what the key has, for an account with room.
LEMMA AdmitLimit ==
  ASSUME IInv, LimitInv, NEW w \in Workers, Admit(w)
  PROVE  LimitInv'
<1> DEFINE k == worker[w].key
           request == UsageOf(RequestOf(w))
           seen == worker[w].seen
           account == Accounts[FirstSuitable(seen, request)]
<1>1. At(w, "count") /\ Suitable(seen, request) # {} /\ UNCHANGED <<minute, lapsed>>
  BY DEF Admit
<1>2. k \in Clock /\ seen \in Counters /\ minute \in Clock /\ admitted \in Counters
  BY DEF IInv, TypeInv, WorkerRow
<1>3. request \in Usage
  BY <1>1, StepRequest DEF At
<1>4. account \in AccountNames /\ Fits(seen[account], request)
  BY <1>1, <1>2, <1>3, FirstSuitableFits
<1>5. counters' = [counters EXCEPT ![k] = [savedIn |-> minute,
                                           used |-> Charge(seen, account, request)]]
  BY DEF Admit
<1>6. admitted' = IF k = minute THEN Charge(admitted, account, request) ELSE admitted
  BY DEF Admit
<1>7. /\ \A v \in Workers \ {w} : worker'[v] = worker[v]
      /\ worker'[w].pc # "count"
  <2>1. CASE EndRun(w)
    BY <2>1, EndRunLeaves DEF Leaves
  <2>2. CASE ~EndRun(w)
    <3>1. worker' = [worker EXCEPT ![w].pc = "ask", ![w].seen = EmptyCounters,
                       ![w].key = 0, ![w].tries = 0]
      BY <2>2 DEF Admit
    <3> QED BY <3>1 DEF IInv, TypeInv, WorkerRow
  <2> QED BY <2>1, <2>2
<1>8. \A j \in Clock : keyLock'[j] = keyLock[j] \/ (j = k /\ keyLock[j] = w)
  <2>1. CASE keyLock[k] = w
    <3>1. keyLock' = [keyLock EXCEPT ![k] = Nobody]
      BY <2>1 DEF Admit
    <3> HIDE DEF k
    <3> QED BY <2>1, <3>1 DEF IInv, TypeInv
  <2>2. CASE keyLock[k] # w
    BY <2>2 DEF Admit
  <2> QED BY <2>1, <2>2
<1>9. Counts(w, k)
  BY <1>1 DEF Counts
<1> HIDE DEF k, request, seen, account
<1>10. CASE k # minute
  <2>1. counters'[minute] = counters[minute] /\ admitted' = admitted
    BY <1>2, <1>5, <1>6, <1>10 DEF IInv, TypeInv
  <2>2. keyLock'[minute] = keyLock[minute]
    BY <1>2, <1>8, <1>10
  <2>3. \A v \in Workers : worker'[v].pc = "count" => worker'[v] = worker[v]
    BY <1>7
  <2> QED BY <1>1, <2>1, <2>2, <2>3, LimitStays
<1>11. CASE k = minute
  <2>1. counters'[minute] = [savedIn |-> minute, used |-> Charge(seen, account, request)]
    BY <1>2, <1>5, <1>11 DEF IInv, TypeInv
  <2>2. counters'[minute'].savedIn \in {-1, minute'}
    BY <1>1, <2>1
  <2>3. ASSUME minute \notin lapsed.minutes
        PROVE  /\ counters'[minute].used = admitted' /\ WithinLimits(admitted')
               /\ \A v \in Workers : ~(worker'[v].pc = "count" /\ worker'[v].key = minute)
    <3>1. seen = admitted /\ keyLock[minute] = w /\ WithinLimits(admitted)
      BY <1>9, <1>11, <2>3 DEF LimitInv, seen
    <3>2. admitted' = Charge(admitted, account, request)
      BY <1>6, <1>11
    <3>3. WithinLimits(Charge(admitted, account, request))
      BY <1>2, <1>3, <1>4, <3>1, ChargeWithinLimits DEF WithinLimits
    <3>4. ASSUME NEW v \in Workers, worker'[v].pc = "count", worker'[v].key = minute
          PROVE  FALSE
      <4>1. v # w /\ worker'[v] = worker[v]
        BY <1>7, <3>4
      <4>2. keyLock[minute] = v
        BY <2>3, <3>4, <4>1 DEF LimitInv, Counts, At
      <4> QED BY <3>1, <4>1, <4>2
    <3> QED BY <2>1, <3>1, <3>2, <3>3, <3>4
  <2>4. minute' \notin lapsed'.minutes =>
          /\ counters'[minute'].used = admitted' /\ WithinLimits(admitted)'
          /\ (\A v \in Workers : ~Counts(v, minute))'
    BY <1>1, <2>3 DEF WithinLimits, Counts, At
  <2> QED BY <2>2, <2>4 DEF LimitInv
<1> QED BY <1>10, <1>11

LEMMA DeclineLimit ==
  ASSUME IInv, LimitInv, NEW w \in Workers, Decline(w)
  PROVE  LimitInv'
<1> DEFINE k == worker[w].key
<1>1. UNCHANGED <<minute, lapsed, counters, admitted>>
  BY DEF Decline
<1>2. Leaves(w)
  <2>1. CASE EndRun(w)
    BY <2>1, EndRunLeaves
  <2>2. CASE ~EndRun(w)
    <3>1. worker' = [worker EXCEPT ![w].pc = "sleep", ![w].key = minute,
                       ![w].tries = @ - 1, ![w].seen = EmptyCounters]
      BY <2>2 DEF Decline
    <3> QED BY <3>1 DEF Leaves, IInv, TypeInv, WorkerRow
  <2> QED BY <2>1, <2>2
<1>3. \A j \in Clock : keyLock'[j] = keyLock[j] \/ keyLock[j] = w
  <2>1. keyLock' = IF keyLock[k] = w THEN [keyLock EXCEPT ![k] = Nobody] ELSE keyLock
    BY DEF Decline
  <2> HIDE DEF k
  <2> QED BY <2>1 DEF IInv, TypeInv
<1>4. \A v \in Workers : worker'[v].pc = "count" => v # w /\ worker'[v] = worker[v]
  BY <1>2 DEF Leaves
<1>5. minute \in Clock
  BY DEF IInv, TypeInv
<1> QED BY <1>1, <1>3, <1>4, <1>5, LimitStays

\* The next minute begins with its key absent and nobody at it.
LEMMA TickLimit ==
  ASSUME IInv, Tick
  PROVE  LimitInv'
<1>1. NextMinute \in Clock
  BY NextMinuteType DEF IInv, TypeInv
<1>2. /\ counters'[minute'] = AbsentKey /\ admitted' = EmptyCounters
      /\ minute' = NextMinute /\ UNCHANGED <<worker, keyLock>>
  BY <1>1 DEF Tick, IInv, TypeInv
<1>3. counters'[minute'].savedIn = -1 /\ counters'[minute'].used = EmptyCounters
  BY <1>2 DEF AbsentKey
<1>4. WithinLimits(EmptyCounters)
  <2>1. Limits \in [Metrics -> Nat]
    BY LimitsAssumption DEF Limits, Metrics
  <2> QED BY <2>1 DEF WithinLimits, EmptyCounters, NoUsage
<1>5. WithinLimits(admitted)'
  BY <1>2, <1>4 DEF WithinLimits, EmptyCounters, NoUsage
<1>6. \A w \in Workers : ~(worker'[w].pc = "count" /\ worker'[w].key = minute')
  BY <1>2 DEF Tick
<1> QED BY <1>2, <1>3, <1>5, <1>6 DEF LimitInv, Counts, At

LEMMA StepLimit ==
  ASSUME IInv, LimitInv, [Next]_vars
  PROVE  LimitInv'
<1>0. worker \in [Workers -> WorkerRow] /\ minute \in Clock
      /\ keyLock \in [Clock -> Workers \cup {Nobody}]
  BY DEF IInv, TypeInv
<1>1. ASSUME NEW w \in Workers, NEW s \in Selections, Take(w, s) PROVE LimitInv'
  <2>1. Leaves(w)
    BY <1>0, <1>1 DEF Take, Leaves, IdleWorker
  <2> QED BY <1>1, <2>1, LeavesLimit DEF Take
<1>2. ASSUME NEW w \in Workers, Work(w) PROVE LimitInv'
  <2>1. CASE NextStep(w) \/ WakeUp(w)
    <3>1. Leaves(w)
      BY <1>0, <2>1 DEF NextStep, WakeUp, Leaves, WorkerRow
    <3> QED BY <2>1, <3>1, LeavesLimit DEF NextStep, WakeUp, redis
  <2>2. CASE AskDone(w)
    <3>1. Leaves(w)
      BY <1>0, <2>2 DEF AskDone, Leaves, WorkerRow
    <3> QED BY <2>2, <3>1, LeavesLimit DEF AskDone, redis
  <2>3. CASE Save(w) \/ Price(w) \/ BuildPdf(w)
    <3>1. Leaves(w)
      BY <1>0, <2>3 DEF Save, Price, BuildPdf, Goto, Leaves, WorkerRow
    <3> QED BY <2>3, <3>1, LeavesLimit DEF Save, Price, BuildPdf, redis
  <2>4. CASE NoUnitPrice(w) \/ Upload(w)
    BY <2>4, EndRunLeaves, LeavesLimit DEF NoUnitPrice, Upload
  <2> QED BY <1>2, <2>1, <2>2, <2>3, <2>4, LockKeyLimit, AdmitLimit, DeclineLimit DEF Work
<1>3. ASSUME NEW w \in Workers, S3Fails(w) \/ RunFails(w) PROVE LimitInv'
  BY <1>3, EndRunLeaves, LeavesLimit DEF S3Fails, RunFails
<1>4. ASSUME NEW w \in Workers, Crash(w) PROVE LimitInv'
  <2>1. Leaves(w)
    BY <1>0, <1>4, IdleTypes DEF Crash, Leaves
  <2> QED BY <1>4, <2>1, LeavesLimit DEF Crash, redis
<1>5. ASSUME NEW k \in Clock, Expire(k) PROVE LimitInv'
  <2>1. k # minute
    BY <1>5 DEF Expire, LimitInv
  <2>2. counters'[minute] = counters[minute]
    BY <1>0, <1>5, <2>1 DEF Expire, IInv, TypeInv
  <2> QED BY <1>5, <2>2, LimitStays DEF Expire
<1>6. ASSUME NEW k \in Clock, KeyLockExpires(k) PROVE LimitInv'
  <2>1. ASSUME NEW v \in Workers, Counts(v, minute), keyLock[minute] = v
        PROVE  keyLock'[minute] = v
    BY <1>0, <1>6, <2>1 DEF KeyLockExpires
  <2>2. UNCHANGED <<minute, admitted, counters, worker, lapsed>>
    BY <1>6 DEF KeyLockExpires
  <2> QED BY <2>1, <2>2, LimitStays DEF Counts, At
<1>7. ASSUME NEW k \in Clock, KeyLockLapses(k) PROVE LimitInv'
  <2>1. lapsed'.minutes = lapsed.minutes \cup {k}
    BY <1>7 DEF KeyLockLapses, IInv, TypeInv
  <2>2. keyLock'[minute] = keyLock[minute] \/ minute \in lapsed'.minutes
    BY <1>0, <1>7, <2>1 DEF KeyLockLapses
  <2>3. UNCHANGED <<minute, admitted, counters, worker>>
    BY <1>7 DEF KeyLockLapses
  <2> QED BY <2>1, <2>2, <2>3, LimitStays
<1>8. ASSUME NEW s \in Selections, GenLockExpires(s) \/ GenLockLapses(s) PROVE LimitInv'
  <2>1. lapsed'.minutes = lapsed.minutes
    BY <1>8 DEF GenLockExpires, GenLockLapses, IInv, TypeInv
  <2>2. UNCHANGED <<minute, admitted, counters, worker, keyLock>>
    BY <1>8 DEF GenLockExpires, GenLockLapses
  <2> QED BY <2>1, <2>2, LimitStays
<1>9. ASSUME UNCHANGED vars PROVE LimitInv'
  BY <1>9, LimitStays DEF vars, redis
<1> QED BY <1>1, <1>2, <1>3, <1>4, <1>5, <1>6, <1>7, <1>8, <1>9, TickLimit DEF Next

\* What the limiter lets through in a minute stays within the limits of each
\* account, unless the lock of that minute ran out under its holder.
THEOREM LimitsAreKept == Spec => []LimitsHold
<1>1. Init => LimitInv
  <2> SUFFICES ASSUME Init PROVE LimitInv
    OBVIOUS
  <2>1. minute \in Clock /\ counters[minute] = AbsentKey /\ admitted = EmptyCounters
    BY InitInv DEF Init, IInv, TypeInv
  <2>2. counters[minute].savedIn = -1 /\ counters[minute].used = EmptyCounters
    BY <2>1 DEF AbsentKey
  <2>3. Limits \in [Metrics -> Nat]
    BY LimitsAssumption DEF Limits, Metrics
  <2>4. WithinLimits(admitted)
    BY <2>1, <2>3 DEF WithinLimits, EmptyCounters, NoUsage
  <2>5. \A w \in Workers : ~Counts(w, minute)
    BY IdleTypes DEF Init, Counts, At
  <2> QED BY <2>1, <2>2, <2>4, <2>5 DEF LimitInv
<1>2. IInv /\ LimitInv /\ [Next]_vars => (IInv /\ LimitInv)'
  BY StepInv, StepLimit
<1>3. LimitInv => LimitsHold
  BY DEF LimitInv, WithinLimits, LimitsHold
<1> QED BY <1>1, <1>2, <1>3, InitInv, PTL DEF Spec
=============================================================================
