------------------------------ MODULE FoldFacts ------------------------------
(***************************************************************************)
(* Induction over positions, as statements about sets of them, and what it *)
(* says of the functions behind FoldLeft and FlattenSeq.                   *)
(*                                                                         *)
(* The induction theorems of the library take an operator, which no        *)
(* installed prover can instantiate.  Here a property is the set of the    *)
(* numbers that have it, and the argument is that inclusion is well        *)
(* founded on finite sets.                                                 *)
(***************************************************************************)
EXTENDS Integers, Sequences, SequencesExt, FiniteSetTheorems, SequenceTheorems,
        WellFoundedInduction, TLAPS

\* A set of positions has a smallest one.
LEMMA SmallestPosition ==
  ASSUME NEW n \in Nat, NEW S \in SUBSET (1 .. n), S # {}
  PROVE  \E i \in S : \A j \in S : i <= j
<1> DEFINE Below(i) == {j \in S : j <= i}
           Family == {Below(i) : i \in S}
           Order == StrictSubsetOrdering(1 .. n)
<1>1. IsFiniteSet(1 .. n)
  BY FS_Interval
<1>2. Family \subseteq FiniteSubsetsOf(1 .. n)
  BY <1>1, FS_Subset DEF FiniteSubsetsOf
<1>3. IsWellFoundedOn(Order, FiniteSubsetsOf(1 .. n))
  BY FS_StrictSubsetOrderingWellFounded
<1>4. Family # {}
  OBVIOUS
<1>5. \E T \in Family : \A U \in Family : <<U, T>> \notin Order
  <2> HIDE DEF Family, Order
  <2> QED BY <1>2, <1>3, <1>4, WFMin
<1>6. PICK i \in S : \A j \in S : <<Below(j), Below(i)>> \notin Order
  BY <1>5
<1>7. ASSUME NEW j \in S, j < i PROVE FALSE
  <2>0. S \subseteq Int
    OBVIOUS
  <2>1. Below(j) \subseteq Below(i) /\ i \in Below(i) /\ i \notin Below(j)
    <3>1. \A k \in S : k <= j => k <= i
      BY <1>7, <2>0
    <3>2. i <= i /\ ~(i <= j)
      BY <1>7, <2>0
    <3> QED BY <3>1, <3>2
  <2>2. <<Below(j), Below(i)>> \in Order
    <3>1. \A A, B \in SUBSET (1 .. n) :
            A \subseteq B /\ A # B => <<A, B>> \in Order
      BY DEF StrictSubsetOrdering
    <3>2. Below(j) \in SUBSET (1 .. n) /\ Below(i) \in SUBSET (1 .. n)
      OBVIOUS
    <3>3. Below(j) # Below(i)
      BY <2>1
    <3> HIDE DEF Below, Order
    <3> QED BY <2>1, <3>1, <3>2, <3>3
  <2> QED BY <2>2, <1>6
<1> QED BY <1>7

\* Induction up to n: a set with 0 and every successor has 0 .. n.
LEMMA UpTo ==
  ASSUME NEW n \in Nat, NEW S, 0 \in S,
         \A k \in 0 .. n - 1 : k \in S => k + 1 \in S
  PROVE  \A k \in 0 .. n : k \in S
<1> DEFINE T == {k \in 1 .. n : k \notin S}
<1> SUFFICES ASSUME T # {} PROVE FALSE
  OBVIOUS
<1>1. PICK i \in T : \A j \in T : i <= j
  <2> T \in SUBSET (1 .. n)
    OBVIOUS
  <2> HIDE DEF T
  <2> QED BY SmallestPosition
<1>2. i - 1 \in 0 .. n - 1 /\ i - 1 \notin T
  BY <1>1
<1>3. i - 1 \in S
  BY <1>2
<1> QED BY <1>2, <1>3

\* Induction: a set with 0 and every successor has every natural number.
LEMMA Induction ==
  ASSUME NEW S, 0 \in S, \A k \in Nat : k \in S => k + 1 \in S
  PROVE  \A n \in Nat : n \in S
<1> TAKE n \in Nat
<1>1. \A k \in 0 .. n : k \in S
  <2>1. \A k \in 0 .. n - 1 : k \in S => k + 1 \in S
    OBVIOUS
  <2> QED BY <2>1, UpTo
<1> QED BY <1>1

-----------------------------------------------------------------------------
(* Folds of n elements over the values V: h[k] is what element k does.     *)

IsFold(n, V, base, h) == n \in Nat /\ base \in V /\ h \in [1 .. n -> [V -> V]]

\* The value after 0, 1, ... n elements.
IsTrace(w, n, V, base, h) ==
  /\ w \in [0 .. n -> V]
  /\ w[0] = base
  /\ \A k \in 1 .. n : w[k] = h[k][w[k - 1]]

\* The function of sets of positions behind FoldLeft (MapThenFoldSet).
IsIter(iter, n, V, base, h) ==
  /\ iter \in [SUBSET (1 .. n) -> V]
  /\ \A t \in SUBSET (1 .. n) :
       iter[t] = IF t = {} THEN base ELSE h[Max(t)][iter[t \ {Max(t)}]]

\* A fold has a trace.
LEMMA TraceExists ==
  ASSUME NEW n, NEW V, NEW base, NEW h, IsFold(n, V, base, h)
  PROVE  \E w : IsTrace(w, n, V, base, h)
<1> DEFINE S == {m \in 0 .. n : \E w : IsTrace(w, m, V, base, h)}
<1>0. n \in Nat /\ base \in V /\ h \in [1 .. n -> [V -> V]]
  BY DEF IsFold
<1>1. 0 \in S
  <2>1. PICK w : w = [k \in 0 .. 0 |-> base]
    OBVIOUS
  <2>2. IsTrace(w, 0, V, base, h)
    BY <1>0, <2>1 DEF IsTrace
  <2> QED BY <1>0, <2>2
<1>2. ASSUME NEW m \in 0 .. n - 1, m \in S PROVE m + 1 \in S
  <2>0. PICK w : IsTrace(w, m, V, base, h)
    BY <1>2
  <2>1. w \in [0 .. m -> V] /\ w[0] = base /\ \A k \in 1 .. m : w[k] = h[k][w[k - 1]]
    BY <2>0 DEF IsTrace
  <2> DEFINE x == [k \in 0 .. m + 1 |-> IF k = m + 1 THEN h[m + 1][w[m]] ELSE w[k]]
  <2>2. m \in Nat /\ h[m + 1] \in [V -> V] /\ w[m] \in V
    BY <1>0, <2>1
  <2>3. x \in [0 .. m + 1 -> V]
    BY <2>1, <2>2
  <2>4. x[0] = base
    BY <2>1, <2>2
  <2>5. ASSUME NEW k \in 1 .. m + 1 PROVE x[k] = h[k][x[k - 1]]
    <3>1. CASE k = m + 1
      <4>1. x[m + 1] = h[m + 1][w[m]] /\ x[m] = w[m]
        BY <2>2
      <4>2. k - 1 = m
        BY <3>1
      <4> HIDE DEF x
      <4> QED BY <3>1, <4>1, <4>2
    <3>2. CASE k \in 1 .. m
      <4>1. x[k] = w[k] /\ x[k - 1] = w[k - 1]
        BY <3>2
      <4>2. w[k] = h[k][w[k - 1]]
        BY <2>1, <3>2
      <4> HIDE DEF x
      <4> QED BY <4>1, <4>2
    <3> QED BY <3>1, <3>2
  <2>6. IsTrace(x, m + 1, V, base, h)
    <3> HIDE DEF x
    <3> QED BY <2>3, <2>4, <2>5 DEF IsTrace
  <2> HIDE DEF x
  <2> QED BY <1>0, <2>2, <2>6
<1>3. \A k \in 0 .. n : k \in S
  <2> HIDE DEF S
  <2> QED BY <1>0, <1>1, <1>2, UpTo
<1> QED BY <1>0, <1>3

\* Two traces of the same fold agree as far as both go.
LEMMA TraceUnique ==
  ASSUME NEW n \in Nat, NEW v, NEW w, v[0] = w[0],
         \A k \in 1 .. n : v[k - 1] = w[k - 1] => v[k] = w[k]
  PROVE  \A k \in 0 .. n : v[k] = w[k]
<1> DEFINE S == {k \in 0 .. n : v[k] = w[k]}
<1>1. 0 \in S
  OBVIOUS
<1>2. ASSUME NEW k \in 0 .. n - 1, k \in S PROVE k + 1 \in S
  <2>1. PICK j \in 1 .. n : j = k + 1
    OBVIOUS
  <2>2. v[j - 1] = w[j - 1]
    BY <1>2, <2>1
  <2>3. v[j] = w[j]
    BY <2>2
  <2> QED BY <2>1, <2>3
<1> HIDE DEF S
<1>3. \A k \in 0 .. n : k \in S
  BY <1>1, <1>2, UpTo
<1> QED BY <1>3 DEF S

\* A set of positions has a greatest one, which Max chooses.
LEMMA GreatestPosition ==
  ASSUME NEW n \in Nat, NEW S \in SUBSET (1 .. n), S # {}
  PROVE  Max(S) \in S /\ \A j \in S : j <= Max(S)
<1> DEFINE T == {n + 1 - i : i \in S}
<1>1. T \in SUBSET (1 .. n) /\ T # {}
  <2>1. \A i \in 1 .. n : n + 1 - i \in 1 .. n
    OBVIOUS
  <2>2. \A i \in S : i \in 1 .. n
    OBVIOUS
  <2>3. \A i \in S : n + 1 - i \in 1 .. n
    BY <2>1, <2>2
  <2> QED BY <2>3
<1>2. PICK t \in T : \A u \in T : t <= u
  <2> HIDE DEF T
  <2> QED BY <1>1, SmallestPosition
<1>3. PICK i \in S : t = n + 1 - i
  BY <1>2
<1>4. \A j \in S : i >= j
  <2> TAKE j \in S
  <2>1. n + 1 - j \in T
    OBVIOUS
  <2>2. i \in Int /\ j \in Int
    OBVIOUS
  <2>3. n + 1 - i <= n + 1 - j
    BY <1>2, <1>3, <2>1
  <2> QED BY <2>2, <2>3
<1>5. Max(S) \in S /\ \A j \in S : Max(S) >= j
  BY <1>4 DEF Max
<1>6. S \subseteq Int
  OBVIOUS
<1> QED BY <1>5, <1>6

\* The greatest of 1 .. k, and of the positions up to k with k among them.
LEMMA MaxPosition ==
  ASSUME NEW k \in Nat, NEW S \in SUBSET (1 .. k), k \in S
  PROVE  Max(S) = k
<1>1. k \in S /\ \A j \in S : k >= j
  OBVIOUS
<1>2. \A x \in S : (\A j \in S : x >= j) => x = k
  OBVIOUS
<1>3. Max(S) \in S /\ \A j \in S : Max(S) >= j
  BY <1>1 DEF Max
<1> QED BY <1>2, <1>3

\* There is one.
LEMMA IterExists ==
  ASSUME NEW n, NEW V, NEW base, NEW h, IsFold(n, V, base, h)
  PROVE  \E iter : IsIter(iter, n, V, base, h)
<1> DEFINE S == {m \in 0 .. n : \E iter : IsIter(iter, m, V, base, h)}
<1>0. n \in Nat /\ base \in V /\ h \in [1 .. n -> [V -> V]]
  BY DEF IsFold
<1>1. 0 \in S
  <2>1. SUBSET (1 .. 0) = {{}}
    OBVIOUS
  <2>2. PICK iter : iter = [t \in SUBSET (1 .. 0) |-> base]
    OBVIOUS
  <2>3. IsIter(iter, 0, V, base, h)
    BY <1>0, <2>1, <2>2 DEF IsIter
  <2> QED BY <1>0, <2>3
<1>2. ASSUME NEW m \in 0 .. n - 1, m \in S PROVE m + 1 \in S
  <2>0. PICK iter : IsIter(iter, m, V, base, h)
    BY <1>2
  <2>1. /\ iter \in [SUBSET (1 .. m) -> V]
        /\ \A t \in SUBSET (1 .. m) :
             iter[t] = IF t = {} THEN base ELSE h[Max(t)][iter[t \ {Max(t)}]]
    BY <2>0 DEF IsIter
  <2> DEFINE next == [t \in SUBSET (1 .. m + 1) |->
                        IF m + 1 \in t THEN h[m + 1][iter[t \ {m + 1}]] ELSE iter[t]]
  <2>2. m \in Nat /\ h[m + 1] \in [V -> V]
    BY <1>0
  <2>3. \A t \in SUBSET (1 .. m + 1) :
          /\ m + 1 \in t => t \ {m + 1} \in SUBSET (1 .. m)
          /\ m + 1 \notin t => t \in SUBSET (1 .. m)
    BY <2>2
  <2>4. next \in [SUBSET (1 .. m + 1) -> V]
    BY <2>1, <2>2, <2>3
  <2>5. ASSUME NEW t \in SUBSET (1 .. m + 1)
        PROVE  next[t] = IF t = {} THEN base ELSE h[Max(t)][next[t \ {Max(t)}]]
    <3>1. CASE m + 1 \in t
      <4>1. Max(t) = m + 1
        BY <2>2, <3>1, MaxPosition
      <4>2. next[t \ {m + 1}] = iter[t \ {m + 1}]
        OBVIOUS
      <4>3. next[t] = h[m + 1][iter[t \ {m + 1}]]
        BY <3>1
      <4> HIDE DEF next
      <4> QED BY <3>1, <4>1, <4>2, <4>3
    <3>2. CASE m + 1 \notin t
      <4>1. next[t] = iter[t] /\ t \in SUBSET (1 .. m)
        BY <2>3, <3>2
      <4>2. next[t \ {Max(t)}] = iter[t \ {Max(t)}]
        BY <3>2
      <4>3. iter[t] = IF t = {} THEN base ELSE h[Max(t)][iter[t \ {Max(t)}]]
        BY <2>1, <4>1
      <4> HIDE DEF next
      <4> QED BY <4>1, <4>2, <4>3
    <3> QED BY <3>1, <3>2
  <2>6. IsIter(next, m + 1, V, base, h)
    <3> HIDE DEF next
    <3> QED BY <2>4, <2>5 DEF IsIter
  <2> HIDE DEF next
  <2> QED BY <1>0, <2>2, <2>6
<1>3. \A k \in 0 .. n : k \in S
  <2> HIDE DEF S
  <2> QED BY <1>0, <1>1, <1>2, UpTo
<1> QED BY <1>0, <1>3

\* The positions up to k, without the last.
LEMMA LastPosition ==
  ASSUME NEW k \in Nat \ {0}
  PROVE  /\ 1 .. k # {} /\ Max(1 .. k) = k
         /\ (1 .. k) \ {k} = 1 .. k - 1
<1>1. Max(1 .. k) = k
  BY MaxPosition
<1> QED BY <1>1

\* A function of sets of positions that follows a trace from 1 .. k - 1 to
\* 1 .. k ends where the trace ends.
LEMMA IterFollows ==
  ASSUME NEW n \in Nat, NEW iter, NEW w, iter[{}] = w[0],
         \A k \in 1 .. n : iter[1 .. k - 1] = w[k - 1] => iter[1 .. k] = w[k]
  PROVE  iter[1 .. n] = w[n]
<1> DEFINE v == [k \in 0 .. n |-> iter[1 .. k]]
<1>1. 1 .. 0 = {} /\ v[0] = w[0]
  OBVIOUS
<1>2. \A k \in 1 .. n : v[k - 1] = iter[1 .. k - 1] /\ v[k] = iter[1 .. k]
  OBVIOUS
<1>3. v[n] = iter[1 .. n]
  OBVIOUS
<1> HIDE DEF v
<1>4. \A k \in 0 .. n : v[k] = w[k]
  BY <1>1, <1>2, TraceUnique
<1> QED BY <1>3, <1>4

\* One whose values from 1 .. k - 1 to 1 .. k stay in a set ends in it.
LEMMA IterStays ==
  ASSUME NEW n \in Nat, NEW V, NEW iter, iter[{}] \in V,
         \A k \in 1 .. n : iter[1 .. k - 1] \in V => iter[1 .. k] \in V
  PROVE  iter[1 .. n] \in V
<1> DEFINE S == {k \in 0 .. n : iter[1 .. k] \in V}
<1>1. 0 \in S
  <2>1. 1 .. 0 = {}
    OBVIOUS
  <2> QED BY <2>1
<1>2. ASSUME NEW k \in 0 .. n - 1, k \in S PROVE k + 1 \in S
  <2>1. k + 1 \in 1 .. n /\ (k + 1) - 1 = k
    OBVIOUS
  <2>2. iter[1 .. (k + 1) - 1] \in V
    BY <1>2, <2>1
  <2> QED BY <2>1, <2>2
<1> HIDE DEF S
<1>3. \A k \in 0 .. n : k \in S
  BY <1>1, <1>2, UpTo
<1> QED BY <1>3 DEF S

\* join is where the first n sequences are joined one by one.
IsJoin(join, n, seqs) ==
  join = [i \in 1 .. n |-> IF i = 1 THEN seqs[i] ELSE join[i - 1] \o seqs[i]]

\* FlattenSeq ends where they end.
LEMMA FlattenFollows ==
  ASSUME NEW n \in Nat, n # 0, NEW S, NEW seqs \in Seq(S), Len(seqs) = n,
         NEW G, IsJoin(G, n, seqs)
  PROVE  FlattenSeq(seqs) = G[n]
<1> DEFINE Eq(f) == f = [i \in 1 .. n |-> IF i = 1 THEN seqs[i] ELSE f[i - 1] \o seqs[i]]
           chosen == CHOOSE f : Eq(f)
<1>0. G = [i \in 1 .. n |-> IF i = 1 THEN seqs[i] ELSE G[i - 1] \o seqs[i]]
  BY DEF IsJoin
<1>1. FlattenSeq(seqs) = chosen[n]
  <2>1. Len(seqs) # 0
    OBVIOUS
  <2> QED BY <2>1 DEF FlattenSeq
<1>2. Eq(chosen)
  <2>1. Eq(G)
    BY <1>0
  <2> HIDE DEF Eq
  <2> QED BY <2>1
<1> HIDE DEF chosen
<1> DEFINE Same == {k \in 0 .. n : k = 0 \/ chosen[k] = G[k]}
<1>3. 0 \in Same
  OBVIOUS
<1>4. ASSUME NEW k \in 0 .. n - 1, k \in Same PROVE k + 1 \in Same
  <2>1. k + 1 \in 1 .. n /\ (k + 1) - 1 = k
    OBVIOUS
  <2>2. CASE k = 0
    <3>1. chosen[k + 1] = seqs[k + 1] /\ G[k + 1] = seqs[k + 1]
      BY <1>0, <1>2, <2>1, <2>2
    <3> QED BY <2>1, <3>1
  <2>3. CASE k # 0
    <3>1. k + 1 # 1 /\ chosen[k] = G[k]
      BY <1>4, <2>3
    <3>2. chosen[k + 1] = chosen[k] \o seqs[k + 1] /\ G[k + 1] = G[k] \o seqs[k + 1]
      BY <1>0, <1>2, <2>1, <3>1
    <3>3. chosen[k + 1] = G[k + 1]
      BY <3>1, <3>2
    <3> QED BY <2>1, <3>3
  <2> QED BY <2>2, <2>3
<1> HIDE DEF Same
<1>5. n \in Nat
  OBVIOUS
<1>6. \A k \in 0 .. n : k \in Same
  BY <1>3, <1>4, <1>5, UpTo
<1>7. n \in 0 .. n /\ n \in Same
  BY <1>5, <1>6
<1> QED BY <1>1, <1>7 DEF Same

\* There is such a function, of sequences.
LEMMA JoinExists ==
  ASSUME NEW S, NEW seqs \in Seq(Seq(S)), NEW n, n = Len(seqs)
  PROVE  \E G : IsJoin(G, n, seqs) /\ G \in [1 .. n -> Seq(S)]
<1> DEFINE V == Seq(S)
           h == [i \in 1 .. n |-> [v \in V |-> IF i = 1 THEN seqs[i] ELSE v \o seqs[i]]]
<1>1. n \in Nat /\ \A i \in 1 .. n : seqs[i] \in V
  OBVIOUS
<1>2. IsFold(n, V, <<>>, h)
  <2>1. ASSUME NEW i \in 1 .. n, NEW v \in V
        PROVE  (IF i = 1 THEN seqs[i] ELSE v \o seqs[i]) \in V
    BY <1>1, ConcatProperties
  <2>2. h \in [1 .. n -> [V -> V]]
    <3> HIDE DEF V
    <3> QED BY <2>1
  <2>3. <<>> \in V
    OBVIOUS
  <2> QED BY <1>1, <2>2, <2>3 DEF IsFold
<1>3. PICK w : IsTrace(w, n, V, <<>>, h)
  BY <1>2, TraceExists
<1>4. w \in [0 .. n -> V] /\ \A k \in 1 .. n : w[k] = h[k][w[k - 1]]
  BY <1>3 DEF IsTrace
<1> HIDE DEF V
<1> DEFINE G == [i \in 1 .. n |-> w[i]]
<1>5. G \in [1 .. n -> V]
  BY <1>1, <1>4
<1>6. ASSUME NEW i \in 1 .. n
      PROVE  w[i] = IF i = 1 THEN seqs[i] ELSE G[i - 1] \o seqs[i]
  <2>1. i - 1 \in 0 .. n /\ w[i - 1] \in V
    <3>1. i - 1 \in 0 .. n
      BY <1>1
    <3> HIDE DEF h
    <3> QED BY <1>4, <3>1
  <2>2. w[i] = IF i = 1 THEN seqs[i] ELSE w[i - 1] \o seqs[i]
    BY <1>4, <2>1
  <2>3. i # 1 => G[i - 1] = w[i - 1]
    BY <1>1
  <2> QED BY <2>2, <2>3
<1>7. G = [i \in 1 .. n |-> IF i = 1 THEN seqs[i] ELSE G[i - 1] \o seqs[i]]
  <2>1. [i \in 1 .. n |-> w[i]]
          = [i \in 1 .. n |-> IF i = 1 THEN seqs[i] ELSE G[i - 1] \o seqs[i]]
    <3> HIDE DEF G
    <3> QED BY <1>6
  <2> QED BY <2>1
<1> HIDE DEF G
<1>8. IsJoin(G, n, seqs)
  BY <1>7 DEF IsJoin
<1> QED BY <1>5, <1>8 DEF V

\* FlattenSeq of one more sequence: it comes at the end.
LEMMA FlattenAppend ==
  ASSUME NEW S, NEW seqs \in Seq(Seq(S)), NEW x \in Seq(S)
  PROVE  /\ FlattenSeq(seqs) \in Seq(S)
         /\ FlattenSeq(Append(seqs, x)) = FlattenSeq(seqs) \o x
<1> DEFINE V == Seq(S)
           n == Len(seqs)
           more == Append(seqs, x)
<1>1. /\ n \in Nat /\ more \in Seq(V) /\ Len(more) = n + 1 /\ more[n + 1] = x
      /\ \A i \in 1 .. n : more[i] = seqs[i]
  BY AppendProperties
<1>2. PICK G : IsJoin(G, n, seqs) /\ G \in [1 .. n -> V]
  BY JoinExists
<1>3. FlattenSeq(seqs) = IF n = 0 THEN <<>> ELSE G[n]
  <2>1. CASE n = 0
    <3>1. seqs = <<>>
      BY <2>1
    <3> QED BY <2>1, <3>1 DEF FlattenSeq
  <2>2. CASE n # 0
    <3>1. FlattenSeq(seqs) = G[n]
      <4>1. seqs \in Seq(V) /\ Len(seqs) = n
        OBVIOUS
      <4> HIDE DEF V, n
      <4> QED BY <1>1, <1>2, <2>2, <4>1, FlattenFollows
    <3> QED BY <2>2, <3>1
  <2> QED BY <2>1, <2>2
<1> HIDE DEF V
<1>4. PICK H : IsJoin(H, n + 1, more)
  <2>1. \E H : IsJoin(H, Len(more), more)
    BY <1>1, JoinExists DEF V
  <2> QED BY <1>1, <2>1
<1>5. FlattenSeq(more) = H[n + 1]
  <2>1. n + 1 \in Nat /\ n + 1 # 0
    BY <1>1
  <2> HIDE DEF n, more
  <2> QED BY <1>1, <1>4, <2>1, FlattenFollows
<1> HIDE DEF n, more
<1>6. \A i \in 1 .. n + 1 : H[i] = IF i = 1 THEN more[i] ELSE H[i - 1] \o more[i]
  BY <1>4 DEF IsJoin
<1>7. \A i \in 1 .. n : G[i] = IF i = 1 THEN seqs[i] ELSE G[i - 1] \o seqs[i]
  BY <1>2 DEF IsJoin
<1>8. CASE n = 0
  <2>1. H[n + 1] = x
    BY <1>1, <1>6, <1>8
  <2>2. <<>> \in Seq(S) /\ <<>> \o x = x
    BY ConcatEmptySeq
  <2> QED BY <1>3, <1>5, <1>8, <2>1, <2>2 DEF more
<1>9. CASE n # 0
  <2> DEFINE Same == {k \in 0 .. n : k = 0 \/ H[k] = G[k]}
  <2>1. 0 \in Same
    BY <1>1
  <2>2. ASSUME NEW k \in 0 .. n - 1, k \in Same PROVE k + 1 \in Same
    <3>1. k + 1 \in 1 .. n /\ (k + 1) - 1 = k /\ k + 1 \in 1 .. n + 1
      BY <1>1
    <3>2. more[k + 1] = seqs[k + 1]
      BY <1>1, <3>1
    <3>3. CASE k = 0
      <4>1. H[k + 1] = more[k + 1] /\ G[k + 1] = seqs[k + 1]
        BY <1>6, <1>7, <3>1, <3>3
      <4> QED BY <3>1, <3>2, <4>1
    <3>4. CASE k # 0
      <4>1. k + 1 # 1 /\ H[k] = G[k]
        BY <2>2, <3>4
      <4>2. H[k + 1] = H[k] \o more[k + 1] /\ G[k + 1] = G[k] \o seqs[k + 1]
        BY <1>6, <1>7, <3>1, <4>1
      <4>3. H[k + 1] = G[k + 1]
        BY <3>2, <4>1, <4>2
      <4> QED BY <3>1, <4>3
    <3> QED BY <3>3, <3>4
  <2> HIDE DEF Same
  <2>3. \A k \in 0 .. n : k \in Same
    BY <1>1, <2>1, <2>2, UpTo
  <2>4. H[n] = G[n]
    <3>1. n \in 0 .. n
      BY <1>1
    <3> QED BY <1>9, <2>3, <3>1 DEF Same
  <2>5. n + 1 \in 1 .. n + 1 /\ n + 1 # 1 /\ (n + 1) - 1 = n /\ n \in 1 .. n
    BY <1>1, <1>9
  <2>6. H[n + 1] = H[n] \o x
    BY <1>1, <1>6, <2>5
  <2>7. G[n] \in Seq(S)
    BY <1>2, <2>5 DEF V
  <2> QED BY <1>3, <1>5, <1>9, <2>4, <2>6, <2>7 DEF more
<1> QED BY <1>8, <1>9

\* The first k sequences of a list of them.
FirstOf(f, k) == [i \in 1 .. k |-> f[i]]

LEMMA FlattenFirst ==
  ASSUME NEW S, NEW f \in Seq(Seq(S))
  PROVE  /\ FirstOf(f, 0) = <<>> /\ FlattenSeq(FirstOf(f, 0)) = <<>>
         /\ FirstOf(f, Len(f)) = f
         /\ \A k \in 0 .. Len(f) : /\ FirstOf(f, k) \in Seq(Seq(S)) /\ Len(FirstOf(f, k)) = k
                                   /\ FlattenSeq(FirstOf(f, k)) \in Seq(S)
         /\ \A k \in 0 .. Len(f) - 1 :
              /\ FirstOf(f, k + 1) = Append(FirstOf(f, k), f[k + 1])
              /\ FlattenSeq(FirstOf(f, k + 1)) = FlattenSeq(FirstOf(f, k)) \o f[k + 1]
<1> DEFINE V == Seq(S)
           n == Len(f)
<1>1. n \in Nat /\ \A i \in 1 .. n : f[i] \in V
  OBVIOUS
<1>2. FirstOf(f, 0) = <<>> /\ FirstOf(f, n) = f
  BY DEF FirstOf
<1>3. ASSUME NEW k \in 0 .. n
      PROVE  FirstOf(f, k) \in Seq(V) /\ Len(FirstOf(f, k)) = k
  <2>1. k \in Nat /\ \A i \in 1 .. k : f[i] \in V
    BY <1>1
  <2> HIDE DEF V
  <2> QED BY <2>1 DEF FirstOf
<1>4. ASSUME NEW k \in 0 .. n - 1
      PROVE  FirstOf(f, k + 1) = Append(FirstOf(f, k), f[k + 1])
  <2>1. k \in 0 .. n /\ k + 1 \in 0 .. n /\ k + 1 \in 1 .. n
    BY <1>1
  <2> HIDE DEF V
  <2>2. /\ FirstOf(f, k) \in Seq(V) /\ Len(FirstOf(f, k)) = k /\ f[k + 1] \in V
        /\ FirstOf(f, k + 1) \in Seq(V) /\ Len(FirstOf(f, k + 1)) = k + 1
    BY <1>1, <1>3, <2>1
  <2>3. ASSUME NEW i \in 1 .. k + 1
        PROVE  FirstOf(f, k + 1)[i] = Append(FirstOf(f, k), f[k + 1])[i]
    <3>1. FirstOf(f, k + 1)[i] = f[i] /\ (i # k + 1 => FirstOf(f, k)[i] = f[i])
      BY <2>1 DEF FirstOf
    <3>2. Append(FirstOf(f, k), f[k + 1])[i] = IF i = k + 1 THEN f[k + 1] ELSE FirstOf(f, k)[i]
      BY <2>1, <2>2
    <3> QED BY <3>1, <3>2
  <2>4. Append(FirstOf(f, k), f[k + 1]) \in Seq(V)
        /\ Len(Append(FirstOf(f, k), f[k + 1])) = k + 1
    BY <2>2
  <2> QED BY <2>2, <2>3, <2>4, SeqEqual
<1>5. ASSUME NEW k \in 0 .. n
      PROVE  FlattenSeq(FirstOf(f, k)) \in V
  <2>1. <<>> \in Seq(S)
    OBVIOUS
  <2> QED BY <1>3, <2>1, FlattenAppend
<1>6. ASSUME NEW k \in 0 .. n - 1
      PROVE  FlattenSeq(FirstOf(f, k + 1)) = FlattenSeq(FirstOf(f, k)) \o f[k + 1]
  <2>1. k \in 0 .. n /\ k + 1 \in 1 .. n
    BY <1>1
  <2>2. FirstOf(f, k) \in Seq(V) /\ f[k + 1] \in V
    BY <1>1, <1>3, <2>1
  <2> QED BY <1>4, <2>2, FlattenAppend
<1>7. FlattenSeq(FirstOf(f, 0)) = <<>>
  BY <1>2 DEF FlattenSeq
<1> QED BY <1>2, <1>3, <1>4, <1>5, <1>6, <1>7

\* Only one of the sequences is not empty.
LEMMA FlattenOne ==
  ASSUME NEW S, NEW f \in Seq(Seq(S)), NEW m \in 1 .. Len(f),
         \A i \in 1 .. Len(f) : i # m => f[i] = <<>>
  PROVE  FlattenSeq(f) = f[m]
<1> DEFINE n == Len(f)
           Good == {k \in 0 .. n :
                      FlattenSeq(FirstOf(f, k)) = IF k < m THEN <<>> ELSE f[m]}
<1>1. n \in Nat /\ m \in 1 .. n /\ f[m] \in Seq(S)
  OBVIOUS
<1>2. /\ FlattenSeq(FirstOf(f, 0)) = <<>> /\ FirstOf(f, n) = f
      /\ \A k \in 0 .. n - 1 : FlattenSeq(FirstOf(f, k + 1)) = FlattenSeq(FirstOf(f, k)) \o f[k + 1]
  BY FlattenFirst
<1>3. \A i \in 1 .. n : i # m => f[i] = <<>>
  OBVIOUS
<1>4. /\ <<>> \o <<>> = <<>> /\ f[m] \o <<>> = f[m] /\ <<>> \o f[m] = f[m]
  BY <1>1, ConcatEmptySeq
<1> HIDE DEF n
<1>5. 0 \in Good
  BY <1>1, <1>2
<1>6. ASSUME NEW k \in 0 .. n - 1, k \in Good PROVE k + 1 \in Good
  <2>1. k \in Nat /\ k + 1 \in 1 .. n /\ k + 1 \in 0 .. n
    BY <1>1
  <2>2. FlattenSeq(FirstOf(f, k + 1)) = (IF k < m THEN <<>> ELSE f[m]) \o f[k + 1]
    BY <1>2, <1>6
  <2>3. CASE k + 1 < m
    <3>1. k < m /\ f[k + 1] = <<>>
      BY <1>1, <1>3, <2>1, <2>3
    <3> QED BY <1>4, <2>1, <2>2, <2>3, <3>1
  <2>4. CASE k + 1 = m
    <3>1. k < m /\ ~(k + 1 < m)
      BY <2>1, <2>4
    <3>2. FlattenSeq(FirstOf(f, k + 1)) = <<>> \o f[m]
      BY <2>2, <2>4, <3>1
    <3>3. FlattenSeq(FirstOf(f, k + 1)) = f[m]
      BY <1>4, <3>2
    <3> QED BY <2>1, <3>1, <3>3
  <2>5. CASE k + 1 > m
    <3>1. ~(k < m) /\ f[k + 1] = <<>>
      BY <1>1, <1>3, <2>1, <2>5
    <3> QED BY <1>1, <1>4, <2>1, <2>2, <2>5, <3>1
  <2> QED BY <1>1, <2>1, <2>3, <2>4, <2>5
<1> HIDE DEF Good
<1>7. \A k \in 0 .. n : k \in Good
  BY <1>1, <1>5, <1>6, UpTo
<1>8. n \in Good /\ ~(n < m)
  BY <1>1, <1>7
<1> QED BY <1>2, <1>8 DEF Good

\* None is.
LEMMA FlattenNone ==
  ASSUME NEW S, NEW f \in Seq(Seq(S)), \A i \in 1 .. Len(f) : f[i] = <<>>
  PROVE  FlattenSeq(f) = <<>>
<1>1. CASE Len(f) = 0
  <2>1. FirstOf(f, Len(f)) = f /\ FlattenSeq(FirstOf(f, 0)) = <<>>
    BY FlattenFirst
  <2> QED BY <1>1, <2>1
<1>2. CASE Len(f) # 0
  <2>1. 1 \in 1 .. Len(f)
    BY <1>2
  <2>2. FlattenSeq(f) = f[1]
    BY <2>1, FlattenOne
  <2> QED BY <2>1, <2>2
<1> QED BY <1>1, <1>2

\* The sequences of two lists of them.
LEMMA FlattenBoth ==
  ASSUME NEW S, NEW f \in Seq(Seq(S)), NEW g \in Seq(Seq(S))
  PROVE  FlattenSeq(f \o g) = FlattenSeq(f) \o FlattenSeq(g)
<1> DEFINE V == Seq(S)
           n == Len(g)
           Good == {k \in 0 .. n : FlattenSeq(f \o FirstOf(g, k))
                                     = FlattenSeq(f) \o FlattenSeq(FirstOf(g, k))}
<1>1. /\ n \in Nat /\ FirstOf(g, 0) = <<>> /\ FlattenSeq(FirstOf(g, 0)) = <<>>
      /\ FirstOf(g, n) = g
      /\ \A k \in 0 .. n : FirstOf(g, k) \in Seq(V) /\ FlattenSeq(FirstOf(g, k)) \in V
      /\ \A k \in 0 .. n - 1 :
           /\ FirstOf(g, k + 1) = Append(FirstOf(g, k), g[k + 1])
           /\ FlattenSeq(FirstOf(g, k + 1)) = FlattenSeq(FirstOf(g, k)) \o g[k + 1]
      /\ \A k \in 0 .. n - 1 : g[k + 1] \in V
  <2>1. n \in Nat /\ \A i \in 1 .. n : g[i] \in V
    OBVIOUS
  <2>2. \A k \in 0 .. n - 1 : k + 1 \in 1 .. n
    BY <2>1
  <2> QED BY <2>1, <2>2, FlattenFirst
<1>2. FlattenSeq(f) \in V
  BY <1>1, FlattenAppend
<1> HIDE DEF n
<1>3. 0 \in Good
  <2>1. f \o <<>> = f /\ FlattenSeq(f) \o <<>> = FlattenSeq(f)
    BY <1>2, ConcatEmptySeq
  <2>2. /\ f \o FirstOf(g, 0) = f
        /\ FlattenSeq(f) \o FlattenSeq(FirstOf(g, 0)) = FlattenSeq(f)
    BY <1>1, <2>1
  <2>3. 0 \in 0 .. n
    BY <1>1
  <2> QED BY <2>2, <2>3
<1>4. ASSUME NEW k \in 0 .. n - 1, k \in Good PROVE k + 1 \in Good
  <2>1. k \in 0 .. n /\ k + 1 \in 0 .. n
    BY <1>1
  <2> DEFINE first == FirstOf(g, k)
             x == g[k + 1]
  <2>2. first \in Seq(V) /\ x \in V /\ FlattenSeq(first) \in V
    BY <1>1, <2>1
  <2>3. f \o Append(first, x) = Append(f \o first, x) /\ f \o first \in Seq(V)
    <3>1. f \in Seq(V)
      OBVIOUS
    <3> HIDE DEF V, first, x
    <3>2. <<x>> \in Seq(V) /\ f \o first \in Seq(V)
      BY <2>2, <3>1
    <3>3. Append(first, x) = first \o <<x>> /\ Append(f \o first, x) = (f \o first) \o <<x>>
      BY <2>2, <3>2, AppendIsConcat
    <3>4. (f \o first) \o <<x>> = f \o (first \o <<x>>)
      BY <2>2, <3>1, <3>2, ConcatAssociative
    <3> QED BY <3>2, <3>3, <3>4
  <2>4. FlattenSeq(Append(f \o first, x)) = FlattenSeq(f \o first) \o x
    BY <2>2, <2>3, FlattenAppend
  <2>5. (FlattenSeq(f) \o FlattenSeq(first)) \o x = FlattenSeq(f) \o (FlattenSeq(first) \o x)
    <3>1. PICK a \in Seq(S), b \in Seq(S), c \in Seq(S) :
            a = FlattenSeq(f) /\ b = FlattenSeq(first) /\ c = x
      BY <1>2, <2>2
    <3>2. (a \o b) \o c = a \o (b \o c)
      BY ConcatAssociative
    <3> QED BY <3>1, <3>2
  <2>6. FlattenSeq(f \o first) = FlattenSeq(f) \o FlattenSeq(first)
    BY <1>4
  <2> QED BY <1>1, <2>1, <2>3, <2>4, <2>5, <2>6
<1> HIDE DEF Good
<1>5. \A k \in 0 .. n : k \in Good
  BY <1>1, <1>3, <1>4, UpTo
<1>6. n \in Good
  BY <1>1, <1>5
<1> QED BY <1>1, <1>6 DEF Good
=============================================================================
