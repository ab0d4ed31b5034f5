--------------------------- MODULE PoliciesProofs ---------------------------
(* Proofs about the pickers: the heap of mc and mrt, the counters of p2c,    *)
(* and the shares of the round robins.                                       *)
EXTENDS Policies, FunctionTheorems, FiniteSetTheorems, SequenceTheorems,
        WellFoundedInduction, TLAPS

-----------------------------------------------------------------------------
(* The positions a loop goes through *)

LEMMA VisitedFirst ==
    ASSUME NEW step, NEW i \in DOMAIN step
    PROVE  i \in Visited(step, i)
BY DEF Visited

LEMMA VisitedNext ==
    ASSUME NEW D, NEW step \in [D -> D], NEW i \in D, NEW k \in Visited(step, i)
    PROVE  k \in D /\ step[k] \in Visited(step, i)
BY DEF Visited

LEMMA VisitedLeast ==
    ASSUME NEW D, NEW step \in [D -> D], NEW i,
           NEW C \in SUBSET D, i \in C, \A c \in C : step[c] \in C
    PROVE  Visited(step, i) \subseteq C
BY DEF Visited

\* A position a loop comes to is the next one of a position it has been at.
LEMMA VisitedBefore ==
    ASSUME NEW D, NEW step \in [D -> D], NEW i \in D,
           NEW k \in Visited(step, i), k # i
    PROVE  \E c \in Visited(step, i) : step[c] = k /\ step[c] # c
<1> DEFINE C == {i} \cup {step[c] : c \in {d \in Visited(step, i) : step[d] # d}}
<1>1. \A c \in C : c \in Visited(step, i) /\ c \in D
  BY VisitedFirst, VisitedNext
<1>2. \A c \in C : step[c] \in C
  BY <1>1
<1>3. C \in SUBSET D /\ i \in C
  BY <1>1
<1>4. k \in C
  <2> HIDE DEF C
  <2> QED BY <1>2, <1>3, VisitedLeast
<1> QED BY <1>4

\* The first position is the only one of a loop that ends there.
LEMMA VisitedEnd ==
    ASSUME NEW D, NEW step \in [D -> D], NEW i \in D, step[i] = i
    PROVE  Visited(step, i) = {i}
<1> DEFINE C == {i}
<1>1. C \in SUBSET D /\ i \in C /\ \A c \in C : step[c] \in C
  OBVIOUS
<1>2. Visited(step, i) \subseteq C
  <2> HIDE DEF C
  <2> QED BY <1>1, VisitedLeast
<1> QED BY <1>2, VisitedFirst

\* The other positions are those of the loop from the next one.
LEMMA VisitedRest ==
    ASSUME NEW D, NEW step \in [D -> D], NEW i \in D,
           NEW k \in Visited(step, i), k # i
    PROVE  k \in Visited(step, step[i])
<1> DEFINE C == {i} \cup Visited(step, step[i])
<1>1. C \in SUBSET D
  BY VisitedNext
<1>2. \A c \in C : step[c] \in C
  BY VisitedNext, VisitedFirst
<1>3. k \in C
  <2>1. i \in C
    OBVIOUS
  <2> HIDE DEF C
  <2> QED BY <1>1, <1>2, <2>1, VisitedLeast
<1> QED BY <1>3

\* Of two positions of a loop, one comes after the other.
LEMMA VisitedChain ==
    ASSUME NEW D, NEW step \in [D -> D], NEW i \in D,
           NEW a \in Visited(step, i), NEW b \in Visited(step, i)
    PROVE  a \in Visited(step, b) \/ b \in Visited(step, a)
<1> DEFINE C == {c \in D : \A d \in Visited(step, i) :
                            c \in Visited(step, d) \/ d \in Visited(step, c)}
<1>1. i \in C
  OBVIOUS
<1>2. \A c \in C : step[c] \in C
  <2> SUFFICES ASSUME NEW c \in C, NEW d \in Visited(step, i)
               PROVE  step[c] \in Visited(step, d) \/ d \in Visited(step, step[c])
    OBVIOUS
  <2>1. d \in D
    BY VisitedNext
  <2>2. CASE c \in Visited(step, d)
    BY <2>1, <2>2, VisitedNext
  <2>3. CASE d \in Visited(step, c) /\ d # c
    BY <2>3, VisitedRest
  <2>4. CASE d = c
    BY <2>1, <2>4, VisitedFirst, VisitedNext
  <2> QED BY <2>2, <2>3, <2>4
<1>3. a \in C
  <2>1. C \in SUBSET D
    OBVIOUS
  <2> HIDE DEF C
  <2> QED BY <1>1, <1>2, <2>1, VisitedLeast
<1> QED BY <1>3

\* A loop ends at one position, and every other one comes before it.
LEMMA OneEnd ==
    ASSUME NEW D, NEW step \in [D -> D], NEW i \in D,
           NEW a \in Visited(step, i), step[a] = a, NEW b \in Visited(step, i)
    PROVE  a \in Visited(step, b) /\ (step[b] = b => a = b)
<1>1. a \in D /\ b \in D
  BY VisitedNext
<1>2. Visited(step, a) = {a}
  BY <1>1, VisitedEnd
<1>3. a \in Visited(step, b)
  BY <1>1, <1>2, VisitedChain, VisitedFirst
<1> QED BY <1>1, <1>3, VisitedEnd

-----------------------------------------------------------------------------
(* The items stay in the queue *)

SwappedFrom(step, i) ==
    [k \in DOMAIN step |->
        IF k \notin Visited(step, i) THEN k ELSE IF step[k] # k THEN step[k] ELSE i]

\* A loop that takes two ways to no position leaves each item in one place: it
\* only changes the order of the items.
LEMMA SwappedFromInjective ==
    ASSUME NEW D, NEW step \in [D -> D], NEW i \in D,
           \A c, d \in Visited(step, i) : step[c] = step[d] /\ step[c] # c /\ step[d] # d => c = d,
           \A c \in Visited(step, i) : step[c] # c => step[c] # i
    PROVE  /\ SwappedFrom(step, i) \in [D -> D]
           /\ \A c, d \in D : SwappedFrom(step, i)[c] = SwappedFrom(step, i)[d] => c = d
<1>1. \A c \in D : SwappedFrom(step, i)[c] =
        IF c \notin Visited(step, i) THEN c ELSE IF step[c] # c THEN step[c] ELSE i
  BY DEF SwappedFrom
<1>2. SwappedFrom(step, i) \in [D -> D]
  BY DEF SwappedFrom
<1>3. ASSUME NEW c \in D, NEW d \in D, SwappedFrom(step, i)[c] = SwappedFrom(step, i)[d]
      PROVE  c = d
  <2>1. \A e \in Visited(step, i) : SwappedFrom(step, i)[e] \in Visited(step, i)
    BY <1>1, VisitedFirst, VisitedNext
  <2>2. CASE c \notin Visited(step, i) \/ d \notin Visited(step, i)
    BY <1>1, <1>3, <2>1, <2>2
  <2>3. CASE c \in Visited(step, i) /\ d \in Visited(step, i)
    <3>1. CASE step[c] = c /\ step[d] = d
      BY <2>3, <3>1, OneEnd
    <3>2. CASE step[c] # c \/ step[d] # d
      BY <1>1, <1>3, <2>3, <3>2
    <3> QED BY <3>1, <3>2
  <2> QED BY <2>2, <2>3
<1> QED BY <1>2, <1>3

\* The queue is a list of all items, each in one place.
Lists(q, S) ==
    /\ q \in Seq(S)
    /\ ToSet(q) = S
    /\ \A c, d \in 1 .. Len(q) : q[c] = q[d] => c = d

LEMMA ListsLength ==
    ASSUME NEW S, IsFiniteSet(S), NEW q, Lists(q, S)
    PROVE  Len(q) = Cardinality(S)
<1>1. q \in [1 .. Len(q) -> S] /\ Len(q) \in Nat
  BY DEF Lists
<1>2. q \in Bijection(1 .. Len(q), S)
  <2>1. \A s \in S : \E c \in 1 .. Len(q) : q[c] = s
    BY <1>1 DEF Lists, ToSet
  <2> QED BY <1>1, <2>1, Fun_IsBij DEF Lists
<1>3. ExistsBijection(1 .. Len(q), S)
  BY <1>2 DEF ExistsBijection
<1> QED BY <1>1, <1>3, FS_CountingElements

LEMMA ListsOfLength ==
    ASSUME NEW S, IsFiniteSet(S), NEW q \in Seq(S), Len(q) = Cardinality(S),
           \A c, d \in 1 .. Len(q) : q[c] = q[d] => c = d
    PROVE  Lists(q, S)
<1>1. q \in [1 .. Len(q) -> S] /\ Len(q) \in Nat
  OBVIOUS
<1>2. IsFiniteSet(1 .. Len(q)) /\ Cardinality(1 .. Len(q)) = Len(q)
  BY <1>1, FS_Interval
<1>3. ToSet(q) \subseteq S
  BY <1>1 DEF ToSet
<1>4. Lists(q, ToSet(q))
  BY <1>1 DEF Lists, ToSet
<1>5. IsFiniteSet(ToSet(q))
  BY <1>3, FS_Subset
<1>6. Len(q) = Cardinality(ToSet(q))
  BY <1>4, <1>5, ListsLength
<1>7. ToSet(q) = S
  BY <1>3, <1>6, FS_Subset
<1> QED BY <1>7 DEF Lists

LEMMA SwappedLists ==
    ASSUME NEW S, IsFiniteSet(S), NEW q, Lists(q, S),
           NEW step \in [1 .. Len(q) -> 1 .. Len(q)], NEW i \in 1 .. Len(q),
           \A c, d \in Visited(step, i) : step[c] = step[d] /\ step[c] # c /\ step[d] # d => c = d,
           \A c \in Visited(step, i) : step[c] # c => step[c] # i
    PROVE  Lists(Swapped(q, step, i), S) /\ Len(Swapped(q, step, i)) = Len(q)
<1> DEFINE s == Swapped(q, step, i)
<1> DEFINE from == SwappedFrom(step, i)
<1>1. q \in [1 .. Len(q) -> S] /\ Len(q) \in Nat /\ DOMAIN q = 1 .. Len(q)
  BY DEF Lists
<1>2. from \in [1 .. Len(q) -> 1 .. Len(q)] /\ \A c, d \in 1 .. Len(q) : from[c] = from[d] => c = d
  BY SwappedFromInjective
<1>3. s = [c \in 1 .. Len(q) |-> q[from[c]]]
  <2>1. \A c \in 1 .. Len(q) : q[from[c]] =
            IF c \notin Visited(step, i) THEN q[c]
            ELSE IF step[c] # c THEN q[step[c]] ELSE q[i]
    BY DEF SwappedFrom
  <2> QED BY <1>1, <2>1 DEF Swapped
<1> HIDE DEF s, from
<1>4. s \in Seq(S) /\ Len(s) = Len(q)
  BY <1>1, <1>2, <1>3
<1>5. \A c, d \in 1 .. Len(s) : s[c] = s[d] => c = d
  <2> SUFFICES ASSUME NEW c \in 1 .. Len(q), NEW d \in 1 .. Len(q), s[c] = s[d]
               PROVE  c = d
    BY <1>4
  <2>1. q[from[c]] = q[from[d]] /\ from[c] \in 1 .. Len(q) /\ from[d] \in 1 .. Len(q)
    BY <1>2, <1>3
  <2>2. from[c] = from[d]
    BY <2>1 DEF Lists
  <2> QED BY <1>2, <2>2
<1>6. Len(s) = Cardinality(S)
  BY <1>4, ListsLength
<1>7. Lists(s, S)
  BY <1>4, <1>5, <1>6, ListsOfLength
<1> QED BY <1>4, <1>7 DEF s

-----------------------------------------------------------------------------
(* The order of the heap *)

LEMMA Halves ==
    /\ \A k \in Nat : k > 1 =>
        /\ k \div 2 \in Nat /\ 1 <= k \div 2 /\ k \div 2 < k
        /\ k = 2 * (k \div 2) \/ k = 2 * (k \div 2) + 1
    /\ \A k \in Nat : (2 * k) \div 2 = k /\ (2 * k + 1) \div 2 = k
OBVIOUS

\* The items have values.
Valued(q, V) == \A k \in 1 .. Len(q) : V[q[k]] \in Int

Ordered(q, V) == \A k \in 2 .. Len(q) : V[q[k \div 2]] <= V[q[k]]

\* In order but for the item at i: with those below it, with the one above it;
\* the one above it is in order with those below it.
OrderedAbove(q, V, i) == \A k \in 2 .. Len(q) : k \div 2 # i => V[q[k \div 2]] <= V[q[k]]
OrderedBelow(q, V, i) == \A k \in 2 .. Len(q) : k # i => V[q[k \div 2]] <= V[q[k]]
OrderedAround(q, V, i) ==
    i > 1 => \A k \in 2 .. Len(q) : k \div 2 = i => V[q[i \div 2]] <= V[q[k]]

\* What the steps of heap.down compare.
Sinks(q, V, i, step) ==
    /\ \A k \in 1 .. Len(q) : step[k] # k =>
        /\ step[k] > k /\ step[k] \div 2 = k
        /\ V[q[step[k]]] < V[q[i]]
        /\ \A c \in 2 .. Len(q) : c \div 2 = k => V[q[step[k]]] <= V[q[c]]
    /\ \A k \in 1 .. Len(q) : step[k] = k =>
        \A c \in 2 .. Len(q) : c \div 2 = k => V[q[i]] <= V[q[c]]

LEMMA DownStepSinks ==
    ASSUME NEW S, NEW q \in Seq(S), NEW V, Valued(q, V), NEW i \in 1 .. Len(q)
    PROVE  /\ DownStep(q, V, i) \in [1 .. Len(q) -> 1 .. Len(q)]
           /\ Sinks(q, V, i, DownStep(q, V, i))
<1> DEFINE step == DownStep(q, V, i)
<1>1. /\ Len(q) \in Nat /\ DOMAIN q = 1 .. Len(q)
      /\ \A k \in 1 .. Len(q) : q[k] \in S /\ V[q[k]] \in Int
  BY DEF Valued
<1>2. \A k \in 1 .. Len(q) : step[k] =
        IF 2 * k <= Len(q) /\ V[q[SmallerChild(q, V, k)]] < V[q[i]]
        THEN SmallerChild(q, V, k) ELSE k
  BY <1>1 DEF DownStep
<1>3. ASSUME NEW k \in 1 .. Len(q), 2 * k <= Len(q)
      PROVE  /\ SmallerChild(q, V, k) \in 1 .. Len(q)
             /\ SmallerChild(q, V, k) = 2 * k \/ SmallerChild(q, V, k) = 2 * k + 1
             /\ V[q[SmallerChild(q, V, k)]] <= V[q[2 * k]]
             /\ 2 * k + 1 <= Len(q) => V[q[SmallerChild(q, V, k)]] <= V[q[2 * k + 1]]
  <2>1. 2 * k \in 1 .. Len(q) /\ (2 * k + 1 <= Len(q) => 2 * k + 1 \in 1 .. Len(q))
    BY <1>1, <1>3
  <2> QED BY <1>1, <1>3, <2>1 DEF SmallerChild
<1>4. step \in [1 .. Len(q) -> 1 .. Len(q)]
  <2>1. step = [k \in 1 .. Len(q) |-> step[k]]
    BY <1>1 DEF DownStep
  <2>2. \A k \in 1 .. Len(q) : step[k] \in 1 .. Len(q)
    BY <1>2, <1>3
  <2> HIDE DEF step
  <2> QED BY <2>1, <2>2
<1>5. ASSUME NEW k \in 1 .. Len(q), NEW c \in 2 .. Len(q), c \div 2 = k
      PROVE  (c = 2 * k \/ c = 2 * k + 1) /\ 2 * k <= Len(q)
  BY <1>1, <1>5, Halves
<1>6. ASSUME NEW k \in 1 .. Len(q), step[k] # k
      PROVE  /\ step[k] > k /\ step[k] \div 2 = k
             /\ V[q[step[k]]] < V[q[i]]
             /\ \A c \in 2 .. Len(q) : c \div 2 = k => V[q[step[k]]] <= V[q[c]]
  <2>1. 2 * k <= Len(q) /\ step[k] = SmallerChild(q, V, k) /\ V[q[step[k]]] < V[q[i]]
    BY <1>2, <1>6
  <2> HIDE DEF step
  <2>2. step[k] = 2 * k \/ step[k] = 2 * k + 1
    BY <1>3, <2>1
  <2>3. k \in Nat /\ k > 0
    BY <1>1
  <2>4. step[k] > k /\ step[k] \div 2 = k
    <3>1. step[k] > k
      BY <2>2, <2>3
    <3>2. (2 * k) \div 2 = k /\ (2 * k + 1) \div 2 = k
      BY <2>3, Halves
    <3> QED BY <2>2, <3>1, <3>2
  <2>5. ASSUME NEW c \in 2 .. Len(q), c \div 2 = k
        PROVE  V[q[step[k]]] <= V[q[c]]
    <3>1. c = 2 * k \/ c = 2 * k + 1
      BY <1>5, <2>5
    <3>2. CASE c = 2 * k
      BY <1>3, <2>1, <3>2
    <3>3. CASE c = 2 * k + 1
      <4>1. 2 * k + 1 <= Len(q)
        BY <3>3
      <4> QED BY <1>3, <2>1, <3>3, <4>1
    <3> QED BY <3>1, <3>2, <3>3
  <2> QED BY <2>1, <2>4, <2>5
<1>7. ASSUME NEW k \in 1 .. Len(q), step[k] = k, NEW c \in 2 .. Len(q), c \div 2 = k
      PROVE  V[q[i]] <= V[q[c]]
  <2>1. 2 * k <= Len(q) /\ (c = 2 * k \/ c = 2 * k + 1)
    BY <1>5, <1>7
  <2>2. SmallerChild(q, V, k) # k /\ SmallerChild(q, V, k) \in 1 .. Len(q)
    BY <1>1, <1>3, <2>1
  <2>3. V[q[i]] <= V[q[SmallerChild(q, V, k)]]
    <3>1. ~(V[q[SmallerChild(q, V, k)]] < V[q[i]])
      BY <1>2, <1>7, <2>1, <2>2
    <3> QED BY <1>1, <2>2, <3>1
  <2>4. V[q[SmallerChild(q, V, k)]] <= V[q[c]] /\ V[q[c]] \in Int
    <3>1. V[q[c]] \in Int
      BY <1>1
    <3>2. CASE c = 2 * k
      BY <1>3, <2>1, <3>1, <3>2
    <3>3. CASE c = 2 * k + 1
      <4>1. 2 * k + 1 <= Len(q)
        BY <3>3
      <4> QED BY <1>3, <2>1, <3>1, <3>3, <4>1
    <3> QED BY <2>1, <3>1, <3>2, <3>3
  <2>5. V[q[SmallerChild(q, V, k)]] \in Int /\ V[q[i]] \in Int
    BY <1>1, <2>2
  <2> QED BY <2>3, <2>4, <2>5
<1> HIDE DEF step
<1> QED BY <1>4, <1>6, <1>7 DEF Sinks, step

LEMMA SwappedAt ==
    ASSUME NEW S, NEW q \in Seq(S), NEW step \in [1 .. Len(q) -> 1 .. Len(q)], NEW i \in 1 .. Len(q),
           NEW k \in 1 .. Len(q)
    PROVE  /\ k \notin Visited(step, i) => Swapped(q, step, i)[k] = q[k]
           /\ k \in Visited(step, i) /\ step[k] # k => Swapped(q, step, i)[k] = q[step[k]]
           /\ k \in Visited(step, i) /\ step[k] = k => Swapped(q, step, i)[k] = q[i]
BY DEF Swapped

\* heap.down puts an item that is too great for its place in order.
LEMMA SinkOrders ==
    ASSUME NEW S, NEW q \in Seq(S), NEW V, Valued(q, V), NEW i \in 1 .. Len(q),
           NEW step \in [1 .. Len(q) -> 1 .. Len(q)], Sinks(q, V, i, step),
           OrderedAbove(q, V, i), OrderedAround(q, V, i),
           Len(Swapped(q, step, i)) = Len(q)
    PROVE  Ordered(Swapped(q, step, i), V)
<1> DEFINE d == Swapped(q, step, i)
<1> DEFINE visited == Visited(step, i)
<1>1. /\ Len(q) \in Nat
      /\ \A k \in 1 .. Len(q) : q[k] \in S /\ V[q[k]] \in Int
  BY DEF Valued
<1>2. /\ \A k \in 1 .. Len(q) : step[k] # k =>
            /\ step[k] > k /\ step[k] \div 2 = k
            /\ V[q[step[k]]] < V[q[i]]
            /\ \A c \in 2 .. Len(q) : c \div 2 = k => V[q[step[k]]] <= V[q[c]]
      /\ \A k \in 1 .. Len(q) : step[k] = k =>
            \A c \in 2 .. Len(q) : c \div 2 = k => V[q[i]] <= V[q[c]]
      /\ \A k \in 1 .. Len(q) : step[k] \in 1 .. Len(q)
  BY DEF Sinks
<1>3. \A k \in 1 .. Len(q) :
        /\ k \notin visited => d[k] = q[k]
        /\ k \in visited /\ step[k] # k => d[k] = q[step[k]]
        /\ k \in visited /\ step[k] = k => d[k] = q[i]
  BY SwappedAt
<1>4. i \in visited /\ visited \subseteq 1 .. Len(q)
  <2>1. DOMAIN step = 1 .. Len(q)
    OBVIOUS
  <2> QED BY <2>1, VisitedFirst, VisitedNext
<1>5. \A k \in visited : k # i =>
        \E b \in visited : step[b] = k /\ b # k /\ k \div 2 = b /\ k > b
  <2>1. ASSUME NEW k \in Visited(step, i), k # i
        PROVE  \E b \in Visited(step, i) : step[b] = k /\ step[b] # b
    BY <2>1, VisitedBefore
  <2> QED BY <1>2, <1>4, <2>1
<1>6. \A k \in visited : k # i => V[q[k]] < V[q[i]]
  BY <1>2, <1>4, <1>5
<1> HIDE DEF d, visited
<1>7. ASSUME NEW c \in 2 .. Len(q)
      PROVE  V[d[c \div 2]] <= V[d[c]]
  <2> DEFINE p == c \div 2
  <2>1. p \in 1 .. Len(q) /\ p < c /\ c \in 1 .. Len(q)
    BY <1>1, Halves
  <2>2. p # i => V[q[p]] <= V[q[c]]
    BY DEF OrderedAbove
  <2>3. CASE p \notin visited /\ c \notin visited
    BY <1>3, <1>4, <2>1, <2>2, <2>3
  <2>4. CASE p \notin visited /\ c \in visited
    <3>1. c = i /\ p # i
      BY <1>4, <1>5, <2>4
    <3>2. CASE step[i] = i
      BY <1>3, <2>1, <2>2, <2>4, <3>1, <3>2
    <3>3. CASE step[i] # i
      <4>1. step[i] \in 2 .. Len(q) /\ step[i] \div 2 = i
        BY <1>1, <1>2, <3>3
      <4>2. V[q[p]] <= V[q[step[i]]]
        BY <2>1, <3>1, <4>1 DEF OrderedAround
      <4> QED BY <1>3, <2>1, <2>4, <3>1, <3>3, <4>2
    <3> QED BY <3>2, <3>3
  <2>5. CASE p \in visited /\ c \notin visited
    <3>1. CASE step[p] # p
      BY <1>2, <1>3, <2>1, <2>5, <3>1
    <3>2. CASE step[p] = p
      BY <1>2, <1>3, <2>1, <2>5, <3>2
    <3> QED BY <3>1, <3>2
  <2>6. CASE p \in visited /\ c \in visited
    <3>1. c # i
      <4>1. ASSUME c = i PROVE FALSE
        <5>1. p # i
          BY <2>1, <4>1
        <5> DEFINE C == i .. Len(q)
        <5>2. C \in SUBSET (1 .. Len(q)) /\ i \in C /\ \A k \in C : step[k] \in C
          <6>1. C \in SUBSET (1 .. Len(q)) /\ i \in C
            BY <1>1
          <6>2. ASSUME NEW k \in C PROVE step[k] \in C
            <7>1. k \in 1 .. Len(q) /\ k >= i
              BY <1>1
            <7>2. step[k] \in 1 .. Len(q) /\ (step[k] # k => step[k] > k)
              BY <1>2, <7>1
            <7> QED BY <1>1, <7>1, <7>2
          <6> QED BY <6>1, <6>2
        <5>3. visited \subseteq C
          <6> HIDE DEF C
          <6> QED BY <5>2, VisitedLeast DEF visited
        <5> QED BY <1>1, <2>1, <2>6, <4>1, <5>3
      <4> QED BY <4>1
    <3>2. step[p] = c /\ step[p] # p
      BY <1>5, <2>6, <3>1
    <3>3. V[d[p]] = V[q[c]]
      BY <1>3, <2>1, <2>6, <3>2
    <3>4. CASE step[c] = c
      <4>1. V[d[c]] = V[q[i]]
        BY <1>3, <2>1, <2>6, <3>4
      <4>2. V[q[c]] < V[q[i]]
        BY <1>6, <2>6, <3>1
      <4> QED BY <1>1, <2>1, <3>3, <4>1, <4>2
    <3>5. CASE step[c] # c
      <4>1. V[d[c]] = V[q[step[c]]]
        BY <1>3, <2>1, <2>6, <3>5
      <4>2. step[c] \in 2 .. Len(q) /\ step[c] \div 2 = c
        <5>1. step[c] \in 1 .. Len(q) /\ step[c] > c /\ step[c] \div 2 = c
          BY <1>2, <2>1, <3>5
        <5> QED BY <1>1, <2>1, <5>1
      <4>3. V[q[c]] <= V[q[step[c]]]
        BY <3>1, <4>2 DEF OrderedAbove
      <4> QED BY <3>3, <4>1, <4>3
    <3> QED BY <3>4, <3>5
  <2> QED BY <2>3, <2>4, <2>5, <2>6
<1> QED BY <1>7 DEF Ordered, d

\* heap.down leaves an item that is not too great where it is.
LEMMA SinkStays ==
    ASSUME NEW S, NEW q \in Seq(S), NEW V, Valued(q, V), NEW i \in 1 .. Len(q),
           NEW step \in [1 .. Len(q) -> 1 .. Len(q)], Sinks(q, V, i, step),
           OrderedBelow(q, V, i)
    PROVE  Swapped(q, step, i) = q
<1>1. step[i] = i
  <2> SUFFICES ASSUME step[i] # i
               PROVE  FALSE
    OBVIOUS
  <2>1. step[i] \in 2 .. Len(q) /\ step[i] \div 2 = i /\ step[i] # i /\ V[q[step[i]]] < V[q[i]]
    BY DEF Sinks
  <2>2. V[q[i]] <= V[q[step[i]]]
    BY <2>1 DEF OrderedBelow
  <2>3. V[q[i]] \in Int /\ V[q[step[i]]] \in Int
    BY <2>1 DEF Valued
  <2> QED BY <2>1, <2>2, <2>3
<1>2. Visited(step, i) = {i}
  <2> DEFINE D == 1 .. Len(q)
  <2>1. step \in [D -> D] /\ i \in D
    OBVIOUS
  <2> HIDE DEF D
  <2> QED BY <1>1, <2>1, VisitedEnd
<1>3. Swapped(q, step, i) = [k \in 1 .. Len(q) |-> q[k]]
  BY <1>1, <1>2 DEF Swapped
<1> QED BY <1>3

\* What the steps of heap.up compare.
Rises(q, V, i, step) ==
    /\ \A k \in 1 .. Len(q) : step[k] # k =>
        /\ k > 1 /\ step[k] = k \div 2 /\ step[k] < k
        /\ V[q[i]] < V[q[step[k]]]
    /\ \A k \in 2 .. Len(q) : step[k] = k => V[q[k \div 2]] <= V[q[i]]

LEMMA UpStepRises ==
    ASSUME NEW S, NEW q \in Seq(S), NEW V, Valued(q, V), NEW i \in 1 .. Len(q)
    PROVE  /\ UpStep(q, V, i) \in [1 .. Len(q) -> 1 .. Len(q)]
           /\ Rises(q, V, i, UpStep(q, V, i))
<1> DEFINE step == UpStep(q, V, i)
<1>1. /\ Len(q) \in Nat /\ DOMAIN q = 1 .. Len(q)
      /\ \A k \in 1 .. Len(q) : q[k] \in S /\ V[q[k]] \in Int
  BY DEF Valued
<1>2. \A k \in 1 .. Len(q) : step[k] =
        IF k > 1 /\ V[q[i]] < V[q[k \div 2]] THEN k \div 2 ELSE k
  BY <1>1 DEF UpStep
<1>3. \A k \in 2 .. Len(q) : k \div 2 \in 1 .. Len(q) /\ k \div 2 < k /\ k > 1
  BY <1>1, Halves
<1>4. step \in [1 .. Len(q) -> 1 .. Len(q)]
  <2>1. step = [k \in 1 .. Len(q) |-> step[k]]
    BY <1>1 DEF UpStep
  <2>2. ASSUME NEW k \in 1 .. Len(q)
        PROVE  step[k] \in 1 .. Len(q)
    <3>1. k > 1 => k \in 2 .. Len(q)
      BY <1>1
    <3> QED BY <1>2, <1>3, <3>1
  <2> HIDE DEF step
  <2> QED BY <2>1, <2>2
<1>5. ASSUME NEW k \in 1 .. Len(q), step[k] # k
      PROVE  k > 1 /\ step[k] = k \div 2 /\ step[k] < k /\ V[q[i]] < V[q[step[k]]]
  <2>1. k > 1 /\ step[k] = k \div 2 /\ V[q[i]] < V[q[k \div 2]]
    BY <1>2, <1>5
  <2>2. k \in 2 .. Len(q)
    BY <1>1, <2>1
  <2> HIDE DEF step
  <2> QED BY <1>3, <2>1, <2>2
<1>6. ASSUME NEW k \in 2 .. Len(q), step[k] = k
      PROVE  V[q[k \div 2]] <= V[q[i]]
  <2>1. k \in 1 .. Len(q) /\ k > 1 /\ k \div 2 \in 1 .. Len(q) /\ k \div 2 < k
    BY <1>1, <1>3
  <2>2. ~(V[q[i]] < V[q[k \div 2]])
    BY <1>2, <1>6, <2>1
  <2> QED BY <1>1, <2>1, <2>2
<1> HIDE DEF step
<1> QED BY <1>4, <1>5, <1>6 DEF Rises, step

\* heap.up puts an item that is too small for its place in order.
LEMMA RiseOrders ==
    ASSUME NEW S, NEW q \in Seq(S), NEW V, Valued(q, V), NEW i \in 1 .. Len(q),
           NEW step \in [1 .. Len(q) -> 1 .. Len(q)], Rises(q, V, i, step),
           OrderedBelow(q, V, i), OrderedAround(q, V, i),
           Len(Swapped(q, step, i)) = Len(q)
    PROVE  Ordered(Swapped(q, step, i), V)
<1> DEFINE u == Swapped(q, step, i)
<1> DEFINE visited == Visited(step, i)
<1>1. /\ Len(q) \in Nat
      /\ \A k \in 1 .. Len(q) : q[k] \in S /\ V[q[k]] \in Int
  BY DEF Valued
<1>2. /\ \A k \in 1 .. Len(q) : step[k] # k =>
            /\ k > 1 /\ step[k] = k \div 2 /\ step[k] < k
            /\ V[q[i]] < V[q[step[k]]]
      /\ \A k \in 2 .. Len(q) : step[k] = k => V[q[k \div 2]] <= V[q[i]]
      /\ \A k \in 1 .. Len(q) : step[k] \in 1 .. Len(q)
  BY DEF Rises
<1>3. \A k \in 1 .. Len(q) :
        /\ k \notin visited => u[k] = q[k]
        /\ k \in visited /\ step[k] # k => u[k] = q[step[k]]
        /\ k \in visited /\ step[k] = k => u[k] = q[i]
  BY SwappedAt
<1>4. i \in visited /\ visited \subseteq 1 .. Len(q) /\ \A k \in visited : step[k] \in visited
  <2>1. DOMAIN step = 1 .. Len(q)
    OBVIOUS
  <2> QED BY <2>1, VisitedFirst, VisitedNext
<1>5. \A k \in visited : k # i => V[q[i]] < V[q[k]]
  <2>1. ASSUME NEW k \in Visited(step, i), k # i
        PROVE  \E b \in Visited(step, i) : step[b] = k /\ step[b] # b
    BY <2>1, VisitedBefore
  <2> QED BY <1>2, <1>4, <2>1
\* The last position is the first in the queue, and i the last.
<1>6. \A k \in visited : k <= i
  <2> DEFINE C == 1 .. i
  <2>1. C \in SUBSET (1 .. Len(q)) /\ i \in C
    BY <1>1
  <2>2. ASSUME NEW k \in C PROVE step[k] \in C
    <3>1. k \in 1 .. Len(q) /\ k <= i
      BY <1>1
    <3>2. step[k] \in 1 .. Len(q) /\ (step[k] # k => step[k] < k)
      BY <1>2, <3>1
    <3> QED BY <1>1, <3>1, <3>2
  <2>3. visited \subseteq C
    <3> HIDE DEF C
    <3> QED BY <2>1, <2>2, VisitedLeast
  <2> QED BY <2>3
<1>7. ASSUME NEW c \in visited, step[c] = c, NEW p \in visited, p < c
      PROVE  FALSE
  <2> DEFINE C == 1 .. p
  <2>1. C \in SUBSET (1 .. Len(q)) /\ p \in C /\ p \in 1 .. Len(q) /\ c \in 1 .. Len(q)
    BY <1>1, <1>4
  <2>2. ASSUME NEW k \in C PROVE step[k] \in C
    <3>1. k \in 1 .. Len(q) /\ k <= p
      BY <1>1, <2>1
    <3>2. step[k] \in 1 .. Len(q) /\ (step[k] # k => step[k] < k)
      BY <1>2, <3>1
    <3> QED BY <1>1, <2>1, <3>1, <3>2
  <2>3. Visited(step, p) \subseteq C
    <3> HIDE DEF C
    <3> QED BY <2>1, <2>2, VisitedLeast
  <2>4. c \in Visited(step, p)
    BY <1>7, OneEnd
  <2> QED BY <1>1, <1>7, <2>1, <2>3, <2>4
<1> HIDE DEF u, visited
<1>8. ASSUME NEW c \in 2 .. Len(q)
      PROVE  V[u[c \div 2]] <= V[u[c]]
  <2> DEFINE p == c \div 2
  <2>1. p \in 1 .. Len(q) /\ p < c /\ c \in 1 .. Len(q) /\ c > 1
    BY <1>1, Halves
  <2>2. c # i => V[q[p]] <= V[q[c]]
    BY DEF OrderedBelow
  <2>3. CASE p \notin visited /\ c \notin visited
    BY <1>3, <1>4, <2>1, <2>2, <2>3
  <2>4. CASE p \notin visited /\ c \in visited
    <3>1. step[c] = c
      BY <1>2, <1>4, <2>1, <2>4
    <3>2. V[q[p]] <= V[q[i]]
      BY <1>2, <3>1
    <3> QED BY <1>3, <2>1, <2>4, <3>1, <3>2
  <2>5. ASSUME p \in visited, p # i, c # i
        PROVE  V[u[p]] <= V[q[c]]
    <3>1. V[q[i]] < V[q[p]]
      BY <1>5, <2>5
    <3>2. CASE step[p] = p
      BY <1>1, <1>3, <2>1, <2>2, <2>5, <3>1, <3>2
    <3>3. CASE step[p] # p
      <4>1. p \in 2 .. Len(q) /\ step[p] = p \div 2 /\ step[p] \in 1 .. Len(q)
        <5>1. p > 1 /\ step[p] = p \div 2 /\ step[p] \in 1 .. Len(q)
          BY <1>2, <2>1, <3>3
        <5> QED BY <1>1, <2>1, <5>1
      <4>2. V[q[step[p]]] <= V[q[p]]
        BY <2>5, <4>1 DEF OrderedBelow
      <4>3. u[p] = q[step[p]]
        BY <1>3, <2>1, <2>5, <3>3
      <4>4. V[q[p]] <= V[q[c]] /\ V[q[p]] \in Int /\ V[q[c]] \in Int /\ V[q[step[p]]] \in Int
        BY <1>1, <2>1, <2>2, <2>5, <4>1
      <4> HIDE DEF p
      <4> QED BY <4>2, <4>3, <4>4
    <3> QED BY <3>2, <3>3
  <2>6. CASE p \in visited /\ c \notin visited
    <3>1. c # i /\ u[c] = q[c]
      BY <1>3, <1>4, <2>1, <2>6
    <3>2. CASE p # i
      BY <2>5, <2>6, <3>1, <3>2
    <3>3. CASE p = i /\ step[p] = p
      BY <1>3, <2>1, <2>2, <2>6, <3>1, <3>3
    <3>4. CASE p = i /\ step[p] # p
      <4>1. i > 1 /\ step[p] = i \div 2
        BY <1>2, <2>1, <3>4
      <4>2. V[q[i \div 2]] <= V[q[c]]
        BY <3>4, <4>1 DEF OrderedAround
      <4> QED BY <1>3, <2>1, <2>6, <3>1, <3>4, <4>1, <4>2
    <3> QED BY <3>2, <3>3, <3>4
  <2>7. CASE p \in visited /\ c \in visited
    <3>1. p # i
      BY <1>1, <1>6, <2>1, <2>7
    <3>2. step[c] # c /\ step[c] = p
      BY <1>2, <1>7, <2>1, <2>7
    <3>3. u[c] = q[p]
      BY <1>3, <2>1, <2>7, <3>2
    <3>4. V[q[i]] < V[q[p]]
      BY <1>5, <2>7, <3>1
    <3>5. CASE step[p] = p
      BY <1>1, <1>3, <2>1, <2>7, <3>3, <3>4, <3>5
    <3>6. CASE step[p] # p
      <4>1. p \in 2 .. Len(q) /\ step[p] = p \div 2 /\ step[p] \in 1 .. Len(q)
        BY <1>1, <1>2, <2>1, <3>6
      <4>2. V[q[step[p]]] <= V[q[p]]
        BY <3>1, <4>1 DEF OrderedBelow
      <4> QED BY <1>3, <2>1, <2>7, <3>3, <3>6, <4>2
    <3> QED BY <3>5, <3>6
  <2> QED BY <2>3, <2>4, <2>6, <2>7
<1> QED BY <1>8 DEF Ordered, u

\* heap.up leaves an item that is not too small where it is.
LEMMA RiseStays ==
    ASSUME NEW S, NEW q \in Seq(S), NEW V, Valued(q, V), NEW i \in 1 .. Len(q),
           NEW step \in [1 .. Len(q) -> 1 .. Len(q)], Rises(q, V, i, step),
           \A k \in 1 .. Len(q) : V[q[k]] <= V[q[i]]
    PROVE  Swapped(q, step, i) = q
<1>1. step[i] = i
  <2> SUFFICES ASSUME step[i] # i
               PROVE  FALSE
    OBVIOUS
  <2>1. step[i] \in 1 .. Len(q) /\ V[q[i]] < V[q[step[i]]]
    BY DEF Rises
  <2>2. V[q[i]] \in Int /\ V[q[step[i]]] \in Int
    BY <2>1 DEF Valued
  <2> QED BY <2>1, <2>2
<1>2. Visited(step, i) = {i}
  <2> DEFINE D == 1 .. Len(q)
  <2>1. step \in [D -> D] /\ i \in D
    OBVIOUS
  <2> HIDE DEF D
  <2> QED BY <1>1, <2>1, VisitedEnd
<1>3. Swapped(q, step, i) = [k \in 1 .. Len(q) |-> q[k]]
  BY <1>1, <1>2 DEF Swapped
<1> QED BY <1>3

\* Both loops only change the order of the items.
LEMMA SinkLists ==
    ASSUME NEW S, IsFiniteSet(S), NEW q, Lists(q, S), NEW V, NEW i \in 1 .. Len(q),
           NEW step \in [1 .. Len(q) -> 1 .. Len(q)], Sinks(q, V, i, step)
    PROVE  Lists(Swapped(q, step, i), S) /\ Len(Swapped(q, step, i)) = Len(q)
<1>1. Len(q) \in Nat
  BY DEF Lists
<1>2. \A k \in 1 .. Len(q) : step[k] # k => step[k] > k /\ step[k] \div 2 = k
  BY DEF Sinks
<1>3. \A k \in Visited(step, i) : k \in 1 .. Len(q) /\ i <= k
  <2> DEFINE C == i .. Len(q)
  <2>1. C \in SUBSET (1 .. Len(q)) /\ i \in C
    BY <1>1
  <2>2. ASSUME NEW k \in C PROVE step[k] \in C
    <3>1. k \in 1 .. Len(q) /\ i <= k
      BY <1>1
    <3>2. step[k] \in 1 .. Len(q) /\ (step[k] # k => step[k] > k)
      BY <1>2, <3>1
    <3> QED BY <1>1, <3>1, <3>2
  <2>3. Visited(step, i) \subseteq C
    <3> HIDE DEF C
    <3> QED BY <2>1, <2>2, VisitedLeast
  <2> QED BY <1>1, <2>3
<1>4. \A c, d \in Visited(step, i) : step[c] = step[d] /\ step[c] # c /\ step[d] # d => c = d
  BY <1>2, <1>3
<1>5. \A c \in Visited(step, i) : step[c] # c => step[c] # i
  BY <1>1, <1>2, <1>3
<1> QED BY <1>4, <1>5, SwappedLists

LEMMA RiseLists ==
    ASSUME NEW S, IsFiniteSet(S), NEW q, Lists(q, S), NEW V, NEW i \in 1 .. Len(q),
           NEW step \in [1 .. Len(q) -> 1 .. Len(q)], Rises(q, V, i, step)
    PROVE  Lists(Swapped(q, step, i), S) /\ Len(Swapped(q, step, i)) = Len(q)
<1>1. Len(q) \in Nat
  BY DEF Lists
<1>2. \A k \in 1 .. Len(q) : step[k] # k => step[k] < k
  BY DEF Rises
<1>3. ASSUME NEW j \in 1 .. Len(q)
      PROVE  \A k \in Visited(step, j) : k \in 1 .. Len(q) /\ k <= j
  <2> DEFINE C == 1 .. j
  <2>1. C \in SUBSET (1 .. Len(q)) /\ j \in C
    BY <1>1
  <2>2. ASSUME NEW k \in C PROVE step[k] \in C
    <3>1. k \in 1 .. Len(q) /\ k <= j
      BY <1>1
    <3>2. step[k] \in 1 .. Len(q) /\ (step[k] # k => step[k] < k)
      BY <1>2, <3>1
    <3> QED BY <1>1, <3>1, <3>2
  <2>3. Visited(step, j) \subseteq C
    <3> HIDE DEF C
    <3> QED BY <2>1, <2>2, VisitedLeast
  <2> QED BY <1>1, <2>3
<1>4. ASSUME NEW c \in Visited(step, i), NEW d \in Visited(step, i),
             step[c] = step[d], step[c] # c, step[d] # d, c < d
      PROVE  FALSE
  <2>1. c \in 1 .. Len(q) /\ d \in 1 .. Len(q) /\ step[d] \in 1 .. Len(q)
    BY <1>3
  <2>2. d \notin Visited(step, c)
    BY <1>3, <1>4, <2>1
  <2>3. c \in Visited(step, d)
    BY <2>2, VisitedChain
  <2>4. c \in Visited(step, step[d])
    BY <1>4, <2>1, <2>3, VisitedRest
  <2>5. c <= step[c] /\ step[c] < c
    BY <1>2, <1>3, <1>4, <2>1, <2>4
  <2> QED BY <2>1, <2>5, <1>4
<1>5. \A c, d \in Visited(step, i) : step[c] = step[d] /\ step[c] # c /\ step[d] # d => c = d
  <2> SUFFICES ASSUME NEW c \in Visited(step, i), NEW d \in Visited(step, i),
                      step[c] = step[d], step[c] # c, step[d] # d
               PROVE  c = d
    OBVIOUS
  <2>1. c \in 1 .. Len(q) /\ d \in 1 .. Len(q)
    BY <1>3
  <2>2. ~(c < d) /\ ~(d < c)
    BY <1>4
  <2> QED BY <2>1, <2>2
<1>6. \A c \in Visited(step, i) : step[c] # c => step[c] # i
  <2> SUFFICES ASSUME NEW c \in Visited(step, i), step[c] # c
               PROVE  step[c] # i
    OBVIOUS
  <2>1. c \in 1 .. Len(q) /\ c <= i
    BY <1>3
  <2>2. step[c] < c /\ step[c] \in 1 .. Len(q)
    BY <1>2, <2>1
  <2> QED BY <2>1, <2>2
<1> QED BY <1>5, <1>6, SwappedLists

(* The operations of the queue *)

LEMMA DownHeap ==
    ASSUME NEW S, IsFiniteSet(S), NEW q, Lists(q, S), NEW V, Valued(q, V), NEW i \in 1 .. Len(q)
    PROVE  /\ Lists(Down(q, V, i), S)
           /\ OrderedAbove(q, V, i) /\ OrderedAround(q, V, i) => Ordered(Down(q, V, i), V)
           /\ OrderedBelow(q, V, i) => Down(q, V, i) = q
<1>1. q \in Seq(S)
  BY DEF Lists
<1>2. /\ DownStep(q, V, i) \in [1 .. Len(q) -> 1 .. Len(q)]
      /\ Sinks(q, V, i, DownStep(q, V, i))
  BY <1>1, DownStepSinks
<1>3. Lists(Down(q, V, i), S) /\ Len(Down(q, V, i)) = Len(q)
  BY <1>2, SinkLists DEF Down
<1>4. OrderedAbove(q, V, i) /\ OrderedAround(q, V, i) => Ordered(Down(q, V, i), V)
  BY <1>1, <1>2, <1>3, SinkOrders DEF Down
<1>5. OrderedBelow(q, V, i) => Down(q, V, i) = q
  BY <1>1, <1>2, SinkStays DEF Down
<1> QED BY <1>3, <1>4, <1>5

LEMMA UpHeap ==
    ASSUME NEW S, IsFiniteSet(S), NEW q, Lists(q, S), NEW V, Valued(q, V), NEW i \in 1 .. Len(q)
    PROVE  /\ Lists(Up(q, V, i), S)
           /\ OrderedBelow(q, V, i) /\ OrderedAround(q, V, i) => Ordered(Up(q, V, i), V)
           /\ (\A k \in 1 .. Len(q) : V[q[k]] <= V[q[i]]) => Up(q, V, i) = q
<1>1. q \in Seq(S)
  BY DEF Lists
<1>2. /\ UpStep(q, V, i) \in [1 .. Len(q) -> 1 .. Len(q)]
      /\ Rises(q, V, i, UpStep(q, V, i))
  BY <1>1, UpStepRises
<1>3. Lists(Up(q, V, i), S) /\ Len(Up(q, V, i)) = Len(q)
  BY <1>2, RiseLists DEF Up
<1>4. OrderedBelow(q, V, i) /\ OrderedAround(q, V, i) => Ordered(Up(q, V, i), V)
  BY <1>1, <1>2, <1>3, RiseOrders DEF Up
<1>5. (\A k \in 1 .. Len(q) : V[q[k]] <= V[q[i]]) => Up(q, V, i) = q
  BY <1>1, <1>2, RiseStays DEF Up
<1> QED BY <1>3, <1>4, <1>5

\* After the value of one item has changed, UpdateItem puts the heap in order.
LEMMA UpdateHeap ==
    ASSUME NEW S, IsFiniteSet(S), NEW q, Lists(q, S), NEW V, Valued(q, V), Ordered(q, V),
           NEW W, Valued(q, W), NEW n \in S, \A m \in S \ {n} : W[m] = V[m]
    PROVE  /\ Lists(UpdateItem(q, W, n), S)
           /\ Ordered(UpdateItem(q, W, n), W)
<1> DEFINE i == QueueIndex(q, n)
<1> DEFINE down == Down(q, W, i)
<1> DEFINE up == Up(q, W, i)
<1>1. /\ Len(q) \in Nat /\ DOMAIN q = 1 .. Len(q)
      /\ \A k \in 1 .. Len(q) : q[k] \in S /\ V[q[k]] \in Int /\ W[q[k]] \in Int
  BY DEF Lists, Valued
<1>2. i \in 1 .. Len(q) /\ q[i] = n
  <2>1. \E k \in DOMAIN q : q[k] = n
    BY DEF Lists, ToSet
  <2> QED BY <1>1, <2>1 DEF QueueIndex
<1>3. UpdateItem(q, W, n) = IF down # q THEN down ELSE up
  BY DEF UpdateItem
<1> HIDE DEF i
<1>4. \A k \in 1 .. Len(q) : k # i => W[q[k]] = V[q[k]]
  BY <1>1, <1>2 DEF Lists
<1>5. \A k \in 2 .. Len(q) : k \in 1 .. Len(q) /\ k \div 2 \in 1 .. Len(q) /\ k \div 2 # k
  BY <1>1, Halves
<1>6. OrderedAround(q, W, i)
  <2> SUFFICES ASSUME i > 1, NEW k \in 2 .. Len(q), k \div 2 = i
               PROVE  W[q[i \div 2]] <= W[q[k]]
    BY DEF OrderedAround
  <2>1. i \in 2 .. Len(q)
    BY <1>1, <1>2
  <2>2. V[q[i \div 2]] <= V[q[i]] /\ V[q[i]] <= V[q[k]]
    BY <2>1 DEF Ordered
  <2>3. W[q[i \div 2]] = V[q[i \div 2]] /\ W[q[k]] = V[q[k]]
    BY <1>4, <1>5, <2>1
  <2>4. V[q[i \div 2]] \in Int /\ V[q[i]] \in Int /\ V[q[k]] \in Int
    BY <1>1, <1>2, <1>5, <2>1
  <2> QED BY <2>2, <2>3, <2>4
<1>7. ASSUME NEW k \in 2 .. Len(q)
      PROVE  /\ V[q[k \div 2]] <= V[q[k]]
             /\ V[q[k \div 2]] \in Int /\ V[q[k]] \in Int
             /\ W[q[k \div 2]] \in Int /\ W[q[k]] \in Int
             /\ k \div 2 # i => W[q[k \div 2]] = V[q[k \div 2]]
             /\ k # i => W[q[k]] = V[q[k]]
             /\ k \div 2 = i => k # i
  BY <1>1, <1>4, <1>5 DEF Ordered
<1>8. V[n] <= W[n] => OrderedAbove(q, W, i)
  <2> SUFFICES ASSUME V[n] <= W[n], NEW k \in 2 .. Len(q), k \div 2 # i
               PROVE  W[q[k \div 2]] <= W[q[k]]
    BY DEF OrderedAbove
  <2>1. V[q[k]] <= W[q[k]]
    BY <1>2, <1>7
  <2> QED BY <1>7, <2>1
<1>9. W[n] <= V[n] => OrderedBelow(q, W, i)
  <2> SUFFICES ASSUME W[n] <= V[n], NEW k \in 2 .. Len(q), k # i
               PROVE  W[q[k \div 2]] <= W[q[k]]
    BY DEF OrderedBelow
  <2>1. W[q[k \div 2]] <= V[q[k \div 2]]
    BY <1>2, <1>7
  <2> QED BY <1>7, <2>1
<1>10. /\ Lists(down, S) /\ Lists(up, S)
       /\ OrderedAbove(q, W, i) => Ordered(down, W)
       /\ OrderedBelow(q, W, i) => down = q /\ Ordered(up, W)
  BY <1>2, <1>6, DownHeap, UpHeap
<1>11. V[n] <= W[n] \/ W[n] <= V[n]
  BY <1>1, <1>2
<1> HIDE DEF down, up
<1>12. CASE down # q
  BY <1>3, <1>8, <1>9, <1>10, <1>11, <1>12
<1>13. CASE down = q /\ W[n] <= V[n]
  BY <1>3, <1>9, <1>10, <1>13
<1>14. CASE down = q /\ V[n] <= W[n]
  <2>1. Ordered(q, W)
    BY <1>8, <1>10, <1>14
  <2>2. OrderedBelow(q, W, i)
    BY <2>1 DEF Ordered, OrderedBelow
  <2> QED BY <1>3, <1>10, <1>14, <2>2
<1> QED BY <1>11, <1>12, <1>13, <1>14

\* The root of a heap has the least value.
LEMMA Root ==
    ASSUME NEW S, NEW q, Lists(q, S), NEW V, Valued(q, V), Ordered(q, V), q # <<>>
    PROVE  Minimum(q) \in S /\ \A m \in S : V[Minimum(q)] <= V[m]
<1>1. /\ Len(q) \in Nat /\ DOMAIN q = 1 .. Len(q) /\ 1 \in 1 .. Len(q)
      /\ \A k \in 1 .. Len(q) : q[k] \in S /\ V[q[k]] \in Int
  <2>1. q \in Seq(S) /\ Len(q) \in Nat /\ DOMAIN q = 1 .. Len(q) /\ Len(q) # 0
    BY DEF Lists
  <2> QED BY <2>1 DEF Valued
<1> DEFINE T == {k \in 1 .. Len(q) : ~(V[q[1]] <= V[q[k]])}
<1>2. T = {}
  <2> SUFFICES ASSUME T # {}
               PROVE  FALSE
    OBVIOUS
  <2>1. T \subseteq Nat
    BY <1>1
  <2>2. PICK k \in T : \A y \in T : ~(<<y, k>> \in OpToRel(<, Nat))
    <3> HIDE DEF T
    <3> QED BY <2>1, NatLessThanWellFounded, WFMin
  <2>3. k \in 1 .. Len(q) /\ ~(V[q[1]] <= V[q[k]])
    OBVIOUS
  <2>4. k \in 2 .. Len(q)
    BY <1>1, <2>3
  <2>5. k \div 2 \in 1 .. Len(q) /\ k \div 2 < k /\ k \in Nat /\ k \div 2 \in Nat
    BY <1>1, <2>4, Halves
  <2>6. k \div 2 \notin T
    BY <2>2, <2>5 DEF OpToRel
  <2>7. V[q[1]] <= V[q[k \div 2]] /\ V[q[k \div 2]] <= V[q[k]]
    BY <2>4, <2>5, <2>6 DEF Ordered
  <2> QED BY <1>1, <2>3, <2>5, <2>7
<1>3. ASSUME NEW m \in S
      PROVE  V[q[1]] <= V[m]
  <2>1. PICK k \in 1 .. Len(q) : q[k] = m
    BY <1>1 DEF Lists, ToSet
  <2> QED BY <1>2, <2>1
<1> QED BY <1>1, <1>3 DEF Minimum

\* Pushing an item that is no smaller than the others puts it last.
LEMMA PushLast ==
    ASSUME NEW S, NEW q \in Seq(S), NEW n \in S, NEW V,
           V[n] \in Int, \A k \in 1 .. Len(q) : V[q[k]] \in Int /\ V[q[k]] <= V[n]
    PROVE  PushItem(q, V, n) = Append(q, n)
<1> DEFINE a == Append(q, n)
<1> DEFINE i == Len(q) + 1
<1>1. /\ a \in Seq(S) /\ Len(a) = i /\ a[i] = n /\ i \in 1 .. Len(a) /\ Len(q) \in Nat
      /\ \A k \in 1 .. Len(q) : a[k] = q[k]
  OBVIOUS
<1>2. PushItem(q, V, n) = Up(a, V, i)
  BY DEF PushItem
<1> HIDE DEF a
<1>3. \A k \in 1 .. Len(a) : k \in 1 .. Len(q) \/ k = i
  BY <1>1
<1>4. \A k \in 1 .. Len(a) : V[a[k]] \in Int /\ V[a[k]] <= V[a[i]]
  BY <1>1, <1>3
<1>5. Valued(a, V)
  BY <1>4 DEF Valued
<1> HIDE DEF i
<1>6. /\ UpStep(a, V, i) \in [1 .. Len(a) -> 1 .. Len(a)]
      /\ Rises(a, V, i, UpStep(a, V, i))
  BY <1>1, <1>5, UpStepRises
<1>7. Swapped(a, UpStep(a, V, i), i) = a
  BY <1>1, <1>4, <1>5, <1>6, RiseStays
<1> QED BY <1>2, <1>7 DEF Up, a

\* The heap of a new picker is the list of its nodes: they all have the same value.
LEMMA NewQueueIsList ==
    ASSUME Queued, NEW scs \in Seq(Node)
    PROVE  NewQueue(scs) = scs
<1> DEFINE N == Len(scs)
<1> DEFINE Pushing(f) == f = [i \in 0 .. N |->
                                IF i = 0 THEN <<>> ELSE PushItem(f[i - 1], Zero, scs[i])]
<1> DEFINE first == [i \in 0 .. N |-> SubSeq(scs, 1, i)]
<1> DEFINE pushed == CHOOSE f : Pushing(f)
<1>1. N \in Nat /\ scs \in [1 .. N -> Node]
  OBVIOUS
<1>2. ASSUME NEW i \in 1 .. N
      PROVE  PushItem(SubSeq(scs, 1, i - 1), Zero, scs[i]) = SubSeq(scs, 1, i)
  <2> DEFINE s == SubSeq(scs, 1, i - 1)
  <2>1. s \in Seq(Node) /\ Len(s) = i - 1 /\ scs[i] \in Node
        /\ \A k \in 1 .. Len(s) : s[k] = scs[k] /\ s[k] \in Node
    BY <1>1, <1>2, SubSeqProperties
  <2>2. Append(s, scs[i]) = SubSeq(scs, 1, i)
    <3>1. /\ SubSeq(scs, 1, i) \in Seq(Node) /\ Len(SubSeq(scs, 1, i)) = i
          /\ \A k \in 1 .. i : SubSeq(scs, 1, i)[k] = scs[k]
      BY <1>1, <1>2, SubSeqProperties
    <3> HIDE DEF s
    <3>2. /\ Append(s, scs[i]) \in Seq(Node) /\ Len(Append(s, scs[i])) = i
          /\ \A k \in 1 .. i : Append(s, scs[i])[k] = scs[k]
      BY <1>1, <2>1
    <3> QED BY <3>1, <3>2, SeqEqual
  <2> HIDE DEF s
  <2>3. PushItem(s, Zero, scs[i]) = Append(s, scs[i])
    BY <2>1, PushLast DEF Zero
  <2> QED BY <2>2, <2>3 DEF s
<1>3. Pushing(first)
  <2>1. first[0] = <<>>
    BY <1>1, SubSeqEmpty
  <2>2. ASSUME NEW i \in 1 .. N
        PROVE  first[i] = PushItem(first[i - 1], Zero, scs[i])
    <3>1. i \in 0 .. N /\ i - 1 \in 0 .. N
      BY <1>1
    <3>2. first[i] = SubSeq(scs, 1, i) /\ first[i - 1] = SubSeq(scs, 1, i - 1)
      BY <3>1
    <3> HIDE DEF first
    <3> QED BY <1>2, <3>2
  <2> DEFINE rhs == [i \in 0 .. N |-> IF i = 0 THEN <<>> ELSE PushItem(first[i - 1], Zero, scs[i])]
  <2>3. \A i \in 0 .. N : first[i] = rhs[i]
    <3> HIDE DEF first
    <3> QED BY <1>1, <2>1, <2>2
  <2>4. first = [i \in 0 .. N |-> first[i]]
    OBVIOUS
  <2>5. rhs = [i \in 0 .. N |-> rhs[i]]
    OBVIOUS
  <2> HIDE DEF first, rhs
  <2>6. first = rhs
    BY <2>3, <2>4, <2>5
  <2> QED BY <2>6 DEF rhs
<1> HIDE DEF first
<1>4. Pushing(pushed)
  <2> HIDE DEF Pushing
  <2> QED BY <1>3
<1>5. NewQueue(scs) = pushed[N]
  BY DEF NewQueue
<1> HIDE DEF pushed
<1>6. pushed[0] = <<>> /\ \A i \in 1 .. N : pushed[i] = PushItem(pushed[i - 1], Zero, scs[i])
  BY <1>1, <1>4
<1> DEFINE T == {i \in 0 .. N : pushed[i] # SubSeq(scs, 1, i)}
<1>7. T = {}
  <2> SUFFICES ASSUME T # {}
               PROVE  FALSE
    OBVIOUS
  <2>1. T \subseteq Nat
    BY <1>1
  <2>2. PICK i \in T : \A j \in T : ~(<<j, i>> \in OpToRel(<, Nat))
    <3> HIDE DEF T
    <3> QED BY <2>1, NatLessThanWellFounded, WFMin
  <2>3. CASE i = 0
    <3>1. SubSeq(scs, 1, 0) = <<>>
      BY SubSeqEmpty
    <3>2. pushed[i] # SubSeq(scs, 1, i)
      OBVIOUS
    <3> QED BY <1>6, <2>3, <3>1, <3>2
  <2>4. CASE i # 0
    <3>1. i \in 1 .. N /\ i - 1 \in 0 .. N /\ i - 1 \in Nat /\ i \in Nat /\ i - 1 < i
      BY <1>1, <2>4
    <3>2. i - 1 \notin T
      BY <2>2, <3>1 DEF OpToRel
    <3>3. pushed[i - 1] = SubSeq(scs, 1, i - 1)
      BY <3>1, <3>2
    <3> QED BY <1>2, <1>6, <3>1, <3>3
  <2> QED BY <2>3, <2>4
<1>8. pushed[N] = SubSeq(scs, 1, N)
  BY <1>1, <1>7
<1>9. SubSeq(scs, 1, N) = scs
  OBVIOUS
<1> QED BY <1>5, <1>8, <1>9

-----------------------------------------------------------------------------
(* Calls *)

LEMMA OrdersLists ==
    ASSUME NEW scs \in Orders
    PROVE  /\ Lists(scs, ToSet(scs)) /\ ToSet(scs) \subseteq Node /\ scs \in Seq(Node)
           /\ IsFiniteSet(ToSet(scs))
<1>1. PICK ready \in SUBSET Node : scs \in SetToSeqs(ready)
  BY DEF Orders
<1>2. IsFiniteSet(ready) /\ Cardinality(ready) \in Nat
  BY NodeAssumption, FS_Subset, FS_CardinalityType
<1>3. /\ scs \in [1 .. Cardinality(ready) -> ready]
      /\ \A c, d \in 1 .. Cardinality(ready) : c # d => scs[c] # scs[d]
  BY <1>1 DEF SetToSeqs
<1>4. scs \in Seq(ready) /\ Len(scs) = Cardinality(ready)
  BY <1>2, <1>3
<1>5. Lists(scs, ready)
  BY <1>2, <1>3, <1>4, ListsOfLength
<1> QED BY <1>2, <1>3, <1>4, <1>5 DEF Lists

\* The calls a state of all calls counts for a node.
CallsOf(f, n) == {r \in Request : f[r] = Running(n)}

LEMMA CallsOfFinite ==
    ASSUME NEW f, NEW n
    PROVE  IsFiniteSet(CallsOf(f, n)) /\ Cardinality(CallsOf(f, n)) \in Nat
BY RequestAssumption, FS_Subset, FS_CardinalityType DEF CallsOf

\* From f to g, the call r gets to v.
Becomes(f, g, r, v) == \A o \in Request : g[o] = IF o = r THEN v ELSE f[o]

LEMMA CallStarts ==
    ASSUME NEW f, NEW g, NEW r \in Request, NEW n, Becomes(f, g, r, Running(n)),
           f[r].step # "running", NEW m
    PROVE  Cardinality(CallsOf(g, m)) = Cardinality(CallsOf(f, m)) + (IF m = n THEN 1 ELSE 0)
<1>1. \A o \in Request : g[o] = IF o = r THEN Running(n) ELSE f[o]
  BY DEF Becomes
<1>2. Running(m) = Running(n) <=> m = n
  BY DEF Running
<1>3. r \notin CallsOf(f, m)
  BY DEF CallsOf, Running
<1>4. CASE m = n
  <2>1. CallsOf(g, m) = CallsOf(f, m) \cup {r}
    BY <1>1, <1>4 DEF CallsOf
  <2> QED BY <1>3, <1>4, <2>1, CallsOfFinite, FS_AddElement
<1>5. CASE m # n
  <2>1. CallsOf(g, m) = CallsOf(f, m)
    BY <1>1, <1>2, <1>3, <1>5 DEF CallsOf
  <2> QED BY <1>5, <2>1, CallsOfFinite
<1> QED BY <1>4, <1>5

LEMMA CallEnds ==
    ASSUME NEW f, NEW g, NEW r \in Request, Becomes(f, g, r, Idle),
           NEW n, f[r] = Running(n), NEW m
    PROVE  Cardinality(CallsOf(g, m)) = Cardinality(CallsOf(f, m)) - (IF m = n THEN 1 ELSE 0)
<1>1. \A o \in Request : g[o] = IF o = r THEN Idle ELSE f[o]
  BY DEF Becomes
<1>2. (Running(m) = Running(n) <=> m = n) /\ Idle # Running(m)
  BY DEF Running, Idle
<1>3. CASE m = n
  <2>1. CallsOf(g, m) = CallsOf(f, m) \ {r} /\ r \in CallsOf(f, m)
    BY <1>1, <1>2, <1>3 DEF CallsOf
  <2> QED BY <1>3, <2>1, CallsOfFinite, FS_RemoveElement
<1>4. CASE m # n
  <2>1. CallsOf(g, m) = CallsOf(f, m)
    BY <1>1, <1>2, <1>4 DEF CallsOf
  <2> QED BY <1>4, <2>1, CallsOfFinite
<1> QED BY <1>3, <1>4

LEMMA CallMoves ==
    ASSUME NEW f, NEW g, NEW r \in Request, NEW v, Becomes(f, g, r, v), NEW m,
           f[r] # Running(m), v # Running(m)
    PROVE  CallsOf(g, m) = CallsOf(f, m)
BY DEF CallsOf, Becomes

-----------------------------------------------------------------------------
(* The invariant *)

Rounds == policy \in {"rr", "wrr", "rwrr"}

\* Where a call is: only p2c chooses before it picks, and the node of a policy that
\* goes by loads is one of the picker's.
Placed ==
    /\ DOMAIN request = Request
    /\ \A r \in Request :
        \/ request[r] = Idle
        \/ request[r] = Gone
        \/ Rounds /\ request[r].step = "running"
        \/ \E n \in Ready : request[r] = Running(n)
        \/ policy = "p2c" /\ \E n \in Ready : \E forced \in BOOLEAN : request[r] = Chosen(n, forced)

Typed ==
    /\ policy \in Policy
    /\ subConns \in Orders
    /\ val \in [Node -> Int]
    /\ ewma \in [Node -> Fractions]
    /\ inflight \in [Node -> Int]
    /\ long \subseteq Ready
    /\ forcing \in BOOLEAN

\* The heap of mc and mrt has each node once, in the order of their values.
Heaped == Queued => Lists(queue, Ready) /\ Ordered(queue, val)

\* Its values are what the policy goes by.
Valid ==
    /\ policy = "mc" => \A n \in Ready : val[n] = Calls(n)
    /\ policy = "mrt" => \A n \in Ready : val[n] = Micros(ewma[n])

ForcedCalls == {r \in Request : request[r].step = "chosen" /\ request[r].forced}

Counting ==
    policy = "p2c" =>
        /\ \A n \in Ready : inflight[n] = Calls(n)
        /\ Cardinality(ForcedCalls) = (IF forcing THEN 1 ELSE 0)

PInv == Placed /\ Typed /\ Heaped /\ Valid /\ Counting

LEMMA CallsAre == ASSUME NEW n PROVE Calls(n) = Cardinality(CallsOf(request, n))
BY DEF Calls, CallsOf

LEMMA ReadyLists ==
    ASSUME PInv
    PROVE  /\ Lists(subConns, Ready) /\ Ready \subseteq Node /\ IsFiniteSet(Ready)
           /\ subConns \in Seq(Node)
           /\ \A n \in Ready : val[n] \in Int /\ inflight[n] \in Int /\ ewma[n] \in Fractions
BY OrdersLists DEF PInv, Typed, Ready

\* Fractions of microseconds are whole numbers, and truncating them leaves some.
LEMMA FractionsType ==
    /\ Fractions \subseteq Nat /\ 0 \in Fractions
    /\ \A time \in 0 .. MaxTime : Grain * time \in Fractions
    /\ \A e \in Fractions : Micros(e) \in Nat
    /\ Micros(0) = 0
<1>1. Grain \in Nat /\ Grain > 0 /\ MaxTime \in Nat
  BY GrainAssumption, MaxTimeAssumption
<1>2. ASSUME NEW time \in 0 .. MaxTime PROVE Grain * time \in 0 .. Grain * MaxTime
  <2>1. time \in Nat /\ MaxTime - time \in Nat
    BY <1>1
  <2>2. Grain * time \in Nat /\ Grain * (MaxTime - time) \in Nat
    BY <1>1, <2>1
  <2>3. Grain * MaxTime = Grain * time + Grain * (MaxTime - time)
    BY <1>1, <2>1
  <2> QED BY <2>2, <2>3
<1>3. Grain * MaxTime \in Nat
  BY <1>1
<1>4. ASSUME NEW e \in Nat PROVE e \div Grain \in Nat
  BY <1>1
<1>5. 0 \div Grain = 0
  BY <1>1
<1> QED BY <1>2, <1>3, <1>4, <1>5 DEF Fractions, Micros

LEMMA ZeroType ==
    /\ Zero \in [Node -> Int] /\ Zero \in [Node -> Fractions]
    /\ \A n \in Node : Zero[n] = 0
BY FractionsType DEF Zero

LEMMA InitInv == Init => PInv
<1> SUFFICES ASSUME Init PROVE PInv
  OBVIOUS
<1>1. subConns = <<>> /\ Ready = {}
  BY DEF Init, Ready, ToSet
<1>2. subConns \in Orders
  <2>1. {} \in SUBSET Node /\ Cardinality({}) = 0
    BY FS_EmptySet
  <2>2. <<>> \in SetToSeqs({})
    <3>1. 1 .. Cardinality({}) = {}
      BY <2>1
    <3>2. <<>> = [c \in {} |-> c]
      OBVIOUS
    <3> QED BY <3>1, <3>2 DEF SetToSeqs
  <2> QED BY <1>1, <2>1, <2>2 DEF Orders
<1>3. Placed
  BY DEF Init, Placed
<1>4. Typed
  BY <1>1, <1>2, ZeroType DEF Init, Typed
<1>5. Heaped
  <2>1. Lists(queue, Ready) /\ Ordered(queue, val)
    BY <1>1 DEF Init, Lists, Ordered, ToSet
  <2> QED BY <2>1 DEF Heaped
<1>6. Valid
  BY <1>1 DEF Valid
<1>7. Counting
  <2>1. ForcedCalls = {}
    BY DEF Init, ForcedCalls, Idle
  <2> QED BY <1>1, <2>1, FS_EmptySet DEF Counting, Init
<1> QED BY <1>3, <1>4, <1>5, <1>6, <1>7 DEF PInv

LEMMA BuildInv == PInv /\ Build => PInv'
<1> SUFFICES ASSUME PInv, Build PROVE PInv'
  OBVIOUS
<1>1. PICK scs \in Orders : BuildFor(scs)
  BY DEF Build
<1>2. /\ subConns' = scs /\ queue' = NewQueue(scs) /\ val' = Zero /\ ewma' = Zero
      /\ inflight' = Zero /\ long' = {} /\ forcing' = FALSE /\ policy' = policy
  BY <1>1 DEF BuildFor, NewCounters, Build
<1>3. /\ DOMAIN request' = Request
      /\ \A r \in Request : request'[r] = Idle \/ request'[r] = Gone
  BY DEF Build
<1>4. Lists(scs, Ready') /\ scs \in Seq(Node) /\ Ready' \subseteq Node
  BY <1>2, OrdersLists DEF Ready
<1>5. Placed'
  BY <1>3 DEF Placed, Idle, Gone
<1>6. Typed'
  BY <1>2, ZeroType DEF PInv, Typed
<1>7. \A n \in Node : Zero[n] = 0
  BY ZeroType
<1>8. Heaped'
  <2> SUFFICES ASSUME Queued PROVE Lists(queue', Ready') /\ Ordered(queue', val')
    BY <1>2 DEF Heaped, Queued
  <2>1. queue' = scs
    BY <1>2, <1>4, NewQueueIsList
  <2>2. Len(scs) \in Nat /\ \A k \in 1 .. Len(scs) : scs[k] \in Node
    BY <1>4
  <2>3. ASSUME NEW k \in 2 .. Len(scs) PROVE Zero[scs[k \div 2]] <= Zero[scs[k]]
    <3>1. k \in 1 .. Len(scs) /\ k \div 2 \in 1 .. Len(scs)
      BY <2>2, Halves
    <3> QED BY <1>7, <2>2, <3>1
  <2> QED BY <1>2, <1>4, <2>1, <2>3 DEF Ordered
<1>9. \A n : Cardinality(CallsOf(request', n)) = 0
  <2>1. \A n : CallsOf(request', n) = {}
    BY <1>3 DEF CallsOf, Idle, Gone, Running
  <2> QED BY <2>1, FS_EmptySet
<1>10. \A n \in Ready' : Calls(n)' = 0
  BY <1>9 DEF Calls, CallsOf
<1>11. Valid'
  BY <1>2, <1>4, <1>7, <1>10, FractionsType DEF Valid
<1>12. Counting'
  <2>1. ForcedCalls' = {}
    BY <1>3 DEF ForcedCalls, Idle, Gone
  <2> QED BY <1>2, <1>4, <1>7, <1>10, <2>1, FS_EmptySet DEF Counting
<1> QED BY <1>5, <1>6, <1>8, <1>11, <1>12 DEF PInv

\* The round robins keep no account of their calls.
LEMMA RoundInv ==
    ASSUME PInv, Rounds, NEW r \in Request, UNCHANGED <<policy, subConns, queueVars, loadVars>>,
           NEW v, request' = [request EXCEPT ![r] = v], v = Idle \/ v.step = "running"
    PROVE  PInv'
<1>1. policy \notin {"mc", "mrt", "p2c"}
  BY DEF Rounds
<1>2. Placed'
  BY DEF PInv, Placed, Rounds, Ready
<1>3. Typed'
  BY DEF PInv, Typed, Ready, queueVars, loadVars
<1>4. Heaped' /\ Valid' /\ Counting'
  BY <1>1 DEF Heaped, Valid, Counting, Queued
<1> QED BY <1>2, <1>3, <1>4 DEF PInv

LEMMA QueuedCall ==
    ASSUME PInv, Queued, NEW r \in Request
    PROVE  \/ request[r] = Idle \/ request[r] = Gone
           \/ request[r].step = "running" /\ request[r].node \in Ready
              /\ request[r] = Running(request[r].node)
BY DEF PInv, Placed, Queued, Rounds, Running

\* A value changes, and the heap with it.
LEMMA FixedHeap ==
    ASSUME PInv, Queued, NEW n \in Ready, NEW new \in Int
    PROVE  LET W == [val EXCEPT ![n] = new]
           IN Lists(Fixed(W, n), Ready) /\ Ordered(Fixed(W, n), W)
<1> DEFINE W == [val EXCEPT ![n] = new]
<1>1. Lists(queue, Ready) /\ Ordered(queue, val) /\ IsFiniteSet(Ready) /\ Ready \subseteq Node
  BY ReadyLists DEF PInv, Heaped
<1>2. val \in [Node -> Int]
  BY DEF PInv, Typed
<1>3. W \in [Node -> Int] /\ \A m \in Ready \ {n} : W[m] = val[m]
  BY <1>1, <1>2
<1> HIDE DEF W
<1>4. \A k \in 1 .. Len(queue) : queue[k] \in Node
  BY <1>1 DEF Lists
<1>5. Valued(queue, val) /\ Valued(queue, W)
  BY <1>2, <1>3, <1>4 DEF Valued
<1>6. Lists(UpdateItem(queue, W, n), Ready) /\ Ordered(UpdateItem(queue, W, n), W)
  BY <1>1, <1>3, <1>5, UpdateHeap
<1> QED BY <1>6 DEF Fixed, W

LEMMA LeastIsRoot ==
    ASSUME PInv, Queued, subConns # <<>>
    PROVE  Minimum(queue) \in Ready /\ \A m \in Ready : val[Minimum(queue)] <= val[m]
<1>1. Lists(queue, Ready) /\ Ordered(queue, val) /\ Ready \subseteq Node
  BY ReadyLists DEF PInv, Heaped
<1>2. val \in [Node -> Int]
  BY DEF PInv, Typed
<1>3. Valued(queue, val)
  BY <1>1, <1>2 DEF Valued, Lists
<1>4. queue # <<>>
  <2>1. Lists(subConns, Ready)
    BY ReadyLists
  <2>2. subConns[1] \in Ready
    BY <2>1 DEF Lists
  <2> QED BY <1>1, <2>2 DEF Lists, ToSet
<1> QED BY <1>1, <1>3, <1>4, Root

LEMMA PickFewestInv == ASSUME PInv, NEW r \in Request, PickFewest(r) PROVE PInv'
<1> DEFINE n == Minimum(queue)
<1> DEFINE W == [val EXCEPT ![n] = @ + 1]
<1>1. /\ policy = "mc" /\ Queued /\ request[r] = Idle /\ subConns # <<>>
      /\ request' = [request EXCEPT ![r] = Running(n)]
      /\ val' = W /\ queue' = Fixed(W, n)
      /\ policy' = policy /\ subConns' = subConns /\ Ready' = Ready
      /\ ewma' = ewma /\ inflight' = inflight /\ long' = long /\ forcing' = forcing
  BY DEF PickFewest, Starts, Picks, Queued, Ready, roundVars, loadVars
<1>2. n \in Ready
  BY <1>1, LeastIsRoot
<1>3. Ready \subseteq Node /\ val \in [Node -> Int] /\ DOMAIN request = Request
  BY ReadyLists DEF PInv, Typed, Placed
<1> HIDE DEF n
<1>4. Placed'
  BY <1>1, <1>2 DEF PInv, Placed, Rounds
<1>5. Typed'
  <2>1. W \in [Node -> Int]
    BY <1>2, <1>3
  <2> QED BY <1>1, <2>1 DEF PInv, Typed
<1>6. Heaped'
  <2>1. val[n] + 1 \in Int
    BY <1>2, <1>3
  <2>2. Lists(Fixed(W, n), Ready) /\ Ordered(Fixed(W, n), W)
    BY <1>1, <1>2, <2>1, FixedHeap
  <2> HIDE DEF W
  <2> QED BY <1>1, <2>2 DEF Heaped
<1>7. Valid'
  <2>1. ASSUME NEW m \in Ready
        PROVE  W[m] = Calls(m)'
    <3>1. Cardinality(CallsOf(request', m)) = Cardinality(CallsOf(request, m)) + (IF m = n THEN 1 ELSE 0)
      <4>1. request[r].step # "running"
        BY <1>1 DEF Idle
      <4>2. Becomes(request, request', r, Running(n))
        BY <1>1, <1>3 DEF Becomes
      <4> QED BY <4>1, <4>2, CallStarts
    <3>2. Calls(m)' = Cardinality(CallsOf(request', m))
      BY DEF Calls, CallsOf
    <3>3. val[m] = Cardinality(CallsOf(request, m)) /\ val[m] \in Int
      BY <1>1, <1>3, CallsAre DEF PInv, Valid
    <3>4. W[m] = val[m] + (IF m = n THEN 1 ELSE 0)
      BY <1>2, <1>3, <3>3
    <3> QED BY <3>1, <3>2, <3>3, <3>4
  <2> HIDE DEF W
  <2> QED BY <1>1, <2>1 DEF Valid
<1>8. Counting'
  BY <1>1 DEF Counting
<1> QED BY <1>4, <1>5, <1>6, <1>7, <1>8 DEF PInv

LEMMA DoneFewestInv == ASSUME PInv, NEW r \in Request, DoneFewest(r) PROVE PInv'
<1> DEFINE n == request[r].node
<1> DEFINE W == [val EXCEPT ![n] = @ - 1]
<1>1. /\ policy = "mc" /\ Queued /\ request[r].step = "running"
      /\ request' = [request EXCEPT ![r] = Idle]
      /\ val' = W /\ queue' = Fixed(W, n)
      /\ policy' = policy /\ subConns' = subConns /\ Ready' = Ready
      /\ ewma' = ewma /\ inflight' = inflight /\ long' = long /\ forcing' = forcing
  BY DEF DoneFewest, Ends, Queued, Ready, roundVars, loadVars
<1>2. n \in Ready /\ request[r] = Running(n)
  BY <1>1, QueuedCall DEF Idle, Gone
<1>3. Ready \subseteq Node /\ val \in [Node -> Int] /\ DOMAIN request = Request
  BY ReadyLists DEF PInv, Typed, Placed
<1> HIDE DEF n
<1>4. Placed'
  BY <1>1, <1>2 DEF PInv, Placed, Rounds
<1>5. Typed'
  <2>1. W \in [Node -> Int]
    BY <1>2, <1>3
  <2> QED BY <1>1, <2>1 DEF PInv, Typed
<1>6. Heaped'
  <2>1. val[n] - 1 \in Int
    BY <1>2, <1>3
  <2>2. Lists(Fixed(W, n), Ready) /\ Ordered(Fixed(W, n), W)
    BY <1>1, <1>2, <2>1, FixedHeap
  <2> HIDE DEF W
  <2> QED BY <1>1, <2>2 DEF Heaped
<1>7. Valid'
  <2>1. ASSUME NEW m \in Ready
        PROVE  W[m] = Calls(m)'
    <3>1. Cardinality(CallsOf(request', m)) = Cardinality(CallsOf(request, m)) - (IF m = n THEN 1 ELSE 0)
      <4>1. Becomes(request, request', r, Idle)
        BY <1>1, <1>3 DEF Becomes
      <4> QED BY <1>2, <4>1, CallEnds
    <3>2. Calls(m)' = Cardinality(CallsOf(request', m))
      BY DEF Calls, CallsOf
    <3>3. val[m] = Cardinality(CallsOf(request, m)) /\ val[m] \in Int
      BY <1>1, <1>3, CallsAre DEF PInv, Valid
    <3>4. W[m] = val[m] - (IF m = n THEN 1 ELSE 0)
      BY <1>2, <1>3, <3>3
    <3> QED BY <3>1, <3>2, <3>3, <3>4
  <2> HIDE DEF W
  <2> QED BY <1>1, <2>1 DEF Valid
<1>8. Counting'
  BY <1>1 DEF Counting
<1> QED BY <1>4, <1>5, <1>6, <1>7, <1>8 DEF PInv

LEMMA PickFastestInv == ASSUME PInv, NEW r \in Request, PickFastest(r) PROVE PInv'
<1> DEFINE n == Minimum(queue)
<1>1. /\ policy = "mrt" /\ Queued /\ subConns # <<>>
      /\ request' = [request EXCEPT ![r] = Running(n)]
      /\ policy' = policy /\ subConns' = subConns /\ Ready' = Ready /\ val' = val /\ queue' = queue
      /\ ewma' = ewma /\ inflight' = inflight /\ long' = long /\ forcing' = forcing
  BY DEF PickFastest, Starts, Picks, Queued, Ready, roundVars, queueVars, loadVars
<1>2. n \in Ready
  BY <1>1, LeastIsRoot
<1> HIDE DEF n
<1>3. Placed'
  BY <1>1, <1>2 DEF PInv, Placed, Rounds
<1>4. Typed'
  BY <1>1 DEF PInv, Typed
<1>5. Heaped'
  BY <1>1 DEF PInv, Heaped, Queued
<1>6. Valid' /\ Counting'
  BY <1>1 DEF PInv, Valid, Counting
<1> QED BY <1>3, <1>4, <1>5, <1>6 DEF PInv

\* An average lies between what it is the average of.
LEMMA Measured ==
    ASSUME PInv, NEW n \in Node, Measures(n)
    PROVE  \E new \in Fractions : ewma' = [ewma EXCEPT ![n] = new]
<1>1. PICK time \in 0 .. MaxTime :
        \E new \in IF ewma[n] = 0 THEN {Grain * time} ELSE Average(ewma[n], Grain * time) :
            ewma' = [ewma EXCEPT ![n] = new]
  BY DEF Measures
<1> DEFINE measured == Grain * time
<1>2. measured \in Fractions /\ ewma[n] \in Fractions /\ Fractions = 0 .. Grain * MaxTime
  BY FractionsType DEF PInv, Typed, Fractions
<1> HIDE DEF measured
<1>3. Average(ewma[n], measured) \subseteq Fractions
  <2>1. Grain * MaxTime \in Int
    BY GrainAssumption, MaxTimeAssumption
  <2> QED BY <1>2, <2>1 DEF Average
<1>4. PICK new \in IF ewma[n] = 0 THEN {measured} ELSE Average(ewma[n], measured) :
        ewma' = [ewma EXCEPT ![n] = new]
  BY <1>1 DEF measured
<1>5. new \in Fractions
  BY <1>2, <1>3
<1> QED BY <1>4, <1>5

LEMMA DoneFastestInv ==
    ASSUME PInv, NEW r \in Request, NEW failed \in BOOLEAN, DoneFastest(r, failed)
    PROVE  PInv'
<1> DEFINE n == request[r].node
<1>1. /\ policy = "mrt" /\ Queued /\ request[r].step = "running"
      /\ request' = [request EXCEPT ![r] = Idle]
      /\ policy' = policy /\ subConns' = subConns /\ Ready' = Ready
      /\ inflight' = inflight /\ long' = long /\ forcing' = forcing
  BY DEF DoneFastest, Ends, Queued, Ready, roundVars
<1>2. n \in Ready
  BY <1>1, QueuedCall DEF Idle, Gone
<1>3. Ready \subseteq Node /\ val \in [Node -> Int] /\ ewma \in [Node -> Fractions]
  BY ReadyLists DEF PInv, Typed
<1>4. Placed'
  BY <1>1, <1>2 DEF PInv, Placed, Rounds
<1>5. Counting'
  BY <1>1 DEF Counting
<1>6. CASE failed
  <2>1. ewma' = ewma /\ val' = val /\ queue' = queue
    BY <1>6 DEF DoneFastest, queueVars
  <2>2. Typed'
    BY <1>1, <2>1 DEF PInv, Typed
  <2>3. Heaped' /\ Valid'
    BY <1>1, <2>1 DEF PInv, Heaped, Valid, Queued
  <2> QED BY <1>4, <1>5, <2>2, <2>3 DEF PInv
<1>7. CASE ~failed
  <2>1. /\ Measures(n)
        /\ val' = [val EXCEPT ![n] = Micros(ewma'[n])]
        /\ queue' = Fixed(val', n)
    BY <1>7 DEF DoneFastest
  <2> HIDE DEF n
  <2>2. PICK new \in Fractions : ewma' = [ewma EXCEPT ![n] = new]
    BY <1>2, <1>3, <2>1, Measured
  <2>3. ewma' \in [Node -> Fractions] /\ ewma'[n] = new
        /\ \A m \in Ready \ {n} : ewma'[m] = ewma[m]
    BY <1>2, <1>3, <2>2
  <2> DEFINE W == [val EXCEPT ![n] = Micros(new)]
  <2>4. val' = W /\ queue' = Fixed(W, n)
    BY <2>1, <2>3
  <2>5. Micros(new) \in Int
    BY FractionsType
  <2>6. W \in [Node -> Int] /\ W[n] = Micros(new) /\ \A m \in Ready \ {n} : W[m] = val[m]
    BY <1>2, <1>3, <2>5
  <2>7. Lists(Fixed(W, n), Ready) /\ Ordered(Fixed(W, n), W)
    BY <1>1, <1>2, <2>5, FixedHeap
  <2> HIDE DEF W
  <2>8. Typed'
    BY <1>1, <2>3, <2>4, <2>6 DEF PInv, Typed
  <2>9. Heaped'
    BY <1>1, <2>4, <2>7 DEF Heaped
  <2>10. \A m \in Ready : W[m] = Micros(ewma'[m])
    BY <1>1, <2>3, <2>6 DEF PInv, Valid
  <2>11. Valid'
    BY <1>1, <2>4, <2>10 DEF Valid
  <2> QED BY <1>4, <1>5, <2>8, <2>9, <2>11 DEF PInv
<1> QED BY <1>6, <1>7

LEMMA ForcedFinite == IsFiniteSet(ForcedCalls) /\ Cardinality(ForcedCalls) \in Nat
BY RequestAssumption, FS_Subset, FS_CardinalityType DEF ForcedCalls

\* A call chooses.
LEMMA ChosenInv ==
    ASSUME PInv, policy = "p2c", NEW r \in Request, request[r] = Idle,
           NEW n \in Ready, NEW forced \in BOOLEAN,
           request' = [request EXCEPT ![r] = Chosen(n, forced)],
           forcing' = (forcing \/ forced), forced => ~forcing,
           UNCHANGED <<policy, subConns, queueVars, ewma, inflight, long>>
    PROVE  PInv'
<1>1. /\ policy' = policy /\ subConns' = subConns /\ Ready' = Ready /\ val' = val /\ queue' = queue
      /\ ewma' = ewma /\ inflight' = inflight /\ long' = long
  BY DEF queueVars, Ready
<1>2. forcing \in BOOLEAN /\ DOMAIN request = Request
  BY DEF PInv, Typed, Placed
<1>3. Placed'
  BY <1>1 DEF PInv, Placed, Rounds
<1>4. Typed'
  BY <1>1, <1>2 DEF PInv, Typed
<1>5. Heaped' /\ Valid'
  BY <1>1 DEF Heaped, Valid, Queued
<1>6. Becomes(request, request', r, Chosen(n, forced))
  BY <1>2 DEF Becomes
<1>7. \A m : Calls(m)' = Calls(m)
  <2> SUFFICES ASSUME NEW m PROVE CallsOf(request', m) = CallsOf(request, m)
    BY DEF Calls, CallsOf
  <2>1. request[r] # Running(m) /\ Chosen(n, forced) # Running(m)
    BY DEF Idle, Running, Chosen
  <2> QED BY <1>6, <2>1, CallMoves
<1>8. Cardinality(ForcedCalls') = (IF forcing' THEN 1 ELSE 0)
  <2>1. Cardinality(ForcedCalls) = (IF forcing THEN 1 ELSE 0)
    BY DEF PInv, Counting
  <2>2. r \notin ForcedCalls
    BY DEF ForcedCalls, Idle
  <2>3. CASE forced
    <3>1. ForcedCalls' = ForcedCalls \cup {r}
      BY <1>6, <2>3 DEF ForcedCalls, Becomes, Chosen
    <3>2. ~forcing /\ forcing'
      BY <2>3
    <3>3. Cardinality(ForcedCalls') = 1
      BY <2>1, <2>2, <3>1, <3>2, ForcedFinite, FS_AddElement
    <3> QED BY <3>2, <3>3
  <2>4. CASE ~forced
    <3>1. ForcedCalls' = ForcedCalls
      BY <1>6, <2>2, <2>4 DEF ForcedCalls, Becomes, Chosen
    <3> QED BY <1>2, <2>1, <2>4, <3>1
  <2> QED BY <2>3, <2>4
<1>9. Counting'
  BY <1>1, <1>7, <1>8 DEF PInv, Counting
<1> QED BY <1>3, <1>4, <1>5, <1>9 DEF PInv

LEMMA ChooseInv == ASSUME PInv, NEW r \in Request, Choose(r) PROVE PInv'
<1>1. /\ policy = "p2c" /\ request[r] = Idle /\ subConns # <<>>
      /\ UNCHANGED <<policy, subConns, queueVars, ewma, inflight, long>>
  BY DEF Choose, Starts, roundVars
<1>2. forcing \in BOOLEAN
  BY DEF PInv, Typed
<1>3. CASE Len(subConns) = 1
  <2>1. request' = [request EXCEPT ![r] = Chosen(subConns[1], FALSE)] /\ forcing' = forcing
    BY <1>3 DEF Choose
  <2>2. subConns[1] \in Ready
    BY <1>3, ReadyLists DEF Ready, ToSet
  <2>3. forcing' = (forcing \/ FALSE)
    BY <1>2, <2>1
  <2> QED BY <1>1, <2>1, <2>2, <2>3, ChosenInv
<1>4. CASE Len(subConns) # 1
  <2>1. PICK a \in Ready : \E b \in Ready \ {a} :
            LET picked == IF Load(b) > Load(a) THEN a ELSE b
                unpicked == IF picked = a THEN b ELSE a
                forced == unpicked \in long /\ ~forcing
            IN /\ request' = [request EXCEPT ![r] =
                                Chosen(IF forced THEN unpicked ELSE picked, forced)]
               /\ forcing' = (forcing \/ forced)
    BY <1>4 DEF Choose
  <2>2. PICK b \in Ready \ {a} :
            LET picked == IF Load(b) > Load(a) THEN a ELSE b
                unpicked == IF picked = a THEN b ELSE a
                forced == unpicked \in long /\ ~forcing
            IN /\ request' = [request EXCEPT ![r] =
                                Chosen(IF forced THEN unpicked ELSE picked, forced)]
               /\ forcing' = (forcing \/ forced)
    BY <2>1
  <2> DEFINE picked == IF Load(b) > Load(a) THEN a ELSE b
  <2> DEFINE unpicked == IF picked = a THEN b ELSE a
  <2> DEFINE forced == unpicked \in long /\ ~forcing
  <2> DEFINE n == IF forced THEN unpicked ELSE picked
  <2>3. request' = [request EXCEPT ![r] = Chosen(n, forced)] /\ forcing' = (forcing \/ forced)
    BY <2>2
  <2>4. n \in Ready /\ forced \in BOOLEAN /\ (forced => ~forcing)
    OBVIOUS
  <2> HIDE DEF n, forced
  <2> QED BY <1>1, <2>3, <2>4, ChosenInv
<1> QED BY <1>3, <1>4

LEMMA CommitInv == ASSUME PInv, NEW r \in Request, Commit(r) PROVE PInv'
<1>1. PICK n \in Ready : \E forced \in BOOLEAN : policy = "p2c" /\ request[r] = Chosen(n, forced)
  BY DEF PInv, Placed, Commit, Idle, Gone, Running
<1>2. PICK forced \in BOOLEAN : policy = "p2c" /\ request[r] = Chosen(n, forced)
  BY <1>1
<1>3. request[r].node = n /\ request[r].forced = forced /\ request[r].step = "chosen"
  BY <1>2 DEF Chosen
<1>4. /\ request' = [request EXCEPT ![r] = Running(n)]
      /\ inflight' = [inflight EXCEPT ![n] = @ + 1]
      /\ forcing' = (forcing /\ ~forced) /\ long' = long \ {n}
      /\ policy' = policy /\ subConns' = subConns /\ Ready' = Ready
      /\ val' = val /\ ewma' = ewma
  BY <1>3 DEF Commit, Picks, Released, roundVars, queueVars, Ready
<1>5. /\ Ready \subseteq Node /\ inflight \in [Node -> Int] /\ DOMAIN request = Request
      /\ forcing \in BOOLEAN
  BY ReadyLists DEF PInv, Typed, Placed
<1>6. Placed'
  BY <1>4 DEF PInv, Placed, Rounds
<1>7. Typed'
  <2>1. inflight' \in [Node -> Int]
    BY <1>4, <1>5
  <2>2. forcing' \in BOOLEAN
    BY <1>4
  <2> QED BY <1>4, <2>1, <2>2 DEF PInv, Typed
<1>8. Heaped' /\ Valid'
  BY <1>2, <1>4 DEF Heaped, Valid, Queued
<1>9. Becomes(request, request', r, Running(n))
  BY <1>4, <1>5 DEF Becomes
<1>10. ASSUME NEW m \in Ready
       PROVE  inflight'[m] = Calls(m)'
  <2>1. Cardinality(CallsOf(request', m)) = Cardinality(CallsOf(request, m)) + (IF m = n THEN 1 ELSE 0)
    BY <1>3, <1>9, CallStarts
  <2>2. Calls(m)' = Cardinality(CallsOf(request', m))
    BY DEF Calls, CallsOf
  <2>3. inflight[m] = Cardinality(CallsOf(request, m)) /\ inflight[m] \in Int
    BY <1>2, <1>5, CallsAre DEF PInv, Counting
  <2>4. inflight'[m] = inflight[m] + (IF m = n THEN 1 ELSE 0)
    BY <1>4, <1>5, <2>3
  <2> QED BY <2>1, <2>2, <2>3, <2>4
<1>11. Cardinality(ForcedCalls') = (IF forcing' THEN 1 ELSE 0)
  <2>1. Cardinality(ForcedCalls) = (IF forcing THEN 1 ELSE 0)
    BY <1>2 DEF PInv, Counting
  <2>2. ForcedCalls' = ForcedCalls \ {r}
    BY <1>9 DEF ForcedCalls, Becomes, Running
  <2>3. CASE forced
    <3>1. r \in ForcedCalls
      BY <1>3, <2>3 DEF ForcedCalls
    <3>2. Cardinality(ForcedCalls) # 0
      BY <3>1, ForcedFinite, FS_EmptySet
    <3>3. Cardinality(ForcedCalls) = 1
      BY <2>1, <3>2
    <3>4. Cardinality(ForcedCalls') = 0
      <4>1. Cardinality(ForcedCalls \ {r}) = Cardinality(ForcedCalls) - 1
        BY <3>1, ForcedFinite, FS_RemoveElement
      <4> QED BY <2>2, <3>3, <4>1
    <3>5. ~forcing'
      BY <1>4, <2>3
    <3> QED BY <3>4, <3>5
  <2>4. CASE ~forced
    <3>1. ForcedCalls' = ForcedCalls
      BY <1>3, <2>2, <2>4 DEF ForcedCalls
    <3>2. forcing' = forcing
      BY <1>4, <1>5, <2>4
    <3> QED BY <2>1, <3>1, <3>2
  <2> QED BY <2>3, <2>4
<1>12. Counting'
  BY <1>4, <1>10, <1>11 DEF Counting
<1> QED BY <1>6, <1>7, <1>8, <1>12 DEF PInv

LEMMA ElapseInv == ASSUME PInv, NEW n \in Node, Elapse(n) PROVE PInv'
<1>1. /\ policy = "p2c" /\ n \in Ready /\ long' = long \cup {n}
      /\ policy' = policy /\ subConns' = subConns /\ Ready' = Ready /\ request' = request
      /\ val' = val /\ ewma' = ewma /\ inflight' = inflight /\ forcing' = forcing
  BY DEF Elapse, roundVars, queueVars, Ready
<1>2. Placed' /\ Typed'
  BY <1>1 DEF PInv, Placed, Typed, Rounds
<1>3. Heaped' /\ Valid'
  BY <1>1 DEF Heaped, Valid, Queued
<1>4. Counting'
  BY <1>1 DEF PInv, Counting, Calls, ForcedCalls
<1> QED BY <1>2, <1>3, <1>4 DEF PInv

LEMMA DoneChosenInv == ASSUME PInv, NEW r \in Request, DoneChosen(r) PROVE PInv'
<1> DEFINE n == request[r].node
<1>1. /\ policy = "p2c" /\ request[r].step = "running" /\ Measures(n)
      /\ request' = [request EXCEPT ![r] = Idle]
      /\ inflight' = [inflight EXCEPT ![n] = @ - 1]
      /\ policy' = policy /\ subConns' = subConns /\ Ready' = Ready
      /\ val' = val /\ long' = long /\ forcing' = forcing
  BY DEF DoneChosen, Ends, roundVars, queueVars, Ready
<1>2. n \in Ready /\ request[r] = Running(n)
  BY <1>1 DEF PInv, Placed, Rounds, Idle, Gone, Running, Chosen
<1>3. /\ Ready \subseteq Node /\ inflight \in [Node -> Int] /\ DOMAIN request = Request
      /\ ewma \in [Node -> Fractions]
  BY ReadyLists DEF PInv, Typed, Placed
<1> HIDE DEF n
<1>4. Placed'
  BY <1>1 DEF PInv, Placed, Rounds
<1>5. Typed'
  <2>1. PICK new \in Fractions : ewma' = [ewma EXCEPT ![n] = new]
    BY <1>1, <1>2, <1>3, Measured
  <2>2. ewma' \in [Node -> Fractions]
    BY <1>3, <2>1
  <2>3. inflight' \in [Node -> Int]
    BY <1>1, <1>2, <1>3
  <2> QED BY <1>1, <2>2, <2>3 DEF PInv, Typed
<1>6. Heaped' /\ Valid'
  BY <1>1 DEF Heaped, Valid, Queued
<1>7. Becomes(request, request', r, Idle)
  BY <1>1, <1>3 DEF Becomes
<1>8. ASSUME NEW m \in Ready
      PROVE  inflight'[m] = Calls(m)'
  <2>1. Cardinality(CallsOf(request', m)) = Cardinality(CallsOf(request, m)) - (IF m = n THEN 1 ELSE 0)
    BY <1>2, <1>7, CallEnds
  <2>2. Calls(m)' = Cardinality(CallsOf(request', m))
    BY DEF Calls, CallsOf
  <2>3. inflight[m] = Cardinality(CallsOf(request, m)) /\ inflight[m] \in Int
    BY <1>1, <1>3, CallsAre DEF PInv, Counting
  <2>4. inflight'[m] = inflight[m] - (IF m = n THEN 1 ELSE 0)
    BY <1>1, <1>2, <1>3, <2>3
  <2> QED BY <2>1, <2>2, <2>3, <2>4
<1>9. ForcedCalls' = ForcedCalls
  BY <1>1, <1>7 DEF ForcedCalls, Becomes, Idle
<1>10. Counting'
  BY <1>1, <1>8, <1>9 DEF PInv, Counting
<1> QED BY <1>4, <1>5, <1>6, <1>10 DEF PInv

LEMMA DoneGoneInv == ASSUME PInv, NEW r \in Request, DoneGone(r) PROVE PInv'
<1>1. /\ request[r] = Gone /\ request' = [request EXCEPT ![r] = Idle]
      /\ UNCHANGED <<policy, subConns, queue, val, ewma, inflight, long, forcing>> /\ Ready' = Ready
  BY DEF DoneGone, pickerVars, Ready
<1>2. DOMAIN request = Request
  BY DEF PInv, Placed
<1>3. Placed' /\ Typed'
  BY <1>1 DEF PInv, Placed, Typed, Rounds
<1>4. Becomes(request, request', r, Idle)
  BY <1>1, <1>2 DEF Becomes
<1>5. \A m : Calls(m)' = Calls(m)
  <2> SUFFICES ASSUME NEW m PROVE CallsOf(request', m) = CallsOf(request, m)
    BY DEF Calls, CallsOf
  <2>1. request[r] # Running(m) /\ Idle # Running(m)
    BY <1>1 DEF Idle, Running, Gone
  <2> QED BY <1>4, <2>1, CallMoves
<1>6. ForcedCalls' = ForcedCalls
  BY <1>1, <1>4 DEF ForcedCalls, Becomes, Idle, Gone
<1>7. Heaped' /\ Valid' /\ Counting'
  BY <1>1, <1>5, <1>6 DEF PInv, Heaped, Valid, Counting, Queued
<1> QED BY <1>3, <1>7 DEF PInv

\* A pick of a round robin.
LEMMA PickNextInv ==
    ASSUME PInv, Rounds, NEW r \in Request, PickNext(r)
    PROVE  PInv'
<1>1. PICK n : request' = [request EXCEPT ![r] = Running(n)]
  BY DEF PickNext, Picks
<1>2. Running(n).step = "running"
  BY DEF Running
<1>3. UNCHANGED <<policy, subConns, queueVars, loadVars>>
  BY DEF PickNext
<1> QED BY <1>1, <1>2, <1>3, RoundInv

LEMMA NextInv == PInv /\ [Next]_vars => PInv'
<1> SUFFICES ASSUME PInv, [Next]_vars PROVE PInv'
  OBVIOUS
<1>1. CASE Build
  BY <1>1, BuildInv
<1>2. ASSUME NEW r \in Request, PickRoundRobin(r) \/ PickWeighted(r) \/ PickRandom(r)
      PROVE  PInv'
  <2>1. Rounds /\ PickNext(r)
    BY <1>2 DEF PickRoundRobin, PickWeighted, PickRandom, Rounds
  <2> QED BY <2>1, PickNextInv
<1>3. ASSUME NEW r \in Request, DoneUncounted(r)
      PROVE  PInv'
  <2>1. /\ Rounds /\ request' = [request EXCEPT ![r] = Idle]
        /\ UNCHANGED <<policy, subConns, queueVars, loadVars>>
    BY <1>3 DEF DoneUncounted, Ends, Rounds, roundVars
  <2> QED BY <2>1, RoundInv
<1>4. ASSUME NEW r \in Request, PickFewest(r)
      PROVE  PInv'
  BY <1>4, PickFewestInv
<1>5. ASSUME NEW r \in Request, PickFastest(r)
      PROVE  PInv'
  BY <1>5, PickFastestInv
<1>6. ASSUME NEW r \in Request, Choose(r)
      PROVE  PInv'
  BY <1>6, ChooseInv
<1>7. ASSUME NEW r \in Request, Commit(r)
      PROVE  PInv'
  BY <1>7, CommitInv
<1>8. ASSUME NEW r \in Request, DoneFewest(r)
      PROVE  PInv'
  BY <1>8, DoneFewestInv
<1>9. ASSUME NEW r \in Request, NEW failed \in BOOLEAN, DoneFastest(r, failed)
      PROVE  PInv'
  BY <1>9, DoneFastestInv
<1>10. ASSUME NEW r \in Request, DoneChosen(r)
       PROVE  PInv'
  BY <1>10, DoneChosenInv
<1>11. ASSUME NEW r \in Request, DoneGone(r)
       PROVE  PInv'
  BY <1>11, DoneGoneInv
<1>12. ASSUME NEW n \in Node, Elapse(n)
       PROVE  PInv'
  BY <1>12, ElapseInv
<1>13. CASE UNCHANGED vars
  BY <1>13 DEF vars, pickerVars, PInv, Placed, Typed, Heaped, Valid, Counting, Rounds, Queued,
               Ready, Calls, ForcedCalls
<1> QED BY <1>1, <1>2, <1>3, <1>4, <1>5, <1>6, <1>7, <1>8, <1>9, <1>10, <1>11, <1>12, <1>13 DEF Next

\* The invariant holds for any nodes, weights and calls: among it, that the heap of mc
\* and mrt has every READY node once and is in order at every step.
THEOREM PickersInvariant == Spec => []PInv
BY InitInv, NextInv, PTL DEF Spec

\* The state every policy picks by has the right type, and p2c's counters are those of
\* the calls under way, its flag that of the one forced pick, whatever calls choose,
\* commit and end in between.
THEOREM CountsAlwaysKept == Spec => []CountsKept
<1>1. PInv => CountsKept
  <2> SUFFICES ASSUME PInv PROVE CountsKept
    OBVIOUS
  <2>1. Queued => ToSet(queue) = Ready /\ Len(queue) = Len(subConns)
    <3> SUFFICES ASSUME Queued PROVE ToSet(queue) = Ready /\ Len(queue) = Len(subConns)
      OBVIOUS
    <3>1. Lists(queue, Ready) /\ Lists(subConns, Ready) /\ IsFiniteSet(Ready)
      BY ReadyLists DEF PInv, Heaped
    <3>2. Len(queue) = Cardinality(Ready) /\ Len(subConns) = Cardinality(Ready)
      BY <3>1, ListsLength
    <3> QED BY <3>1, <3>2 DEF Lists
  <2>2. TypeOK
    BY <2>1 DEF PInv, Typed, TypeOK
  <2>3. CountsExact
    BY DEF PInv, Counting, CountsExact, ForcedCalls
  <2> QED BY <2>2, <2>3 DEF CountsKept
<1> QED BY <1>1, PickersInvariant, PTL

\* The node mc picks has the fewest calls under way, the one mrt picks the lowest
\* average in whole microseconds, however many nodes there are and in whatever order calls
\* start and end.
THEOREM LeastAlwaysPicked == Spec => LeastPicked
<1>1. PInv /\ [Next]_vars =>
        \A r \in Request :
            Starts(r) /\ Queued /\ request'[r].step = "running" =>
                \A m \in Ready :
                    LET n == request'[r].node
                    IN IF policy = "mc" THEN Calls(n) <= Calls(m)
                       ELSE Micros(ewma[n]) <= Micros(ewma[m])
  <2> SUFFICES ASSUME PInv, [Next]_vars, NEW r \in Request, Starts(r), Queued,
                      request'[r].step = "running", NEW m \in Ready
               PROVE  IF policy = "mc" THEN Calls(request'[r].node) <= Calls(m)
                      ELSE Micros(ewma[request'[r].node]) <= Micros(ewma[m])
    OBVIOUS
  <2>1. request[r] = Idle /\ subConns # <<>> /\ DOMAIN request = Request
    BY DEF Starts, PInv, Placed
  <2>2. request'[r] # Idle /\ request'[r] # Gone
    BY DEF Idle, Gone
  <2>3. request'[r].node = Minimum(queue)
    <3>1. CASE Build
      BY <2>1, <2>2, <3>1 DEF Build
    <3>2. ASSUME NEW o \in Request, PickFewest(o) \/ PickFastest(o)
          PROVE  request'[r].node = Minimum(queue)
      <4>1. request' = [request EXCEPT ![o] = Running(Minimum(queue))]
        BY <3>2 DEF PickFewest, PickFastest, Picks
      <4>2. o = r
        BY <2>1, <2>2, <4>1
      <4> QED BY <2>1, <4>1, <4>2 DEF Running
    <3>3. ASSUME NEW o \in Request,
                 \/ DoneFewest(o) \/ (\E failed \in BOOLEAN : DoneFastest(o, failed)) \/ DoneGone(o)
          PROVE  FALSE
      <4>1. request' = [request EXCEPT ![o] = Idle]
        BY <3>3 DEF DoneFewest, DoneFastest, DoneGone, Ends
      <4> QED BY <2>1, <2>2, <4>1
    <3>4. ASSUME NEW o \in Request,
                 \/ PickRoundRobin(o) \/ PickWeighted(o) \/ PickRandom(o) \/ DoneUncounted(o)
                 \/ Choose(o) \/ DoneChosen(o)
          PROVE  FALSE
      BY <3>4 DEF PickRoundRobin, PickWeighted, PickRandom, DoneUncounted, Choose, DoneChosen, Queued
    <3>5. ASSUME NEW o \in Request, Commit(o)
          PROVE  FALSE
      <4>1. request[o].step = "chosen"
        BY <3>5 DEF Commit
      <4> QED BY <4>1, QueuedCall DEF Idle, Gone
    <3>6. ASSUME NEW n \in Node, Elapse(n)
          PROVE  FALSE
      BY <3>6 DEF Elapse, Queued
    <3>7. CASE UNCHANGED vars
      BY <2>1, <2>2, <3>7 DEF vars
    <3> QED BY <3>1, <3>2, <3>3, <3>4, <3>5, <3>6, <3>7 DEF Next
  <2>4. Minimum(queue) \in Ready /\ val[Minimum(queue)] <= val[m]
    BY <2>1, LeastIsRoot
  <2> QED BY <2>3, <2>4 DEF PInv, Valid, Queued
<1> QED BY <1>1, PickersInvariant, PTL DEF Spec, LeastPicked

-----------------------------------------------------------------------------
(* Arithmetic *)

LEMMA LeastOf ==
    ASSUME NEW T \in SUBSET Nat, T # {}
    PROVE  Min(T) \in T /\ \A t \in T : Min(T) <= t
<1>1. PICK x \in T : \A y \in T : ~(<<y, x>> \in OpToRel(<, Nat))
  BY NatLessThanWellFounded, WFMin
<1>2. \A y \in T : x <= y
  <2> SUFFICES ASSUME NEW y \in T PROVE x <= y
    OBVIOUS
  <2>1. x \in Nat /\ y \in Nat
    OBVIOUS
  <2>2. ~(y < x)
    BY <1>1, <2>1 DEF OpToRel
  <2> QED BY <2>1, <2>2
<1> QED BY <1>2 DEF Min

LEMMA GreatestOf ==
    ASSUME NEW m \in Nat, NEW T \in SUBSET (0 .. m), T # {}
    PROVE  Max(T) \in T /\ \A t \in T : t <= Max(T)
<1> DEFINE U == {m - t : t \in T}
<1>1. U \in SUBSET Nat /\ U # {}
  <2>1. \A t \in T : m - t \in Nat
    OBVIOUS
  <2>2. U \in SUBSET Nat
    BY <2>1
  <2>3. U # {}
    OBVIOUS
  <2> QED BY <2>2, <2>3
<1>2. PICK u \in U : \A v \in U : ~(<<v, u>> \in OpToRel(<, Nat))
  <2> HIDE DEF U
  <2> QED BY <1>1, NatLessThanWellFounded, WFMin
<1>3. PICK x \in T : u = m - x
  OBVIOUS
<1>4. \A y \in T : x >= y
  <2> SUFFICES ASSUME NEW y \in T PROVE x >= y
    OBVIOUS
  <2>1. m - y \in U /\ m - y \in Nat /\ u \in Nat
    BY <1>1
  <2>2. ~(m - y < u)
    BY <1>2, <2>1 DEF OpToRel
  <2> QED BY <1>3, <2>2
<1> QED BY <1>4 DEF Max

\* Division and multiples.
LEMMA Multiples ==
    ASSUME NEW m \in Nat, m > 0, NEW x \in Int
    PROVE  /\ x \div m \in Int /\ x % m \in 0 .. m - 1
           /\ x = (x \div m) * m + (x % m)
OBVIOUS

LEMMA Quotient ==
    ASSUME NEW m \in Nat, m > 0, NEW x \in Int, NEW a \in Int, a * m <= x, x < a * m + m
    PROVE  x \div m = a /\ x % m = x - a * m
<1> DEFINE b == x \div m
<1>1. b \in Int /\ x % m \in 0 .. m - 1 /\ x = b * m + (x % m)
  BY Multiples
<1> HIDE DEF b
<1>2. a * m < b * m + m /\ b * m < a * m + m
  <2>1. a * m \in Int /\ b * m \in Int
    BY <1>1
  <2> QED BY <1>1, <2>1
<1>3. a = b
  BY <1>1, <1>2
<1> QED BY <1>1, <1>3 DEF b

LEMMA Same ==
    ASSUME NEW m \in Nat, m > 0, NEW x \in Int, 0 <= x, x < m
    PROVE  x % m = x
OBVIOUS

LEMMA Period ==
    ASSUME NEW m \in Nat, m > 0, NEW x \in Int, NEW k \in Int
    PROVE  (x + k * m) % m = x % m
<1> DEFINE a == x \div m
<1>1. a \in Int /\ x % m \in 0 .. m - 1 /\ x = a * m + (x % m)
  BY Multiples
<1> HIDE DEF a
<1> DEFINE b == a + k
<1>2. b \in Int /\ b * m = a * m + k * m /\ k * m \in Int /\ a * m \in Int /\ b * m \in Int
  BY <1>1
<1> HIDE DEF b
<1>3. b * m <= x + k * m /\ x + k * m < b * m + m /\ x + k * m \in Int
  BY <1>1, <1>2
<1>4. (x + k * m) % m = (x + k * m) - b * m
  BY <1>2, <1>3, Quotient
<1> QED BY <1>1, <1>2, <1>4

\* The numbers an int32 holds are kept, and others by what they are over.
LEMMA WrappedKeeps ==
    ASSUME NEW x \in -(MaxInt + 1) .. MaxInt
    PROVE  Wrapped(x) = x
<1>1. 2 * (MaxInt + 1) \in Nat /\ 2 * (MaxInt + 1) > 0 /\ MaxInt \in Nat
  BY MaxIntAssumption
<1>2. x + MaxInt + 1 \in Int /\ 0 <= x + MaxInt + 1 /\ x + MaxInt + 1 < 2 * (MaxInt + 1)
  BY <1>1
<1>3. (x + MaxInt + 1) % (2 * (MaxInt + 1)) = x + MaxInt + 1
  BY <1>1, <1>2, Same
<1> QED BY <1>1, <1>3 DEF Wrapped

LEMMA WrappedOff ==
    ASSUME NEW x \in Int
    PROVE  /\ Wrapped(x) \in -(MaxInt + 1) .. MaxInt
           /\ \E k \in Int : x = Wrapped(x) + k * (2 * (MaxInt + 1))
<1> DEFINE m == 2 * (MaxInt + 1)
<1> DEFINE y == x + MaxInt + 1
<1>1. m \in Nat /\ m > 0 /\ MaxInt \in Nat /\ m = 2 * (MaxInt + 1) /\ y \in Int /\ y = x + MaxInt + 1
  BY MaxIntAssumption
<1>2. Wrapped(x) = (y % m) - (MaxInt + 1)
  BY DEF Wrapped
<1> HIDE DEF m, y
<1>3. y \div m \in Int /\ y % m \in 0 .. m - 1 /\ y = (y \div m) * m + (y % m)
  BY <1>1, Multiples
<1>4. Wrapped(x) \in -(MaxInt + 1) .. MaxInt
  BY <1>1, <1>2, <1>3
<1>5. x = Wrapped(x) + (y \div m) * m
  <2>1. (y \div m) * m \in Int
    BY <1>1, <1>3
  <2> QED BY <1>1, <1>2, <1>3, <2>1
<1> QED BY <1>3, <1>4, <1>5 DEF m

LEMMA WrappedPeriod ==
    ASSUME NEW x \in Int, NEW k \in Int
    PROVE  Wrapped(x + k * (2 * (MaxInt + 1))) = Wrapped(x)
<1> DEFINE m == 2 * (MaxInt + 1)
<1>1. m \in Nat /\ m > 0 /\ MaxInt \in Nat
  BY MaxIntAssumption
<1>2. ((x + MaxInt + 1) + k * m) % m = (x + MaxInt + 1) % m
  <2> HIDE DEF m
  <2>1. x + MaxInt + 1 \in Int
    BY <1>1
  <2> QED BY <1>1, <2>1, Period
<1>3. (x + k * m) + MaxInt + 1 = (x + MaxInt + 1) + k * m
  <2> HIDE DEF m
  <2>1. k * m \in Int
    BY <1>1
  <2> QED BY <1>1, <2>1
<1> HIDE DEF m
<1>4. Wrapped(x + k * m) = Wrapped(x)
  BY <1>2, <1>3 DEF Wrapped, m
<1> QED BY <1>4 DEF m

-----------------------------------------------------------------------------
(* Weights *)

Whole(ws) ==
    /\ Len(ws) \in Nat /\ DOMAIN ws = 1 .. Len(ws)
    /\ \A k \in 1 .. Len(ws) : ws[k] \in Int /\ ws[k] <= MaxInt /\ -(MaxInt + 1) <= ws[k]

\* The greatest weight is one of them; the gcd divides every positive weight.
LEMMA GreatestWeight ==
    ASSUME NEW ws, Whole(ws), Positive(ws) # {}
    PROVE  /\ MaxWeight(ws) \in Nat /\ 1 <= MaxWeight(ws)
           /\ \E k \in 1 .. Len(ws) : ws[k] = MaxWeight(ws)
           /\ \A k \in 1 .. Len(ws) : ws[k] <= MaxWeight(ws)
<1>1. Positive(ws) \in SUBSET (0 .. MaxInt) /\ MaxInt \in Nat
  BY MaxIntAssumption DEF Whole, Positive, ToSet
<1>2. Max(Positive(ws)) \in Positive(ws) /\ \A t \in Positive(ws) : t <= Max(Positive(ws))
  BY <1>1, GreatestOf
<1>3. MaxWeight(ws) \in Positive(ws) /\ \A t \in Positive(ws) : t <= MaxWeight(ws)
  BY <1>2 DEF MaxWeight
<1>4. MaxWeight(ws) \in Nat /\ 1 <= MaxWeight(ws)
  <2>1. MaxWeight(ws) \in 0 .. MaxInt /\ MaxWeight(ws) > 0
    BY <1>1, <1>3 DEF Positive
  <2> QED BY <1>1, <2>1
<1>5. \E k \in 1 .. Len(ws) : ws[k] = MaxWeight(ws)
  BY <1>3 DEF Positive, ToSet, Whole
<1>6. ASSUME NEW k \in 1 .. Len(ws) PROVE ws[k] <= MaxWeight(ws)
  <2>1. CASE ws[k] > 0
    <3>1. ws[k] \in Positive(ws)
      BY <2>1 DEF Positive, ToSet, Whole
    <3> QED BY <1>3, <3>1
  <2>2. CASE ~(ws[k] > 0)
    <3>1. ws[k] \in Int
      BY DEF Whole
    <3> QED BY <1>4, <2>2, <3>1
  <2> QED BY <2>1, <2>2
<1> QED BY <1>4, <1>5, <1>6

LEMMA GcdDivides ==
    ASSUME NEW ws, Whole(ws), Positive(ws) # {}
    PROVE  /\ GCD(ws) \in Nat /\ 1 <= GCD(ws) /\ GCD(ws) <= MaxWeight(ws)
           /\ \A k \in 1 .. Len(ws) : ws[k] > 0 => ws[k] % GCD(ws) = 0
<1> DEFINE M == MaxWeight(ws)
<1> DEFINE T == {0} \cup {d \in 1 .. M : \A w \in Positive(ws) : w % d = 0}
<1>1. M \in Nat /\ 1 <= M
  BY GreatestWeight
<1>2. \A w \in Positive(ws) : w \in Int
  BY DEF Positive, ToSet, Whole
<1>3. GCD(ws) = Max(T)
  BY DEF GCD
<1>4. 1 \in T
  <2>1. \A w \in Positive(ws) : w % 1 = 0
    BY <1>2
  <2> QED BY <1>1, <2>1
<1>5. T \in SUBSET (0 .. M)
  BY <1>1
<1>6. Max(T) \in T /\ 1 <= Max(T)
  <2> HIDE DEF T
  <2> QED BY <1>1, <1>4, <1>5, GreatestOf
<1>7. GCD(ws) \in 1 .. M /\ \A w \in Positive(ws) : w % GCD(ws) = 0
  BY <1>3, <1>6
<1>8. ASSUME NEW k \in 1 .. Len(ws), ws[k] > 0 PROVE ws[k] % GCD(ws) = 0
  <2>1. ws[k] \in Positive(ws)
    BY <1>8 DEF Positive, ToSet, Whole
  <2> QED BY <1>7, <2>1
<1> QED BY <1>1, <1>7, <1>8

\* Alone, a weight is picked once in its cycle.
LEMMA GcdAlone ==
    ASSUME NEW ws, Whole(ws), Len(ws) = 1, Positive(ws) # {}
    PROVE  Share(ws, 0) = 1
<1> DEFINE w == ws[1]
<1>1. MaxWeight(ws) = w /\ w \in Nat /\ 1 <= w
  BY GreatestWeight
<1>2. Positive(ws) = {w}
  BY <1>1 DEF Positive, ToSet, Whole
<1> DEFINE T == {0} \cup {d \in 1 .. w : \A v \in Positive(ws) : v % d = 0}
<1>3. GCD(ws) = Max(T)
  BY <1>1 DEF GCD
<1> HIDE DEF w
<1>4. w \div w = 1 /\ w % w = 0
  <2>1. 1 * w <= w /\ w < 1 * w + w
    BY <1>1
  <2> QED BY <1>1, <2>1, Quotient
<1>5. w \in T /\ T \in SUBSET (0 .. w)
  BY <1>1, <1>2, <1>4
<1>6. Max(T) \in T /\ w <= Max(T)
  <2> HIDE DEF T
  <2> QED BY <1>1, <1>5, GreatestOf
<1>7. GCD(ws) = w
  BY <1>1, <1>3, <1>5, <1>6
<1>8. ws[0 + 1] = w /\ w > 0
  BY <1>1 DEF w
<1> QED BY <1>4, <1>7, <1>8 DEF Share

-----------------------------------------------------------------------------
(* A cycle of weighted round robin *)

LEMMA Multiple ==
    ASSUME NEW g \in Nat, g > 0, NEW x \in Int, x % g = 0
    PROVE  /\ x \div g \in Int /\ (x \div g) * g \in Int /\ x = (x \div g) * g
           /\ x > 0 => x >= g /\ x \div g >= 1
           /\ (x - g) % g = 0 /\ (x - g) \div g = (x \div g) - 1
<1> DEFINE a == x \div g
<1>1. a \in Int /\ x = a * g + (x % g)
  BY Multiples
<1> HIDE DEF a
<1>2. x = a * g /\ a * g \in Int
  BY <1>1
<1>3. ASSUME x > 0 PROVE x >= g /\ a >= 1
  <2>1. a >= 1
    <3>1. a <= 0 => a * g <= 0
      BY <1>1
    <3> QED BY <1>1, <1>2, <1>3, <3>1
  <2>2. a * g >= 1 * g
    BY <1>1, <2>1
  <2> QED BY <1>2, <2>1, <2>2
<1>4. (x - g) % g = 0 /\ (x - g) \div g = a - 1
  <2>1. (a - 1) * g = a * g - g /\ a - 1 \in Int
    BY <1>1
  <2> DEFINE b == a - 1
  <2>2. b \in Int /\ b * g = x - g /\ x - g \in Int
    BY <1>2, <2>1
  <2> HIDE DEF b
  <2>3. b * g <= x - g /\ x - g < b * g + g
    BY <2>2
  <2>4. (x - g) \div g = b /\ (x - g) % g = (x - g) - b * g
    BY <2>2, <2>3, Quotient
  <2> QED BY <2>2, <2>4 DEF b
<1> QED BY <1>1, <1>2, <1>3, <1>4 DEF a

LEMMA MultipleOrder ==
    ASSUME NEW g \in Nat, g > 0, NEW x \in Int, x % g = 0, NEW y \in Int, y % g = 0
    PROVE  /\ x <= y => x \div g <= y \div g
           /\ x < y => x <= y - g
<1> DEFINE a == x \div g
<1> DEFINE b == y \div g
<1>1. a \in Int /\ b \in Int /\ x = a * g /\ y = b * g /\ a * g \in Int /\ b * g \in Int
  BY Multiple
<1> HIDE DEF a, b
<1>2. ASSUME x <= y PROVE a <= b
  <2>1. b < a => b * g < a * g
    BY <1>1
  <2> QED BY <1>1, <1>2, <2>1
<1>3. ASSUME x < y PROVE x <= y - g
  <2>1. b <= a => b * g <= a * g
    BY <1>1
  <2>2. a + 1 <= b
    BY <1>1, <1>3, <2>1
  <2>3. (a + 1) * g <= b * g
    BY <1>1, <2>2
  <2>4. (a + 1) * g = a * g + g
    BY <1>1
  <2> QED BY <1>1, <2>3, <2>4
<1> QED BY <1>2, <1>3 DEF a, b

\* The weight of an index.
WeightAt(ws, j) == ws[j + 1]

Turns(ws, x) == x \div GCD(ws)
IsTurn(ws, x) == x \in Int /\ x % GCD(ws) = 0

\* The bar is one of M, M - g, .. g, and the index reaches it; if no weight is positive
\* it stays 0.
RoundState(ws, s) ==
    /\ s.i \in 0 .. Len(ws) - 1
    /\ s.cw \in Int
    /\ Positive(ws) = {} => s.cw = 0
    /\ Positive(ws) # {} =>
        /\ 1 <= s.cw /\ s.cw <= MaxWeight(ws)
        /\ IsTurn(ws, s.cw)
        /\ WeightAt(ws, s.i) >= s.cw

\* How often an index has been picked in the cycle before a state of the wrr: once for
\* every higher bar it reaches, and once more if it comes before the state's index.
CountAt(ws, s, j) ==
    IF WeightAt(ws, j) < s.cw THEN 0
    ELSE Turns(ws, WeightAt(ws, j)) - Turns(ws, s.cw) + (IF j < s.i THEN 1 ELSE 0)

LEMMA TurnsOf ==
    ASSUME NEW ws, Whole(ws), Positive(ws) # {}
    PROVE  /\ \A x : IsTurn(ws, x) =>
                /\ x \in Int /\ Turns(ws, x) \in Int
                /\ x > 0 => x >= GCD(ws) /\ Turns(ws, x) >= 1
                /\ IsTurn(ws, x - GCD(ws)) /\ Turns(ws, x - GCD(ws)) = Turns(ws, x) - 1
           /\ \A x, y : IsTurn(ws, x) /\ IsTurn(ws, y) =>
                /\ x <= y => Turns(ws, x) <= Turns(ws, y)
                /\ x < y => x <= y - GCD(ws)
           /\ GCD(ws) \in Nat /\ 1 <= GCD(ws)
<1>1. GCD(ws) \in Nat /\ GCD(ws) > 0 /\ 1 <= GCD(ws)
  BY GcdDivides
<1>2. ASSUME NEW x, IsTurn(ws, x)
      PROVE  /\ x \in Int /\ Turns(ws, x) \in Int
             /\ x > 0 => x >= GCD(ws) /\ Turns(ws, x) >= 1
             /\ IsTurn(ws, x - GCD(ws)) /\ Turns(ws, x - GCD(ws)) = Turns(ws, x) - 1
  <2>1. x \in Int /\ x % GCD(ws) = 0 /\ x - GCD(ws) \in Int
    BY <1>1, <1>2 DEF IsTurn
  <2> QED BY <1>1, <2>1, Multiple DEF IsTurn, Turns
<1>3. ASSUME NEW x, NEW y, IsTurn(ws, x), IsTurn(ws, y)
      PROVE  /\ x <= y => Turns(ws, x) <= Turns(ws, y)
             /\ x < y => x <= y - GCD(ws)
  <2>1. x \in Int /\ x % GCD(ws) = 0 /\ y \in Int /\ y % GCD(ws) = 0
    BY <1>3 DEF IsTurn
  <2> QED BY <1>1, <2>1, MultipleOrder DEF Turns
<1> QED BY <1>1, <1>2, <1>3

\* The weights in terms of turns.
LEMMA WeightTurns ==
    ASSUME NEW ws, Whole(ws), Positive(ws) # {}, NEW j \in 0 .. Len(ws) - 1
    PROVE  /\ WeightAt(ws, j) \in Int /\ WeightAt(ws, j) <= MaxWeight(ws)
           /\ WeightAt(ws, j) > 0 => IsTurn(ws, WeightAt(ws, j))
           /\ Share(ws, j) = IF WeightAt(ws, j) > 0 THEN Turns(ws, WeightAt(ws, j)) ELSE 0
<1>1. j + 1 \in 1 .. Len(ws) /\ Len(ws) \in Nat
  BY DEF Whole
<1>2. WeightAt(ws, j) \in Int
  BY <1>1 DEF Whole, WeightAt
<1> QED BY <1>1, <1>2, GreatestWeight, GcdDivides DEF IsTurn, Turns, Share, WeightAt

LEMMA FirstReaching ==
    ASSUME NEW ws, Whole(ws), NEW from, NEW bar, Reaching(ws, from, bar) # {}
    PROVE  LET first == Min(Reaching(ws, from, bar))
           IN /\ first \in 0 .. Len(ws) - 1 /\ from <= first /\ WeightAt(ws, first) >= bar
              /\ \A j \in 0 .. Len(ws) - 1 : from <= j /\ WeightAt(ws, j) >= bar => first <= j
<1> DEFINE T == Reaching(ws, from, bar)
<1>1. T \in SUBSET Nat /\ T # {}
  BY DEF Whole, Reaching
<1>2. Min(T) \in T /\ \A t \in T : Min(T) <= t
  <2> HIDE DEF T
  <2> QED BY <1>1, LeastOf
<1> QED BY <1>2 DEF Reaching, WeightAt

\* The index a lower bar starts with: the first one that reaches it.
LEMMA SomeReaching ==
    ASSUME NEW ws, Whole(ws), Positive(ws) # {}, NEW bar \in Int, bar <= MaxWeight(ws)
    PROVE  Reaching(ws, 0, bar) # {}
<1>1. PICK k \in 1 .. Len(ws) : ws[k] = MaxWeight(ws)
  BY GreatestWeight
<1>2. MaxWeight(ws) \in Nat /\ Len(ws) \in Nat
  BY GreatestWeight DEF Whole
<1>3. k - 1 \in 0 .. Len(ws) - 1 /\ (k - 1) + 1 = k /\ 0 <= k - 1
  BY <1>2
<1>4. k - 1 \in Reaching(ws, 0, bar)
  BY <1>1, <1>2, <1>3 DEF Reaching
<1> QED BY <1>4

\* At the first index of a bar, no index has been picked at that bar.
LEMMA BarStarts ==
    ASSUME NEW ws, Whole(ws), Positive(ws) # {}, NEW bar, IsTurn(ws, bar),
           1 <= bar, bar <= MaxWeight(ws), NEW t,
           t.i = Min(Reaching(ws, 0, bar)), t.cw = bar
    PROVE  /\ RoundState(ws, t)
           /\ \A j \in 0 .. Len(ws) - 1 :
                CountAt(ws, t, j) = IF WeightAt(ws, j) < bar THEN 0
                                    ELSE Turns(ws, WeightAt(ws, j)) - Turns(ws, bar)
<1>1. bar \in Int /\ Turns(ws, bar) \in Int
  BY TurnsOf
<1>2. Reaching(ws, 0, bar) # {}
  BY <1>1, SomeReaching
<1>3. /\ t.i \in 0 .. Len(ws) - 1 /\ WeightAt(ws, t.i) >= bar
      /\ \A j \in 0 .. Len(ws) - 1 : 0 <= j /\ WeightAt(ws, j) >= bar => t.i <= j
  BY <1>2, FirstReaching
<1>4. RoundState(ws, t)
  BY <1>1, <1>3 DEF RoundState
<1>5. ASSUME NEW j \in 0 .. Len(ws) - 1
      PROVE  CountAt(ws, t, j) = IF WeightAt(ws, j) < bar THEN 0
                                 ELSE Turns(ws, WeightAt(ws, j)) - Turns(ws, bar)
  <2>1. WeightAt(ws, j) \in Int /\ (WeightAt(ws, j) > 0 => IsTurn(ws, WeightAt(ws, j)))
    BY WeightTurns
  <2>2. CASE WeightAt(ws, j) < bar
    BY <2>2 DEF CountAt
  <2>3. CASE ~(WeightAt(ws, j) < bar)
    <3>1. ~(j < t.i)
      BY <1>1, <1>3, <2>1, <2>3
    <3>2. IsTurn(ws, WeightAt(ws, j))
      BY <1>1, <2>1, <2>3
    <3>3. Turns(ws, WeightAt(ws, j)) \in Int
      BY <3>2, TurnsOf
    <3> QED BY <1>1, <2>3, <3>1, <3>3 DEF CountAt
  <2> QED BY <2>2, <2>3
<1> QED BY <1>4, <1>5

LEMMA GreatestTurn ==
    ASSUME NEW ws, Whole(ws), Positive(ws) # {}
    PROVE  /\ MaxWeight(ws) \in Nat /\ 1 <= MaxWeight(ws)
           /\ IsTurn(ws, MaxWeight(ws)) /\ Turns(ws, MaxWeight(ws)) \in Int
<1>1. PICK k \in 1 .. Len(ws) : ws[k] = MaxWeight(ws)
  BY GreatestWeight
<1>2. MaxWeight(ws) \in Nat /\ 1 <= MaxWeight(ws) /\ Len(ws) \in Nat
  BY GreatestWeight DEF Whole
<1>3. k - 1 \in 0 .. Len(ws) - 1 /\ (k - 1) + 1 = k
  BY <1>2
<1>4. IsTurn(ws, ws[k])
  <2>1. WeightAt(ws, k - 1) > 0 => IsTurn(ws, WeightAt(ws, k - 1))
    BY <1>3, WeightTurns
  <2>2. WeightAt(ws, k - 1) = ws[k]
    BY <1>3 DEF WeightAt
  <2> QED BY <1>1, <1>2, <2>1, <2>2
<1> QED BY <1>1, <1>2, <1>4, TurnsOf

\* The cycle starts with the greatest weight.
LEMMA WrrFirst ==
    ASSUME NEW ws, Whole(ws), Positive(ws) # {}
    PROVE  LET t == WrrNext(ws, WrrStart(ws))
           IN RoundState(ws, t) /\ \A j \in 0 .. Len(ws) - 1 : CountAt(ws, t, j) = 0
<1> DEFINE t == WrrNext(ws, WrrStart(ws))
<1> DEFINE M == MaxWeight(ws)
<1>1. M \in Nat /\ 1 <= M /\ IsTurn(ws, M) /\ Turns(ws, M) \in Int
  BY GreatestTurn
<1>2. GCD(ws) \in Nat /\ 1 <= GCD(ws)
  BY TurnsOf
<1>3. t.i = Min(Reaching(ws, 0, M)) /\ t.cw = M
  <2>1. WrrStart(ws).i = -1 /\ WrrStart(ws).cw = 0
    BY DEF WrrStart
  <2>2. -1 < 0 /\ ~(0 - GCD(ws) > 0) /\ M # 0
    BY <1>1, <1>2
  <2> QED BY <2>1, <2>2 DEF WrrNext
<1> HIDE DEF t
<1>4. /\ RoundState(ws, t)
      /\ \A j \in 0 .. Len(ws) - 1 :
            CountAt(ws, t, j) = IF WeightAt(ws, j) < M THEN 0 ELSE Turns(ws, WeightAt(ws, j)) - Turns(ws, M)
  BY <1>1, <1>3, BarStarts
<1>5. ASSUME NEW j \in 0 .. Len(ws) - 1 PROVE CountAt(ws, t, j) = 0
  <2>1. WeightAt(ws, j) \in Int /\ WeightAt(ws, j) <= M
    BY WeightTurns
  <2>2. ~(WeightAt(ws, j) < M) => WeightAt(ws, j) = M
    BY <1>1, <2>1
  <2> QED BY <1>1, <1>4, <2>2
<1> QED BY <1>4, <1>5 DEF t

LEMMA StateTurns ==
    ASSUME NEW ws, Whole(ws), Positive(ws) # {}, NEW s, RoundState(ws, s)
    PROVE  /\ s.i \in 0 .. Len(ws) - 1 /\ s.i \in Nat /\ Len(ws) \in Nat
           /\ s.cw \in Int /\ 1 <= s.cw /\ s.cw <= MaxWeight(ws)
           /\ IsTurn(ws, s.cw) /\ WeightAt(ws, s.i) >= s.cw
           /\ Turns(ws, s.cw) \in Int /\ Turns(ws, s.cw) >= 1
<1>1. /\ s.i \in 0 .. Len(ws) - 1 /\ Len(ws) \in Nat
      /\ s.cw \in Int /\ 1 <= s.cw /\ s.cw <= MaxWeight(ws)
      /\ IsTurn(ws, s.cw) /\ WeightAt(ws, s.i) >= s.cw
  BY DEF RoundState, Whole
<1>2. s.i \in Nat /\ s.cw > 0
  BY <1>1
<1>3. Turns(ws, s.cw) \in Int /\ Turns(ws, s.cw) >= 1
  BY <1>1, <1>2, TurnsOf
<1> QED BY <1>1, <1>2, <1>3

\* A pick counts for its index, and is the last one of the cycle exactly if all have
\* their shares.
LEMMA WrrGoes ==
    ASSUME NEW ws, Whole(ws), Positive(ws) # {}, NEW s, RoundState(ws, s)
    PROVE  LET t == WrrNext(ws, s)
               counted(j) == CountAt(ws, s, j) + (IF j = s.i THEN 1 ELSE 0)
           IN /\ RoundState(ws, t)
              /\ \/ /\ \A j \in 0 .. Len(ws) - 1 : CountAt(ws, t, j) = counted(j)
                    /\ \E j \in 0 .. Len(ws) - 1 : counted(j) # Share(ws, j)
                 \/ \A j \in 0 .. Len(ws) - 1 : counted(j) = Share(ws, j) /\ CountAt(ws, t, j) = 0
<1> DEFINE t == WrrNext(ws, s)
<1> DEFINE D == 0 .. Len(ws) - 1
<1> DEFINE counted(j) == CountAt(ws, s, j) + (IF j = s.i THEN 1 ELSE 0)
<1> DEFINE rest == Reaching(ws, s.i + 1, s.cw)
<1> DEFINE g == GCD(ws)
<1>1. /\ s.i \in D /\ s.i \in Nat
      /\ s.cw \in Int /\ 1 <= s.cw /\ s.cw <= MaxWeight(ws)
      /\ IsTurn(ws, s.cw) /\ WeightAt(ws, s.i) >= s.cw
      /\ Turns(ws, s.cw) \in Int /\ Turns(ws, s.cw) >= 1 /\ Len(ws) \in Nat
  BY StateTurns
<1>2. g \in Nat /\ 1 <= g /\ s.cw >= g
  <2>1. s.cw > 0
    BY <1>1
  <2> QED BY <1>1, <2>1, TurnsOf
<1>3. ASSUME NEW j \in D
      PROVE  /\ j \in Nat /\ WeightAt(ws, j) \in Int /\ WeightAt(ws, j) <= MaxWeight(ws)
             /\ WeightAt(ws, j) > 0 =>
                    /\ IsTurn(ws, WeightAt(ws, j)) /\ Share(ws, j) = Turns(ws, WeightAt(ws, j))
                    /\ Turns(ws, WeightAt(ws, j)) \in Int /\ Turns(ws, WeightAt(ws, j)) >= 1
             /\ WeightAt(ws, j) >= s.cw => WeightAt(ws, j) > 0
             /\ ~(WeightAt(ws, j) > 0) => Share(ws, j) = 0
  <2>1. j \in Nat
    BY <1>1
  <2>2. /\ WeightAt(ws, j) \in Int /\ WeightAt(ws, j) <= MaxWeight(ws)
        /\ WeightAt(ws, j) > 0 => IsTurn(ws, WeightAt(ws, j))
        /\ Share(ws, j) = IF WeightAt(ws, j) > 0 THEN Turns(ws, WeightAt(ws, j)) ELSE 0
    BY WeightTurns
  <2>3. WeightAt(ws, j) > 0 => Turns(ws, WeightAt(ws, j)) \in Int /\ Turns(ws, WeightAt(ws, j)) >= 1
    BY <2>2, TurnsOf
  <2>4. WeightAt(ws, j) >= s.cw => WeightAt(ws, j) > 0
    BY <1>1, <2>2
  <2> QED BY <2>1, <2>2, <2>3, <2>4
\* Another index reaches the bar.
<1>4. CASE rest # {}
  <2>1. t.i = Min(rest) /\ t.cw = s.cw
    BY <1>1, <1>4 DEF WrrNext
  <2>2. /\ t.i \in D /\ s.i + 1 <= t.i /\ WeightAt(ws, t.i) >= s.cw
        /\ \A j \in D : s.i + 1 <= j /\ WeightAt(ws, j) >= s.cw => t.i <= j
    BY <1>4, <2>1, FirstReaching
  <2> HIDE DEF t, rest, g
  <2>3. RoundState(ws, t)
    BY <1>1, <2>1, <2>2 DEF RoundState
  <2>4. ASSUME NEW j \in D PROVE CountAt(ws, t, j) = counted(j)
    <3>1. CASE WeightAt(ws, j) < s.cw
      BY <1>1, <1>3, <2>1, <3>1 DEF CountAt
    <3>2. CASE WeightAt(ws, j) >= s.cw
      <4>1. (IF j < t.i THEN 1 ELSE 0) = (IF j < s.i THEN 1 ELSE 0) + (IF j = s.i THEN 1 ELSE 0)
        <5>1. j \in Nat /\ t.i \in Nat /\ s.i \in Nat
          BY <1>1, <1>3, <2>2
        <5>2. s.i + 1 <= t.i /\ (s.i + 1 <= j => t.i <= j)
          BY <2>2, <3>2
        <5> QED BY <5>1, <5>2
      <4>2. Turns(ws, WeightAt(ws, j)) \in Int
        BY <1>3, <3>2
      <4>3. ~(WeightAt(ws, j) < s.cw)
        BY <1>1, <1>3, <3>2
      <4> QED BY <1>1, <2>1, <4>1, <4>2, <4>3 DEF CountAt
    <3> QED BY <1>1, <1>3, <3>1, <3>2
  <2>5. counted(t.i) # Share(ws, t.i)
    <3>1. WeightAt(ws, t.i) > 0 /\ ~(WeightAt(ws, t.i) < s.cw) /\ ~(t.i < s.i) /\ t.i # s.i
      BY <1>1, <1>3, <2>2
    <3> QED BY <1>1, <1>3, <2>2, <3>1, SMTT(20) DEF CountAt
  <2> QED BY <2>2, <2>3, <2>4, <2>5 DEF t
\* The last index that reaches the bar: it has turned once more for each that does.
<1>5. ASSUME rest = {}, NEW j \in D
      PROVE  counted(j) = IF WeightAt(ws, j) < s.cw THEN 0
                          ELSE Turns(ws, WeightAt(ws, j)) - Turns(ws, s.cw) + 1
  <2>1. CASE WeightAt(ws, j) < s.cw
    <3>1. j # s.i
      BY <1>1, <1>3, <2>1
    <3> QED BY <2>1, <3>1 DEF CountAt
  <2>2. CASE ~(WeightAt(ws, j) < s.cw)
    <3>1. WeightAt(ws, j) >= s.cw /\ Turns(ws, WeightAt(ws, j)) \in Int
      BY <1>1, <1>3, <2>2
    <3>2. ~(s.i + 1 <= j)
      BY <1>5, <3>1 DEF Reaching, WeightAt
    <3>3. (IF j < s.i THEN 1 ELSE 0) + (IF j = s.i THEN 1 ELSE 0) = 1
      BY <1>1, <1>3, <3>2
    <3> QED BY <1>1, <2>2, <3>1, <3>3 DEF CountAt
  <2> QED BY <2>1, <2>2
\* The next bar.
<1>6. CASE rest = {} /\ s.cw - g > 0
  <2> DEFINE bar == s.cw - g
  <2>1. t.i = Min(Reaching(ws, 0, bar)) /\ t.cw = bar
    <3>1. bar # 0 /\ ~(s.i < 0)
      BY <1>1, <1>2, <1>6
    <3> QED BY <1>6, <3>1 DEF WrrNext
  <2>2. IsTurn(ws, bar) /\ Turns(ws, bar) = Turns(ws, s.cw) - 1
    BY <1>1, TurnsOf
  <2>3. bar \in Int /\ 1 <= bar /\ bar < s.cw /\ bar <= MaxWeight(ws)
    <3>1. MaxWeight(ws) \in Nat
      BY GreatestTurn
    <3> QED BY <1>1, <1>2, <1>6, <3>1
  <2>4. \A x : IsTurn(ws, x) /\ x < s.cw => x <= bar
    BY <1>1, TurnsOf
  <2> HIDE DEF t, rest, bar
  <2>5. /\ RoundState(ws, t)
        /\ \A j \in D : CountAt(ws, t, j) = IF WeightAt(ws, j) < bar THEN 0
                                             ELSE Turns(ws, WeightAt(ws, j)) - Turns(ws, bar)
    BY <2>1, <2>2, <2>3, BarStarts
  <2>6. ASSUME NEW j \in D PROVE CountAt(ws, t, j) = counted(j)
    <3>1. counted(j) = IF WeightAt(ws, j) < s.cw THEN 0
                       ELSE Turns(ws, WeightAt(ws, j)) - Turns(ws, s.cw) + 1
      BY <1>5, <1>6
    <3> HIDE DEF counted
    <3>2. CASE WeightAt(ws, j) < bar
      BY <1>1, <1>3, <2>3, <2>5, <3>1, <3>2
    <3>3. CASE ~(WeightAt(ws, j) < bar) /\ WeightAt(ws, j) < s.cw
      <4>1. WeightAt(ws, j) = bar
        BY <1>1, <1>3, <2>3, <2>4, <3>3
      <4> QED BY <1>1, <2>2, <2>5, <3>1, <3>3, <4>1
    <3>4. CASE ~(WeightAt(ws, j) < s.cw)
      <4>1. ~(WeightAt(ws, j) < bar) /\ Turns(ws, WeightAt(ws, j)) \in Int
        BY <1>1, <1>3, <2>3, <3>4
      <4> QED BY <1>1, <2>2, <2>5, <3>1, <3>4, <4>1
    <3> QED BY <3>2, <3>3, <3>4
  <2>7. t.i \in D /\ counted(t.i) # Share(ws, t.i)
    <3>1. t.i \in D /\ WeightAt(ws, t.i) >= bar
      BY <2>1, <2>5 DEF RoundState
    <3>2. CountAt(ws, t, t.i) = Turns(ws, WeightAt(ws, t.i)) - Turns(ws, bar)
      BY <1>3, <2>3, <2>5, <3>1
    <3>3. Turns(ws, bar) \in Int /\ Turns(ws, bar) >= 1
      BY <2>2, <2>3, TurnsOf
    <3>4. Share(ws, t.i) = Turns(ws, WeightAt(ws, t.i)) /\ Turns(ws, WeightAt(ws, t.i)) \in Int
      BY <1>3, <2>3, <3>1
    <3>5. counted(t.i) = CountAt(ws, t, t.i)
      BY <2>6, <3>1
    <3> HIDE DEF counted
    <3> QED BY <3>1, <3>2, <3>3, <3>4, <3>5
  <2> QED BY <2>5, <2>6, <2>7 DEF t
\* The end of the cycle.
<1>7. CASE rest = {} /\ ~(s.cw - g > 0)
  <2>1. s.cw = g /\ Turns(ws, s.cw) = 1
    <3>1. s.cw = g
      BY <1>1, <1>2, <1>7
    <3>2. IsTurn(ws, s.cw - g) /\ Turns(ws, s.cw - g) = Turns(ws, s.cw) - 1
      BY <1>1, TurnsOf
    <3>3. s.cw - g = 0
      BY <1>1, <1>2, <3>1
    <3>4. Turns(ws, 0) = 0
      <4>1. 0 \div g = 0
        <5> HIDE DEF g
        <5> QED BY <1>2
      <4> QED BY <4>1 DEF Turns
    <3> QED BY <1>1, <3>1, <3>2, <3>3, <3>4
  <2>2. t.i = Min(Reaching(ws, 0, MaxWeight(ws))) /\ t.cw = MaxWeight(ws)
    <3>1. MaxWeight(ws) # 0 /\ ~(s.i < 0)
      BY <1>1, GreatestTurn
    <3> QED BY <1>7, <3>1 DEF WrrNext
  <2>3. /\ MaxWeight(ws) \in Nat /\ 1 <= MaxWeight(ws)
        /\ IsTurn(ws, MaxWeight(ws)) /\ Turns(ws, MaxWeight(ws)) \in Int
    BY GreatestTurn
  <2> HIDE DEF t
  <2>4. /\ RoundState(ws, t)
        /\ \A j \in D : CountAt(ws, t, j) = IF WeightAt(ws, j) < MaxWeight(ws) THEN 0
                                  ELSE Turns(ws, WeightAt(ws, j)) - Turns(ws, MaxWeight(ws))
    BY <2>2, <2>3, BarStarts
  <2>5. ASSUME NEW j \in D PROVE counted(j) = Share(ws, j) /\ CountAt(ws, t, j) = 0
    <3>1. counted(j) = IF WeightAt(ws, j) < s.cw THEN 0
                       ELSE Turns(ws, WeightAt(ws, j)) - Turns(ws, s.cw) + 1
      BY <1>5, <1>7
    <3> HIDE DEF counted
    <3>2. CountAt(ws, t, j) = 0
      <4>1. ~(WeightAt(ws, j) < MaxWeight(ws)) => WeightAt(ws, j) = MaxWeight(ws)
        BY <1>3, <2>3
      <4> QED BY <2>3, <2>4, <4>1
    <3>3. CASE WeightAt(ws, j) > 0
      <4>1. WeightAt(ws, j) >= g
        BY <1>3, <3>3, TurnsOf
      <4> HIDE DEF g
      <4>2. ~(WeightAt(ws, j) < s.cw)
        BY <1>2, <1>3, <2>1, <4>1
      <4> QED BY <1>3, <2>1, <3>1, <3>2, <3>3, <4>2
    <3>4. CASE ~(WeightAt(ws, j) > 0)
      <4>1. WeightAt(ws, j) < s.cw
        BY <1>1, <1>3, <3>4
      <4> QED BY <1>3, <3>1, <3>2, <3>4, <4>1
    <3> QED BY <3>3, <3>4
  <2> QED BY <2>4, <2>5 DEF t
<1> QED BY <1>4, <1>6, <1>7

\* No index gets more than its share.
LEMMA WrrBelow ==
    ASSUME NEW ws, Whole(ws), Positive(ws) # {}, NEW s, RoundState(ws, s),
           NEW j \in 0 .. Len(ws) - 1
    PROVE  CountAt(ws, s, j) \in Int /\ CountAt(ws, s, j) <= Share(ws, j)
<1>1. /\ s.cw \in Int /\ 1 <= s.cw
      /\ Turns(ws, s.cw) \in Int /\ Turns(ws, s.cw) >= 1
  BY StateTurns
<1>2. /\ WeightAt(ws, j) \in Int
      /\ WeightAt(ws, j) > 0 =>
            /\ Share(ws, j) = Turns(ws, WeightAt(ws, j))
            /\ Turns(ws, WeightAt(ws, j)) \in Int /\ Turns(ws, WeightAt(ws, j)) >= 1
      /\ ~(WeightAt(ws, j) > 0) => Share(ws, j) = 0
  BY WeightTurns, TurnsOf
<1>3. CASE WeightAt(ws, j) < s.cw
  BY <1>1, <1>2, <1>3 DEF CountAt
<1>4. CASE ~(WeightAt(ws, j) < s.cw)
  <2>1. WeightAt(ws, j) > 0
    BY <1>1, <1>2, <1>4
  <2> DEFINE one == IF j < s.i THEN 1 ELSE 0
  <2>2. one \in 0 .. 1
    OBVIOUS
  <2>3. CountAt(ws, s, j) = Turns(ws, WeightAt(ws, j)) - Turns(ws, s.cw) + one
    BY <1>4 DEF CountAt
  <2> HIDE DEF one
  <2> QED BY <1>1, <1>2, <2>1, <2>2, <2>3
<1> QED BY <1>3, <1>4

-----------------------------------------------------------------------------
(* The random weights of random weighted round robin *)

LEMMA PrefixSums ==
    ASSUME NEW ws, Whole(ws)
    PROVE  /\ Prefix(ws, 0) = 0
           /\ \A k \in 1 .. Len(ws) : Prefix(ws, k) = Prefix(ws, k - 1) + ws[k]
           /\ \A k \in 0 .. Len(ws) : Prefix(ws, k) \in Int
<1> DEFINE N == Len(ws)
<1> DEFINE Adding(f) == f = [k \in 0 .. N |-> IF k = 0 THEN 0 ELSE f[k - 1] + ws[k]]
<1> DEFINE Added(f, n) == f[0] = 0 /\ \A k \in 1 .. n : f[k] = f[k - 1] + ws[k]
<1> DEFINE sum == CHOOSE f : Adding(f)
<1>1. N \in Nat /\ \A k \in 1 .. N : ws[k] \in Int
  BY DEF Whole
<1>2. \A n \in 0 .. N : \E f \in [0 .. N -> Int] : Added(f, n)
  <2> DEFINE T == {n \in 0 .. N : ~ \E f \in [0 .. N -> Int] : Added(f, n)}
  <2> SUFFICES ASSUME T # {} PROVE FALSE
    OBVIOUS
  <2> DEFINE n == Min(T)
  <2>1. n \in T /\ \A t \in T : n <= t
    <3>1. T \in SUBSET Nat
      BY <1>1
    <3> HIDE DEF T
    <3> QED BY <3>1, LeastOf
  <2> HIDE DEF n
  <2>2. n # 0
    <3> SUFFICES ASSUME n = 0 PROVE FALSE
      OBVIOUS
    <3> DEFINE f == [k \in 0 .. N |-> 0]
    <3>1. f \in [0 .. N -> Int] /\ Added(f, 0)
      BY <1>1
    <3> HIDE DEF f, Added
    <3> QED BY <2>1, <3>1
  <2>3. n - 1 \in 0 .. N /\ n - 1 \notin T /\ n \in 1 .. N
    <3>1. n \in 0 .. N
      BY <2>1
    <3> HIDE DEF T
    <3>2. n \in 1 .. N /\ n - 1 \in 0 .. N /\ ~(n <= n - 1)
      BY <1>1, <2>2, <3>1
    <3> QED BY <2>1, <3>2
  <2>4. PICK f \in [0 .. N -> Int] : Added(f, n - 1)
    BY <2>3
  <2> DEFINE h == [f EXCEPT ![n] = f[n - 1] + ws[n]]
  <2>5. h \in [0 .. N -> Int]
    <3>1. f[n - 1] + ws[n] \in Int
      <4>1. f[n - 1] \in Int
        BY <2>3, <2>4
      <4>2. ws[n] \in Int
        BY <1>1, <2>3
      <4> QED BY <4>1, <4>2
    <3> QED BY <2>4, <3>1
  <2>6. \A k \in 0 .. N : h[k] = IF k = n THEN f[n - 1] + ws[n] ELSE f[k]
    BY <2>4
  <2> HIDE DEF h
  <2>7. h[0] = 0
    BY <1>1, <2>3, <2>4, <2>6
  <2>8. ASSUME NEW k \in 1 .. n PROVE h[k] = h[k - 1] + ws[k]
    <3>1. k \in 0 .. N /\ k - 1 \in 0 .. N /\ k - 1 # n
      BY <1>1, <2>3
    <3>2. CASE k = n
      BY <2>6, <3>1, <3>2
    <3>3. CASE k # n
      <4>1. k \in 1 .. (n - 1)
        BY <1>1, <2>3, <3>3
      <4> QED BY <2>4, <2>6, <3>1, <3>3, <4>1
    <3> QED BY <3>2, <3>3
  <2> QED BY <2>1, <2>5, <2>7, <2>8
<1>3. \E f : Adding(f)
  <2>1. PICK f \in [0 .. N -> Int] : Added(f, N)
    <3>1. N \in 0 .. N
      BY <1>1
    <3> QED BY <1>2, <3>1
  <2> DEFINE D == 0 .. N
  <2> DEFINE rhs == [k \in D |-> IF k = 0 THEN 0 ELSE f[k - 1] + ws[k]]
  <2>2. \A k \in D : k # 0 => k \in 1 .. N
    BY <1>1
  <2>3. \A k \in D : f[k] = rhs[k]
    BY <2>1, <2>2
  <2>4. f \in [D -> Int]
    BY <2>1
  <2> HIDE DEF D, Adding
  <2>5. f = rhs
    BY <2>3, <2>4
  <2> QED BY <2>5 DEF D, Adding
<1>4. Adding(sum)
  <2> HIDE DEF Adding
  <2> QED BY <1>3
<1>5. \A k : Prefix(ws, k) = sum[k]
  BY DEF Prefix
<1> HIDE DEF sum
<1>6. sum[0] = 0 /\ \A k \in 1 .. N : sum[k] = sum[k - 1] + ws[k]
  BY <1>1, <1>4
<1>7. \A k \in 0 .. N : sum[k] \in Int
  <2> DEFINE T == {n \in 0 .. N : sum[n] \notin Int}
  <2> SUFFICES ASSUME T # {} PROVE FALSE
    OBVIOUS
  <2> DEFINE n == Min(T)
  <2>1. n \in T /\ \A t \in T : n <= t
    <3>1. T \in SUBSET Nat
      BY <1>1
    <3> HIDE DEF T
    <3> QED BY <3>1, LeastOf
  <2> HIDE DEF n
  <2>2. n # 0
    BY <1>6, <2>1
  <2>3. n - 1 \in 0 .. N /\ n - 1 \notin T /\ n \in 1 .. N
    <3>1. n \in 0 .. N
      BY <2>1
    <3> HIDE DEF T
    <3>2. n \in 1 .. N /\ n - 1 \in 0 .. N /\ ~(n <= n - 1)
      BY <1>1, <2>2, <3>1
    <3> QED BY <2>1, <3>2
  <2>4. sum[n - 1] \in Int /\ sum[n] \notin Int
    BY <2>1, <2>3
  <2>5. sum[n] = sum[n - 1] + ws[n] /\ ws[n] \in Int
    BY <1>1, <1>6, <2>3
  <2> QED BY ONLY <2>4, <2>5
<1> QED BY <1>5, <1>6, <1>7

\* The sums of weights that are not negative do not fall.
LEMMA PrefixGrows ==
    ASSUME NEW ws, Whole(ws), \A k \in 1 .. Len(ws) : ws[k] >= 0,
           NEW i \in 0 .. Len(ws), NEW j \in 0 .. Len(ws), i <= j
    PROVE  Prefix(ws, i) <= Prefix(ws, j)
<1> DEFINE N == Len(ws)
<1> DEFINE T == {n \in 0 .. N : i <= n /\ ~(Prefix(ws, i) <= Prefix(ws, n))}
<1>1. /\ N \in Nat /\ \A k \in 1 .. N : ws[k] \in Int
      /\ \A k \in 0 .. N : Prefix(ws, k) \in Int
      /\ \A k \in 1 .. N : Prefix(ws, k) = Prefix(ws, k - 1) + ws[k]
  BY PrefixSums DEF Whole
<1> SUFFICES ASSUME T # {} PROVE FALSE
  OBVIOUS
<1> DEFINE n == Min(T)
<1>2. n \in T /\ \A t \in T : n <= t
  <2>1. T \in SUBSET Nat
    BY <1>1
  <2> HIDE DEF T
  <2> QED BY <2>1, LeastOf
<1> HIDE DEF n
<1>3. n # i
  BY <1>1, <1>2
<1>4. n \in 1 .. N /\ n - 1 \in 0 .. N /\ i <= n - 1 /\ ~(n <= n - 1)
  <2>1. n \in 0 .. N /\ i <= n
    BY <1>2
  <2> QED BY <1>1, <1>3, <2>1
<1>5. Prefix(ws, i) <= Prefix(ws, n - 1)
  BY <1>2, <1>4
<1>6. Prefix(ws, n) = Prefix(ws, n - 1) + ws[n] /\ ws[n] >= 0 /\ ws[n] \in Int
  BY <1>1, <1>4
<1>7. Prefix(ws, i) \in Int /\ Prefix(ws, n - 1) \in Int
  BY <1>1, <1>4
<1>8. ~(Prefix(ws, i) <= Prefix(ws, n))
  BY <1>2
<1> QED BY <1>5, <1>6, <1>7, <1>8

\* Every random weight falls on an index, also if the sum has wrapped.
LEMMA RandomFalls ==
    ASSUME NEW ws, Whole(ws), Len(ws) > 0, NEW r \in 1 .. SumOfWeights(ws)
    PROVE  LET i == RwrrIndex(ws, r)
           IN /\ i \in 0 .. Len(ws) - 1
              /\ Wrapped(r - Prefix(ws, i + 1)) <= 0
              /\ \A j \in 0 .. Len(ws) - 1 : Wrapped(r - Prefix(ws, j + 1)) <= 0 => i <= j
<1> DEFINE N == Len(ws)
<1> DEFINE m == 2 * (MaxInt + 1)
<1> DEFINE S == SumOfWeights(ws)
<1> DEFINE P == Prefix(ws, N)
<1> DEFINE T == {i \in 0 .. N - 1 : Wrapped(r - Prefix(ws, i + 1)) <= 0}
<1>1. N \in Nat /\ P \in Int /\ MaxInt \in Nat /\ m \in Int
  <2>1. N \in Nat
    BY DEF Whole
  <2>2. N \in 0 .. N
    BY <2>1
  <2> QED BY <2>1, <2>2, PrefixSums, MaxIntAssumption
<1>2. S = Wrapped(P)
  BY DEF SumOfWeights
<1> HIDE DEF P, m, S
<1>3. S \in -(MaxInt + 1) .. MaxInt /\ \E k \in Int : P = S + k * m
  BY <1>1, <1>2, WrappedOff DEF m
<1>4. r \in Int /\ r - S \in -(MaxInt + 1) .. MaxInt /\ r - S <= 0
  BY <1>1, <1>3 DEF S
<1>5. Wrapped(r - P) = r - S
  <2>1. PICK k \in Int : P = S + k * m
    BY <1>3
  <2> DEFINE l == -k
  <2>2. r - P = (r - S) + l * m /\ l \in Int
    <3>1. k * m \in Int /\ l * m = -(k * m)
      BY <1>1
    <3> QED BY <1>1, <1>3, <1>4, <2>1, <3>1
  <2> HIDE DEF l
  <2>3. Wrapped((r - S) + l * m) = Wrapped(r - S)
    BY <1>4, <2>2, WrappedPeriod DEF m
  <2> QED BY <1>4, <2>2, <2>3, WrappedKeeps
<1>6. N - 1 \in T
  <2>1. N - 1 \in 0 .. N - 1 /\ (N - 1) + 1 = N
    BY <1>1
  <2> QED BY <1>4, <1>5, <2>1 DEF P
<1>7. Min(T) \in T /\ \A t \in T : Min(T) <= t
  <2>1. T \in SUBSET Nat
    BY <1>1
  <2> HIDE DEF T
  <2> QED BY <1>6, <2>1, LeastOf
<1>8. RwrrIndex(ws, r) = Min(T)
  BY DEF RwrrIndex
<1> QED BY <1>7, <1>8

\* An index gets as many random weights as its weight is.
LEMMA RandomShare ==
    ASSUME NEW ws, Whole(ws), \A k \in 1 .. Len(ws) : ws[k] >= 0,
           Prefix(ws, Len(ws)) <= MaxInt, NEW i \in 0 .. Len(ws) - 1
    PROVE  Cardinality({r \in 1 .. SumOfWeights(ws) : RwrrIndex(ws, r) = i}) = ws[i + 1]
<1> DEFINE N == Len(ws)
<1> DEFINE S == SumOfWeights(ws)
<1>1. N \in Nat /\ N > 0 /\ MaxInt \in Nat
  BY MaxIntAssumption DEF Whole
<1>2. \A k \in 0 .. N : Prefix(ws, k) \in 0 .. MaxInt /\ Prefix(ws, k) <= Prefix(ws, N)
  <2> SUFFICES ASSUME NEW k \in 0 .. N
               PROVE  Prefix(ws, k) \in 0 .. MaxInt /\ Prefix(ws, k) <= Prefix(ws, N)
    OBVIOUS
  <2>1. 0 \in 0 .. N /\ N \in 0 .. N /\ 0 <= k /\ k <= N
    BY <1>1
  <2>2. Prefix(ws, 0) <= Prefix(ws, k) /\ Prefix(ws, k) <= Prefix(ws, N)
    BY <2>1, PrefixGrows
  <2>3. Prefix(ws, 0) = 0 /\ Prefix(ws, k) \in Int /\ Prefix(ws, N) \in Int
    BY <2>1, PrefixSums
  <2> QED BY <1>1, <2>2, <2>3
<1>3. S = Prefix(ws, N)
  <2>1. N \in 0 .. N
    BY <1>1
  <2>2. Prefix(ws, N) \in -(MaxInt + 1) .. MaxInt
    BY <1>1, <1>2, <2>1
  <2> QED BY <2>2, WrappedKeeps DEF SumOfWeights
<1>4. i \in 0 .. N /\ i + 1 \in 0 .. N /\ i + 1 \in 1 .. N /\ (i + 1) - 1 = i /\ i \in Nat
  BY <1>1
<1> DEFINE low == Prefix(ws, i)
<1> DEFINE high == Prefix(ws, i + 1)
<1>5. /\ low \in 0 .. MaxInt /\ high \in 0 .. MaxInt /\ high <= S /\ S \in Int
      /\ high = low + ws[i + 1] /\ ws[i + 1] \in Int /\ ws[i + 1] >= 0
  <2>1. N \in 0 .. N
    BY <1>1
  <2> QED BY <1>2, <1>3, <1>4, <2>1, PrefixSums DEF Whole
\* With no overflow, a random weight falls on the first index whose sum reaches it.
<1>6. ASSUME NEW r \in 1 .. S, NEW k \in 0 .. N
      PROVE  Wrapped(r - Prefix(ws, k)) <= 0 <=> r <= Prefix(ws, k)
  <2>1. N \in 0 .. N
    BY <1>1
  <2>2. r \in Int /\ 1 <= r /\ r <= MaxInt /\ Prefix(ws, k) \in 0 .. MaxInt
    BY <1>1, <1>2, <1>3, <2>1
  <2>3. r - Prefix(ws, k) \in -(MaxInt + 1) .. MaxInt
    BY <1>1, <2>2
  <2>4. Wrapped(r - Prefix(ws, k)) = r - Prefix(ws, k)
    BY <2>3, WrappedKeeps
  <2> QED BY <2>2, <2>4
<1>7. ASSUME NEW r \in 1 .. S
      PROVE  RwrrIndex(ws, r) = i <=> low + 1 <= r /\ r <= high
  <2> DEFINE c == RwrrIndex(ws, r)
  <2>1. /\ c \in 0 .. N - 1
        /\ Wrapped(r - Prefix(ws, c + 1)) <= 0
        /\ \A j \in 0 .. N - 1 : Wrapped(r - Prefix(ws, j + 1)) <= 0 => c <= j
    BY <1>1, RandomFalls
  <2> HIDE DEF c
  <2>2. c \in Nat /\ c + 1 \in 0 .. N /\ r \in Int
    BY <1>1, <2>1
  <2>3. r <= Prefix(ws, c + 1)
    BY <1>6, <2>1, <2>2
  <2>4. ASSUME c = i PROVE low + 1 <= r /\ r <= high
    <3>1. r <= high
      BY <2>3, <2>4
    <3>2. CASE i = 0
      <4>1. low = 0
        BY <3>2, PrefixSums
      <4> QED BY <2>2, <3>1, <4>1
    <3>3. CASE i # 0
      <4>1. i - 1 \in 0 .. N - 1 /\ (i - 1) + 1 = i /\ ~(i <= i - 1)
        BY <1>1, <1>4, <3>3
      <4>2. ~(Wrapped(r - low) <= 0)
        BY <2>1, <2>4, <4>1
      <4>3. ~(r <= low)
        BY <1>4, <1>6, <4>2
      <4> QED BY <1>5, <2>2, <3>1, <4>3
    <3> QED BY <3>2, <3>3
  <2>5. ASSUME low + 1 <= r, r <= high PROVE c = i
    <3>1. Wrapped(r - high) <= 0
      BY <1>4, <1>6, <2>5
    <3>2. c <= i
      BY <2>1, <3>1
    <3>3. CASE c < i
      <4>1. c + 1 <= i
        BY <1>4, <2>2, <3>3
      <4>2. Prefix(ws, c + 1) <= low
        BY <1>4, <2>2, <4>1, PrefixGrows
      <4>3. Prefix(ws, c + 1) \in Int
        BY <1>2, <2>2
      <4> QED BY <1>5, <2>2, <2>3, <2>5, <4>2, <4>3
    <3> QED BY <1>4, <2>2, <3>2, <3>3
  <2> QED BY <2>4, <2>5 DEF c
<1>8. {r \in 1 .. S : RwrrIndex(ws, r) = i} = (low + 1) .. high
  <2> HIDE DEF low, high, S
  <2>1. S \in Int /\ low \in Int /\ high \in Int /\ 0 <= low /\ high <= S
    BY <1>5
  <2>2. \A r \in (low + 1) .. high : r \in 1 .. S
    BY <2>1
  <2> QED BY <1>7, <2>1, <2>2
<1>9. Cardinality((low + 1) .. high) = ws[i + 1]
  <2> DEFINE w == ws[i + 1]
  <2>1. low \in Int /\ w \in Nat /\ high = low + w
    BY <1>5
  <2> HIDE DEF low, high, w
  <2>2. low + 1 \in Int /\ high \in Int
    BY <2>1
  <2>3. Cardinality((low + 1) .. high) = IF low + 1 > high THEN 0 ELSE high - (low + 1) + 1
    BY <2>2, FS_Interval
  <2>4. Cardinality((low + 1) .. high) = w
    BY <2>1, <2>3
  <2> QED BY <2>4 DEF w
<1> QED BY <1>8, <1>9

\* With no positive weight the bar stays 0.
LEMMA WrrStays ==
    ASSUME NEW ws, Whole(ws), Len(ws) > 0, Positive(ws) = {}, NEW s, RoundState(ws, s)
    PROVE  RoundState(ws, WrrNext(ws, s))
<1> DEFINE rest == Reaching(ws, s.i + 1, s.cw)
<1>1. s.i \in Nat /\ s.cw = 0 /\ Len(ws) \in Nat
  BY DEF RoundState, Whole
<1>2. CASE rest # {}
  <2>1. WrrNext(ws, s).i = Min(rest) /\ WrrNext(ws, s).cw = 0
    BY <1>1, <1>2 DEF WrrNext
  <2>2. Min(rest) \in 0 .. Len(ws) - 1
    BY <1>2, FirstReaching
  <2> QED BY <2>1, <2>2 DEF RoundState
<1>3. CASE rest = {}
  <2>1. MaxWeight(ws) = 0
    BY DEF MaxWeight
  <2>2. GCD(ws) = 0
    <3>1. {0} \cup {d \in 1 .. 0 : \A w \in Positive(ws) : w % d = 0} = {0}
      OBVIOUS
    <3>2. GCD(ws) = Max({0})
      BY <2>1, <3>1 DEF GCD
    <3>3. Max({0}) \in {0}
      <4>1. {0} \in SUBSET (0 .. 0) /\ 0 \in Nat /\ {0} # {}
        OBVIOUS
      <4> QED BY <4>1, GreatestOf
    <3> QED BY <3>2, <3>3
  <2>3. WrrNext(ws, s).i = 0 /\ WrrNext(ws, s).cw = 0
    <3>1. ~(s.i < 0) /\ ~(s.cw - GCD(ws) > 0)
      BY <1>1, <2>2
    <3> QED BY <1>3, <2>1, <3>1 DEF WrrNext
  <2> QED BY <1>1, <2>3 DEF RoundState
<1> QED BY <1>2, <1>3

LEMMA WrrStarts ==
    ASSUME NEW ws, Whole(ws), Len(ws) > 0
    PROVE  RoundState(ws, WrrNext(ws, WrrStart(ws)))
<1>1. CASE Positive(ws) # {}
  BY <1>1, WrrFirst
<1>2. CASE Positive(ws) = {}
  <2>1. WrrStart(ws).i = 0 /\ WrrStart(ws).cw = 0 /\ Len(ws) \in Nat
    BY <1>2 DEF WrrStart, Whole
  <2>2. RoundState(ws, WrrStart(ws))
    BY <1>2, <2>1 DEF RoundState
  <2> QED BY <1>2, <2>2, WrrStays
<1> QED BY <1>1, <1>2

LEMMA NextIsIndex ==
    ASSUME NEW ws, Whole(ws), Len(ws) > 0, NEW w,
           policy = "wrr" /\ Len(ws) > 1 => RoundState(ws, WrrNext(ws, w)),
           NEW i \in NextIndexes(ws, w)
    PROVE  /\ i \in 0 .. Len(ws) - 1
           /\ policy = "wrr" /\ Len(ws) > 1 => i = WrrNext(ws, w).i
<1>1. CASE policy = "wrr" /\ Len(ws) > 1
  BY <1>1 DEF NextIndexes, RoundState
<1>2. CASE policy = "rwrr" /\ SumOfWeights(ws) > 0
  <2>1. PICK r \in 1 .. SumOfWeights(ws) : i = RwrrIndex(ws, r)
    BY <1>2 DEF NextIndexes
  <2> QED BY <1>2, <2>1, RandomFalls
<1>3. CASE ~(policy = "wrr" /\ Len(ws) > 1) /\ ~(policy = "rwrr" /\ SumOfWeights(ws) > 0)
  <2>1. i = 0
    BY <1>3 DEF NextIndexes
  <2>2. Len(ws) \in Nat
    BY DEF Whole
  <2> QED BY <1>3, <2>1, <2>2
<1> QED BY <1>1, <1>2, <1>3

-----------------------------------------------------------------------------
(* The invariant of the round robins *)

At(j) == subConns[j + 1]

\* The indexes picked since a first one, before the next one comes.
Passed(first, last, j) ==
    IF first <= last THEN first <= j /\ j < last ELSE first <= j \/ j < last

\* rr has picked in this cycle the nodes from its first index to the next one.
RingKept ==
    policy = "rr" /\ subConns # <<>> =>
        \E first \in 0 .. Len(subConns) - 1 : \A j \in 0 .. Len(subConns) - 1 :
            picks[At(j)] = IF Passed(first, next, j) THEN 1 ELSE 0

\* wrr has picked its nodes as often as the state of its cycle says; one node alone is
\* picked once in each cycle.
AloneKept == policy = "wrr" /\ Len(subConns) = 1 => picks[At(0)] = 0
RoundKept ==
    policy = "wrr" /\ Len(subConns) > 1 =>
        /\ RoundState(weights, wrr)
        /\ next = wrr.i
        /\ Positive(weights) # {} =>
            \A j \in 0 .. Len(subConns) - 1 : picks[At(j)] = CountAt(weights, wrr, j)

SInv ==
    /\ weightOf \in [Node -> -(MaxInt + 1) .. MaxInt]
    /\ picks \in [Node -> Int]
    /\ NextIsNode /\ RingKept /\ AloneKept /\ RoundKept

LEMMA WeightsWhole ==
    ASSUME weightOf \in [Node -> -(MaxInt + 1) .. MaxInt], NEW scs \in Seq(Node)
    PROVE  Whole(WeightsOf(scs)) /\ Len(WeightsOf(scs)) = Len(scs) /\ Len(scs) \in Nat
<1>1. Len(scs) \in Nat /\ DOMAIN scs = 1 .. Len(scs) /\ MaxInt \in Nat
  BY MaxIntAssumption
<1> DEFINE ws == WeightsOf(scs)
<1>2. ws \in [1 .. Len(scs) -> -(MaxInt + 1) .. MaxInt]
  BY <1>1 DEF WeightsOf
<1> HIDE DEF ws
<1>3. DOMAIN ws = 1 .. Len(scs) /\ Len(ws) = Len(scs)
  BY <1>1, <1>2
<1>4. \A k \in 1 .. Len(scs) : ws[k] \in -(MaxInt + 1) .. MaxInt
  BY <1>2
<1>5. Whole(ws)
  BY <1>1, <1>3, <1>4 DEF Whole
<1> QED BY <1>1, <1>3, <1>5 DEF ws

\* Index and node say the same.
LEMMA Indexes ==
    ASSUME PInv
    PROVE  /\ Len(subConns) \in Nat
           /\ subConns # <<>> => Len(subConns) > 0
           /\ \A j \in 0 .. Len(subConns) - 1 :
                At(j) \in Ready /\ At(j) \in Node /\ QueueIndex(subConns, At(j)) - 1 = j
           /\ \A n \in Ready : \E j \in 0 .. Len(subConns) - 1 : n = At(j)
           /\ \A j, k \in 0 .. Len(subConns) - 1 : At(j) = At(k) => j = k
<1> DEFINE N == Len(subConns)
<1>1. /\ subConns \in Seq(Node) /\ Ready \subseteq Node /\ N \in Nat
      /\ DOMAIN subConns = 1 .. N /\ Ready = ToSet(subConns)
      /\ \A c, d \in 1 .. N : subConns[c] = subConns[d] => c = d
  BY ReadyLists DEF Lists, Ready
<1>2. ASSUME NEW j \in 0 .. N - 1
      PROVE  At(j) \in Ready /\ At(j) \in Node /\ QueueIndex(subConns, At(j)) - 1 = j
  <2>1. j + 1 \in 1 .. N /\ j \in Int
    BY <1>1
  <2> DEFINE n == At(j)
  <2>2. n = subConns[j + 1]
    BY DEF At
  <2> HIDE DEF n
  <2>3. \E k \in DOMAIN subConns : subConns[k] = n
    BY <1>1, <2>1, <2>2
  <2> DEFINE q == QueueIndex(subConns, n)
  <2>4. q \in 1 .. N /\ subConns[q] = n
    BY <1>1, <2>3 DEF QueueIndex
  <2> HIDE DEF q
  <2>5. q = j + 1
    BY <1>1, <2>1, <2>2, <2>4
  <2>6. n \in Ready
    BY <1>1, <2>1, <2>2 DEF ToSet
  <2> QED BY <1>1, <2>1, <2>5, <2>6 DEF n, q
<1>3. ASSUME NEW n \in Ready PROVE \E j \in 0 .. N - 1 : n = At(j)
  <2>1. PICK k \in 1 .. N : subConns[k] = n
    BY <1>1 DEF ToSet
  <2>2. k - 1 \in 0 .. N - 1 /\ (k - 1) + 1 = k
    BY <1>1
  <2> QED BY <2>1, <2>2 DEF At
<1>4. ASSUME NEW j \in 0 .. N - 1, NEW k \in 0 .. N - 1, At(j) = At(k) PROVE j = k
  BY <1>2, <1>4
<1>5. subConns # <<>> => N > 0
  BY <1>1
<1> QED BY <1>1, <1>2, <1>3, <1>4, <1>5

ShareAt(j) == IF policy = "rr" THEN 1 ELSE Share(weights, j)
CountedAt(j) == picks[At(j)] + (IF j = next THEN 1 ELSE 0)

\* A pick, in terms of indexes.
LEMMA CountedIs ==
    ASSUME PInv, SInv, NEW r \in Request, PickNext(r)
    PROVE  /\ picks' \in [Node -> Int] /\ next \in 0 .. Len(subConns) - 1
           /\ ~Cycles \/ (\A j \in 0 .. Len(subConns) - 1 : CountedAt(j) = ShareAt(j)) =>
                \A j \in 0 .. Len(subConns) - 1 : picks'[At(j)] = 0
           /\ Cycles /\ (\E j \in 0 .. Len(subConns) - 1 : CountedAt(j) # ShareAt(j)) =>
                \A j \in 0 .. Len(subConns) - 1 : picks'[At(j)] = CountedAt(j)
<1> DEFINE D == 0 .. Len(subConns) - 1
<1> DEFINE n == At(next)
<1> DEFINE counts == [picks EXCEPT ![n] = @ + 1]
<1>1. subConns # <<>> /\ picks' = Counted(n)
  BY DEF PickNext, Starts, At
<1>2. next \in D /\ picks \in [Node -> Int]
  BY <1>1 DEF SInv, NextIsNode
<1>3. n \in Node /\ \A j \in D : At(j) \in Node /\ At(j) \in Ready /\ (At(j) = n => j = next)
  BY <1>2, Indexes
<1>4. counts \in [Node -> Int]
  BY <1>2, <1>3
<1>5. ASSUME NEW j \in D PROVE counts[At(j)] = CountedAt(j)
  <2>1. At(j) = n <=> j = next
    BY <1>3
  <2>2. picks[At(j)] \in Int
    BY <1>2, <1>3
  <2>3. counts[At(j)] = IF At(j) = n THEN picks[At(j)] + 1 ELSE picks[At(j)]
    BY <1>2, <1>3
  <2> HIDE DEF counts, n
  <2> QED BY <2>1, <2>2, <2>3 DEF CountedAt
<1>6. ASSUME NEW j \in D PROVE ShareOf(At(j)) = ShareAt(j)
  BY Indexes DEF ShareOf, ShareAt
<1>7. Counted(n) = IF ~Cycles \/ \A m \in Ready : counts[m] = ShareOf(m) THEN Zero ELSE counts
  BY DEF Counted
<1> HIDE DEF counts, n
<1>8. (\A m \in Ready : counts[m] = ShareOf(m)) <=> \A j \in D : CountedAt(j) = ShareAt(j)
  <2>1. \A m \in Ready : \E j \in D : m = At(j)
    BY Indexes
  <2> QED BY <1>3, <1>5, <1>6, <2>1
<1>9. Zero \in [Node -> Int] /\ \A j \in D : Zero[At(j)] = 0
  BY <1>3, ZeroType
<1> QED BY <1>1, <1>2, <1>4, <1>5, <1>7, <1>8, <1>9

LEMMA SharesInit == Init => SInv
<1> SUFFICES ASSUME Init PROVE SInv
  OBVIOUS
<1>1. subConns = <<>> /\ picks = Zero
  BY DEF Init
<1>2. weightOf \in [Node -> -(MaxInt + 1) .. MaxInt]
  <2>1. CASE Weighted
    BY <2>1, WeightAssumption DEF Init
  <2>2. CASE ~Weighted
    <3>1. weightOf = [n \in Node |-> 1]
      BY <2>2 DEF Init
    <3>2. 1 \in -(MaxInt + 1) .. MaxInt
      BY MaxIntAssumption
    <3> QED BY <3>1, <3>2
  <2> QED BY <2>1, <2>2
<1>3. Len(subConns) = 0
  BY <1>1
<1> QED BY <1>1, <1>2, <1>3, ZeroType DEF SInv, NextIsNode, RingKept, AloneKept, RoundKept

LEMMA SharesBuild == ASSUME PInv, PInv', SInv, Build PROVE SInv'
<1>1. PICK scs \in Orders : BuildFor(scs)
  BY DEF Build
<1> DEFINE ws == WeightsOf(scs)
<1> DEFINE N == Len(scs)
<1> DEFINE w == WrrStart(ws)
<1>2. /\ subConns' = scs /\ picks' = Zero /\ weightOf' = weightOf /\ policy' = policy
      /\ wrr' = WrrAfter(ws, w)
      /\ next' \in IF (policy = "rwrr" /\ scs # <<>> /\ SumOfWeights(ws) < 0) \/ scs = <<>> THEN {0}
                   ELSE IF Weighted THEN NextIndexes(ws, w) ELSE FirstIndexes(scs)
  BY <1>1 DEF BuildFor, Build
<1>3. weightOf \in [Node -> -(MaxInt + 1) .. MaxInt] /\ scs \in Seq(Node)
  BY OrdersLists DEF SInv
<1>4. weights' = ws
  BY <1>2 DEF weights, WeightsOf
<1>5. Whole(ws) /\ Len(ws) = N /\ N \in Nat
  BY <1>3, WeightsWhole
<1>6. scs # <<>> => N > 0
  BY <1>3
<1>7. \A j \in 0 .. N - 1 : picks'[At(j)'] = 0
  <2>1. \A j \in 0 .. N - 1 : scs[j + 1] \in Node
    BY <1>3, <1>5
  <2> QED BY <1>2, <2>1, ZeroType DEF At
<1> HIDE DEF ws, w
<1>8. policy = "wrr" /\ N > 1 => wrr' = WrrNext(ws, w) /\ RoundState(ws, wrr')
  BY <1>2, <1>5, WrrStarts DEF WrrAfter, w
<1>9. ASSUME scs # <<>>
      PROVE  next' \in 0 .. N - 1 /\ (policy = "wrr" /\ N > 1 => next' = wrr'.i)
  <2>1. N > 0
    BY <1>6, <1>9
  <2>2. CASE policy = "rwrr" /\ SumOfWeights(ws) < 0
    BY <1>2, <1>5, <1>9, <2>1, <2>2
  <2>3. CASE Weighted /\ ~(policy = "rwrr" /\ SumOfWeights(ws) < 0)
    <3>1. next' \in NextIndexes(ws, w)
      BY <1>2, <1>9, <2>3
    <3> QED BY <1>5, <1>8, <2>1, <3>1, NextIsIndex
  <2>4. CASE ~Weighted
    <3>1. next' \in FirstIndexes(scs)
      BY <1>2, <1>9, <2>4 DEF Weighted
    <3> QED BY <1>5, <2>1, <2>4, <3>1 DEF FirstIndexes, Weighted
  <2> QED BY <2>2, <2>3, <2>4 DEF Weighted
<1>10. NextIsNode'
  BY <1>2, <1>9 DEF NextIsNode
<1>11. RingKept'
  <2> SUFFICES ASSUME scs # <<>>
               PROVE  \E first \in 0 .. N - 1 : \A j \in 0 .. N - 1 :
                        picks'[At(j)'] = IF Passed(first, next', j) THEN 1 ELSE 0
    BY <1>2 DEF RingKept
  <2>1. next' \in 0 .. N - 1
    BY <1>9
  <2>2. \A j \in 0 .. N - 1 : ~Passed(next', next', j)
    BY <1>5, <2>1 DEF Passed
  <2> QED BY <1>7, <2>1, <2>2
<1>12. AloneKept'
  <2>1. N = 1 => 0 \in 0 .. N - 1
    OBVIOUS
  <2> QED BY <1>2, <1>7, <2>1 DEF AloneKept
<1>13. RoundKept'
  <2> SUFFICES ASSUME policy = "wrr", N > 1
               PROVE  /\ RoundState(ws, wrr') /\ next' = wrr'.i
                      /\ Positive(ws) # {} =>
                            \A j \in 0 .. N - 1 : picks'[At(j)'] = CountAt(ws, wrr', j)
    BY <1>2, <1>4 DEF RoundKept
  <2>1. scs # <<>>
    <3>1. Len(<<>>) = 0
      OBVIOUS
    <3> QED BY <3>1
  <2>2. Positive(ws) # {} => \A j \in 0 .. N - 1 : CountAt(ws, wrr', j) = 0
    BY <1>5, <1>8, WrrFirst DEF w
  <2> QED BY <1>7, <1>8, <1>9, <2>1, <2>2
<1>14. picks' \in [Node -> Int]
  BY <1>2, ZeroType
<1> QED BY <1>2, <1>3, <1>10, <1>11, <1>12, <1>13, <1>14 DEF SInv

LEMMA SharesRing == ASSUME PInv, SInv, NEW r \in Request, PickRoundRobin(r) PROVE SInv'
<1> DEFINE N == Len(subConns)
<1> DEFINE D == 0 .. N - 1
<1>1. /\ policy = "rr" /\ PickNext(r) /\ next' = (next + 1) % N
      /\ policy' = policy /\ weightOf' = weightOf /\ subConns' = subConns
      /\ \A j : At(j)' = At(j)
  BY DEF PickRoundRobin, PickNext, At
<1>2. /\ picks' \in [Node -> Int] /\ next \in D /\ N \in Nat
      /\ (\A j \in D : CountedAt(j) = 1) => \A j \in D : picks'[At(j)] = 0
      /\ (\E j \in D : CountedAt(j) # 1) => \A j \in D : picks'[At(j)] = CountedAt(j)
  BY <1>1, CountedIs, Indexes DEF Cycles, ShareAt
<1>3. subConns # <<>>
  BY <1>1 DEF PickNext, Starts
<1>4. PICK first \in D : \A j \in D : picks[At(j)] = IF Passed(first, next, j) THEN 1 ELSE 0
  BY <1>1, <1>3 DEF SInv, RingKept
<1>5. first \in Nat /\ first <= N - 1 /\ next \in Nat /\ next <= N - 1 /\ N > 0
  BY <1>2
<1>6. next' \in Nat /\ next' <= N - 1 /\ next' = IF next = N - 1 THEN 0 ELSE next + 1
  <2>1. CASE next = N - 1
    <3>1. next + 1 = N /\ N % N = 0
      <4>1. 1 * N <= N /\ N < 1 * N + N
        BY <1>5
      <4>2. N % N = N - 1 * N
        BY <1>2, <1>5, <4>1, Quotient
      <4> QED BY <1>2, <1>5, <2>1, <4>2
    <3> QED BY <1>1, <1>5, <2>1, <3>1
  <2>2. CASE next # N - 1
    <3>1. next + 1 \in Int /\ 0 <= next + 1 /\ next + 1 \in Nat /\ next + 1 < N
      BY <1>2, <1>5, <2>2
    <3>2. (next + 1) % N = next + 1
      BY <1>2, <1>5, <3>1, Same
    <3> QED BY <1>1, <1>2, <1>5, <2>2, <3>1, <3>2
  <2> QED BY <2>1, <2>2
<1>7. ASSUME NEW j \in D
      PROVE  CountedAt(j) = IF Passed(first, next, j) \/ j = next THEN 1 ELSE 0
  <2>1. j \in Nat
    BY <1>2
  <2>2. ~Passed(first, next, next)
    BY <1>5 DEF Passed
  <2> QED BY <1>4, <2>1, <2>2 DEF CountedAt
<1>8. \E f \in D : \A j \in D : picks'[At(j)] = IF Passed(f, next', j) THEN 1 ELSE 0
  \* Back at the first index: all have been picked.
  <2>1. CASE next' = first
    <3>1. \A j \in D : Passed(first, next, j) \/ j = next
      BY <1>2, <1>5, <1>6, <2>1 DEF Passed
    <3>2. \A j \in D : picks'[At(j)] = 0
      BY <1>2, <1>7, <3>1
    <3>3. \A j \in D : ~Passed(first, next', j)
      BY <1>2, <1>5, <2>1 DEF Passed
    <3> QED BY <3>2, <3>3
  <2>2. CASE next' # first
    <3>1. ASSUME NEW j \in D
          PROVE  (Passed(first, next, j) \/ j = next) <=> Passed(first, next', j)
      <4>1. j \in Nat /\ j <= N - 1
        BY <1>2
      <4>2. CASE first <= next
        BY <1>2, <1>5, <1>6, <2>2, <4>1, <4>2 DEF Passed
      <4>3. CASE ~(first <= next)
        BY <1>2, <1>5, <1>6, <2>2, <4>1, <4>3 DEF Passed
      <4> QED BY <4>2, <4>3
    <3>2. next' \in D /\ ~Passed(first, next', next')
      BY <1>2, <1>5, <1>6 DEF Passed
    <3>3. CountedAt(next') # 1
      BY <1>7, <3>1, <3>2
    <3>4. \A j \in D : picks'[At(j)] = CountedAt(j)
      BY <1>2, <3>2, <3>3
    <3> QED BY <1>7, <3>1, <3>4
  <2> QED BY <2>1, <2>2
<1>9. NextIsNode'
  BY <1>1, <1>2, <1>6 DEF NextIsNode
<1>10. RingKept'
  BY <1>1, <1>8 DEF RingKept
<1> QED BY <1>1, <1>2, <1>9, <1>10 DEF SInv, AloneKept, RoundKept

LEMMA SharesWeighted == ASSUME PInv, SInv, NEW r \in Request, PickWeighted(r) PROVE SInv'
<1> DEFINE N == Len(subConns)
<1> DEFINE D == 0 .. N - 1
<1>1. /\ policy = "wrr" /\ PickNext(r)
      /\ next' \in NextIndexes(weights, wrr) /\ wrr' = WrrAfter(weights, wrr)
      /\ policy' = policy /\ weightOf' = weightOf /\ subConns' = subConns
      /\ weights' = weights /\ \A j : At(j)' = At(j)
  BY DEF PickWeighted, PickNext, At, weights, WeightsOf
<1>2. Whole(weights) /\ Len(weights) = N /\ N \in Nat /\ N > 0
  <2>1. subConns # <<>> /\ subConns \in Seq(Node)
    BY <1>1, ReadyLists DEF PickNext, Starts
  <2> QED BY <2>1, WeightsWhole, Indexes DEF SInv, weights
<1>3. /\ picks' \in [Node -> Int] /\ next \in D
      /\ ~Cycles \/ (\A j \in D : CountedAt(j) = Share(weights, j)) =>
            \A j \in D : picks'[At(j)] = 0
      /\ Cycles /\ (\E j \in D : CountedAt(j) # Share(weights, j)) =>
            \A j \in D : picks'[At(j)] = CountedAt(j)
  BY <1>1, CountedIs DEF ShareAt
<1>4. Cycles <=> Positive(weights) # {}
  BY <1>1 DEF Cycles
<1>5. CASE N = 1
  <2>1. next' = 0
    BY <1>1, <1>2, <1>5, NextIsIndex
  <2>2. NextIsNode'
    BY <1>1, <1>5, <2>1 DEF NextIsNode
  <2>3. AloneKept'
    <3>1. \A j \in D : j = 0
      BY <1>5
    <3>2. 0 \in D /\ next = 0
      BY <1>3, <1>5, <3>1
    <3>3. CountedAt(0) = 1
      <4>1. picks[At(0)] = 0
        BY <1>1, <1>5 DEF SInv, AloneKept
      <4> QED BY <3>2, <4>1 DEF CountedAt
    <3>4. CASE Cycles
      <4>1. Share(weights, 0) = 1
        BY <1>2, <1>4, <1>5, <3>4, GcdAlone
      <4> QED BY <1>1, <1>3, <3>1, <3>2, <3>3, <4>1 DEF AloneKept
    <3>5. CASE ~Cycles
      BY <1>1, <1>3, <3>2, <3>5 DEF AloneKept
    <3> QED BY <3>4, <3>5
  <2> QED BY <1>1, <1>3, <1>5, <2>2, <2>3 DEF SInv, RingKept, RoundKept
<1>6. CASE N # 1
  <2>1. N > 1 /\ RoundState(weights, wrr) /\ next = wrr.i
        /\ (Positive(weights) # {} => \A j \in D : picks[At(j)] = CountAt(weights, wrr, j))
    <3>1. N > 1
      BY <1>2, <1>6
    <3> QED BY <1>1, <3>1 DEF SInv, RoundKept
  <2> DEFINE t == WrrNext(weights, wrr)
  <2>2. wrr' = t
    BY <1>1, <1>2, <2>1 DEF WrrAfter
  <2>3. RoundState(weights, t)
    BY <1>2, <2>1, WrrGoes, WrrStays
  <2>4. next' \in D /\ next' = t.i
    BY <1>1, <1>2, <2>1, <2>3, NextIsIndex
  <2> HIDE DEF t
  <2>5. ASSUME Positive(weights) # {}
        PROVE  \A j \in D : picks'[At(j)] = CountAt(weights, t, j)
    <3>1. \A j \in D : CountedAt(j) = CountAt(weights, wrr, j) + (IF j = wrr.i THEN 1 ELSE 0)
      BY <2>1, <2>5 DEF CountedAt
    <3>2. \/ /\ \A j \in D : CountAt(weights, t, j) = CountedAt(j)
             /\ \E j \in D : CountedAt(j) # Share(weights, j)
          \/ \A j \in D : CountedAt(j) = Share(weights, j) /\ CountAt(weights, t, j) = 0
      BY <1>2, <2>1, <2>5, <3>1, WrrGoes DEF t
    <3> QED BY <1>3, <1>4, <2>5, <3>2
  <2>6. NextIsNode'
    BY <1>1, <2>4 DEF NextIsNode
  <2>7. RoundKept'
    BY <1>1, <2>2, <2>3, <2>4, <2>5 DEF RoundKept
  <2> QED BY <1>1, <1>3, <1>6, <2>6, <2>7 DEF SInv, RingKept, AloneKept
<1> QED BY <1>5, <1>6

LEMMA SharesRandom == ASSUME PInv, SInv, NEW r \in Request, PickRandom(r) PROVE SInv'
<1>1. /\ policy = "rwrr" /\ PickNext(r) /\ next' \in NextIndexes(weights, wrr)
      /\ policy' = policy /\ weightOf' = weightOf /\ subConns' = subConns
  BY DEF PickRandom, PickNext
<1>2. Whole(weights) /\ Len(weights) = Len(subConns) /\ Len(subConns) > 0
  <2>1. subConns # <<>> /\ subConns \in Seq(Node)
    BY <1>1, ReadyLists DEF PickNext, Starts
  <2> QED BY <2>1, WeightsWhole, Indexes DEF SInv, weights
<1>3. picks' \in [Node -> Int]
  BY <1>1, CountedIs
<1>4. next' \in 0 .. Len(subConns) - 1
  BY <1>1, <1>2, NextIsIndex
<1> QED BY <1>1, <1>3, <1>4 DEF SInv, NextIsNode, RingKept, AloneKept, RoundKept

LEMMA SharesStay ==
    ASSUME SInv, UNCHANGED <<policy, weightOf, subConns, next, wrr, picks>>
    PROVE  SInv'
BY DEF SInv, NextIsNode, RingKept, AloneKept, RoundKept, At, weights, WeightsOf

LEMMA SharesNext == PInv /\ PInv' /\ SInv /\ [Next]_vars => SInv'
<1> SUFFICES ASSUME PInv, PInv', SInv, [Next]_vars PROVE SInv'
  OBVIOUS
<1>1. CASE Build
  BY <1>1, SharesBuild
<1>2. ASSUME NEW r \in Request, PickRoundRobin(r)
      PROVE  SInv'
  BY <1>2, SharesRing
<1>3. ASSUME NEW r \in Request, PickWeighted(r)
      PROVE  SInv'
  BY <1>3, SharesWeighted
<1>4. ASSUME NEW r \in Request, PickRandom(r)
      PROVE  SInv'
  BY <1>4, SharesRandom
<1>5. ASSUME NEW r \in Request,
             \/ PickFewest(r) \/ PickFastest(r) \/ Choose(r) \/ Commit(r)
             \/ DoneUncounted(r) \/ DoneFewest(r) \/ DoneChosen(r) \/ DoneGone(r)
             \/ \E failed \in BOOLEAN : DoneFastest(r, failed)
      PROVE  SInv'
  BY <1>5, SharesStay DEF PickFewest, PickFastest, Choose, Commit, DoneUncounted, DoneFewest,
                          DoneFastest, DoneChosen, DoneGone, roundVars, pickerVars
<1>6. ASSUME NEW n \in Node, Elapse(n)
      PROVE  SInv'
  BY <1>6, SharesStay DEF Elapse, roundVars
<1>7. CASE UNCHANGED vars
  BY <1>7, SharesStay DEF vars, pickerVars
<1> QED BY <1>1, <1>2, <1>3, <1>4, <1>5, <1>6, <1>7 DEF Next

LEMMA SharesHold == PInv /\ SInv => Shares
<1> SUFFICES ASSUME PInv, SInv PROVE Shares
  OBVIOUS
<1> DEFINE N == Len(subConns)
<1> DEFINE D == 0 .. N - 1
<1>1. Whole(weights) /\ Len(weights) = N /\ N \in Nat /\ DOMAIN weights = 1 .. N
  <2>1. subConns \in Seq(Node)
    BY ReadyLists
  <2>2. Whole(weights) /\ Len(weights) = N /\ N \in Nat
    BY <2>1, WeightsWhole DEF SInv, weights
  <2> QED BY <2>2 DEF Whole
<1>2. ASSUME Cycles, NEW n \in Ready
      PROVE  picks[n] <= ShareOf(n)
  <2>1. PICK j \in D : n = At(j)
    BY Indexes
  <2>2. ShareOf(n) = ShareAt(j)
    BY <2>1, Indexes DEF ShareOf, ShareAt
  <2>3. N > 0 /\ subConns # <<>>
    <3>1. N > 0
      BY <1>1, <2>1
    <3>2. Len(<<>>) = 0
      OBVIOUS
    <3> QED BY <3>1, <3>2
  <2>4. CASE policy = "rr"
    <3>1. picks[n] \in {0, 1}
      BY <2>1, <2>3, <2>4 DEF SInv, RingKept
    <3> QED BY <2>2, <2>4, <3>1 DEF ShareAt
  <2>5. CASE policy = "wrr"
    <3>1. Positive(weights) # {} /\ ShareAt(j) = Share(weights, j)
      BY <1>2, <2>5 DEF Cycles, ShareAt
    <3>2. CASE N = 1
      <4>1. j = 0
        BY <3>2
      <4>2. picks[n] = 0
        BY <2>1, <2>5, <3>2, <4>1 DEF SInv, AloneKept
      <4>3. Share(weights, 0) = 1
        BY <1>1, <3>1, <3>2, GcdAlone
      <4> QED BY <2>2, <3>1, <4>1, <4>2, <4>3
    <3>3. CASE N # 1
      <4>1. N > 1
        BY <1>1, <2>3, <3>3
      <4>2. picks[n] = CountAt(weights, wrr, j) /\ RoundState(weights, wrr)
        BY <2>1, <2>5, <3>1, <4>1 DEF SInv, RoundKept
      <4>3. CountAt(weights, wrr, j) <= Share(weights, j)
        BY <1>1, <3>1, <4>2, WrrBelow
      <4> QED BY <2>2, <3>1, <4>2, <4>3
    <3> QED BY <3>2, <3>3
  <2> QED BY <1>2, <2>4, <2>5 DEF Cycles
<1>3. RandomShares
  BY <1>1, RandomShare DEF RandomShares
<1> QED BY <1>2, <1>3 DEF Shares, SharesKept, SInv

\* The index a picker picks next is one of its nodes, whatever weights there are, even
\* if their sum wraps; in each cycle rr picks a node once and wrr as often as its weight
\* divided by the gcd says, never more; and rwrr gives each node as many random weights
\* as its weight is when their sum does not wrap.
THEOREM SharesAlwaysKept == Spec => []Shares
<1>1. Spec => [](PInv /\ SInv)
  BY InitInv, NextInv, SharesInit, SharesNext, PTL DEF Spec
<1> QED BY <1>1, SharesHold, PTL
=============================================================================
