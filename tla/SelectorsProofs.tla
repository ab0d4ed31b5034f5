-------------------------- MODULE SelectorsProofs --------------------------
(***************************************************************************)
(* Label selectors for any text and any labels: what a selector holds, that*)
(* reading a text ends without reading past it, and what matching answers. *)
(***************************************************************************)
EXTENDS Selectors, FiniteSetTheorems, SequenceTheorems, WellFoundedInduction, NaturalsInduction,
        TLAPS

-----------------------------------------------------------------------------
(* Loops. An induction is given the set of the numbers it holds for. *)

LEMMA LeastOf ==
    ASSUME NEW T \in SUBSET Nat, T # {}
    PROVE  \E m \in T : \A t \in T : m <= t
<1>1. PICK x \in T : \A y \in T : ~(<<y, x>> \in OpToRel(<, Nat))
  BY NatLessThanWellFounded, WFMin
<1>2. \A y \in T : x <= y
  <2> SUFFICES ASSUME NEW y \in T PROVE x <= y
    OBVIOUS
  <2>1. x \in Nat /\ y \in Nat
    OBVIOUS
  <2>2. ~(y < x)
    BY <1>1, <2>1 DEF OpToRel
  <2> QED BY <2>1, <2>2
<1> QED BY <1>2

LEMMA UpTo ==
    ASSUME NEW n \in Nat, NEW G, 0 \in G, \A k \in 1 .. n : k - 1 \in G => k \in G
    PROVE  \A k \in 0 .. n : k \in G
<1> DEFINE T == {k \in 0 .. n : k \notin G}
<1> SUFFICES ASSUME T # {} PROVE FALSE
  OBVIOUS
<1>1. T \in SUBSET Nat
  OBVIOUS
<1>2. PICK m \in T : \A t \in T : m <= t
  <2> HIDE DEF T
  <2> QED BY <1>1, LeastOf
<1>3. m \in 1 .. n /\ m - 1 \in 0 .. n /\ ~(m <= m - 1)
  OBVIOUS
<1>4. m - 1 \in G
  BY <1>2, <1>3
<1> QED BY <1>3, <1>4

\* A loop of n turns from s, with F for its turns.
LoopOf(n, S, s, F) ==
    \E f \in [0 .. n -> S] : f[0] = s /\ \A k \in 1 .. n : f[k] = F[<<k, f[k - 1]>>]

\* A loop exists: the state after each turn is that before it, turned.
LEMMA Iterates ==
    ASSUME NEW n \in Nat, NEW S, NEW s \in S, NEW F \in [(1 .. n) \X S -> S]
    PROVE  LoopOf(n, S, s, F)
<1> DEFINE Goes(f, m) == f[0] = s /\ \A k \in 1 .. m : f[k] = F[<<k, f[k - 1]>>]
           G == {m \in 0 .. n : \E f \in [0 .. n -> S] : Goes(f, m)}
<1>1. 0 \in G
  <2> DEFINE f == [k \in 0 .. n |-> s]
  <2>1. f \in [0 .. n -> S] /\ Goes(f, 0)
    OBVIOUS
  <2> HIDE DEF f, Goes
  <2> QED BY <2>1
<1>2. ASSUME NEW m \in 1 .. n, m - 1 \in G PROVE m \in G
  <2>1. PICK f \in [0 .. n -> S] : Goes(f, m - 1)
    BY <1>2
  <2>0. \A j \in 1 .. m - 1 : f[j] = F[<<j, f[j - 1]>>]
    BY <2>1
  <2> DEFINE g == [k \in 0 .. n |-> IF k = m THEN F[<<m, f[m - 1]>>] ELSE f[k]]
  <2>2. f[m - 1] \in S
    OBVIOUS
  <2>3. F[<<m, f[m - 1]>>] \in S
    BY <2>2
  <2>4. g \in [0 .. n -> S]
    BY <2>3
  <2>8. \A j \in 0 .. n : g[j] = IF j = m THEN F[<<m, f[m - 1]>>] ELSE f[j]
    OBVIOUS
  <2> HIDE DEF g
  <2>5. g[0] = s
    BY <2>1, <2>8
  <2>6. ASSUME NEW k \in 1 .. m PROVE g[k] = F[<<k, g[k - 1]>>]
    <3>1. k \in 0 .. n /\ k - 1 \in 0 .. n /\ k - 1 # m
      OBVIOUS
    <3>2. g[k - 1] = f[k - 1]
      BY ONLY <2>8, <3>1
    <3>3. CASE k = m
      BY ONLY <2>8, <3>1, <3>2, <3>3
    <3>4. CASE k # m
      <4>1. k \in 1 .. m - 1
        BY <3>4
      <4>2. g[k] = f[k]
        BY ONLY <2>8, <3>1, <3>4
      <4>3. f[k] = F[<<k, f[k - 1]>>]
        BY ONLY <2>0, <4>1
      <4> QED BY ONLY <3>2, <4>2, <4>3
    <3> QED BY <3>3, <3>4
  <2>7. Goes(g, m)
    BY <2>5, <2>6
  <2> HIDE DEF Goes
  <2> QED BY <2>4, <2>7
<1>3. n \in G
  <2> HIDE DEF G
  <2> QED BY <1>1, <1>2, UpTo
<1> QED BY <1>3 DEF LoopOf

-----------------------------------------------------------------------------
(* Sorting. *)

LEMMA InsertedType ==
    ASSUME NEW S, NEW s \in Seq(S), NEW r \in S
    PROVE  Inserted(s, r) \in Seq(S) /\ Len(Inserted(s, r)) = Len(s) + 1
<1> DEFINE before == {i \in DOMAIN s : ~Before(r.key, s[i].key)}
           i == 1 + Cardinality(before)
<1>1. Cardinality(before) \in 0 .. Len(s)
  <2>1. DOMAIN s = 1 .. Len(s) /\ Len(s) \in Nat
    OBVIOUS
  <2>2. IsFiniteSet(1 .. Len(s)) /\ Cardinality(1 .. Len(s)) = Len(s)
    BY <2>1, FS_Interval
  <2>3. before \subseteq 1 .. Len(s)
    BY <2>1
  <2> HIDE DEF before
  <2>4. Cardinality(before) <= Len(s) /\ IsFiniteSet(before)
    BY <2>2, <2>3, FS_Subset
  <2>5. Cardinality(before) \in Nat
    BY <2>4, FS_CardinalityType
  <2> QED BY <2>4, <2>5, <2>1
<1> HIDE DEF before
<1>2. i \in 1 .. Len(s) + 1 /\ i - 1 \in 0 .. Len(s)
  BY <1>1
<1> HIDE DEF i
<1>3. SubSeq(s, 1, i - 1) \in Seq(S) /\ Len(SubSeq(s, 1, i - 1)) = i - 1
  BY <1>2
<1>4. SubSeq(s, i, Len(s)) \in Seq(S) /\ Len(SubSeq(s, i, Len(s))) = Len(s) - i + 1
  BY <1>2
<1>5. <<r>> \in Seq(S) /\ Len(<<r>>) = 1
  OBVIOUS
<1>6. SubSeq(s, 1, i - 1) \o <<r>> \in Seq(S) /\ Len(SubSeq(s, 1, i - 1) \o <<r>>) = i
  BY <1>2, <1>3, <1>5, ConcatProperties
<1> DEFINE one == SubSeq(s, 1, i - 1) \o <<r>>
           two == SubSeq(s, i, Len(s))
<1>7. InsertAt(s, i, r) \in Seq(S) /\ Len(InsertAt(s, i, r)) = Len(s) + 1
  <2>1. InsertAt(s, i, r) = one \o two
    BY DEF InsertAt
  <2>2. one \in Seq(S) /\ two \in Seq(S) /\ Len(one) = i /\ Len(two) = Len(s) - i + 1
    BY <1>4, <1>6
  <2> HIDE DEF one, two
  <2>3. one \o two \in Seq(S) /\ Len(one \o two) = Len(one) + Len(two)
    BY <2>2, ConcatProperties
  <2> QED BY <1>2, <2>1, <2>2, <2>3
<1> QED BY <1>7 DEF Inserted, i, before

\* Sorting goes through the requirements and makes up none.
LEMMA SortedLoop ==
    ASSUME NEW S, NEW rs \in Seq(S)
    PROVE  \E f \in [0 .. Len(rs) -> Seq(S)] :
             /\ f[0] = <<>>
             /\ \A k \in 1 .. Len(rs) : f[k] = Inserted(f[k - 1], rs[k])
             /\ Sorted(rs) = f[Len(rs)]
<1> DEFINE St == Seq(S)
           n == Len(rs)
           s == <<>>
           Eq(f) == f = [k \in 0 .. n |-> IF k = 0 THEN s ELSE Inserted(f[k - 1], rs[k])]
           after == CHOOSE f : Eq(f)
           F == [x \in (1 .. n) \X St |-> Inserted(x[2], rs[x[1]])]
           G == {k \in 0 .. n : after[k] \in St}
<1>1. n \in Nat /\ s \in St
  OBVIOUS
<1>2. ASSUME NEW k \in 1 .. n, NEW x \in St PROVE Inserted(x, rs[k]) \in St
  <2>1. rs[k] \in S
    BY ElementOfSeq
  <2> QED BY <2>1, InsertedType
<1>3. F \in [(1 .. n) \X St -> St]
  <2>1. ASSUME NEW x \in (1 .. n) \X St PROVE Inserted(x[2], rs[x[1]]) \in St
    <3>1. x[1] \in 1 .. n /\ x[2] \in St
      OBVIOUS
    <3> QED BY <1>2, <3>1
  <2> QED BY <2>1
<1>4. \A k \in 1 .. n, x \in St : F[<<k, x>>] = Inserted(x, rs[k])
  OBVIOUS
<1> HIDE DEF n, s, F, St
<1>5. PICK g \in [0 .. n -> St] : g[0] = s /\ \A k \in 1 .. n : g[k] = F[<<k, g[k - 1]>>]
  <2>1. LoopOf(n, St, s, F)
    BY <1>1, <1>3, Iterates
  <2> QED BY <2>1 DEF LoopOf
<1>6. Eq(g)
  <2>1. ASSUME NEW k \in 0 .. n PROVE g[k] = IF k = 0 THEN s ELSE Inserted(g[k - 1], rs[k])
    <3>1. CASE k = 0
      BY <1>5, <3>1
    <3>2. CASE k # 0
      <4>1. k \in 1 .. n /\ k - 1 \in 0 .. n
        BY <1>1, <3>2
      <4>2. g[k] = F[<<k, g[k - 1]>>] /\ g[k - 1] \in St
        BY <1>5, <4>1
      <4> QED BY <1>4, <3>2, <4>1, <4>2
    <3> QED BY <3>1, <3>2
  <2> QED BY <1>5, <2>1
<1> HIDE DEF Eq
<1>7. Eq(after)
  BY <1>6
<1> HIDE DEF after
<1>8. /\ after = [k \in 0 .. n |-> after[k]]
      /\ after[0] = s
      /\ \A k \in 1 .. n : after[k] = Inserted(after[k - 1], rs[k])
  <2>1. after = [k \in 0 .. n |-> IF k = 0 THEN s ELSE Inserted(after[k - 1], rs[k])]
    BY <1>7 DEF Eq
  <2>2. 0 \in 0 .. n /\ \A k \in 1 .. n : k \in 0 .. n /\ k # 0
    BY <1>1
  <2> QED BY <2>1, <2>2
<1>9. \A k \in 0 .. n : after[k] \in St
  <2>1. 0 \in G
    BY <1>1, <1>8
  <2>2. ASSUME NEW k \in 1 .. n, k - 1 \in G PROVE k \in G
    <3>1. after[k - 1] \in St /\ k \in 0 .. n
      BY <1>1, <2>2
    <3>2. after[k] = Inserted(after[k - 1], rs[k])
      BY <1>8
    <3>3. after[k] \in St
      BY <1>2, <3>1, <3>2
    <3> QED BY <3>1, <3>3
  <2> HIDE DEF G
  <2>3. \A k \in 0 .. n : k \in G
    BY <1>1, <2>1, <2>2, UpTo
  <2> QED BY <2>3 DEF G
<1>10. Sorted(rs) = after[n]
  BY DEF Sorted, n, s, after, Eq
<1>11. after \in [0 .. n -> St]
  BY <1>8, <1>9
<1> QED BY <1>8, <1>10, <1>11 DEF n, s, St

LEMMA SortedType ==
    ASSUME NEW S, NEW rs \in Seq(S)
    PROVE  Sorted(rs) \in Seq(S)
<1>1. Len(rs) \in Nat
  OBVIOUS
<1> QED BY <1>1, SortedLoop

-----------------------------------------------------------------------------
(* The lexer. *)

Token == Special \cup Keyword \cup {"~=", "!=", "==", "id", "error"}
AnyItem == [tok : Token, lit : Seq(Char)]
ScanState == [items : Seq(AnyItem), from : Nat \ {0}]

\* What the parser is given: items, of which the last says that there are no more.
Readable(items) ==
    /\ items \in Seq([tok : Token \cup {"end"}, lit : Seq(Char)])
    /\ Len(items) >= 1
    /\ \A i \in 1 .. Len(items) : items[i].tok = "end" <=> i = Len(items)

\* What SelectInSubSeq returns of the places its test holds at.
First(I) == IF I # {} THEN Min(I) ELSE 0

LEMMA FirstOf ==
    ASSUME NEW a \in Nat, NEW b \in Nat, NEW I \in SUBSET (a .. b)
    PROVE  First(I) = 0 \/ First(I) \in a .. b
<1>1. CASE I # {}
  <2>1. I \in SUBSET Nat
    OBVIOUS
  <2>2. \E m \in I : \A t \in I : m <= t
    BY <1>1, <2>1, LeastOf
  <2>3. Min(I) \in I
    BY <2>2 DEF Min
  <2> QED BY <1>1, <2>3 DEF First
<1> QED BY <1>1 DEF First

LEMMA SubSeqType ==
    ASSUME NEW S, NEW s \in Seq(S), NEW a \in 1 .. Len(s) + 1, NEW b \in a - 1 .. Len(s)
    PROVE  SubSeq(s, a, b) \in Seq(S)
<1>1. Len(s) \in Nat
  OBVIOUS
<1>2. \A i \in a .. b : s[i] \in S
  BY <1>1, ElementOfSeq
<1> QED BY <1>1, <1>2

\* One turn of the lexer: items of their types, and a later place to read on at.
LEMMA ScanTurnType ==
    ASSUME NEW t \in Seq(Char), NEW s \in ScanState
    PROVE  ScanTurn(t, s) \in ScanState
<1> DEFINE n == Len(t)
           from == s.from
           I == {x \in from .. n : t[x] # Blank}
           i == First(I)
           J == {x \in i .. n : t[x] \in Special \cup {Blank}}
           j == IF First(J) = 0 THEN n ELSE First(J) - 1
           K == {x \in i + 1 .. n : t[x] = ","}
           k == IF First(K) = 0 THEN n ELSE First(K) - 1
           read(items, next) == [items |-> s.items \o items, from |-> next]
<1>1. n \in Nat /\ from \in Nat \ {0} /\ s.items \in Seq(AnyItem)
  BY DEF ScanState
<1>2. i = 0 \/ i \in 1 .. n
  <2>1. I \in SUBSET (from .. n)
    OBVIOUS
  <2> HIDE DEF I
  <2>2. i = 0 \/ i \in from .. n
    BY <1>1, <2>1, FirstOf
  <2> HIDE DEF i
  <2> QED BY <1>1, <2>2
<1>3. ScanTurn(t, s) =
        CASE i = 0 -> s
          [] i # 0 /\ t[i] = "@" -> read(<<Item("@", <<"@">>), Item("id", SubSeq(t, i + 1, k))>>, k + 1)
          [] i # 0 /\ t[i] \in Special \ {"@"} -> read(<<SpecialSymbol(t, i)>>, i + Width(t, i))
          [] OTHER -> read(<<IDOrKeyword(SubSeq(t, i, j))>>, j + 1)
  BY DEF ScanTurn, SelectInSubSeq, EndOfRun, First
<1> HIDE DEF i
<1>4. ASSUME i # 0 PROVE j \in i - 1 .. n
  <2>1. J \in SUBSET (i .. n) /\ i \in Nat
    BY <1>1, <1>2
  <2> HIDE DEF J
  <2>2. First(J) = 0 \/ First(J) \in i .. n
    BY <1>1, <2>1, FirstOf
  <2> QED BY <1>1, <1>2, <1>4, <2>2
<1>5. ASSUME i # 0 PROVE k \in i .. n
  <2>1. K \in SUBSET (i + 1 .. n)
    OBVIOUS
  <2> HIDE DEF K
  <2>2. First(K) = 0 \/ First(K) \in i + 1 .. n
    <3>1. i + 1 \in Nat
      BY <1>1, <1>2
    <3> QED BY <1>1, <2>1, <3>1, FirstOf
  <2> QED BY <1>1, <1>2, <1>5, <2>2
<1> HIDE DEF i, j, k, n, from
<1>6. ASSUME NEW items \in Seq(AnyItem), NEW next \in Nat \ {0} PROVE read(items, next) \in ScanState
  <2>1. s.items \o items \in Seq(AnyItem)
    BY <1>1, ConcatProperties
  <2> QED BY <2>1 DEF ScanState
<1> HIDE DEF read
<1>7. ASSUME NEW x \in AnyItem PROVE <<x>> \in Seq(AnyItem)
  OBVIOUS
<1>8. CASE i = 0
  BY <1>3, <1>8
<1>9. ASSUME i # 0, t[i] = "@" PROVE ScanTurn(t, s) \in ScanState
  <2>1. SubSeq(t, i + 1, k) \in Seq(Char)
    <3>1. i + 1 \in 1 .. Len(t) + 1 /\ k \in (i + 1) - 1 .. Len(t)
      BY <1>1, <1>2, <1>5, <1>9 DEF n
    <3> QED BY <3>1, SubSeqType
  <2>2. <<"@">> \in Seq(Char)
    <3>1. "@" \in Char
      BY DEF Char, Special
    <3> QED BY <3>1
  <2> DEFINE x == Item("@", <<"@">>)
             y == Item("id", SubSeq(t, i + 1, k))
  <2>3. x \in AnyItem /\ y \in AnyItem
    BY <2>1, <2>2 DEF Item, AnyItem, Token, Special
  <2>4. ScanTurn(t, s) = read(<<x, y>>, k + 1)
    BY <1>3, <1>9
  <2> HIDE DEF x, y
  <2>5. <<x, y>> \in Seq(AnyItem) /\ k + 1 \in Nat \ {0}
    BY <1>1, <1>2, <1>5, <1>9, <2>3
  <2> QED BY <1>6, <2>4, <2>5
<1>10. ASSUME i # 0, t[i] \in Special \ {"@"} PROVE ScanTurn(t, s) \in ScanState
  <2>1. SpecialSymbol(t, i) \in AnyItem
    <3>1. <<t[i], "=">> \in Seq(Char) /\ <<t[i]>> \in Seq(Char)
      <4>1. t[i] \in Char /\ "=" \in Char
        BY <1>10 DEF Char, Special
      <4> QED BY <4>1
    <3> QED BY <1>10, <3>1 DEF SpecialSymbol, Paired, Item, AnyItem, Token, Special
  <2>2. Width(t, i) \in {1, 2}
    BY DEF Width
  <2>3. ScanTurn(t, s) = read(<<SpecialSymbol(t, i)>>, i + Width(t, i))
    BY <1>3, <1>10
  <2>4. i + Width(t, i) \in Nat \ {0}
    BY <1>1, <1>2, <2>2
  <2> QED BY <1>6, <1>7, <2>1, <2>3, <2>4
<1>11. ASSUME i # 0, t[i] # "@", t[i] \notin Special \ {"@"} PROVE ScanTurn(t, s) \in ScanState
  <2> DEFINE lit == SubSeq(t, i, j)
  <2>1. lit \in Seq(Char)
    <3>1. i \in 1 .. Len(t) + 1 /\ j \in i - 1 .. Len(t)
      BY <1>1, <1>2, <1>4, <1>11 DEF n
    <3> QED BY <3>1, SubSeqType
  <2>2. ScanTurn(t, s) = read(<<IDOrKeyword(lit)>>, j + 1)
    BY <1>3, <1>11
  <2> HIDE DEF lit
  <2>3. IDOrKeyword(lit) \in AnyItem
    BY <2>1 DEF IDOrKeyword, Item, AnyItem, Token
  <2>4. j + 1 \in Nat \ {0}
    BY <1>1, <1>2, <1>4, <1>11
  <2> QED BY <1>6, <1>7, <2>2, <2>3, <2>4
<1> QED BY <1>8, <1>9, <1>10, <1>11

\* scan goes from state to state of the lexer.
LEMMA ScanLoop ==
    ASSUME NEW t \in Seq(Char)
    PROVE  \E f \in [0 .. Len(t) -> ScanState] :
             /\ f[0] = [items |-> <<>>, from |-> 1]
             /\ \A k \in 1 .. Len(t) : f[k] = ScanTurn(t, f[k - 1])
             /\ Loop(LAMBDA y : ScanTurn(t, y), [items |-> <<>>, from |-> 1], Len(t)) = f[Len(t)]
<1> DEFINE St == ScanState
           n == Len(t)
           s == [items |-> <<>>, from |-> 1]
           Eq(f) == f = [k \in 0 .. n |-> IF k = 0 THEN s ELSE ScanTurn(t, f[k - 1])]
           after == CHOOSE f : Eq(f)
           F == [x \in (1 .. n) \X St |-> ScanTurn(t, x[2])]
           G == {k \in 0 .. n : after[k] \in St}
<1>1. n \in Nat /\ s \in St
  BY DEF ScanState
<1>2. ASSUME NEW k \in 1 .. n, NEW x \in St PROVE ScanTurn(t, x) \in St
  BY ScanTurnType
<1>3. F \in [(1 .. n) \X St -> St]
  <2>1. ASSUME NEW x \in (1 .. n) \X St PROVE ScanTurn(t, x[2]) \in St
    <3>1. x[1] \in 1 .. n /\ x[2] \in St
      OBVIOUS
    <3> QED BY <1>2, <3>1
  <2> QED BY <2>1
<1>4. \A k \in 1 .. n, x \in St : F[<<k, x>>] = ScanTurn(t, x)
  OBVIOUS
<1> HIDE DEF n, s, F, St
<1>5. PICK g \in [0 .. n -> St] : g[0] = s /\ \A k \in 1 .. n : g[k] = F[<<k, g[k - 1]>>]
  <2>1. LoopOf(n, St, s, F)
    BY <1>1, <1>3, Iterates
  <2> QED BY <2>1 DEF LoopOf
<1>6. Eq(g)
  <2>1. ASSUME NEW k \in 0 .. n PROVE g[k] = IF k = 0 THEN s ELSE ScanTurn(t, g[k - 1])
    <3>1. CASE k = 0
      BY <1>5, <3>1
    <3>2. CASE k # 0
      <4>1. k \in 1 .. n /\ k - 1 \in 0 .. n
        BY <1>1, <3>2
      <4>2. g[k] = F[<<k, g[k - 1]>>] /\ g[k - 1] \in St
        BY <1>5, <4>1
      <4> QED BY <1>4, <3>2, <4>1, <4>2
    <3> QED BY <3>1, <3>2
  <2> QED BY <1>5, <2>1
<1> HIDE DEF Eq
<1>7. Eq(after)
  BY <1>6
<1> HIDE DEF after
<1>8. /\ after = [k \in 0 .. n |-> after[k]]
      /\ after[0] = s
      /\ \A k \in 1 .. n : after[k] = ScanTurn(t, after[k - 1])
  <2>1. after = [k \in 0 .. n |-> IF k = 0 THEN s ELSE ScanTurn(t, after[k - 1])]
    BY <1>7 DEF Eq
  <2>2. 0 \in 0 .. n /\ \A k \in 1 .. n : k \in 0 .. n /\ k # 0
    BY <1>1
  <2> QED BY <2>1, <2>2
<1>9. \A k \in 0 .. n : after[k] \in St
  <2>1. 0 \in G
    BY <1>1, <1>8
  <2>2. ASSUME NEW k \in 1 .. n, k - 1 \in G PROVE k \in G
    <3>1. after[k - 1] \in St /\ k \in 0 .. n
      BY <1>1, <2>2
    <3>2. after[k] = ScanTurn(t, after[k - 1])
      BY <1>8
    <3>3. after[k] \in St
      BY <1>2, <3>1, <3>2
    <3> QED BY <3>1, <3>3
  <2> HIDE DEF G
  <2>3. \A k \in 0 .. n : k \in G
    BY <1>1, <2>1, <2>2, UpTo
  <2> QED BY <2>3 DEF G
<1>10. Loop(LAMBDA y : ScanTurn(t, y), [items |-> <<>>, from |-> 1], Len(t)) = after[n]
  BY DEF Loop, n, s, after, Eq
<1>11. after \in [0 .. n -> St]
  BY <1>8, <1>9
<1> QED BY <1>8, <1>10, <1>11 DEF n, s, St

\* A text becomes items that end with the one that says so, and only there.
LEMMA ScanType ==
    ASSUME NEW t \in Seq(Char)
    PROVE  Readable(scan(t))
<1>1. PICK f \in [0 .. Len(t) -> ScanState] :
        Loop(LAMBDA y : ScanTurn(t, y), [items |-> <<>>, from |-> 1], Len(t)) = f[Len(t)]
  BY ScanLoop
<1> DEFINE items == f[Len(t)].items
           end == Item("end", Empty)
<1>2. items \in Seq(AnyItem)
  <2>1. Len(t) \in 0 .. Len(t)
    OBVIOUS
  <2> QED BY <1>1, <2>1 DEF ScanState
<1>3. scan(t) = Append(items, end)
  BY <1>1 DEF scan
<1> DEFINE Read == [tok : Token \cup {"end"}, lit : Seq(Char)]
<1>4. end \in Read /\ end.tok = "end"
  BY DEF Item, Empty
<1> HIDE DEF items, end
<1>5. \A i \in 1 .. Len(items) : items[i] \in AnyItem
  BY <1>2, ElementOfSeq
<1>6. items \in Seq(Read)
  <2>1. AnyItem \subseteq Read
    BY DEF AnyItem
  <2> HIDE DEF Read
  <2> QED BY <1>2, <2>1, SeqMonotonic
<1>7. "end" \notin Token
  BY DEF Token, Special, Keyword
<1>8. /\ scan(t) \in Seq(Read) /\ Len(scan(t)) = Len(items) + 1 /\ Len(items) \in Nat
      /\ \A i \in 1 .. Len(items) : scan(t)[i] = items[i]
      /\ scan(t)[Len(items) + 1] = end
  <2> HIDE DEF Read
  <2> QED BY <1>3, <1>4, <1>6, AppendProperties
<1>9. \A i \in 1 .. Len(items) : scan(t)[i].tok # "end"
  BY <1>5, <1>7, <1>8 DEF AnyItem
<1> QED BY <1>4, <1>8, <1>9 DEF Readable

-----------------------------------------------------------------------------
(* The lexer skips blanks only, and reaches the end. *)

\* An item that is read from a place up to another, behind blanks.
ReadAt(t, item, from, to) ==
    \E b \in from .. to :
        /\ to = b + Len(item.lit)
        /\ item.lit = SubSeq(t, b, to - 1)
        /\ \A x \in from .. b - 1 : t[x] = Blank

\* Items that are read one behind the other, from the beginning up to a place.
ReadUpTo(t, items, to) ==
    \E at \in [1 .. Len(items) + 1 -> 1 .. Len(t) + 1] :
        /\ at[1] = 1 /\ at[Len(items) + 1] = to
        /\ \A i \in 1 .. Len(items) : ReadAt(t, items[i], at[i], at[i + 1])

BlankFrom(t, from) == \A x \in from .. Len(t) : t[x] = Blank

LEMMA FirstLeast ==
    ASSUME NEW a \in Nat \ {0}, NEW b \in Nat, NEW I \in SUBSET (a .. b)
    PROVE  /\ First(I) = 0 => I = {}
           /\ First(I) # 0 => First(I) \in I
           /\ \A x \in I : First(I) <= x
<1>1. CASE I # {}
  <2>1. I \in SUBSET Nat /\ 0 \notin I
    OBVIOUS
  <2>2. \E m \in I : \A x \in I : m <= x
    BY <1>1, <2>1, LeastOf
  <2>3. Min(I) \in I /\ \A x \in I : Min(I) <= x
    BY <2>2 DEF Min
  <2> QED BY <1>1, <2>1, <2>3 DEF First
<1> QED BY <1>1 DEF First

LEMMA Pieces ==
    ASSUME NEW S, NEW s \in Seq(S), NEW i \in 1 .. Len(s)
    PROVE  /\ SubSeq(s, i, i) = <<s[i]>>
           /\ i < Len(s) => SubSeq(s, i, i + 1) = <<s[i], s[i + 1]>>
<1>1. i \in Nat /\ i >= 1 /\ Len(s) \in Nat /\ i <= Len(s)
  OBVIOUS
<1>2. SubSeq(s, i, i) = <<s[i]>>
  <2> DEFINE u == SubSeq(s, i, i)
             v == <<s[i]>>
  <2>1. u \in Seq(S) /\ Len(u) = 1 /\ u[1] = s[i]
    BY <1>1
  <2>2. v \in Seq(S) /\ Len(v) = 1 /\ v[1] = s[i]
    BY <1>1
  <2> HIDE DEF u, v
  <2>3. \A k \in 1 .. Len(u) : u[k] = v[k]
    BY <2>1, <2>2
  <2>4. u = v
    BY <2>1, <2>2, <2>3, SeqEqual
  <2> QED BY <2>4 DEF u, v
<1>3. ASSUME i < Len(s) PROVE SubSeq(s, i, i + 1) = <<s[i], s[i + 1]>>
  <2> DEFINE u == SubSeq(s, i, i + 1)
             v == <<s[i], s[i + 1]>>
  <2>1. i + 1 <= Len(s)
    BY <1>1, <1>3
  <2>2. u \in Seq(S) /\ Len(u) = 2 /\ u[1] = s[i] /\ u[2] = s[i + 1]
    <3>1. \A k \in i .. i + 1 : s[k] \in S
      BY <1>1, <2>1
    <3>2. u \in Seq(S)
      BY <1>1, <2>1, <3>1
    <3>3. Len(u) = 2
      BY <1>1, <2>1
    <3>4. u[1] = s[i]
      BY <1>1, <2>1
    <3>5. u[2] = s[i + 1]
      BY <1>1, <2>1
    <3> HIDE DEF u
    <3> QED BY <3>2, <3>3, <3>4, <3>5
  <2>3. v \in Seq(S) /\ Len(v) = 2 /\ v[1] = s[i] /\ v[2] = s[i + 1]
    BY <1>1, <2>1
  <2>4. \A k \in 1 .. 2 : k = 1 \/ k = 2
    OBVIOUS
  <2> HIDE DEF u, v
  <2>5. \A k \in 1 .. Len(u) : u[k] = v[k]
    BY <2>2, <2>3, <2>4
  <2>6. u = v
    BY <2>2, <2>3, <2>5, SeqEqual
  <2> QED BY <2>6 DEF u, v
<1> QED BY <1>2, <1>3

LEMMA AppendedTwo ==
    ASSUME NEW S, NEW s \in Seq(S), NEW x \in S, NEW y \in S
    PROVE  Append(Append(s, x), y) = s \o <<x, y>>
<1> DEFINE u == Append(Append(s, x), y)
           v == s \o <<x, y>>
           n == Len(s)
<1>1. Append(s, x) \in Seq(S) /\ Len(Append(s, x)) = n + 1 /\ n \in Nat
  OBVIOUS
<1>2. <<x, y>> \in Seq(S) /\ Len(<<x, y>>) = 2
  OBVIOUS
<1>3. u \in Seq(S) /\ Len(u) = (n + 1) + 1
  BY <1>1, AppendProperties
<1>4. v \in Seq(S) /\ Len(v) = n + 2
  BY <1>1, <1>2, ConcatProperties
<1>5. ASSUME NEW k \in 1 .. Len(u) PROVE u[k] = v[k]
  <2>1. CASE k \in 1 .. n
    <3>1. u[k] = s[k]
      BY <1>1, <2>1
    <3>2. v[k] = s[k]
      BY <1>1, <2>1
    <3> QED BY <3>1, <3>2
  <2>2. CASE k = n + 1
    <3>1. u[k] = x
      BY <1>1, <2>2
    <3>2. v[k] = x
      BY <1>1, <2>2
    <3> QED BY <3>1, <3>2
  <2>3. CASE k = n + 2
    <3>1. u[k] = y
      BY <1>1, <2>3
    <3>2. v[k] = y
      BY <1>1, <2>3
    <3> QED BY <3>1, <3>2
  <2>4. k \in 1 .. n + 2
    BY <1>1, <1>3
  <2> HIDE DEF u, v, n
  <2> QED BY <1>1, <2>1, <2>2, <2>3, <2>4
<1> HIDE DEF u, v, n
<1>6. u = v
  BY <1>1, <1>3, <1>4, <1>5, SeqEqual
<1> QED BY <1>6 DEF u, v

LEMMA ReadFurther ==
    ASSUME NEW t \in Seq(Char), NEW items \in Seq(AnyItem), NEW from, ReadUpTo(t, items, from),
           NEW x \in AnyItem, NEW to \in 1 .. Len(t) + 1, ReadAt(t, x, from, to)
    PROVE  ReadUpTo(t, Append(items, x), to)
<1> DEFINE n == Len(items)
           m == Len(t)
           more == Append(items, x)
<1>1. PICK at \in [1 .. n + 1 -> 1 .. m + 1] :
        /\ at[1] = 1 /\ at[n + 1] = from
        /\ \A i \in 1 .. n : ReadAt(t, items[i], at[i], at[i + 1])
  BY DEF ReadUpTo
<1>2. n \in Nat /\ m \in Nat
  OBVIOUS
<1>3. /\ Len(more) = n + 1 /\ more[n + 1] = x
      /\ \A i \in 1 .. n : more[i] = items[i]
  BY AppendProperties
<1> DEFINE next == [i \in 1 .. (n + 1) + 1 |-> IF i = (n + 1) + 1 THEN to ELSE at[i]]
<1> HIDE DEF n, m, more
<1>4. next \in [1 .. (n + 1) + 1 -> 1 .. m + 1]
  <2>1. ASSUME NEW i \in 1 .. (n + 1) + 1 PROVE next[i] \in 1 .. m + 1
    <3>1. i # (n + 1) + 1 => i \in 1 .. n + 1
      BY <1>2
    <3> QED BY <1>1, <3>1 DEF m
  <2> QED BY <2>1
<1>5. next[1] = 1 /\ next[(n + 1) + 1] = to
  BY <1>1, <1>2
<1>6. ASSUME NEW i \in 1 .. n + 1 PROVE ReadAt(t, more[i], next[i], next[i + 1])
  <2>1. CASE i = n + 1
    <3>1. next[i] = from /\ next[i + 1] = to /\ more[i] = x
      BY <1>1, <1>2, <1>3, <2>1
    <3> QED BY <3>1
  <2>2. CASE i # n + 1
    <3>1. i \in 1 .. n /\ i + 1 \in 1 .. n + 1
      BY <1>2, <2>2
    <3>2. next[i] = at[i] /\ next[i + 1] = at[i + 1] /\ more[i] = items[i]
      BY <1>2, <1>3, <3>1
    <3> QED BY <1>1, <3>1, <3>2
  <2> QED BY <2>1, <2>2
<1> HIDE DEF next
<1> QED BY <1>3, <1>4, <1>5, <1>6 DEF ReadUpTo, m, more

\* A piece of the text, behind blanks.
LEMMA ReadPiece ==
    ASSUME NEW t \in Seq(Char), NEW from \in 1 .. Len(t) + 1, NEW b \in from .. Len(t) + 1,
           NEW e \in b - 1 .. Len(t), \A x \in from .. b - 1 : t[x] = Blank,
           NEW item, item.lit = SubSeq(t, b, e)
    PROVE  ReadAt(t, item, from, e + 1) /\ e + 1 \in 1 .. Len(t) + 1
<1> DEFINE n == Len(t)
<1>1. n \in Nat /\ from \in 1 .. n + 1 /\ b \in from .. n + 1 /\ e \in b - 1 .. n
  OBVIOUS
<1>2. Len(SubSeq(t, b, e)) = (e - b) + 1
  <2>1. b \in Nat /\ e \in Int /\ e - b + 1 >= 0 /\ b >= 1 /\ e <= n
    BY <1>1
  <2> QED BY <2>1
<1> HIDE DEF n
<1>3. e + 1 = b + Len(item.lit) /\ (e + 1) - 1 = e /\ b \in from .. e + 1 /\ e + 1 \in 1 .. n + 1
  BY <1>1, <1>2
<1> QED BY <1>3 DEF ReadAt, n

\* One turn reads on behind what was read, or there is nothing but blanks.
LEMMA ScanTurnReads ==
    ASSUME NEW t \in Seq(Char), NEW s \in ScanState, s.from \in 1 .. Len(t) + 1,
           ReadUpTo(t, s.items, s.from)
    PROVE  /\ ScanTurn(t, s).from \in 1 .. Len(t) + 1
           /\ ReadUpTo(t, ScanTurn(t, s).items, ScanTurn(t, s).from)
           /\ \/ BlankFrom(t, s.from) /\ ScanTurn(t, s) = s
              \/ ScanTurn(t, s).from > s.from
<1> DEFINE n == Len(t)
           from == s.from
           I == {x \in from .. n : t[x] # Blank}
           i == First(I)
           J == {x \in i .. n : t[x] \in Special \cup {Blank}}
           j == IF First(J) = 0 THEN n ELSE First(J) - 1
           K == {x \in i + 1 .. n : t[x] = ","}
           k == IF First(K) = 0 THEN n ELSE First(K) - 1
           read(items, next) == [items |-> s.items \o items, from |-> next]
           Reads(T) == /\ T.from \in 1 .. n + 1 /\ ReadUpTo(t, T.items, T.from)
                       /\ T.from > from
<1>1. n \in Nat /\ from \in 1 .. n + 1 /\ s.items \in Seq(AnyItem)
  BY DEF ScanState
<1>2. /\ i = 0 => I = {}
      /\ i # 0 => i \in from .. n /\ i \in 1 .. n /\ t[i] # Blank
      /\ \A x \in I : i <= x
  <2>1. I \in SUBSET (from .. n) /\ from \in Nat \ {0}
    BY <1>1
  <2>2. /\ i = 0 => I = {}
        /\ i # 0 => i \in I
        /\ \A x \in I : i <= x
    <3> HIDE DEF I
    <3> QED BY <1>1, <2>1, FirstLeast
  <2>3. \A x \in I : x \in from .. n /\ x \in 1 .. n /\ t[x] # Blank
    BY <1>1
  <2> HIDE DEF i, I
  <2> QED BY <2>2, <2>3
<1>3. ScanTurn(t, s) =
        CASE i = 0 -> s
          [] i # 0 /\ t[i] = "@" -> read(<<Item("@", <<"@">>), Item("id", SubSeq(t, i + 1, k))>>, k + 1)
          [] i # 0 /\ t[i] \in Special \ {"@"} -> read(<<SpecialSymbol(t, i)>>, i + Width(t, i))
          [] OTHER -> read(<<IDOrKeyword(SubSeq(t, i, j))>>, j + 1)
  BY DEF ScanTurn, SelectInSubSeq, EndOfRun, First
<1>4. ASSUME i = 0 PROVE BlankFrom(t, from)
  BY <1>2, <1>4 DEF BlankFrom
<1>5. ASSUME i # 0 PROVE \A x \in from .. i - 1 : t[x] = Blank
  <2>1. \A x \in from .. n : t[x] # Blank => i <= x
    BY <1>2
  <2> HIDE DEF i, I
  <2> QED BY <1>1, <1>2, <1>5, <2>1
<1> HIDE DEF i, I, from
<1>6. ASSUME i # 0, t[i] \notin Special PROVE j \in i .. n
  <2>1. J \in SUBSET (i .. n) /\ i \in Nat \ {0} /\ i \notin J
    BY <1>1, <1>2, <1>6
  <2>2. \A x \in J : x \in i .. n
    OBVIOUS
  <2> HIDE DEF J
  <2>3. First(J) = 0 \/ (First(J) \in i .. n /\ First(J) # i)
    BY <1>1, <2>1, <2>2, FirstLeast
  <2> QED BY <1>1, <1>2, <1>6, <2>3
<1>7. ASSUME i # 0 PROVE k \in i .. n
  <2>1. K \in SUBSET (i + 1 .. n)
    OBVIOUS
  <2> HIDE DEF K
  <2>3. i + 1 \in Nat \ {0}
    BY <1>1, <1>2, <1>7
  <2>2. First(K) = 0 \/ First(K) \in i + 1 .. n
    BY <1>1, <2>1, <2>3, FirstOf
  <2> QED BY <1>1, <1>2, <1>7, <2>2
<1> HIDE DEF j, k
<1>8. ASSUME NEW x \in AnyItem, NEW to \in 1 .. n + 1, ReadAt(t, x, from, to), to > from
      PROVE  Reads(read(<<x>>, to))
  <2>1. s.items \o <<x>> = Append(s.items, x)
    BY <1>1
  <2>2. ReadUpTo(t, Append(s.items, x), to)
    BY <1>1, <1>8, ReadFurther DEF from
  <2> QED BY <1>8, <2>1, <2>2
<1>9. CASE i = 0
  <2>1. ScanTurn(t, s) = s
    BY <1>3, <1>9
  <2> QED BY <1>1, <1>4, <1>9, <2>1 DEF from
<1>10. ASSUME i # 0, t[i] = "@" PROVE Reads(ScanTurn(t, s))
  <2> DEFINE x == Item("@", <<"@">>)
             y == Item("id", SubSeq(t, i + 1, k))
  <2>1. x \in AnyItem /\ y \in AnyItem
    <3>1. i + 1 \in 1 .. Len(t) + 1 /\ k \in (i + 1) - 1 .. Len(t)
      BY <1>1, <1>2, <1>7, <1>10
    <3>2. SubSeq(t, i + 1, k) \in Seq(Char)
      BY <3>1, SubSeqType
    <3>3. <<"@">> \in Seq(Char)
      <4>1. "@" \in Char
        BY DEF Char, Special
      <4> QED BY <4>1
    <3> QED BY <3>2, <3>3 DEF Item, AnyItem, Token, Special
  <2>2. ScanTurn(t, s) = read(<<x, y>>, k + 1)
    BY <1>3, <1>10
  <2>3. ReadAt(t, x, from, i + 1) /\ i + 1 \in 1 .. n + 1
    <3>1. x.lit = SubSeq(t, i, i)
      <4>1. SubSeq(t, i, i) = <<t[i]>>
        BY <1>2, <1>10, Pieces
      <4> QED BY <1>10, <4>1 DEF Item
    <3>2. i \in from .. n + 1 /\ i \in i - 1 .. n
      BY <1>1, <1>2, <1>10
    <3> HIDE DEF x
    <3> QED BY <1>1, <1>5, <1>10, <3>1, <3>2, ReadPiece
  <2>4. ReadAt(t, y, i + 1, k + 1) /\ k + 1 \in 1 .. n + 1
    <3>1. y.lit = SubSeq(t, i + 1, k)
      BY DEF Item
    <3>2. /\ i + 1 \in i + 1 .. n + 1 /\ k \in (i + 1) - 1 .. n /\ i + 1 \in 1 .. n + 1
          /\ \A z \in i + 1 .. (i + 1) - 1 : t[z] = Blank
      BY <1>1, <1>2, <1>7, <1>10
    <3> HIDE DEF y
    <3> QED BY <3>1, <3>2, ReadPiece
  <2> HIDE DEF x, y
  <2>5. ReadUpTo(t, Append(s.items, x), i + 1)
    BY <1>1, <2>1, <2>3, ReadFurther DEF from
  <2>6. Append(s.items, x) \in Seq(AnyItem)
    BY <1>1, <2>1, AppendProperties
  <2>7. ReadUpTo(t, Append(Append(s.items, x), y), k + 1)
    BY <2>1, <2>4, <2>5, <2>6, ReadFurther
  <2>8. Append(Append(s.items, x), y) = s.items \o <<x, y>>
    BY <1>1, <2>1, AppendedTwo
  <2>9. k + 1 > from
    BY <1>1, <1>2, <1>7, <1>10
  <2> QED BY <2>2, <2>4, <2>7, <2>8, <2>9
<1>11. ASSUME i # 0, t[i] \in Special \ {"@"} PROVE Reads(ScanTurn(t, s))
  <2> DEFINE x == SpecialSymbol(t, i)
             e == i + Width(t, i) - 1
  <2>1. x \in AnyItem
    <3>1. <<t[i], "=">> \in Seq(Char) /\ <<t[i]>> \in Seq(Char)
      <4>1. t[i] \in Char /\ "=" \in Char
        BY <1>11 DEF Char, Special
      <4> QED BY <4>1
    <3> QED BY <1>11, <3>1 DEF SpecialSymbol, Paired, Item, AnyItem, Token, Special
  <2>2. ScanTurn(t, s) = read(<<x>>, i + Width(t, i))
    BY <1>3, <1>11
  <2>3. x.lit = SubSeq(t, i, e) /\ e \in i .. n /\ e + 1 = i + Width(t, i)
    <3>1. CASE Paired(t, i)
      <4>1. x.lit = <<t[i], "=">> /\ Width(t, i) = 2
        BY <3>1 DEF SpecialSymbol, Item, Width
      <4>2. e = i + 1 /\ i < n /\ t[i + 1] = "="
        BY <1>2, <1>11, <3>1, <4>1 DEF Paired
      <4>3. SubSeq(t, i, i + 1) = <<t[i], t[i + 1]>>
        <5>1. i \in 1 .. Len(t) /\ i < Len(t)
          BY <1>2, <1>11, <4>2
        <5> HIDE DEF x, e
        <5> QED BY <5>1, Pieces
      <4> QED BY <1>1, <1>2, <1>11, <4>1, <4>2, <4>3
    <3>2. CASE ~Paired(t, i)
      <4>1. x.lit = <<t[i]>> /\ Width(t, i) = 1
        BY <3>2 DEF SpecialSymbol, Item, Width
      <4>2. e = i /\ e + 1 = i + 1
        BY <1>2, <1>11, <4>1
      <4>3. SubSeq(t, i, i) = <<t[i]>>
        BY <1>2, <1>11, Pieces
      <4> QED BY <1>1, <1>2, <1>11, <4>1, <4>2, <4>3
    <3> QED BY <3>1, <3>2
  <2> HIDE DEF x, e
  <2>4. i \in from .. n + 1 /\ e \in i - 1 .. n /\ e + 1 > from
    BY <1>1, <1>2, <1>11, <2>3
  <2>5. ReadAt(t, x, from, e + 1) /\ e + 1 \in 1 .. n + 1
    BY <1>1, <1>5, <1>11, <2>3, <2>4, ReadPiece
  <2>6. Reads(read(<<x>>, e + 1))
    <3> HIDE DEF Reads, read
    <3> QED BY <1>8, <2>1, <2>4, <2>5
  <2> QED BY <2>2, <2>3, <2>6
<1>12. ASSUME i # 0, t[i] # "@", t[i] \notin Special \ {"@"} PROVE Reads(ScanTurn(t, s))
  <2> DEFINE x == IDOrKeyword(SubSeq(t, i, j))
  <2>1. j \in i .. n
    BY <1>6, <1>12
  <2>2. i \in from .. n + 1 /\ j \in i - 1 .. n /\ j + 1 > from /\ i \in 1 .. n + 1
    BY <1>1, <1>2, <1>12, <2>1
  <2>3. SubSeq(t, i, j) \in Seq(Char)
    BY <2>2, SubSeqType
  <2>4. x \in AnyItem /\ x.lit = SubSeq(t, i, j)
    BY <2>3 DEF IDOrKeyword, Item, AnyItem, Token
  <2>5. ScanTurn(t, s) = read(<<x>>, j + 1)
    BY <1>3, <1>12
  <2> HIDE DEF x
  <2>6. ReadAt(t, x, from, j + 1) /\ j + 1 \in 1 .. n + 1
    BY <1>1, <1>5, <1>12, <2>2, <2>4, ReadPiece
  <2>7. Reads(read(<<x>>, j + 1))
    <3> HIDE DEF Reads, read
    <3> QED BY <1>8, <2>2, <2>4, <2>6
  <2> QED BY <2>5, <2>7
<1> QED BY <1>9, <1>10, <1>11, <1>12 DEF from

\* A text is what its tokens say, with blanks between them and behind them: the
\* lexer gets to the end within the turns it is given, and skips nothing else.
THEOREM ScanReadsAll ==
    ASSUME NEW t \in Seq(Char)
    PROVE  \E items \in Seq(AnyItem), to \in 1 .. Len(t) + 1 :
             /\ scan(t) = Append(items, Item("end", Empty))
             /\ ReadUpTo(t, items, to) /\ BlankFrom(t, to)
<1> DEFINE n == Len(t)
<1>1. n \in Nat
  OBVIOUS
<1>2. PICK f \in [0 .. n -> ScanState] :
        /\ f[0] = [items |-> <<>>, from |-> 1]
        /\ \A k \in 1 .. n : f[k] = ScanTurn(t, f[k - 1])
        /\ Loop(LAMBDA y : ScanTurn(t, y), [items |-> <<>>, from |-> 1], n) = f[n]
  BY ScanLoop
<1> DEFINE Good(k) == /\ f[k].from \in 1 .. n + 1 /\ ReadUpTo(t, f[k].items, f[k].from)
                      /\ BlankFrom(t, f[k].from) \/ f[k].from > k
           G == {k \in 0 .. n : Good(k)}
<1>3. 0 \in G
  <2>1. ReadUpTo(t, <<>>, 1)
    <3> DEFINE at == [i \in 1 .. 1 |-> 1]
    <3>1. at \in [1 .. Len(<<>>) + 1 -> 1 .. Len(t) + 1] /\ at[1] = 1 /\ at[Len(<<>>) + 1] = 1
      BY <1>1
    <3>2. \A i \in 1 .. Len(<<>>) : FALSE
      OBVIOUS
    <3> HIDE DEF at
    <3> QED BY <3>1, <3>2 DEF ReadUpTo
  <2> QED BY <1>1, <1>2, <2>1
<1> HIDE DEF n
<1>4. ASSUME NEW k \in 1 .. n, k - 1 \in G PROVE k \in G
  <2> DEFINE s == f[k - 1]
  <2>1. k - 1 \in 0 .. n /\ k \in 0 .. n /\ s \in ScanState /\ f[k] = ScanTurn(t, s)
    BY <1>1, <1>2
  <2>2. /\ s.from \in 1 .. n + 1 /\ ReadUpTo(t, s.items, s.from)
        /\ BlankFrom(t, s.from) \/ s.from > k - 1
    BY <1>4
  <2> HIDE DEF s
  <2>3. /\ f[k].from \in 1 .. n + 1 /\ ReadUpTo(t, f[k].items, f[k].from)
        /\ \/ BlankFrom(t, s.from) /\ f[k] = s
           \/ f[k].from > s.from
    BY <2>1, <2>2, ScanTurnReads DEF n
  <2>4. BlankFrom(t, s.from) => BlankFrom(t, f[k].from)
    <3>1. f[k].from > s.from => \A x \in f[k].from .. n : x \in s.from .. n
      BY <1>1, <2>2, <2>3
    <3> QED BY <2>3, <3>1 DEF BlankFrom, n
  <2>5. f[k].from > s.from /\ s.from > k - 1 => f[k].from > k
    BY <1>1, <2>2, <2>3
  <2> QED BY <2>1, <2>2, <2>3, <2>4, <2>5
<1>5. n \in G
  <2> HIDE DEF G
  <2>1. \A k \in 0 .. n : k \in G
    BY <1>1, <1>3, <1>4, UpTo
  <2> QED BY <1>1, <2>1
<1>6. f[n].items \in Seq(AnyItem) /\ scan(t) = Append(f[n].items, Item("end", Empty))
  <2>1. f[n] \in ScanState
    BY <1>1, <1>2
  <2> QED BY <1>2, <2>1 DEF scan, ScanState, n
<1>7. f[n].from \in 1 .. n + 1 /\ ReadUpTo(t, f[n].items, f[n].from) /\ BlankFrom(t, f[n].from)
  <2>1. f[n].from > n => BlankFrom(t, f[n].from)
    <3>1. f[n].from \in Nat
      BY <1>1, <1>5
    <3>2. f[n].from > n => \A x \in f[n].from .. n : FALSE
      BY <1>1, <3>1
    <3> QED BY <3>2 DEF BlankFrom, n
  <2> QED BY <1>5, <2>1
<1> QED BY <1>6, <1>7 DEF n

-----------------------------------------------------------------------------
(* The parser: it stays on the items, and moves on. *)

LEMMA TokenAt ==
    ASSUME NEW items, Readable(items), NEW p \in 1 .. Len(items)
    PROVE  /\ Len(items) \in Nat
           /\ Tok(items, p) \in Token \cup {"end"}
           /\ Tok(items, p) # "panic"
           /\ Refusal(items, p) = "error"
           /\ ValueTok(items, p) # "end" => p + 1 \in 1 .. Len(items)
           /\ ValueTok(items, p) # "panic"
           /\ items[p].lit \in Seq(Char)
<1> DEFINE Read == [tok : Token \cup {"end"}, lit : Seq(Char)]
<1>1. items \in Seq(Read) /\ DOMAIN items = 1 .. Len(items) /\ Len(items) \in Nat
  BY LenProperties DEF Readable
<1>2. items[p] \in Read
  BY <1>1, ElementOfSeq
<1>3. items[p].tok \in Token \cup {"end"} /\ items[p].lit \in Seq(Char)
  BY <1>2
<1>4. "panic" \notin Token \cup {"end"}
  BY DEF Token, Special, Keyword
<1>5. Tok(items, p) = items[p].tok
  BY <1>1 DEF Tok
<1>6. Refusal(items, p) = "error"
  BY <1>3, <1>4, <1>5 DEF Refusal
<1>7. ValueTok(items, p) # "end" => Tok(items, p) # "end"
  BY DEF ValueTok, Keyword
<1>8. ValueTok(items, p) # "panic"
  BY <1>3, <1>4, <1>5 DEF ValueTok
<1>9. Tok(items, p) # "end" => p + 1 \in 1 .. Len(items)
  <2>1. items[p].tok = "end" <=> p = Len(items)
    BY DEF Readable
  <2> DEFINE N == Len(items)
  <2>2. N \in Nat /\ p \in 1 .. N
    BY <1>1
  <2>3. p # N => p + 1 \in 1 .. N
    <3> HIDE DEF N
    <3> QED BY <2>2
  <2> QED BY <1>5, <2>1, <2>3
<1> QED BY <1>1, <1>3, <1>4, <1>5, <1>6, <1>7, <1>8, <1>9

\* A list that is read is followed by a parenthesis, which is not the last item.
ListState(items) ==
    {l \in [outcome : {"reading", "ok", "error"}, values : SUBSET Seq(Char),
            next : 1 .. Len(items)] : l.outcome = "ok" => l.next + 1 \in 1 .. Len(items)}

\* One turn of parseIdentifiersList does not leave the items, and reads one or ends.
LEMMA ListTurnType ==
    ASSUME NEW items, Readable(items), NEW l \in ListState(items)
    PROVE  /\ ListTurn(items, l) \in ListState(items)
           /\ ListTurn(items, l).next >= l.next
           /\ ListTurn(items, l).outcome = "reading" =>
                l.outcome = "reading" /\ ListTurn(items, l).next > l.next
<1> DEFINE p == l.next
           s == l.values
           tok == ValueTok(items, p)
           next == ValueTok(items, p + 1)
           with == IF s = {} THEN {Empty} ELSE s
           L == ListTurn(items, l)
           Good(x) == x \in ListState(items) /\ x.next >= p /\ (x.outcome = "reading" => x.next > p)
<1>1. /\ p \in 1 .. Len(items) /\ s \in SUBSET Seq(Char)
      /\ l = [outcome |-> l.outcome, values |-> s, next |-> p]
  BY DEF ListState
<1>2. with \in SUBSET Seq(Char) /\ with \cup {Empty} \in SUBSET Seq(Char)
  <2>1. Empty \in Seq(Char)
    BY DEF Empty
  <2> HIDE DEF s
  <2> QED BY <1>1, <2>1
<1>3. /\ Len(items) \in Nat /\ Refusal(items, p) = "error"
      /\ tok # "end" => p + 1 \in 1 .. Len(items)
      /\ items[p].lit \in Seq(Char)
  BY <1>1, TokenAt
<1>4. ASSUME p + 1 \in 1 .. Len(items)
      PROVE  Refusal(items, p + 1) = "error" /\ (next # "end" => (p + 1) + 1 \in 1 .. Len(items))
  BY <1>4, TokenAt
<1>5. ASSUME NEW vs \in SUBSET Seq(Char), NEW n \in 1 .. Len(items), n > p
      PROVE  /\ Good(Reading(vs, n))
             /\ n + 1 \in 1 .. Len(items) => Good(Values(vs, n))
  BY <1>5 DEF ListState, Reading, Values
<1>6. Good([l EXCEPT !.outcome = "error"])
  <2>1. Len(items) \in Nat
    BY <1>3
  <2> QED BY <1>1, <2>1 DEF ListState
<1>7. L =
        CASE l.outcome # "reading" -> l
          [] l.outcome = "reading" /\ tok = "id" /\ next = "," ->
                Reading(s \cup {items[p].lit}, p + 1)
          [] l.outcome = "reading" /\ tok = "id" /\ next = ")" ->
                Values(s \cup {items[p].lit}, p + 1)
          [] l.outcome = "reading" /\ tok = "," /\ next = ")" -> Values(with \cup {Empty}, p + 1)
          [] l.outcome = "reading" /\ tok = "," /\ next = "," -> Reading(with \cup {Empty}, p + 2)
          [] l.outcome = "reading" /\ tok = "," /\ next \notin {")", ","} -> Reading(with, p + 1)
          [] OTHER -> [l EXCEPT !.outcome = Refusal(items, IF tok = "id" THEN p + 1 ELSE p)]
  BY DEF ListTurn
<1> DEFINE N == Len(items)
<1>8. p \in 1 .. N /\ N \in Nat
  BY <1>1, <1>3
<1>9. l.outcome # "reading" => L = l
  BY <1>7
<1>12. p >= p
  BY <1>8
<1> HIDE DEF L, with, p, tok, next, s, N, Good
<1>10. p + 1 > p /\ p + 2 > p /\ (p + 1) + 1 = p + 2
  BY <1>8
<1>11. Good(L) \/ (L = l /\ l.outcome # "reading")
  <2>1. CASE l.outcome # "reading"
    BY <1>9, <2>1
  <2>2. CASE l.outcome = "reading" /\ tok = "id" /\ next \in {",", ")"}
    <3>1. p + 1 \in 1 .. Len(items) /\ (p + 1) + 1 \in 1 .. Len(items)
      BY <1>3, <1>4, <2>2
    <3>2. s \cup {items[p].lit} \in SUBSET Seq(Char)
      BY <1>1, <1>3
    <3>3. \/ L = Reading(s \cup {items[p].lit}, p + 1)
          \/ L = Values(s \cup {items[p].lit}, p + 1)
      BY <1>7, <2>2
    <3> QED BY <1>5, <1>10, <3>1, <3>2, <3>3
  <2>3. CASE l.outcome = "reading" /\ tok = "," /\ next \in {",", ")"}
    <3>1. p + 1 \in 1 .. Len(items) /\ (p + 1) + 1 \in 1 .. Len(items)
      BY <1>3, <1>4, <2>3
    <3>2. L = Values(with \cup {Empty}, p + 1) \/ L = Reading(with \cup {Empty}, p + 2)
      BY <1>7, <2>3
    <3> QED BY <1>2, <1>5, <1>10, <3>1, <3>2
  <2>4. CASE l.outcome = "reading" /\ tok = "," /\ next \notin {",", ")"}
    <3>1. p + 1 \in 1 .. Len(items)
      BY <1>3, <2>4
    <3>2. L = Reading(with, p + 1)
      BY <1>7, <2>4
    <3> QED BY <1>2, <1>5, <1>10, <3>1, <3>2
  <2>5. CASE l.outcome = "reading" /\ ~(tok = "id" /\ next \in {",", ")"}) /\ tok # ","
    <3>1. L = [l EXCEPT !.outcome = Refusal(items, IF tok = "id" THEN p + 1 ELSE p)]
      BY <1>7, <2>5
    <3>2. Refusal(items, IF tok = "id" THEN p + 1 ELSE p) = "error"
      BY <1>3, <1>4
    <3> QED BY <1>6, <3>1, <3>2
  <2> QED BY <2>1, <2>2, <2>3, <2>4, <2>5
<1> QED BY <1>9, <1>11, <1>12 DEF L, p, Good
\* parseIdentifiersList goes from list to list, always over items.
LEMMA ListLoop ==
    ASSUME NEW items, Readable(items), NEW p \in 1 .. Len(items)
    PROVE  \E f \in [0 .. Len(items) -> ListState(items)] :
             /\ f[0] = Reading({}, p)
             /\ \A k \in 1 .. Len(items) : f[k] = ListTurn(items, f[k - 1])
             /\ parseIdentifiersList(items, p) = f[Len(items)]
<1> DEFINE St == ListState(items)
           n == Len(items)
           s == Reading({}, p)
           Eq(f) == f = [k \in 0 .. n |-> IF k = 0 THEN s ELSE ListTurn(items, f[k - 1])]
           after == CHOOSE f : Eq(f)
           F == [x \in (1 .. n) \X St |-> ListTurn(items, x[2])]
           G == {k \in 0 .. n : after[k] \in St}
<1>1. n \in Nat /\ s \in St
  BY TokenAt DEF ListState, Reading
<1>2. ASSUME NEW k \in 1 .. n, NEW x \in St PROVE ListTurn(items, x) \in St
  BY ListTurnType
<1>3. F \in [(1 .. n) \X St -> St]
  <2>1. ASSUME NEW x \in (1 .. n) \X St PROVE ListTurn(items, x[2]) \in St
    <3>1. x[1] \in 1 .. n /\ x[2] \in St
      OBVIOUS
    <3> QED BY <1>2, <3>1
  <2> QED BY <2>1
<1>4. \A k \in 1 .. n, x \in St : F[<<k, x>>] = ListTurn(items, x)
  OBVIOUS
<1> HIDE DEF n, s, F, St
<1>5. PICK g \in [0 .. n -> St] : g[0] = s /\ \A k \in 1 .. n : g[k] = F[<<k, g[k - 1]>>]
  <2>1. LoopOf(n, St, s, F)
    BY <1>1, <1>3, Iterates
  <2> QED BY <2>1 DEF LoopOf
<1>6. Eq(g)
  <2>1. ASSUME NEW k \in 0 .. n PROVE g[k] = IF k = 0 THEN s ELSE ListTurn(items, g[k - 1])
    <3>1. CASE k = 0
      BY <1>5, <3>1
    <3>2. CASE k # 0
      <4>1. k \in 1 .. n /\ k - 1 \in 0 .. n
        BY <1>1, <3>2
      <4>2. g[k] = F[<<k, g[k - 1]>>] /\ g[k - 1] \in St
        BY <1>5, <4>1
      <4> QED BY <1>4, <3>2, <4>1, <4>2
    <3> QED BY <3>1, <3>2
  <2> QED BY <1>5, <2>1
<1> HIDE DEF Eq
<1>7. Eq(after)
  BY <1>6
<1> HIDE DEF after
<1>8. /\ after = [k \in 0 .. n |-> after[k]]
      /\ after[0] = s
      /\ \A k \in 1 .. n : after[k] = ListTurn(items, after[k - 1])
  <2>1. after = [k \in 0 .. n |-> IF k = 0 THEN s ELSE ListTurn(items, after[k - 1])]
    BY <1>7 DEF Eq
  <2>2. 0 \in 0 .. n /\ \A k \in 1 .. n : k \in 0 .. n /\ k # 0
    BY <1>1
  <2> QED BY <2>1, <2>2
<1>9. \A k \in 0 .. n : after[k] \in St
  <2>1. 0 \in G
    BY <1>1, <1>8
  <2>2. ASSUME NEW k \in 1 .. n, k - 1 \in G PROVE k \in G
    <3>1. after[k - 1] \in St /\ k \in 0 .. n
      BY <1>1, <2>2
    <3>2. after[k] = ListTurn(items, after[k - 1])
      BY <1>8
    <3>3. after[k] \in St
      BY <1>2, <3>1, <3>2
    <3> QED BY <3>1, <3>3
  <2> HIDE DEF G
  <2>3. \A k \in 0 .. n : k \in G
    BY <1>1, <2>1, <2>2, UpTo
  <2> QED BY <2>3 DEF G
<1>10. parseIdentifiersList(items, p) = after[n]
  BY DEF parseIdentifiersList, Loop, n, s, after, Eq
<1>11. after \in [0 .. n -> St]
  BY <1>8, <1>9
<1> QED BY <1>8, <1>10, <1>11 DEF n, s, St

\* A list is read to its end or refused, before the turns are used up.
LEMMA ListType ==
    ASSUME NEW items, Readable(items), NEW p \in 1 .. Len(items)
    PROVE  /\ parseIdentifiersList(items, p) \in ListState(items)
           /\ parseIdentifiersList(items, p).outcome # "reading"
           /\ parseIdentifiersList(items, p).next >= p
<1> DEFINE n == Len(items)
<1>1. n \in Nat
  BY TokenAt
<1>2. PICK f \in [0 .. n -> ListState(items)] :
        /\ f[0] = Reading({}, p)
        /\ \A k \in 1 .. n : f[k] = ListTurn(items, f[k - 1])
        /\ parseIdentifiersList(items, p) = f[n]
  BY ListLoop
<1> DEFINE G == {k \in 0 .. n : f[k].next >= p /\ (f[k].outcome = "reading" => f[k].next > k)}
<1>3. \A k \in 0 .. n : f[k] \in ListState(items) /\ f[k].next \in 1 .. n
  <2>1. \A l \in ListState(items) : l.next \in 1 .. n
    BY DEF ListState
  <2> QED BY <2>1
<1>4. 0 \in G
  BY <1>1, <1>2 DEF Reading
<1>5. ASSUME NEW k \in 1 .. n, k - 1 \in G PROVE k \in G
  <2>1. k - 1 \in 0 .. n /\ k \in 0 .. n
    BY <1>1
  <2>2. f[k].outcome = "reading" => f[k - 1].outcome = "reading" /\ f[k].next > f[k - 1].next
    BY <1>2, <1>3, <2>1, ListTurnType
  <2>3. f[k].next \in 1 .. n /\ f[k - 1].next \in 1 .. n
    BY <1>3, <2>1
  <2>4. f[k - 1].next >= p /\ (f[k - 1].outcome = "reading" => f[k - 1].next > k - 1)
    BY <1>5
  <2>5. f[k].outcome = "reading" => f[k].next > k
    BY <1>1, <2>2, <2>3, <2>4
  <2>6. f[k].next >= f[k - 1].next
    BY <1>2, <1>3, <2>1, ListTurnType
  <2>7. f[k].next >= p
    BY <2>3, <2>4, <2>6
  <2> QED BY <2>1, <2>5, <2>7
<1> HIDE DEF G
<1>6. \A k \in 0 .. n : k \in G
  BY <1>1, <1>4, <1>5, UpTo
<1>7. n \in G /\ n \in 0 .. n
  BY <1>1, <1>6
<1>8. f[n].next >= p /\ (f[n].outcome = "reading" => f[n].next > n)
  BY <1>7 DEF G
<1> QED BY <1>1, <1>2, <1>3, <1>7, <1>8

\* What the parser has read of values: it has not gone past the last item.
ReadValues(items, r) ==
    \/ r.outcome = "error"
    \/ r.outcome = "ok" /\ r.values \in SUBSET Seq(Char) /\ r.next \in 1 .. Len(items)

LEMMA ParseValuesType ==
    ASSUME NEW items, Readable(items), NEW p \in 1 .. Len(items)
    PROVE  /\ ReadValues(items, parseValues(items, p))
           /\ parseValues(items, p).outcome = "ok" => parseValues(items, p).next > p
<1>1. /\ Refusal(items, p) = "error"
      /\ Tok(items, p) = "(" => p + 1 \in 1 .. Len(items)
  BY TokenAt DEF ValueTok, Keyword
<1>2. CASE Tok(items, p) # "("
  BY <1>1, <1>2 DEF parseValues, Refused, ReadValues
<1>3. CASE Tok(items, p) = "("
  <2> DEFINE n == Len(items)
             list == parseIdentifiersList(items, p + 1)
             tok == ValueTok(items, p + 1)
             v == parseValues(items, p)
  <2>1. p + 1 \in 1 .. n /\ n \in Nat
    BY <1>1, <1>3, TokenAt
  <2>2. Refusal(items, p + 1) = "error" /\ (tok = ")" => (p + 1) + 1 \in 1 .. n)
    BY <2>1, TokenAt
  <2>3. list \in ListState(items) /\ list.outcome # "reading" /\ list.next >= p + 1
    BY <2>1, ListType
  <2>4. v = CASE tok \in {"id", ","} -> Listed(items, p + 1)
              [] tok = ")" -> Values({Empty}, p + 2)
              [] OTHER -> Refused(items, p + 1)
    BY <1>3 DEF parseValues
  <2> HIDE DEF tok
  <2>5. CASE tok \in {"id", ","}
    <3>1. v = IF list.outcome = "ok" THEN [list EXCEPT !.next = @ + 1] ELSE list
      BY <2>4, <2>5 DEF Listed, Closed
    <3> HIDE DEF list, v
    <3>2. /\ list.outcome \in {"ok", "error"} /\ list.values \in SUBSET Seq(Char)
          /\ list.next \in 1 .. n /\ (list.outcome = "ok" => list.next + 1 \in 1 .. n)
      BY <2>3 DEF ListState
    <3>3. CASE list.outcome = "ok"
      <4>1. v.outcome = "ok" /\ v.values = list.values /\ v.next = list.next + 1
        BY <2>3, <3>1, <3>3 DEF ListState
      <4>2. list.next + 1 > p
        BY <2>1, <2>3, <3>2
      <4> QED BY <3>2, <3>3, <4>1, <4>2 DEF ReadValues, v
    <3>4. CASE list.outcome = "error"
      BY <3>1, <3>4 DEF ReadValues, v
    <3> QED BY <3>2, <3>3, <3>4
  <2>6. CASE tok = ")"
    <3>1. p + 2 \in 1 .. n /\ p + 2 > p /\ {Empty} \in SUBSET Seq(Char)
      BY <2>1, <2>2, <2>6 DEF Empty
    <3> QED BY <2>4, <2>6, <3>1 DEF Values, ReadValues
  <2>7. CASE tok \notin {"id", ",", ")"}
    <3>1. v = Refused(items, p + 1)
      BY <2>4, <2>7
    <3> QED BY <2>2, <3>1 DEF Refused, ReadValues
  <2> QED BY <2>5, <2>6, <2>7
<1> QED BY <1>2, <1>3

LEMMA ParseExactType ==
    ASSUME NEW items, Readable(items), NEW p \in 1 .. Len(items)
    PROVE  /\ ReadValues(items, parseExactValue(items, p))
           /\ parseExactValue(items, p).outcome = "ok" => parseExactValue(items, p).next >= p
<1> DEFINE tok == ValueTok(items, p)
           v == parseExactValue(items, p)
<1>1. /\ Len(items) \in Nat /\ Refusal(items, p) = "error" /\ items[p].lit \in Seq(Char)
      /\ tok # "end" => p + 1 \in 1 .. Len(items)
  BY TokenAt
<1>2. Empty \in Seq(Char)
  BY DEF Empty
<1>3. v = CASE tok \in {"end", ","} -> Values({Empty}, p)
            [] tok = "id" -> Values({items[p].lit}, p + 1)
            [] OTHER -> Refused(items, p)
  BY DEF parseExactValue
<1>4. CASE tok \in {"end", ","}
  <2>1. v = Values({Empty}, p)
    BY <1>3, <1>4
  <2>2. p >= p
    BY <1>1
  <2> HIDE DEF v
  <2> QED BY <1>2, <2>1, <2>2 DEF Values, ReadValues, v
<1>5. CASE tok = "id"
  <2>1. v = Values({items[p].lit}, p + 1) /\ p + 1 >= p
    BY <1>1, <1>3, <1>5
  <2>2. p + 1 \in 1 .. Len(items)
    BY <1>1, <1>5
  <2> HIDE DEF v
  <2> QED BY <1>1, <2>1, <2>2 DEF Values, ReadValues, v
<1>6. CASE tok \notin {"id", "end", ","}
  <2>1. v = Refused(items, p)
    BY <1>3, <1>6
  <2> QED BY <1>1, <2>1 DEF Refused, ReadValues
<1> QED BY <1>4, <1>5, <1>6

LEMMA ParseSemverType ==
    ASSUME NEW items, Readable(items), NEW p \in 1 .. Len(items)
    PROVE  /\ ReadValues(items, parseSemverValue(items, p))
           /\ parseSemverValue(items, p).outcome = "ok" => parseSemverValue(items, p).next >= p
<1>1. /\ Len(items) \in Nat /\ Refusal(items, p) = "error" /\ items[p].lit \in Seq(Char)
      /\ Tok(items, p) = "id" => p + 1 \in 1 .. Len(items)
  BY TokenAt DEF ValueTok, Keyword
<1>2. CASE Tok(items, p) = "id"
  <2>1. p + 1 \in 1 .. Len(items) /\ p + 1 >= p
    BY <1>1, <1>2
  <2> QED BY <1>1, <1>2, <2>1 DEF parseSemverValue, Values, ReadValues
<1>3. CASE Tok(items, p) # "id"
  BY <1>1, <1>3 DEF parseSemverValue, Refused, ReadValues
<1> QED BY <1>2, <1>3

Validated == {r \in AnyRequirement : IsRequirement(r)}

\* A requirement is validated, and reading it moves on.
ReadRequirement(items, p, r) ==
    \/ r.outcome = "error"
    \/ r.outcome = "ok" /\ r.requirement \in Validated /\ r.next \in 1 .. Len(items) /\ r.next > p

LEMMA ParseRequirementType ==
    ASSUME NEW items, Readable(items), NEW p \in 1 .. Len(items)
    PROVE  ReadRequirement(items, p, parseRequirement(items, p))
<1> DEFINE n == Len(items)
           negated == Tok(items, p) = "!"
           k == IF negated THEN p + 1 ELSE p
           op == Tok(items, k + 1)
           parsed == CASE negated -> Values({}, k + 1)
                       [] ~negated /\ op \in {"end", ","} -> Values({}, k + 1)
                       [] ~negated /\ op \in SetOp -> parseValues(items, k + 2)
                       [] ~negated /\ op \in ExactOp \cup NumberOp \cup {"~="} ->
                               parseExactValue(items, k + 2)
                       [] ~negated /\ op = "@" -> parseSemverValue(items, k + 2)
                       [] OTHER -> Refused(items, k + 1)
           operator == IF negated THEN "!" ELSE IF op \in {"end", ","} THEN "exists" ELSE op
           r == Requirement(items[k].lit, operator, parsed.values)
           result == parseRequirement(items, p)
<1>1. n \in Nat /\ p \in 1 .. n
  BY TokenAt
<1>2. k \in 1 .. n /\ k >= p
  <2>1. negated => p + 1 \in 1 .. n
    BY TokenAt DEF ValueTok, Keyword
  <2> HIDE DEF negated, n
  <2> QED BY <1>1, <2>1
<1>3. result =
        IF ValueTok(items, k) # "id" THEN Refused(items, k)
        ELSE IF op = "panic" THEN Refused(items, k + 1)
        ELSE NewRequirement(items[k].lit, operator, parsed)
  BY DEF parseRequirement
<1> HIDE DEF k, result, n
<1>4. CASE ValueTok(items, k) # "id"
  <2>1. Refusal(items, k) = "error"
    BY <1>2, TokenAt DEF n
  <2> QED BY <1>3, <1>4, <2>1 DEF Refused, ReadRequirement, result
<1>5. ASSUME ValueTok(items, k) = "id" PROVE ReadRequirement(items, p, result)
  <2>1. k + 1 \in 1 .. n /\ items[k].lit \in Seq(Char)
    BY <1>2, <1>5, TokenAt DEF n
  <2>2. op # "panic" /\ Refusal(items, k + 1) = "error"
    BY <2>1, TokenAt DEF n
  <2>3. op # "end" => k + 2 \in 1 .. n
    <3>1. op # "end" => (k + 1) + 1 \in 1 .. n
      BY <2>1, TokenAt DEF ValueTok, Keyword, n
    <3> QED BY <1>1, <1>2, <3>1
  <2>4. k + 1 > p /\ k + 2 > p /\ k + 1 >= k + 1 /\ (\A m \in 1 .. n : m >= k + 2 => m > p)
        /\ (\A m \in 1 .. n : m > k + 2 => m > p)
    BY <1>1, <1>2
  <2> DEFINE Good == /\ ReadValues(items, parsed)
                     /\ parsed.outcome = "ok" => parsed.next > p /\ operator \in Operator
  <2> HIDE DEF op, negated
  <2>5. Good
    <3>1. CASE negated \/ op \in {"end", ","}
      <4>0. parsed = Values({}, k + 1)
        <5>1. op \in {"end", ","} =>
                op \notin SetOp /\ op \notin ExactOp \cup NumberOp \cup {"~="} /\ op # "@"
          BY DEF ExactOp, NumberOp, SetOp
        <5>2. CASE negated
          BY <5>2
        <5>3. CASE ~negated /\ op \in {"end", ","}
          BY <5>1, <5>3
        <5> QED BY <3>1, <5>2, <5>3
      <4>1. operator \in {"!", "exists"}
        BY <3>1
      <4>2. operator \in Operator
        BY <4>1 DEF Operator, UnaryOp
      <4>3. ReadValues(items, parsed) /\ parsed.next = k + 1
        <5> HIDE DEF parsed
        <5> QED BY <2>1, <4>0 DEF Values, ReadValues, n
      <4> HIDE DEF parsed, operator
      <4> QED BY <2>4, <4>2, <4>3
    <3>2. CASE ~negated /\ op \notin {"end", ","} /\ op \in SetOp
      <4>0. op \notin ExactOp \cup NumberOp \cup {"~="} /\ op # "@"
        BY <3>2 DEF ExactOp, NumberOp, SetOp
      <4>5. operator = op
        BY <3>2
      <4>6. parsed = parseValues(items, k + 2)
        BY <3>2, <4>0
      <4>1. parsed = parseValues(items, k + 2) /\ operator = op
        BY <4>5, <4>6
      <4>2. operator \in Operator
        BY <3>2, <4>1 DEF Operator
      <4>3. /\ ReadValues(items, parsed)
            /\ parsed.outcome = "ok" => parsed.next > k + 2 /\ parsed.next \in 1 .. n
        BY <2>3, <3>2, <4>1, ParseValuesType DEF n, ReadValues
      <4> HIDE DEF parsed, operator
      <4> QED BY <2>4, <4>2, <4>3
    <3>3. CASE ~negated /\ op \notin {"end", ","} /\ op \in ExactOp \cup NumberOp \cup {"~="}
      <4>0. op \notin SetOp /\ op # "@"
        BY <3>3 DEF ExactOp, NumberOp, SetOp
      <4>5. operator = op
        BY <3>3, <4>0
      <4>6. parsed = parseExactValue(items, k + 2)
        BY <3>3, <4>0
      <4>1. parsed = parseExactValue(items, k + 2) /\ operator = op
        BY <4>5, <4>6
      <4>2. operator \in Operator
        BY <3>3, <4>1 DEF Operator
      <4>3. /\ ReadValues(items, parsed)
            /\ parsed.outcome = "ok" => parsed.next >= k + 2 /\ parsed.next \in 1 .. n
        BY <2>3, <3>3, <4>1, ParseExactType DEF n, ReadValues
      <4> HIDE DEF parsed, operator
      <4> QED BY <2>4, <4>2, <4>3
    <3>4. CASE ~negated /\ op = "@"
      <4>0. op \notin SetOp /\ op \notin ExactOp \cup NumberOp \cup {"~="} /\ op \notin {"end", ","}
        BY <3>4 DEF ExactOp, NumberOp, SetOp
      <4>5. operator = op
        BY <3>4, <4>0
      <4>6. parsed = parseSemverValue(items, k + 2)
        BY <3>4, <4>0
      <4>1. parsed = parseSemverValue(items, k + 2) /\ operator = op
        BY <4>5, <4>6
      <4>2. operator \in Operator
        BY <3>4, <4>1 DEF Operator
      <4>3. /\ ReadValues(items, parsed)
            /\ parsed.outcome = "ok" => parsed.next >= k + 2 /\ parsed.next \in 1 .. n
        BY <2>3, <3>4, <4>0, <4>1, ParseSemverType DEF n, ReadValues
      <4> HIDE DEF parsed, operator
      <4> QED BY <2>4, <4>2, <4>3
    <3>5. CASE /\ ~negated /\ op \notin {"end", ","} /\ op \notin SetOp /\ op # "@"
               /\ op \notin ExactOp \cup NumberOp \cup {"~="}
      <4>1. parsed = Refused(items, k + 1)
        BY <3>5
      <4> HIDE DEF parsed
      <4> QED BY <2>2, <4>1 DEF Refused, ReadValues
    <3> QED BY <3>1, <3>2, <3>3, <3>4, <3>5
  <2>5a. result = NewRequirement(items[k].lit, operator, parsed)
    BY <1>3, <1>5, <2>2
  <2> HIDE DEF parsed, operator
  <2>6. result = CASE parsed.outcome # "ok" -> parsed
                   [] parsed.outcome = "ok" /\ IsRequirement(r) ->
                        [outcome |-> "ok", requirement |-> r, next |-> parsed.next]
                   [] OTHER -> Failed
    BY <2>5a DEF NewRequirement
  <2>7. ASSUME parsed.outcome = "ok", IsRequirement(r) PROVE r \in Validated
    BY <2>1, <2>5, <2>7 DEF Validated, AnyRequirement, Requirement, ReadValues
  <2> HIDE DEF r
  <2>8. CASE parsed.outcome # "ok"
    BY <2>5, <2>6, <2>8 DEF ReadValues, ReadRequirement
  <2>9. CASE parsed.outcome = "ok" /\ IsRequirement(r)
    <3>1. result = [outcome |-> "ok", requirement |-> r, next |-> parsed.next]
      BY <2>6, <2>9
    <3> QED BY <2>5, <2>7, <2>9, <3>1 DEF ReadValues, ReadRequirement
  <2>10. CASE parsed.outcome = "ok" /\ ~IsRequirement(r)
    BY <2>6, <2>10 DEF Failed, ReadRequirement
  <2> QED BY <2>8, <2>9, <2>10
<1> QED BY <1>4, <1>5 DEF result

ParseState(items) ==
    {s \in [outcome : {"reading", "ok", "error"}, next : Nat, requirements : Seq(Validated)] :
        s.outcome = "reading" => s.next \in 1 .. Len(items)}

\* One turn of parse does not leave the items, and reads some or ends.
LEMMA ParseTurnType ==
    ASSUME NEW items, Readable(items), NEW s \in ParseState(items)
    PROVE  /\ ParseTurn(items, s) \in ParseState(items)
           /\ ParseTurn(items, s).outcome = "reading" =>
                s.outcome = "reading" /\ ParseTurn(items, s).next > s.next
<1> DEFINE n == Len(items)
           p == s.next
           tok == ValueTok(items, p)
           r == parseRequirement(items, p)
           after == ValueTok(items, r.next)
           ends(outcome) == [s EXCEPT !.outcome = outcome]
           read(outcome) == [outcome |-> outcome, next |-> r.next + 1,
                             requirements |-> Append(s.requirements, r.requirement)]
           T == ParseTurn(items, s)
           Good(x) == x \in ParseState(items) /\ (x.outcome = "reading" => x.next > p)
<1>1. CASE s.outcome # "reading"
  <2>1. T = s
    BY <1>1 DEF ParseTurn
  <2> QED BY <1>1, <2>1
<1>2. ASSUME s.outcome = "reading" PROVE Good(T)
  <2>1. p \in 1 .. n
    BY <1>2 DEF ParseState
  <2>2. n \in Nat /\ Refusal(items, p) = "error"
    BY <2>1, TokenAt
  <2>3. Good(ends("ok")) /\ Good(ends("error"))
    BY DEF ParseState
  <2>4. T = CASE tok = "end" -> ends("ok")
              [] tok \notin {"end", "id", "!"} -> ends(Refusal(items, p))
              [] OTHER ->
                    CASE r.outcome # "ok" -> ends(r.outcome)
                      [] r.outcome = "ok" /\ after = "end" -> read("ok")
                      [] r.outcome = "ok" /\ after = "," ->
                            IF ValueTok(items, r.next + 1) \in {"id", "!"} THEN read("reading")
                            ELSE ends(Refusal(items, r.next + 1))
                      [] OTHER -> ends(Refusal(items, r.next))
    <3> HIDE DEF r, tok, after, ends, read
    <3> QED BY <1>2 DEF ParseTurn, Behind, r, tok, after, ends, read
  <2>5. ReadRequirement(items, p, r)
    BY <2>1, ParseRequirementType
  <2> HIDE DEF r, ends, T, Good, tok
  <2>6. CASE tok = "end"
    BY <2>3, <2>4, <2>6
  <2>7. CASE tok \notin {"end", "id", "!"}
    BY <2>2, <2>3, <2>4, <2>7
  <2>8. CASE tok \in {"id", "!"}
    <3> HIDE DEF read, after, n
    <3>1. T = CASE r.outcome # "ok" -> ends(r.outcome)
                [] r.outcome = "ok" /\ after = "end" -> read("ok")
                [] r.outcome = "ok" /\ after = "," ->
                      IF ValueTok(items, r.next + 1) \in {"id", "!"} THEN read("reading")
                      ELSE ends(Refusal(items, r.next + 1))
                [] OTHER -> ends(Refusal(items, r.next))
      BY <2>4, <2>8
    <3>2. CASE r.outcome # "ok"
      <4>1. T = ends(r.outcome)
        BY <3>1, <3>2
      <4> QED BY <2>3, <2>5, <3>2, <4>1 DEF ReadRequirement
    <3>3. ASSUME r.outcome = "ok" PROVE Good(T)
      <4>1. r.requirement \in Validated /\ r.next \in 1 .. n /\ r.next > p
        BY <2>5, <3>3 DEF ReadRequirement, n
      <4>2. /\ Refusal(items, r.next) = "error"
            /\ after # "end" => r.next + 1 \in 1 .. n
        BY <4>1, TokenAt DEF after, n
      <4>3. r.next + 1 \in 1 .. n => Refusal(items, r.next + 1) = "error"
        BY TokenAt DEF n
      <4>4. Append(s.requirements, r.requirement) \in Seq(Validated)
        <5>1. s.requirements \in Seq(Validated)
          BY DEF ParseState
        <5> QED BY <4>1, <5>1, AppendProperties
      <4>5. r.next + 1 \in Nat /\ r.next + 1 > p
        BY <2>1, <2>2, <4>1 DEF n
      <4>6. Good(read("ok"))
        BY <4>4, <4>5 DEF read, Good, ParseState
      <4>7. r.next + 1 \in 1 .. n => Good(read("reading"))
        BY <4>4, <4>5 DEF read, Good, ParseState, n
      <4>8. CASE after = "end"
        BY <3>1, <3>3, <4>6, <4>8
      <4>9. CASE after = ","
        <5>1. \/ T = read("reading")
              \/ T = ends(Refusal(items, r.next + 1))
          BY <3>1, <3>3, <4>9
        <5> QED BY <2>3, <4>2, <4>3, <4>7, <4>9, <5>1
      <4>10. CASE after \notin {"end", ","}
        <5>1. T = ends(Refusal(items, r.next))
          BY <3>1, <3>3, <4>10
        <5> QED BY <2>3, <4>2, <5>1
      <4> QED BY <4>8, <4>9, <4>10
    <3> QED BY <3>2, <3>3
  <2> QED BY <2>6, <2>7, <2>8
<1> QED BY <1>1, <1>2

\* parse goes from requirement to requirement.
LEMMA ParseLoop ==
    ASSUME NEW items, Readable(items)
    PROVE  \E f \in [0 .. Len(items) -> ParseState(items)] :
             /\ f[0] = [outcome |-> "reading", next |-> 1, requirements |-> <<>>]
             /\ \A k \in 1 .. Len(items) : f[k] = ParseTurn(items, f[k - 1])
             /\ Loop(LAMBDA y : ParseTurn(items, y),
                     [outcome |-> "reading", next |-> 1, requirements |-> <<>>], Len(items)) = f[Len(items)]
<1> DEFINE St == ParseState(items)
           n == Len(items)
           s == [outcome |-> "reading", next |-> 1, requirements |-> <<>>]
           Eq(f) == f = [k \in 0 .. n |-> IF k = 0 THEN s ELSE ParseTurn(items, f[k - 1])]
           after == CHOOSE f : Eq(f)
           F == [x \in (1 .. n) \X St |-> ParseTurn(items, x[2])]
           G == {k \in 0 .. n : after[k] \in St}
<1>1. n \in Nat /\ s \in St
  <2>1. n \in Nat /\ 1 \in 1 .. n
    <3>1. Len(items) >= 1 /\ Len(items) \in Nat
      BY LenProperties DEF Readable
    <3> QED BY <3>1
  <2>2. <<>> \in Seq(Validated)
    OBVIOUS
  <2> QED BY <2>1, <2>2 DEF ParseState
<1>2. ASSUME NEW k \in 1 .. n, NEW x \in St PROVE ParseTurn(items, x) \in St
  BY ParseTurnType
<1>3. F \in [(1 .. n) \X St -> St]
  <2>1. ASSUME NEW x \in (1 .. n) \X St PROVE ParseTurn(items, x[2]) \in St
    <3>1. x[1] \in 1 .. n /\ x[2] \in St
      OBVIOUS
    <3> QED BY <1>2, <3>1
  <2> QED BY <2>1
<1>4. \A k \in 1 .. n, x \in St : F[<<k, x>>] = ParseTurn(items, x)
  OBVIOUS
<1> HIDE DEF n, s, F, St
<1>5. PICK g \in [0 .. n -> St] : g[0] = s /\ \A k \in 1 .. n : g[k] = F[<<k, g[k - 1]>>]
  <2>1. LoopOf(n, St, s, F)
    BY <1>1, <1>3, Iterates
  <2> QED BY <2>1 DEF LoopOf
<1>6. Eq(g)
  <2>1. ASSUME NEW k \in 0 .. n PROVE g[k] = IF k = 0 THEN s ELSE ParseTurn(items, g[k - 1])
    <3>1. CASE k = 0
      BY <1>5, <3>1
    <3>2. CASE k # 0
      <4>1. k \in 1 .. n /\ k - 1 \in 0 .. n
        BY <1>1, <3>2
      <4>2. g[k] = F[<<k, g[k - 1]>>] /\ g[k - 1] \in St
        BY <1>5, <4>1
      <4> QED BY <1>4, <3>2, <4>1, <4>2
    <3> QED BY <3>1, <3>2
  <2> QED BY <1>5, <2>1
<1> HIDE DEF Eq
<1>7. Eq(after)
  BY <1>6
<1> HIDE DEF after
<1>8. /\ after = [k \in 0 .. n |-> after[k]]
      /\ after[0] = s
      /\ \A k \in 1 .. n : after[k] = ParseTurn(items, after[k - 1])
  <2>1. after = [k \in 0 .. n |-> IF k = 0 THEN s ELSE ParseTurn(items, after[k - 1])]
    BY <1>7 DEF Eq
  <2>2. 0 \in 0 .. n /\ \A k \in 1 .. n : k \in 0 .. n /\ k # 0
    BY <1>1
  <2> QED BY <2>1, <2>2
<1>9. \A k \in 0 .. n : after[k] \in St
  <2>1. 0 \in G
    BY <1>1, <1>8
  <2>2. ASSUME NEW k \in 1 .. n, k - 1 \in G PROVE k \in G
    <3>1. after[k - 1] \in St /\ k \in 0 .. n
      BY <1>1, <2>2
    <3>2. after[k] = ParseTurn(items, after[k - 1])
      BY <1>8
    <3>3. after[k] \in St
      BY <1>2, <3>1, <3>2
    <3> QED BY <3>1, <3>3
  <2> HIDE DEF G
  <2>3. \A k \in 0 .. n : k \in G
    BY <1>1, <2>1, <2>2, UpTo
  <2> QED BY <2>3 DEF G
<1>10. Loop(LAMBDA y : ParseTurn(items, y),
                     [outcome |-> "reading", next |-> 1, requirements |-> <<>>], Len(items)) = after[n]
  BY DEF Loop, n, s, after, Eq
<1>11. after \in [0 .. n -> St]
  BY <1>8, <1>9
<1> QED BY <1>8, <1>10, <1>11 DEF n, s, St

\* Every text is read to its end or refused, and what it says is validated.
LEMMA ParseType ==
    ASSUME NEW t \in Seq(Char)
    PROVE  /\ parse(t).outcome \in {"ok", "error"}
           /\ parse(t).outcome = "ok" => parse(t).requirements \in Seq(Validated)
<1> DEFINE items == scan(t)
           n == Len(items)
           end == Loop(LAMBDA y : ParseTurn(items, y),
                       [outcome |-> "reading", next |-> 1, requirements |-> <<>>], Len(items))
<1>1. Readable(items)
  BY ScanType
<1> HIDE DEF items
<1>2. n \in Nat
  BY <1>1, LenProperties DEF Readable
<1>3. PICK f \in [0 .. n -> ParseState(items)] :
        /\ f[0] = [outcome |-> "reading", next |-> 1, requirements |-> <<>>]
        /\ \A k \in 1 .. n : f[k] = ParseTurn(items, f[k - 1])
        /\ end = f[n]
  BY <1>1, ParseLoop
<1>4. parse(t) = IF end.outcome = "ok"
                 THEN [outcome |-> "ok", requirements |-> Sorted(end.requirements)]
                 ELSE [outcome |-> end.outcome]
  BY DEF parse, Parsed, items
<1> HIDE DEF n, end
<1> DEFINE G == {k \in 0 .. n : f[k].outcome = "reading" => f[k].next > k}
<1>5. 0 \in G
  BY <1>2, <1>3
<1>6. ASSUME NEW k \in 1 .. n, k - 1 \in G PROVE k \in G
  <2>1. k - 1 \in 0 .. n /\ k \in 0 .. n
    BY <1>2
  <2>2. f[k].outcome = "reading" => f[k - 1].outcome = "reading" /\ f[k].next > f[k - 1].next
    BY <1>1, <1>3, <2>1, ParseTurnType
  <2>3. f[k].next \in Nat /\ f[k - 1].next \in Nat
    <3>1. \A s \in ParseState(items) : s.next \in Nat
      BY DEF ParseState
    <3> QED BY <2>1, <3>1
  <2>4. f[k - 1].outcome = "reading" => f[k - 1].next > k - 1
    BY <1>6
  <2>5. f[k].outcome = "reading" => f[k].next > k
    BY <1>2, <2>2, <2>3, <2>4
  <2> QED BY <2>1, <2>5
<1> HIDE DEF G
<1>7. n \in G /\ n \in 0 .. n
  <2>1. \A k \in 0 .. n : k \in G
    BY <1>2, <1>5, <1>6, UpTo
  <2> QED BY <1>2, <2>1
<1>8. end \in ParseState(items)
  BY <1>3, <1>7
<1>9. end.outcome # "reading"
  <2>1. end.outcome = "reading" => end.next > n
    BY <1>3, <1>7 DEF G
  <2>2. end.outcome = "reading" => end.next \in 1 .. n
    BY <1>8 DEF ParseState, n
  <2> QED BY <1>2, <2>1, <2>2
<1>10. end.outcome \in {"ok", "error"} /\ end.requirements \in Seq(Validated)
  BY <1>8, <1>9 DEF ParseState
<1> QED BY <1>4, <1>10, SortedType

-----------------------------------------------------------------------------
(* What a selector holds. *)

LEMMA SetToSeqType ==
    ASSUME NEW S, IsFiniteSet(S)
    PROVE  SetToSeq(S) \in Seq(S)
<1> DEFINE n == Cardinality(S)
<1>1. n \in Nat
  BY FS_CardinalityType
<1>2. PICK f \in [1 .. n -> S] : IsInjective(f)
  <2>1. PICK m \in Nat : ExistsBijection(1 .. m, S)
    BY FS_NatBijection
  <2>2. m = n
    BY <2>1, FS_CountingElements
  <2>3. PICK f : f \in Bijection(1 .. m, S)
    BY <2>1 DEF ExistsBijection
  <2>4. f \in [1 .. m -> S] /\ IsInjective(f)
    BY <2>3 DEF Bijection, Injection, Surjection
  <2> QED BY <2>2, <2>4
<1>3. SetToSeq(S) \in [1 .. n -> S]
  BY <1>2 DEF SetToSeq
<1> HIDE DEF n
<1> QED BY <1>1, <1>3, SeqDef

\* The requirements SelectorFromSet makes, which it does not validate.
Unchecked == {r \in AnyRequirement : r.operator = "="}

LEMMA EqualToType ==
    ASSUME NEW ls \in LabelSets
    PROVE  EqualTo(ls) \in Seq(Unchecked)
<1> DEFINE R == {Requirement(key, "=", ls[key]) : key \in DOMAIN ls}
           f == [key \in DOMAIN ls |-> Requirement(key, "=", ls[key])]
<1>1. IsFiniteSet(DOMAIN ls)
  BY LabelsAssumption
<1>2. f \in Surjection(DOMAIN ls, R)
  BY DEF Surjection
<1>3. R \subseteq Unchecked
  <2> SUFFICES ASSUME NEW key \in DOMAIN ls PROVE Requirement(key, "=", ls[key]) \in Unchecked
    OBVIOUS
  <2>1. key \in Seq(Char) /\ ls[key] \in SUBSET Seq(Char)
    BY LabelsAssumption
  <2>2. "=" \in Operator
    BY DEF Operator, ExactOp
  <2> QED BY <2>1, <2>2 DEF Requirement, Unchecked, AnyRequirement
<1> HIDE DEF R, f
<1>4. IsFiniteSet(R)
  BY <1>1, <1>2, FS_Surjection
<1>5. SetToSeq(R) \in Seq(Unchecked)
  BY <1>3, <1>4, SetToSeqType, SeqMonotonic
<1>6. EqualTo(ls) = Sorted(SetToSeq(R))
  BY DEF EqualTo, R
<1> QED BY <1>5, <1>6, SortedType

\* What a selector can hold: requirements that were validated, or that require
\* any values at all, and only the former where they were all checked.
Held == Validated \cup Unchecked

SelectorsInv ==
    /\ text \in Seq(Char)
    /\ selector # NoSelector =>
        /\ selector = Selector(selector.requirements, selector.checked)
        /\ selector.requirements \in Seq(Held)
        /\ selector.checked => selector.requirements \in Seq(Validated)

LEMMA HeldTypes ==
    /\ Validated \subseteq Held /\ Unchecked \subseteq Held
    /\ \A r \in Held : r \in AnyRequirement
BY DEF Held, Validated, Unchecked

\* What is written stays a text, and every requirement of a selector either was
\* validated or asks for some values of a label.
THEOREM SelectorsInvariant == Spec => []SelectorsInv
<1>1. Init => SelectorsInv
  BY TextsAssumption DEF Init, SelectorsInv
<1>2. SelectorsInv /\ [Next]_vars => SelectorsInv'
  <2> SUFFICES ASSUME SelectorsInv, [Next]_vars PROVE SelectorsInv'
    OBVIOUS
  <2>1. ASSUME NEW c \in Piece, Write(c) PROVE SelectorsInv'
    <3>1. text \in Seq(Char) /\ c \in Char
      BY TextsAssumption DEF SelectorsInv
    <3>2. text' \in Seq(Char)
      BY <2>1, <3>1, AppendProperties DEF Write
    <3> QED BY <2>1, <3>2 DEF Write, SelectorsInv
  <2>2. ASSUME ParseSelector PROVE SelectorsInv'
    <3>1. parse(text).requirements \in Seq(Validated)
      BY <2>2, ParseType DEF ParseSelector, SelectorsInv
    <3>2. parse(text).requirements \in Seq(Held)
      BY <3>1, HeldTypes, SeqMonotonic
    <3>3. /\ selector' = Selector(parse(text).requirements, TRUE) /\ text' = text
          /\ selector'.requirements = parse(text).requirements /\ selector'.checked = TRUE
      BY <2>2 DEF ParseSelector, Selector
    <3> QED BY <3>1, <3>2, <3>3 DEF SelectorsInv
  <2>3. ASSUME NEW ls \in LabelSets, SelectorFromSet(ls) PROVE SelectorsInv'
    <3> DEFINE rs == EqualTo(ls)
               checked == \A i \in DOMAIN rs : IsRequirement(rs[i])
    <3>1. rs \in Seq(Unchecked)
      BY EqualToType
    <3>2. rs \in Seq(Held)
      BY <3>1, HeldTypes, SeqMonotonic
    <3>3. checked => rs \in Seq(Validated)
      <4> SUFFICES ASSUME checked PROVE rs \in Seq(Validated)
        OBVIOUS
      <4>1. Len(rs) \in Nat /\ rs \in [1 .. Len(rs) -> Unchecked] /\ DOMAIN rs = 1 .. Len(rs)
        BY <3>1, LenProperties
      <4>2. \A i \in 1 .. Len(rs) : rs[i] \in Validated
        BY <4>1 DEF Validated, Unchecked
      <4> HIDE DEF rs
      <4>3. rs \in [1 .. Len(rs) -> Validated]
        BY <4>1, <4>2
      <4> QED BY <4>1, <4>3, SeqDef
    <3>4. selector' = Selector(rs, checked) /\ text' = text
      BY <2>3 DEF SelectorFromSet
    <3> HIDE DEF rs, checked
    <3>5. selector'.requirements = rs /\ selector'.checked = checked
      BY <3>4 DEF Selector
    <3> QED BY <3>2, <3>3, <3>4, <3>5 DEF SelectorsInv
  <2>4. ASSUME NEW r \in Requirements, Add(r) PROVE SelectorsInv'
    <3> DEFINE rs == selector.requirements
    <3>1. /\ selector = Selector(rs, selector.checked) /\ rs \in Seq(Held)
          /\ selector.checked => rs \in Seq(Validated)
      BY <2>4 DEF Add, SelectorsInv
    <3>2. r \in Validated /\ r \in Held
      BY RequirementsAssumption, HeldTypes DEF Validated
    <3>3. selector' = [selector EXCEPT !.requirements = Sorted(Append(rs, r))] /\ text' = text
      BY <2>4 DEF Add
    <3> HIDE DEF rs
    <3>4. /\ selector' = Selector(Sorted(Append(rs, r)), selector.checked)
          /\ selector'.requirements = Sorted(Append(rs, r)) /\ selector'.checked = selector.checked
      BY <3>1, <3>3 DEF Selector
    <3>5. Append(rs, r) \in Seq(Held) /\ (selector.checked => Append(rs, r) \in Seq(Validated))
      BY <3>1, <3>2, AppendProperties
    <3>6. /\ Sorted(Append(rs, r)) \in Seq(Held)
          /\ selector.checked => Sorted(Append(rs, r)) \in Seq(Validated)
      BY <3>5, SortedType
    <3> QED BY <3>3, <3>4, <3>6 DEF SelectorsInv
  <2>5. ASSUME UNCHANGED vars PROVE SelectorsInv'
    BY <2>5 DEF SelectorsInv, vars
  <2> QED BY <2>1, <2>2, <2>3, <2>4, <2>5 DEF Next
<1> QED BY <1>1, <1>2, PTL DEF Spec

\* Whatever is written, the parser comes to an end, and to no item past the last.
THEOREM ParsingEnds == Spec => []NeverPanics
<1>1. SelectorsInv => NeverPanics
  BY ParseType DEF SelectorsInv, NeverPanics
<1> QED BY <1>1, SelectorsInvariant, PTL

-----------------------------------------------------------------------------
(* Matching. *)

LEMMA ElementHeld ==
    ASSUME NEW rs \in Seq(Held), NEW i \in DOMAIN rs
    PROVE  rs[i] \in AnyRequirement /\ rs[i] \in ToSet(rs) /\ i \in 1 .. Len(rs)
<1>1. i \in 1 .. Len(rs)
  BY LenProperties
<1>2. rs[i] \in Held
  BY <1>1, ElementOfSeq
<1> QED BY <1>1, <1>2, HeldTypes DEF ToSet

\* One requirement has one answer, unless a number is compared with other values.
LEMMA OneAnswer ==
    ASSUME NEW r \in AnyRequirement, NEW ls
    PROVE  \/ MatchesOne(r, ls) = {TRUE}
           \/ MatchesOne(r, ls) = {FALSE}
           \/ /\ r.operator \in NumberOp /\ Has(ls, r.key)
              /\ \E v, w \in ls[r.key] : IsNumber(v) /\ ~IsNumber(w)
<1> DEFINE op == r.operator
           Decided(x) == x = {TRUE} \/ x = {FALSE}
           M == MatchesOne(r, ls)
<1>1. op \in {"in", "=", "=="} \cup {"notin", "!="} \cup {"exists", "!"} \cup NumberOp \cup {"@", "~="}
  BY DEF AnyRequirement, Operator, ExactOp, SetOp, UnaryOp
<1>2. \A b : b \in BOOLEAN => Decided({b})
  OBVIOUS
<1>3. ASSUME op \in NumberOp, Has(ls, r.key),
             ~\E v, w \in ls[r.key] : IsNumber(v) /\ ~IsNumber(w)
      PROVE  Decided(Comparing(r, ls[r.key]))
  <2> DEFINE values == ls[r.key]
             good == {v \in values : IsNumber(v) /\ Exceeds(r, v)}
             bad == \E v \in values : ~IsNumber(v)
  <2>1. Comparing(r, values) = (IF good # {} THEN {TRUE} ELSE {})
                               \cup (IF good = {} \/ bad THEN {FALSE} ELSE {})
    BY DEF Comparing
  <2>2. good # {} => ~bad
    BY <1>3
  <2> HIDE DEF good, bad
  <2> QED BY <2>1, <2>2
<1>4. CASE op \in {"in", "=", "=="}
  <2>1. M = {Has(ls, r.key) /\ r.values \cap ls[r.key] # {}}
    BY <1>4 DEF MatchesOne, NumberOp
  <2> HIDE DEF M
  <2> QED BY <1>2, <2>1 DEF M
<1>5. CASE op \in {"notin", "!="}
  <2>1. M = {Has(ls, r.key) => r.values \cap ls[r.key] = {}}
    BY <1>5 DEF MatchesOne, NumberOp
  <2> HIDE DEF M
  <2> QED BY <1>2, <2>1 DEF M
<1>6. CASE op \in {"exists", "!"}
  <2>1. M = {Has(ls, r.key)} \/ M = {~Has(ls, r.key)}
    BY <1>6 DEF MatchesOne, NumberOp
  <2>2. Has(ls, r.key) \in BOOLEAN
    BY DEF Has
  <2> HIDE DEF M, Decided
  <2> QED BY <1>2, <2>1, <2>2 DEF M
<1>7. CASE op \in NumberOp
  <2>1. M = IF Has(ls, r.key) THEN Comparing(r, ls[r.key]) ELSE {FALSE}
    BY <1>7 DEF MatchesOne, NumberOp
  <2> HIDE DEF M
  <2> QED BY <1>3, <1>7, <2>1 DEF M
<1>8. CASE op = "@"
  <2>1. M = IF Has(ls, r.key) THEN Satisfying(r, ls[r.key]) ELSE {FALSE}
    BY <1>8 DEF MatchesOne, NumberOp
  <2> HIDE DEF M
  <2> QED BY <1>2, <2>1 DEF M, Satisfying
<1>9. CASE op = "~="
  <2>1. M = {Has(ls, r.key) /\ \E v \in ls[r.key] : Match(The(r), v)}
    BY <1>9 DEF MatchesOne, NumberOp
  <2> HIDE DEF M
  <2> QED BY <1>2, <2>1 DEF M
<1> QED BY <1>1, <1>4, <1>5, <1>6, <1>7, <1>8, <1>9

\* The order the values of a label are iterated in changes no answer, unless a
\* comparison of numbers meets a number and something else.
THEOREM OneAnswerEach == Spec => []AnswersOnce
<1>1. ASSUME SelectorsInv PROVE AnswersOnce
  <2> DEFINE rs == selector.requirements
             Mixed(ls) == \E r \in ToSet(rs) :
                /\ r.operator \in NumberOp /\ Has(ls, r.key)
                /\ \E v, w \in ls[r.key] : IsNumber(v) /\ ~IsNumber(w)
  <2> SUFFICES ASSUME selector # NoSelector, NEW ls \in LabelSets, ~Mixed(ls)
               PROVE  Cardinality(Matches(rs, ls)) = 1
    BY DEF AnswersOnce
  <2>1. rs \in Seq(Held)
    BY <1>1 DEF SelectorsInv
  <2>2. ASSUME NEW i \in DOMAIN rs
        PROVE  MatchesOne(rs[i], ls) = {TRUE} \/ MatchesOne(rs[i], ls) = {FALSE}
    BY <2>1, ElementHeld, OneAnswer
  <2> DEFINE all == \A i \in DOMAIN rs : TRUE \in MatchesOne(rs[i], ls)
             none == \E i \in DOMAIN rs : FALSE \in MatchesOne(rs[i], ls)
  <2>3. none <=> ~all
    BY <2>2
  <2>4. Matches(rs, ls) = {b \in BOOLEAN : IF b THEN all ELSE none}
    BY DEF Matches
  <2>5. all \in BOOLEAN
    OBVIOUS
  <2> HIDE DEF all, none
  <2>6. Matches(rs, ls) = {all}
    BY <2>3, <2>4, <2>5
  <2> QED BY <2>6, FS_Singleton
<1> QED BY <1>1, SelectorsInvariant, PTL

\* A value that a selector says it requires is a value of all labels it matches.
THEOREM ExactMatches == Spec => []ExactMatchIsRequired
<1>1. ASSUME SelectorsInv PROVE ExactMatchIsRequired
  <2> DEFINE rs == selector.requirements
  <2> SUFFICES ASSUME selector # NoSelector, NEW ls \in LabelSets, TRUE \in Matches(rs, ls),
                      NEW key, NEW v \in RequiresExactMatch(rs, key)
               PROVE  Has(ls, key) /\ v \in ls[key]
    BY DEF ExactMatchIsRequired
  <2>1. rs \in Seq(Held) /\ Len(rs) \in Nat /\ DOMAIN rs = 1 .. Len(rs)
    BY <1>1, LenProperties DEF SelectorsInv
  <2> DEFINE I == {j \in 1 .. Len(rs) : rs[j].key = key}
             i == First(I)
  <2>2. RequiresExactMatch(rs, key) =
          IF i = 0 THEN {}
          ELSE IF rs[i].operator \in {"=", "==", "in"} /\ Single(rs[i]) THEN {The(rs[i])} ELSE {}
    BY DEF RequiresExactMatch, SelectInSeq, First
  <2>3. i # 0 => i \in I
    <3>1. I \in SUBSET Nat
      BY <2>1
    <3> HIDE DEF I
    <3>2. CASE I # {}
      <4>1. \E m \in I : \A t \in I : m <= t
        BY <3>1, <3>2, LeastOf
      <4> QED BY <3>2, <4>1 DEF First, Min
    <3> QED BY <3>2 DEF First
  <2> HIDE DEF i
  <2>4. i \in I /\ rs[i].operator \in {"=", "==", "in"} /\ Single(rs[i]) /\ v = The(rs[i])
    BY <2>2, <2>3
  <2>5. i \in DOMAIN rs /\ rs[i].key = key /\ v \in rs[i].values /\ rs[i].values = {v}
    BY <2>1, <2>4 DEF Single, The
  <2>6. TRUE \in MatchesOne(rs[i], ls)
    BY <2>5 DEF Matches
  <2>7. MatchesOne(rs[i], ls) = {Has(ls, rs[i].key) /\ rs[i].values \cap ls[rs[i].key] # {}}
    BY <2>4 DEF MatchesOne, NumberOp
  <2>8. Has(ls, rs[i].key) /\ rs[i].values \cap ls[rs[i].key] # {}
    BY <2>6, <2>7
  <2> HIDE DEF rs
  <2> QED BY <2>5, <2>8
<1> QED BY <1>1, SelectorsInvariant, PTL

\* Selecting a value finds it where filtering by metadata does.
THEOREM SelectsAsMetadata == Spec => []SelectsByMetadata
<1>1. ASSUME SelectorsInv PROVE SelectsByMetadata
  <2> DEFINE rs == selector.requirements
             r == rs[1]
             key == r.key
  <2> SUFFICES ASSUME selector # NoSelector, Len(rs) = 1, r.operator = "=", r.values # {Empty},
                      selector.checked, NEW attrs \in Attributes,
                      attrs = Absent \/ key \notin DOMAIN attrs.direct
                        \/ attrs.direct[key] = OtherType
               PROVE  LabelSelectorFilter(<<r>>, attrs) = {MetadataFilter(key, The(r), attrs)}
    BY DEF SelectsByMetadata
  <2>1. r \in Validated
    BY <1>1, ElementOfSeq DEF SelectorsInv
  <2>2. PICK v \in r.values : r.values = {v}
    BY <2>1 DEF Validated, IsRequirement, SetOp, UnaryOp
  <2>3. The(r) = v /\ v # Empty
    BY <2>2 DEF The
  <2> HIDE DEF r
  <2>4. CASE attrs = Absent
    <3>1. LabelSelectorFilter(<<r>>, attrs) = {FALSE}
      BY <2>4 DEF LabelSelectorFilter
    <3>2. ~MetadataFilter(key, The(r), attrs)
      BY <2>4 DEF MetadataFilter, HasMetadata
    <3> QED BY <3>1, <3>2 DEF MetadataFilter
  <2>5. CASE attrs # Absent
    <3> DEFINE ls == attrsLabels(attrs, {key})
               found == HasMetadata(attrs) /\ key \in DOMAIN attrs.metadata
    <3>1. LabelSelectorFilter(<<r>>, attrs) = Matches(<<r>>, ls)
      <4>1. {<<r>>[i].key : i \in DOMAIN <<r>>} = {key}
        OBVIOUS
      <4> QED BY <2>5, <4>1 DEF LabelSelectorFilter
    <3>2. getSet(attrs, key) = IF found THEN {{attrs.metadata[key]}} ELSE {}
      BY <2>5 DEF getSet
    <3> HIDE DEF found
    <3>3. Has(ls, key) <=> found
      BY <3>2 DEF Has, attrsLabels
    <3>4. found => ls[key] = {attrs.metadata[key]}
      BY <3>2 DEF attrsLabels
    <3> HIDE DEF ls
    <3> DEFINE answer == found /\ attrs.metadata[key] = v
    <3>5. MatchesOne(r, ls) = {answer}
      <4>1. MatchesOne(r, ls) = {Has(ls, key) /\ r.values \cap ls[key] # {}}
        BY DEF MatchesOne, NumberOp
      <4>2. (Has(ls, key) /\ r.values \cap ls[key] # {}) = answer
        BY <2>2, <3>3, <3>4
      <4> QED BY <4>1, <4>2
    <3> HIDE DEF answer
    <3>6. Matches(<<r>>, ls) = {answer}
      <4>1. \A i \in DOMAIN <<r>> : <<r>>[i] = r
        OBVIOUS
      <4>2. 1 \in DOMAIN <<r>>
        OBVIOUS
      <4>3. answer \in BOOLEAN
        BY DEF answer
      <4>4. \A b \in BOOLEAN : b \in Matches(<<r>>, ls) <=> b = answer
        BY <3>5, <4>1, <4>2, <4>3 DEF Matches
      <4>5. Matches(<<r>>, ls) \subseteq BOOLEAN
        BY DEF Matches
      <4> QED BY <4>3, <4>4, <4>5
    <3>7. MetadataFilter(key, The(r), attrs) = answer
      BY <2>3 DEF MetadataFilter, ValueIn, answer, found, Empty
    <3> QED BY <3>1, <3>6, <3>7
  <2> QED BY <2>4, <2>5
<1> QED BY <1>1, SelectorsInvariant, PTL

-----------------------------------------------------------------------------
(* Wildcards. *)

\* The places that at gives the pieces of the pattern from p on, in the name from k on.
Gives(pattern, name, p, k, at) ==
    /\ at[p] = k
    /\ at[Len(pattern) + 1] = Len(name) + 1
    /\ \A i \in p .. Len(pattern) :
        IF pattern[i] = "*" THEN at[i] <= at[i + 1]
        ELSE /\ at[i] <= Len(name)
             /\ pattern[i] \in {"?", name[at[i]]}
             /\ at[i + 1] = at[i] + 1

LEMMA AssignableGives ==
    ASSUME NEW pattern, NEW name, NEW p, NEW k
    PROVE  Assignable(pattern, name, p, k) <=>
             \E at \in [p .. Len(pattern) + 1 -> 1 .. Len(name) + 1] : Gives(pattern, name, p, k, at)
BY DEF Assignable, Gives

LEMMA AssignEnd ==
    ASSUME NEW pattern \in Seq(Char), NEW name \in Seq(Char), NEW k \in 1 .. Len(name) + 1
    PROVE  Assignable(pattern, name, Len(pattern) + 1, k) <=> k = Len(name) + 1
<1> DEFINE m == Len(pattern)
           n == Len(name)
           p == m + 1
<1>1. m \in Nat /\ n \in Nat
  OBVIOUS
<1>2. ASSUME NEW at, Gives(pattern, name, p, k, at) PROVE k = n + 1
  BY <1>2 DEF Gives
<1>3. ASSUME k = n + 1 PROVE Assignable(pattern, name, p, k)
  <2> DEFINE at == [i \in p .. m + 1 |-> n + 1]
  <2>1. at \in [p .. m + 1 -> 1 .. n + 1] /\ at[m + 1] = n + 1
    BY <1>1
  <2> HIDE DEF at
  <2>2. \A i \in p .. m : FALSE
    BY <1>1
  <2>3. Gives(pattern, name, p, k, at)
    BY <1>3, <2>1, <2>2 DEF Gives
  <2> QED BY <2>1, <2>3, AssignableGives
<1> QED BY <1>2, <1>3, AssignableGives

\* Places for the pieces after the first are places for them all, behind one for it.
LEMMA AssignAfter ==
    ASSUME NEW pattern \in Seq(Char), NEW name \in Seq(Char), NEW p \in 1 .. Len(pattern),
           NEW k \in 1 .. Len(name) + 1, NEW j \in 1 .. Len(name) + 1,
           Assignable(pattern, name, p + 1, j),
           IF pattern[p] = "*" THEN k <= j
           ELSE k <= Len(name) /\ pattern[p] \in {"?", name[k]} /\ j = k + 1
    PROVE  Assignable(pattern, name, p, k)
<1> DEFINE m == Len(pattern)
           n == Len(name)
<1>1. m \in Nat /\ n \in Nat /\ p \in 1 .. m
  OBVIOUS
<1>2. PICK at \in [p + 1 .. m + 1 -> 1 .. n + 1] : Gives(pattern, name, p + 1, j, at)
  BY AssignableGives
<1> DEFINE all == [i \in p .. m + 1 |-> IF i = p THEN k ELSE at[i]]
<1>3. p \in p .. m + 1 /\ p + 1 \in p .. m + 1 /\ m + 1 \in p .. m + 1 /\ m + 1 # p
  BY <1>1
<1>4. \A i \in p .. m + 1 : i # p => i \in p + 1 .. m + 1
  BY <1>1
<1>5. all \in [p .. m + 1 -> 1 .. n + 1]
  BY <1>4
<1>6. /\ all[p] = k /\ \A i \in p + 1 .. m + 1 : all[i] = at[i]
      /\ all[p + 1] = j /\ all[m + 1] = n + 1
  <2>1. \A i \in p + 1 .. m + 1 : i \in p .. m + 1 /\ i # p
    BY <1>1
  <2>2. \A i \in p + 1 .. m + 1 : all[i] = at[i]
    BY <2>1
  <2>3. p + 1 \in p + 1 .. m + 1 /\ m + 1 \in p + 1 .. m + 1
    BY <1>1
  <2>4. at[p + 1] = j /\ at[m + 1] = n + 1
    BY <1>2 DEF Gives
  <2>5. all[p] = k
    BY <1>3
  <2> HIDE DEF all
  <2> QED BY <2>2, <2>3, <2>4, <2>5
<1> HIDE DEF all
<1>7. ASSUME NEW i \in p .. m
      PROVE  IF pattern[i] = "*" THEN all[i] <= all[i + 1]
             ELSE /\ all[i] <= n /\ pattern[i] \in {"?", name[all[i]]} /\ all[i + 1] = all[i] + 1
  <2>1. CASE i = p
    BY <1>6, <2>1
  <2>2. CASE i # p
    <3>1. i \in p + 1 .. m /\ i \in p + 1 .. m + 1 /\ i + 1 \in p + 1 .. m + 1
      BY <1>1, <2>2
    <3>2. all[i] = at[i] /\ all[i + 1] = at[i + 1]
      BY <1>6, <3>1
    <3> QED BY <1>2, <3>1, <3>2 DEF Gives
  <2> QED BY <2>1, <2>2
<1>8. Gives(pattern, name, p, k, all)
  BY <1>6, <1>7 DEF Gives
<1> QED BY <1>5, <1>8, AssignableGives

\* Places for all pieces have some for those after the first.
LEMMA AssignFirst ==
    ASSUME NEW pattern \in Seq(Char), NEW name \in Seq(Char), NEW p \in 1 .. Len(pattern),
           NEW k \in 1 .. Len(name) + 1, Assignable(pattern, name, p, k)
    PROVE  \E j \in 1 .. Len(name) + 1 :
             /\ Assignable(pattern, name, p + 1, j)
             /\ IF pattern[p] = "*" THEN k <= j
                ELSE k <= Len(name) /\ pattern[p] \in {"?", name[k]} /\ j = k + 1
<1> DEFINE m == Len(pattern)
           n == Len(name)
<1>1. m \in Nat /\ n \in Nat /\ p \in 1 .. m
  OBVIOUS
<1>2. PICK at \in [p .. m + 1 -> 1 .. n + 1] : Gives(pattern, name, p, k, at)
  BY AssignableGives
<1> DEFINE rest == [i \in p + 1 .. m + 1 |-> at[i]]
           j == at[p + 1]
<1>3. p + 1 \in p .. m + 1 /\ p + 1 \in p + 1 .. m + 1 /\ m + 1 \in p + 1 .. m + 1 /\ p \in p .. m
      /\ (\A i \in p + 1 .. m + 1 : i \in p .. m + 1)
  BY <1>1
<1>4. j \in 1 .. n + 1 /\ rest \in [p + 1 .. m + 1 -> 1 .. n + 1]
  BY <1>3
<1>5. \A i \in p + 1 .. m + 1 : rest[i] = at[i]
  OBVIOUS
<1> HIDE DEF rest
<1>6. ASSUME NEW i \in p + 1 .. m
      PROVE  IF pattern[i] = "*" THEN rest[i] <= rest[i + 1]
             ELSE /\ rest[i] <= n /\ pattern[i] \in {"?", name[rest[i]]} /\ rest[i + 1] = rest[i] + 1
  <2>1. i \in p .. m /\ i \in p + 1 .. m + 1 /\ i + 1 \in p + 1 .. m + 1
    BY <1>1
  <2>2. rest[i] = at[i] /\ rest[i + 1] = at[i + 1]
    BY <1>5, <2>1
  <2> QED BY <1>2, <2>1, <2>2 DEF Gives
<1>7. Gives(pattern, name, p + 1, j, rest)
  BY <1>2, <1>3, <1>5, <1>6 DEF Gives
<1>8. Assignable(pattern, name, p + 1, j)
  BY <1>4, <1>7, AssignableGives
<1>9. IF pattern[p] = "*" THEN k <= j
      ELSE k <= n /\ pattern[p] \in {"?", name[k]} /\ j = k + 1
  BY <1>2, <1>3 DEF Gives
<1> QED BY <1>4, <1>8, <1>9

\* From p on, d pieces of the pattern match as many of the name from k on.
Run(pattern, name, p, k, d) ==
    k + d <= Len(name) + 1 /\ \A i \in 0 .. d - 1 : pattern[p + i] \in {"?", name[k + i]}

LEMMA AssignRun ==
    ASSUME NEW pattern \in Seq(Char), NEW name \in Seq(Char), NEW p \in 1 .. Len(pattern) + 1,
           NEW k \in 1 .. Len(name) + 1, NEW d \in 0 .. Len(pattern) + 1 - p,
           \A i \in 0 .. d - 1 : pattern[p + i] # "*"
    PROVE  Assignable(pattern, name, p, k) <=>
             Run(pattern, name, p, k, d) /\ Assignable(pattern, name, p + d, k + d)
<1> DEFINE m == Len(pattern)
           n == Len(name)
           A(x, y) == Assignable(pattern, name, x, y)
           R(e) == Run(pattern, name, p, k, e) /\ A(p + e, k + e)
           G == {e \in 0 .. d : A(p, k) <=> R(e)}
<1>1. m \in Nat /\ n \in Nat /\ p \in 1 .. m + 1 /\ k \in 1 .. n + 1 /\ d \in 0 .. m + 1 - p
      /\ d \in Nat
  OBVIOUS
<1>2. 0 \in G
  <2>1. p + 0 = p /\ k + 0 = k /\ k <= n + 1 /\ 0 \in 0 .. d
    BY <1>1
  <2>2. \A i \in 0 .. 0 - 1 : FALSE
    OBVIOUS
  <2>3. R(0) <=> A(p, k)
    BY <2>1, <2>2 DEF Run
  <2> HIDE DEF R
  <2> QED BY <2>1, <2>3
<1>3. ASSUME NEW e \in 1 .. d, e - 1 \in G PROVE e \in G
  <2> DEFINE x == p + (e - 1)
             y == k + (e - 1)
  <2>1. /\ x \in 1 .. m /\ x + 1 = p + e /\ y + 1 = k + e /\ y \in Nat /\ y >= 1 /\ e \in 0 .. d
        /\ e - 1 \in 0 .. d - 1 /\ e \in Nat
    BY <1>1
  <2>2. pattern[x] # "*"
    BY <2>1
  <2>3. R(e) <=> R(e - 1)
    <3>1. ASSUME R(e) PROVE R(e - 1)
      <4>1. y + 1 <= n + 1 /\ A(x + 1, y + 1) /\ \A i \in 0 .. e - 1 : pattern[p + i] \in {"?", name[k + i]}
        BY <2>1, <3>1 DEF Run
      <4>2. y \in 1 .. n + 1 /\ y + 1 \in 1 .. n + 1 /\ y <= n /\ e - 1 \in 0 .. e - 1
            /\ (\A i \in 0 .. (e - 1) - 1 : i \in 0 .. e - 1)
        BY <1>1, <2>1, <4>1
      <4>3. pattern[x] \in {"?", name[y]}
        BY <4>1, <4>2
      <4> HIDE DEF x, y
      <4>4. A(x, y)
        BY <2>1, <2>2, <4>1, <4>2, <4>3, AssignAfter
      <4>5. \A i \in 0 .. (e - 1) - 1 : pattern[p + i] \in {"?", name[k + i]}
        BY <4>1, <4>2
      <4>6. k + (e - 1) <= n + 1 /\ A(p + (e - 1), k + (e - 1))
        BY <1>1, <4>2, <4>4 DEF x, y
      <4> QED BY <4>5, <4>6 DEF Run
    <3>2. ASSUME R(e - 1) PROVE R(e)
      <4>1. y <= n + 1 /\ A(x, y) /\ \A i \in 0 .. (e - 1) - 1 : pattern[p + i] \in {"?", name[k + i]}
        BY <3>2 DEF Run
      <4>2. y \in 1 .. n + 1
        BY <1>1, <2>1, <4>1
      <4> HIDE DEF x, y
      <4>3. A(x + 1, y + 1) /\ y <= n /\ pattern[x] \in {"?", name[y]}
        BY <2>1, <2>2, <4>1, <4>2, AssignFirst
      <4>4. k + e <= n + 1
        BY <1>1, <2>1, <4>3
      <4>5. \A i \in 0 .. e - 1 : i = e - 1 \/ i \in 0 .. (e - 1) - 1
        BY <2>1
      <4>6. \A i \in 0 .. e - 1 : pattern[p + i] \in {"?", name[k + i]}
        BY <4>1, <4>3, <4>5 DEF x, y
      <4> QED BY <2>1, <4>3, <4>4, <4>6 DEF Run
    <3> QED BY <3>1, <3>2
  <2> HIDE DEF R
  <2> QED BY <1>3, <2>1, <2>3
<1> HIDE DEF G
<1>4. \A e \in 0 .. d : e \in G
  BY <1>1, <1>2, <1>3, UpTo
<1>5. d \in G
  BY <1>1, <1>4
<1> QED BY <1>5 DEF G

\* Behind the name there are only stars.
LEMMA AssignTail ==
    ASSUME NEW pattern \in Seq(Char), NEW name \in Seq(Char), NEW p \in 1 .. Len(pattern) + 1
    PROVE  Assignable(pattern, name, p, Len(name) + 1) <=>
             \A i \in p .. Len(pattern) : pattern[i] = "*"
<1> DEFINE m == Len(pattern)
           n == Len(name)
           A(x) == Assignable(pattern, name, x, n + 1)
           Stars(x) == \A i \in x .. m : pattern[i] = "*"
           G == {d \in 0 .. m : A(m + 1 - d) <=> Stars(m + 1 - d)}
<1>1. m \in Nat /\ n \in Nat /\ p \in 1 .. m + 1 /\ n + 1 \in 1 .. n + 1
  OBVIOUS
<1>2. 0 \in G
  <2>1. A(m + 1)
    BY <1>1, AssignEnd
  <2>2. m + 1 - 0 = m + 1 /\ 0 \in 0 .. m /\ Stars(m + 1)
    BY <1>1
  <2> HIDE DEF A, Stars
  <2> QED BY <2>1, <2>2
<1>3. ASSUME NEW d \in 1 .. m, d - 1 \in G PROVE d \in G
  <2> DEFINE x == m + 1 - d
  <2>1. x \in 1 .. m /\ x + 1 = m + 1 - (d - 1) /\ d \in 0 .. m
    BY <1>1
  <2>2. A(x + 1) <=> Stars(x + 1)
    BY <1>3, <2>1
  <2>3. Stars(x) <=> pattern[x] = "*" /\ Stars(x + 1)
    <3>1. \A i \in x .. m : i = x \/ i \in x + 1 .. m
      BY <1>1, <2>1
    <3>2. x \in x .. m /\ \A i \in x + 1 .. m : i \in x .. m
      BY <1>1, <2>1
    <3> QED BY <3>1, <3>2
  <2> HIDE DEF x
  <2>4. A(x) <=> pattern[x] = "*" /\ A(x + 1)
    <3>1. ASSUME A(x) PROVE pattern[x] = "*" /\ A(x + 1)
      <4>1. PICK j \in 1 .. n + 1 :
              /\ Assignable(pattern, name, x + 1, j)
              /\ IF pattern[x] = "*" THEN n + 1 <= j
                 ELSE n + 1 <= n /\ pattern[x] \in {"?", name[n + 1]} /\ j = (n + 1) + 1
        BY <1>1, <2>1, <3>1, AssignFirst
      <4>2. ~(n + 1 <= n) /\ (n + 1 <= j => j = n + 1)
        BY <1>1
      <4> QED BY <4>1, <4>2
    <3>2. ASSUME pattern[x] = "*", A(x + 1) PROVE A(x)
      <4>1. n + 1 <= n + 1
        BY <1>1
      <4> QED BY <1>1, <2>1, <3>2, <4>1, AssignAfter
    <3> QED BY <3>1, <3>2
  <2> HIDE DEF A, Stars
  <2> QED BY <2>1, <2>2, <2>3, <2>4 DEF x
<1>4. \A d \in 0 .. m : d \in G
  <2> HIDE DEF G
  <2> QED BY <1>1, <1>2, <1>3, UpTo
<1>5. m + 1 - p \in 0 .. m /\ m + 1 - (m + 1 - p) = p
  BY <1>1
<1> HIDE DEF A, Stars
<1>6. A(p) <=> Stars(p)
  BY <1>4, <1>5
<1> QED BY <1>6 DEF A, Stars

\* Where matching is: what is left to be matched, from the last star on, decides
\* whether the name matches, and what follows the star matches as far as it goes.
Cursors(name, pattern) ==
    {c \in [si : 1 .. Len(name) + 1, pi : 1 .. Len(pattern) + 1, star : 0 .. Len(pattern),
            starSi : 1 .. Len(name) + 1] :
        /\ c.starSi <= c.si
        /\ c.star = 0 =>
            (Assignable(pattern, name, 1, 1) <=> Assignable(pattern, name, c.pi, c.si))
        /\ c.star # 0 =>
            /\ pattern[c.star] = "*" /\ c.star < c.pi
            /\ c.si = c.starSi + (c.pi - (c.star + 1))
            /\ \A i \in 0 .. (c.pi - (c.star + 1)) - 1 : pattern[c.star + 1 + i] # "*"
            /\ Run(pattern, name, c.star + 1, c.starSi, c.pi - (c.star + 1))
            /\ Assignable(pattern, name, 1, 1) <=> Assignable(pattern, name, c.star, c.starSi)}

\* What follows the last star is there, or the star takes one more.
LEMMA StarTakes ==
    ASSUME NEW pattern \in Seq(Char), NEW name \in Seq(Char), NEW c \in Cursors(name, pattern),
           c.star # 0
    PROVE  /\ Assignable(pattern, name, c.pi, c.si) => Assignable(pattern, name, c.star, c.starSi)
           /\ c.starSi <= Len(name) /\ Assignable(pattern, name, c.star, c.starSi + 1) =>
                Assignable(pattern, name, c.star, c.starSi)
           /\ Assignable(pattern, name, c.star, c.starSi) =>
                \/ Assignable(pattern, name, c.pi, c.si)
                \/ /\ c.starSi <= Len(name) /\ c.si <= Len(name)
                   /\ Assignable(pattern, name, c.star, c.starSi + 1)
                   /\ \E j \in 1 .. Len(name) + 1 : j > c.si /\ Assignable(pattern, name, c.pi, j)
<1> DEFINE m == Len(pattern)
           n == Len(name)
           A(x, y) == Assignable(pattern, name, x, y)
           star == c.star
           k == c.starSi
           d == c.pi - (star + 1)
<1>1. /\ m \in Nat /\ n \in Nat /\ star \in 1 .. m /\ k \in 1 .. n + 1 /\ c.pi \in 1 .. m + 1
      /\ c.si \in 1 .. n + 1 /\ k <= c.si /\ pattern[star] = "*" /\ star < c.pi /\ c.si = k + d
      /\ \A i \in 0 .. d - 1 : pattern[star + 1 + i] # "*"
      /\ Run(pattern, name, star + 1, k, d)
  BY DEF Cursors
<1>2. /\ star + 1 \in 1 .. m + 1 /\ d \in 0 .. m + 1 - (star + 1) /\ star + 1 + d = c.pi
  <2> DEFINE pi == c.pi
  <2>1. m \in Nat /\ star \in 1 .. m /\ pi \in 1 .. m + 1 /\ star < pi
    BY <1>1
  <2> HIDE DEF m, star, pi
  <2>2. star + 1 \in 1 .. m + 1 /\ pi - (star + 1) \in 0 .. m + 1 - (star + 1)
        /\ star + 1 + (pi - (star + 1)) = pi
    BY <2>1
  <2> QED BY <2>2 DEF pi
<1> HIDE DEF d, k, star
<1>3. ASSUME NEW y \in 1 .. n + 1
      PROVE  A(star + 1, y) <=> Run(pattern, name, star + 1, y, d) /\ A(c.pi, y + d)
  <2>1. A(star + 1, y) <=> Run(pattern, name, star + 1, y, d) /\ A(star + 1 + d, y + d)
    BY <1>1, <1>2, AssignRun
  <2> QED BY <1>2, <2>1
<1>4. ASSUME NEW x \in 1 .. n + 1, NEW y \in 1 .. n + 1, x <= y, A(star + 1, y) PROVE A(star, x)
  BY <1>1, <1>4, AssignAfter
<1>5. ASSUME A(c.pi, c.si) PROVE A(star, k)
  <2>1. A(star + 1, k)
    BY <1>1, <1>3, <1>5
  <2>2. k <= k
    BY <1>1
  <2> QED BY <1>1, <1>4, <2>1, <2>2
<1>6. ASSUME NEW x \in 1 .. n + 1, A(star, x)
      PROVE  \E j \in 1 .. n + 1 : x <= j /\ A(star + 1, j)
  BY <1>1, <1>6, AssignFirst
<1>7. ASSUME k <= n, A(star, k + 1) PROVE A(star, k)
  <2>1. k + 1 \in 1 .. n + 1
    BY <1>1, <1>7
  <2>2. PICK j \in 1 .. n + 1 : k + 1 <= j /\ A(star + 1, j)
    BY <1>6, <1>7, <2>1
  <2>3. k <= j
    BY <1>1, <2>2
  <2> QED BY <1>1, <1>4, <2>2, <2>3
<1>8. ASSUME A(star, k), ~A(c.pi, c.si)
      PROVE  /\ k <= n /\ c.si <= n /\ A(star, k + 1)
             /\ \E j \in 1 .. n + 1 : j > c.si /\ A(c.pi, j)
  <2>1. PICK j \in 1 .. n + 1 : k <= j /\ A(star + 1, j)
    BY <1>1, <1>6, <1>8
  <2>2. Run(pattern, name, star + 1, j, d) /\ A(c.pi, j + d)
    BY <1>3, <2>1
  <2>3. j + d <= n + 1
    BY <2>2 DEF Run
  <2>4. j # k
    BY <1>1, <1>8, <2>2
  <2>5. d \in Nat
    BY <1>2
  <2>6. /\ k + 1 \in 1 .. n + 1 /\ k + 1 <= j /\ k <= n /\ c.si <= n
        /\ j + d \in 1 .. n + 1 /\ j + d > c.si
    BY <1>1, <2>1, <2>3, <2>4, <2>5
  <2>7. A(star, k + 1)
    BY <1>4, <2>1, <2>6
  <2> QED BY <2>2, <2>6, <2>7
<1> QED BY <1>5, <1>7, <1>8 DEF k, star

\* How far matching has come: turns raise it, and it is below the turns there are.
Progress(name, pattern, c) == (c.starSi - 1) * (Len(pattern) + 1) + (c.pi - 1)

\* Matching has come to an end: of the name, or where nothing matches.
Stopped(name, pattern, c) ==
    /\ MatchTurn(name, pattern, c) = c
    /\ c.si > Len(name) \/ (c.star = 0 /\ ~Assignable(pattern, name, c.pi, c.si))

LEMMA Distribute ==
    ASSUME NEW a \in Nat, NEW b \in Nat
    PROVE  /\ (a + 1) * b = a * b + b
           /\ a * b \in Nat
OBVIOUS

LEMMA Multiples ==
    ASSUME NEW x \in Nat, NEW y \in Nat, NEW b \in Nat, x <= y
    PROVE  x * b <= y * b
<1>1. y - x \in Nat
  OBVIOUS
<1>2. (y - x) * b >= 0
  BY <1>1
<1>3. (y - x) * b = y * b - x * b
  OBVIOUS
<1> QED BY <1>2, <1>3

LEMMA ProgressBound ==
    ASSUME NEW pattern \in Seq(Char), NEW name \in Seq(Char), NEW c \in Cursors(name, pattern)
    PROVE  /\ Progress(name, pattern, c) \in Nat
           /\ (Len(name) + 1) * (Len(pattern) + 1) \in Nat
           /\ Progress(name, pattern, c) < (Len(name) + 1) * (Len(pattern) + 1)
<1> DEFINE b == Len(pattern) + 1
           n == Len(name)
           x == c.starSi - 1
           y == c.pi - 1
<1>1. b \in Nat /\ n \in Nat /\ x \in Nat /\ x <= n /\ y \in Nat /\ y < b
  BY DEF Cursors
<1>2. Progress(name, pattern, c) = x * b + y
  BY DEF Progress
<1> HIDE DEF b, n, x, y
<1>3. x * b <= n * b /\ x * b \in Nat /\ n * b \in Nat /\ (n + 1) * b = n * b + b
  BY <1>1, Multiples, Distribute
<1> DEFINE xb == x * b
           nb == n * b
           all == (n + 1) * b
<1> HIDE DEF xb, nb, all
<1>4. xb <= nb /\ xb \in Nat /\ nb \in Nat /\ all = nb + b
  BY <1>3 DEF xb, nb, all
<1>5. xb + y \in Nat /\ all \in Nat /\ xb + y < all
  BY <1>1, <1>4
<1> QED BY <1>2, <1>5 DEF xb, all, n, b

\* One turn keeps what decides about the whole name, and stops or goes further.
LEMMA MatchTurnType ==
    ASSUME NEW pattern \in Seq(Char), NEW name \in Seq(Char), NEW c \in Cursors(name, pattern)
    PROVE  /\ MatchTurn(name, pattern, c) \in Cursors(name, pattern)
           /\ \/ Stopped(name, pattern, c)
              \/ Progress(name, pattern, MatchTurn(name, pattern, c)) > Progress(name, pattern, c)
<1> DEFINE m == Len(pattern)
           n == Len(name)
           A(x, y) == Assignable(pattern, name, x, y)
           si == c.si
           pi == c.pi
           star == c.star
           k == c.starSi
           p == IF pi <= m THEN pattern[pi] ELSE "end"
           T == MatchTurn(name, pattern, c)
           Further(x) == Progress(name, pattern, x) > Progress(name, pattern, c)
<1>1. /\ m \in Nat /\ n \in Nat /\ si \in 1 .. n + 1 /\ pi \in 1 .. m + 1 /\ star \in 0 .. m
      /\ k \in 1 .. n + 1 /\ k <= si /\ c = Cursor(si, pi, star, k)
  BY DEF Cursors, Cursor
<1>2. star = 0 => (A(1, 1) <=> A(pi, si))
  BY DEF Cursors
<1>3. ASSUME star # 0
      PROVE  /\ pattern[star] = "*" /\ star < pi /\ si = k + (pi - (star + 1))
             /\ \A i \in 0 .. (pi - (star + 1)) - 1 : pattern[star + 1 + i] # "*"
             /\ Run(pattern, name, star + 1, k, pi - (star + 1))
             /\ A(1, 1) <=> A(star, k)
  BY <1>3 DEF Cursors
<1>4. star # 0 =>
        /\ A(pi, si) => A(star, k)
        /\ k <= n /\ A(star, k + 1) => A(star, k)
        /\ A(star, k) => \/ A(pi, si)
                         \/ /\ k <= n /\ si <= n /\ A(star, k + 1)
                            /\ \E j \in 1 .. n + 1 : j > si /\ A(pi, j)
  BY StarTakes
<1>5. T = CASE si > n -> c
            [] si <= n /\ p = "*" -> Cursor(si, pi + 1, pi, si)
            [] si <= n /\ p \in {"?", name[si]} \ {"*"} -> Cursor(si + 1, pi + 1, star, k)
            [] OTHER -> IF star = 0 THEN c ELSE Cursor(k + 1, star + 1, star, k + 1)
  BY DEF MatchTurn
<1> HIDE DEF si, pi, star, k
<1>7. ASSUME NEW a, NEW b, NEW s, NEW e
      PROVE  /\ Cursor(a, b, s, e).si = a /\ Cursor(a, b, s, e).pi = b
             /\ Cursor(a, b, s, e).star = s /\ Cursor(a, b, s, e).starSi = e
  BY DEF Cursor
<1>8. ASSUME NEW a \in 1 .. n + 1, NEW b \in 1 .. m + 1, NEW s \in 0 .. m, NEW e \in 1 .. n + 1,
             e <= a, s = 0 => (A(1, 1) <=> A(b, a)),
             s # 0 => /\ pattern[s] = "*" /\ s < b /\ a = e + (b - (s + 1))
                      /\ \A i \in 0 .. (b - (s + 1)) - 1 : pattern[s + 1 + i] # "*"
                      /\ Run(pattern, name, s + 1, e, b - (s + 1))
                      /\ A(1, 1) <=> A(s, e)
      PROVE  Cursor(a, b, s, e) \in Cursors(name, pattern)
  BY <1>8 DEF Cursors, Cursor
<1>9. ASSUME NEW a, NEW b \in Nat, NEW s, NEW e \in Nat,
             \/ e >= k /\ b > pi
             \/ e = k + 1 /\ b >= 2
      PROVE  Further(Cursor(a, b, s, e))
  <2> DEFINE w == m + 1
             x == k - 1
             y == e - 1
  <2>1. w \in Nat /\ x \in Nat /\ pi \in Nat /\ pi <= w
    BY <1>1
  <2>2. /\ Progress(name, pattern, c) = x * w + (pi - 1)
        /\ Progress(name, pattern, Cursor(a, b, s, e)) = y * w + (b - 1)
    <3>1. Progress(name, pattern, c) = x * w + (pi - 1)
      BY DEF Progress, k, pi
    <3>2. Progress(name, pattern, Cursor(a, b, s, e)) = y * w + (b - 1)
      BY DEF Progress, Cursor
    <3> QED BY <3>1, <3>2
  <2>3. (e >= k => y \in Nat /\ x <= y) /\ (e = k + 1 => y = x + 1)
    BY <1>1
  <2> HIDE DEF w, x, y
  <2> DEFINE xw == x * w
             yw == y * w
  <2>4. xw \in Nat /\ (e >= k => yw \in Nat /\ xw <= yw) /\ (e = k + 1 => yw = xw + w)
    BY <2>1, <2>3, Multiples, Distribute
  <2> HIDE DEF xw, yw
  <2>5. yw + (b - 1) > xw + (pi - 1)
    BY <1>9, <2>1, <2>4
  <2> QED BY <2>2, <2>5 DEF xw, yw
<1>10. CASE si > n
  <2>2. ~(si <= n)
    BY <1>1, <1>10
  <2>1. T = c
    BY <1>5, <1>10, <2>2
  <2> QED BY <1>10, <2>1 DEF Stopped, si, T
<1>11. ASSUME si <= n, p = "*"
       PROVE  T \in Cursors(name, pattern) /\ Further(T)
  <2>1. T = Cursor(si, pi + 1, pi, si)
    BY <1>5, <1>11
  <2>2. pi \in 1 .. m /\ pattern[pi] = "*"
    BY <1>1, <1>11
  <2>3. A(1, 1) <=> A(pi, si)
    <3>1. ASSUME NEW j \in 1 .. n + 1, j > si, A(pi, j) PROVE A(pi, si)
      <4>1. PICK i \in 1 .. n + 1 : A(pi + 1, i) /\ j <= i
        BY <2>2, <3>1, AssignFirst
      <4>2. si <= i
        BY <1>1, <3>1, <4>1
      <4> QED BY <1>1, <2>2, <4>1, <4>2, AssignAfter
    <3> QED BY <1>2, <1>3, <1>4, <3>1
  <2>4. (pi + 1) - (pi + 1) = 0 /\ si + 0 = si /\ pi + 1 \in 1 .. m + 1 /\ pi < pi + 1 /\ pi \in 0 .. m
        /\ pi # 0 /\ si <= si /\ si <= n + 1
    BY <1>1, <2>2
  <2>5. \A i \in 0 .. 0 - 1 : FALSE
    OBVIOUS
  <2>6. Run(pattern, name, pi + 1, si, (pi + 1) - (pi + 1))
    BY <2>4, <2>5 DEF Run
  <2>7. T \in Cursors(name, pattern)
    <3>1. \A i \in 0 .. ((pi + 1) - (pi + 1)) - 1 : pattern[pi + 1 + i] # "*"
      BY <2>4, <2>5
    <3>2. si = si + ((pi + 1) - (pi + 1))
      BY <2>4
    <3> HIDE DEF A, T
    <3> QED BY <1>1, <1>8, <2>1, <2>2, <2>3, <2>4, <2>6, <3>1, <3>2
  <2>8. Further(T)
    <3>1. si >= k /\ pi + 1 > pi /\ pi + 1 \in Nat /\ si \in Nat
      BY <1>1
    <3> QED BY <1>9, <2>1, <3>1
  <2> QED BY <2>7, <2>8
<1>12. ASSUME si <= n, p # "*", p \in {"?", name[si]}
       PROVE  T \in Cursors(name, pattern) /\ Further(T)
  <2>1. T = Cursor(si + 1, pi + 1, star, k)
    BY <1>5, <1>12
  <2>2. pi \in 1 .. m /\ pattern[pi] = p
    <3>1. name[si] \in Char
      BY <1>1, <1>12, ElementOfSeq
    <3>2. "end" \notin Char /\ "end" # "?"
      BY DEF Char, Special, Keyword, Wildcard, Blank
    <3>3. pi <= m
      BY <1>12, <3>1, <3>2
    <3> QED BY <1>1, <3>3
  <2>3. /\ si + 1 \in 1 .. n + 1 /\ pi + 1 \in 1 .. m + 1 /\ k <= si + 1
        /\ pi + 1 > pi /\ pi + 1 \in Nat /\ k >= k /\ k \in Nat
    BY <1>1, <1>12, <2>2
  <2>4. A(pi, si) <=> A(pi + 1, si + 1)
    <3>1. ASSUME A(pi, si) PROVE A(pi + 1, si + 1)
      BY <1>1, <1>12, <2>2, <3>1, AssignFirst
    <3>2. ASSUME A(pi + 1, si + 1) PROVE A(pi, si)
      BY <1>1, <1>12, <2>2, <2>3, <3>2, AssignAfter
    <3> QED BY <3>1, <3>2
  <2>5. ASSUME star # 0
        PROVE  /\ pattern[star] = "*" /\ star < pi + 1 /\ si + 1 = k + ((pi + 1) - (star + 1))
               /\ \A i \in 0 .. ((pi + 1) - (star + 1)) - 1 : pattern[star + 1 + i] # "*"
               /\ Run(pattern, name, star + 1, k, (pi + 1) - (star + 1))
               /\ A(1, 1) <=> A(star, k)
    <3> DEFINE d == pi - (star + 1)
    <3>1. /\ d \in Nat /\ (pi + 1) - (star + 1) = d + 1 /\ star + 1 + d = pi /\ k + d = si
          /\ star < pi + 1 /\ si + 1 = k + (d + 1) /\ k + (d + 1) <= n + 1
          /\ (d + 1) - 1 = d
      BY <1>1, <1>3, <1>12, <2>5
    <3>2. /\ \A i \in 0 .. d - 1 : pattern[star + 1 + i] # "*"
          /\ \A i \in 0 .. d - 1 : pattern[star + 1 + i] \in {"?", name[k + i]}
      BY <1>3, <2>5 DEF Run
    <3> HIDE DEF d
    <3>3. \A i \in 0 .. d : i = d \/ i \in 0 .. d - 1
      BY <3>1
    <3>4. pattern[star + 1 + d] # "*" /\ pattern[star + 1 + d] \in {"?", name[k + d]}
      BY <1>12, <2>2, <3>1
    <3>5. \A i \in 0 .. d : pattern[star + 1 + i] # "*" /\ pattern[star + 1 + i] \in {"?", name[k + i]}
      BY <3>2, <3>3, <3>4
    <3>6. Run(pattern, name, star + 1, k, d + 1)
      BY <3>1, <3>5 DEF Run
    <3> QED BY <1>3, <2>5, <3>1, <3>5, <3>6
  <2>6. T \in Cursors(name, pattern)
    <3> HIDE DEF A, T
    <3> QED BY <1>1, <1>2, <1>8, <2>1, <2>3, <2>4, <2>5
  <2>7. Further(T)
    BY <1>9, <2>1, <2>3
  <2> QED BY <2>6, <2>7
<1>13. ASSUME si <= n, p # "*", p \notin {"?", name[si]}
       PROVE  ~A(pi, si)
  <2>1. CASE pi <= m
    <3>1. pi \in 1 .. m /\ pattern[pi] = p /\ ~(pi > m)
      BY <1>1, <2>1
    <3>2. ASSUME A(pi, si) PROVE FALSE
      BY <1>1, <1>13, <3>1, <3>2, AssignFirst
    <3> QED BY <3>1, <3>2
  <2>2. CASE pi > m
    <3>1. pi = m + 1 /\ si # n + 1
      BY <1>1, <1>13, <2>2
    <3> QED BY <1>1, <3>1, AssignEnd
  <2> QED BY <1>1, <2>1, <2>2
<1>14. ASSUME si <= n, p # "*", p \notin {"?", name[si]}, star # 0
       PROVE  T \in Cursors(name, pattern) /\ Further(T)
  <2>0. ~(si > n) /\ p \notin {"?", name[si]} \ {"*"}
    BY <1>1, <1>14
  <2>1. T = Cursor(k + 1, star + 1, star, k + 1)
    <3> HIDE DEF T, p
    <3> QED BY <1>5, <1>14, <2>0
  <2>2. /\ k + 1 \in 1 .. n + 1 /\ star + 1 \in 1 .. m + 1 /\ k + 1 <= k + 1 /\ star < star + 1
        /\ k <= n /\ star + 1 >= 2 /\ star + 1 \in Nat /\ k + 1 \in Nat
        /\ (star + 1) - (star + 1) = 0 /\ (k + 1) + 0 = k + 1 /\ k + 1 <= n + 1
    BY <1>1, <1>14
  <2>3. A(1, 1) <=> A(star, k + 1)
    BY <1>3, <1>4, <1>13, <1>14, <2>2
  <2>4. \A i \in 0 .. 0 - 1 : FALSE
    OBVIOUS
  <2>5. Run(pattern, name, star + 1, k + 1, (star + 1) - (star + 1))
    BY <2>2, <2>4 DEF Run
  <2>6. /\ k + 1 = (k + 1) + ((star + 1) - (star + 1))
        /\ \A i \in 0 .. ((star + 1) - (star + 1)) - 1 : pattern[star + 1 + i] # "*"
    BY <2>2, <2>4
  <2>7. T \in Cursors(name, pattern)
    <3> HIDE DEF A, T
    <3> QED BY <1>1, <1>3, <1>8, <1>14, <2>1, <2>2, <2>3, <2>5, <2>6
  <2>8. Further(T)
    BY <1>1, <1>9, <2>1, <2>2
  <2> QED BY <2>7, <2>8
<1>15. ASSUME si <= n, p # "*", p \notin {"?", name[si]}, star = 0
       PROVE  T = c /\ Stopped(name, pattern, c)
  <2>1. T = c
    BY <1>5, <1>15
  <2> QED BY <1>13, <1>15, <2>1 DEF Stopped, T, star, pi, si
<1>16. si > n \/ si <= n
  BY <1>1
<1> QED BY <1>10, <1>11, <1>12, <1>14, <1>15, <1>16
\* deepMatch goes from place to place.
LEMMA MatchLoop ==
    ASSUME NEW pattern \in Seq(Char), NEW name \in Seq(Char)
    PROVE  \E f \in [0 .. (Len(name) + 1) * (Len(pattern) + 1) -> Cursors(name, pattern)] :
             /\ f[0] = Cursor(1, 1, 0, 1)
             /\ \A k \in 1 .. (Len(name) + 1) * (Len(pattern) + 1) : f[k] = MatchTurn(name, pattern, f[k - 1])
             /\ Loop(LAMBDA y : MatchTurn(name, pattern, y), Cursor(1, 1, 0, 1),
                  (Len(name) + 1) * (Len(pattern) + 1)) = f[(Len(name) + 1) * (Len(pattern) + 1)]
<1> DEFINE St == Cursors(name, pattern)
           n == (Len(name) + 1) * (Len(pattern) + 1)
           s == Cursor(1, 1, 0, 1)
           Eq(f) == f = [k \in 0 .. n |-> IF k = 0 THEN s ELSE MatchTurn(name, pattern, f[k - 1])]
           after == CHOOSE f : Eq(f)
           F == [x \in (1 .. n) \X St |-> MatchTurn(name, pattern, x[2])]
           G == {k \in 0 .. n : after[k] \in St}
<1>1. n \in Nat /\ s \in St
  <2>1. Len(name) \in Nat /\ Len(pattern) \in Nat
    OBVIOUS
  <2>2. n \in Nat
    BY <2>1, Distribute
  <2>3. s \in Cursors(name, pattern)
    <3>1. /\ 1 \in 1 .. Len(name) + 1 /\ 1 \in 1 .. Len(pattern) + 1 /\ 0 \in 0 .. Len(pattern)
          /\ 1 <= 1
      BY <2>1
    <3> QED BY <3>1 DEF Cursors, Cursor
  <2> QED BY <2>2, <2>3
<1>2. ASSUME NEW k \in 1 .. n, NEW x \in St PROVE MatchTurn(name, pattern, x) \in St
  BY MatchTurnType
<1>3. F \in [(1 .. n) \X St -> St]
  <2>1. ASSUME NEW x \in (1 .. n) \X St PROVE MatchTurn(name, pattern, x[2]) \in St
    <3>1. x[1] \in 1 .. n /\ x[2] \in St
      OBVIOUS
    <3> QED BY <1>2, <3>1
  <2> QED BY <2>1
<1>4. \A k \in 1 .. n, x \in St : F[<<k, x>>] = MatchTurn(name, pattern, x)
  OBVIOUS
<1> HIDE DEF n, s, F, St
<1>5. PICK g \in [0 .. n -> St] : g[0] = s /\ \A k \in 1 .. n : g[k] = F[<<k, g[k - 1]>>]
  <2>1. LoopOf(n, St, s, F)
    BY <1>1, <1>3, Iterates
  <2> QED BY <2>1 DEF LoopOf
<1>6. Eq(g)
  <2>1. ASSUME NEW k \in 0 .. n PROVE g[k] = IF k = 0 THEN s ELSE MatchTurn(name, pattern, g[k - 1])
    <3>1. CASE k = 0
      BY <1>5, <3>1
    <3>2. CASE k # 0
      <4>1. k \in 1 .. n /\ k - 1 \in 0 .. n
        BY <1>1, <3>2
      <4>2. g[k] = F[<<k, g[k - 1]>>] /\ g[k - 1] \in St
        BY <1>5, <4>1
      <4> QED BY <1>4, <3>2, <4>1, <4>2
    <3> QED BY <3>1, <3>2
  <2> QED BY <1>5, <2>1
<1> HIDE DEF Eq
<1>7. Eq(after)
  BY <1>6
<1> HIDE DEF after
<1>8. /\ after = [k \in 0 .. n |-> after[k]]
      /\ after[0] = s
      /\ \A k \in 1 .. n : after[k] = MatchTurn(name, pattern, after[k - 1])
  <2>1. after = [k \in 0 .. n |-> IF k = 0 THEN s ELSE MatchTurn(name, pattern, after[k - 1])]
    BY <1>7 DEF Eq
  <2>2. 0 \in 0 .. n /\ \A k \in 1 .. n : k \in 0 .. n /\ k # 0
    BY <1>1
  <2> QED BY <2>1, <2>2
<1>9. \A k \in 0 .. n : after[k] \in St
  <2>1. 0 \in G
    BY <1>1, <1>8
  <2>2. ASSUME NEW k \in 1 .. n, k - 1 \in G PROVE k \in G
    <3>1. after[k - 1] \in St /\ k \in 0 .. n
      BY <1>1, <2>2
    <3>2. after[k] = MatchTurn(name, pattern, after[k - 1])
      BY <1>8
    <3>3. after[k] \in St
      BY <1>2, <3>1, <3>2
    <3> QED BY <3>1, <3>3
  <2> HIDE DEF G
  <2>3. \A k \in 0 .. n : k \in G
    BY <1>1, <2>1, <2>2, UpTo
  <2> QED BY <2>3 DEF G
<1>10. Loop(LAMBDA y : MatchTurn(name, pattern, y), Cursor(1, 1, 0, 1),
                  (Len(name) + 1) * (Len(pattern) + 1)) = after[n]
  BY DEF Loop, n, s, after, Eq
<1>11. after \in [0 .. n -> St]
  BY <1>8, <1>9
<1> QED BY <1>8, <1>10, <1>11 DEF n, s, St

\* Going back to the last star only is enough.
LEMMA DeepMatchAssigns ==
    ASSUME NEW pattern \in Seq(Char), NEW name \in Seq(Char)
    PROVE  deepMatch(name, pattern) <=> Assignable(pattern, name, 1, 1)
<1> DEFINE turns == (Len(name) + 1) * (Len(pattern) + 1)
           end == Loop(LAMBDA y : MatchTurn(name, pattern, y), Cursor(1, 1, 0, 1), turns)
           A(x, y) == Assignable(pattern, name, x, y)
<1>1. PICK f \in [0 .. turns -> Cursors(name, pattern)] :
        /\ f[0] = Cursor(1, 1, 0, 1)
        /\ \A k \in 1 .. turns : f[k] = MatchTurn(name, pattern, f[k - 1])
        /\ end = f[turns]
  BY MatchLoop
<1>2. deepMatch(name, pattern) <=>
        end.si > Len(name) /\ \A i \in end.pi .. Len(pattern) : pattern[i] = "*"
  BY DEF deepMatch
<1>3. Len(name) \in Nat /\ Len(pattern) \in Nat
  OBVIOUS
<1>4. turns \in Nat
  BY <1>3, Distribute
<1> HIDE DEF turns, end
<1> DEFINE G == {k \in 0 .. turns : Stopped(name, pattern, f[k]) \/ Progress(name, pattern, f[k]) >= k}
<1>5. 0 \in G
  <2>1. 0 \in 0 .. turns /\ f[0] \in Cursors(name, pattern)
    BY <1>4
  <2>2. Progress(name, pattern, f[0]) \in Nat
    BY <2>1, ProgressBound
  <2> QED BY <2>1, <2>2
<1>6. ASSUME NEW k \in 1 .. turns, k - 1 \in G PROVE k \in G
  <2>1. k \in 0 .. turns /\ k - 1 \in 0 .. turns
    BY <1>4
  <2>2. f[k] \in Cursors(name, pattern) /\ f[k - 1] \in Cursors(name, pattern)
    BY <2>1
  <2>3. Progress(name, pattern, f[k]) \in Nat /\ Progress(name, pattern, f[k - 1]) \in Nat
    BY <2>2, ProgressBound
  <2>4. \/ Stopped(name, pattern, f[k - 1]) /\ f[k] = f[k - 1]
        \/ Progress(name, pattern, f[k]) > Progress(name, pattern, f[k - 1])
    <3>1. f[k] = MatchTurn(name, pattern, f[k - 1])
      BY <1>1
    <3> QED BY <2>2, <3>1, MatchTurnType DEF Stopped
  <2>5. CASE Stopped(name, pattern, f[k - 1]) /\ f[k] = f[k - 1]
    BY <2>1, <2>5
  <2>6. CASE /\ Progress(name, pattern, f[k]) > Progress(name, pattern, f[k - 1])
             /\ Progress(name, pattern, f[k - 1]) >= k - 1
    <3>1. Progress(name, pattern, f[k]) >= k
      BY <2>3, <2>6
    <3> QED BY <2>1, <3>1
  <2>7. CASE /\ Progress(name, pattern, f[k]) > Progress(name, pattern, f[k - 1])
             /\ Stopped(name, pattern, f[k - 1])
    <3>1. MatchTurn(name, pattern, f[k - 1]) = f[k]
      BY <1>1
    <3>2. f[k] = f[k - 1]
      BY <2>7, <3>1 DEF Stopped
    <3> QED BY <2>1, <2>7, <3>2
  <2> QED BY <1>6, <2>4, <2>5, <2>6, <2>7
<1> HIDE DEF G
<1>7. turns \in G /\ turns \in 0 .. turns
  <2>1. \A k \in 0 .. turns : k \in G
    BY <1>4, <1>5, <1>6, UpTo
  <2> QED BY <1>4, <2>1
<1>8. end \in Cursors(name, pattern)
  BY <1>1, <1>7
<1>9. Stopped(name, pattern, end)
  <2>1. Stopped(name, pattern, end) \/ Progress(name, pattern, end) >= turns
    BY <1>1, <1>7 DEF G
  <2>2. Progress(name, pattern, end) \in Nat /\ Progress(name, pattern, end) < turns
    BY <1>8, ProgressBound DEF turns
  <2> QED BY <1>4, <2>1, <2>2
<1>10. /\ end.si \in 1 .. Len(name) + 1 /\ end.pi \in 1 .. Len(pattern) + 1
       /\ end.star = 0 => (A(1, 1) <=> A(end.pi, end.si))
       /\ end.star # 0 => (A(1, 1) <=> A(end.star, end.starSi))
  BY <1>8 DEF Cursors
<1>11. CASE end.si > Len(name)
  <2>1. end.si = Len(name) + 1
    BY <1>3, <1>10, <1>11
  <2>2. deepMatch(name, pattern) <=> A(end.pi, end.si)
    BY <1>2, <1>10, <1>11, <2>1, AssignTail
  <2>3. ~(end.si <= Len(name))
    BY <1>3, <2>1
  <2>4. end.star # 0 => (A(end.star, end.starSi) <=> A(end.pi, end.si))
    BY <1>8, <2>3, StarTakes
  <2> QED BY <1>10, <2>2, <2>4
<1>12. CASE ~(end.si > Len(name))
  BY <1>2, <1>9, <1>10, <1>12 DEF Stopped
<1> QED BY <1>11, <1>12

\* Whatever matches can be cut, and the reverse: backtracking to the last "*"
\* loses no match, and the loop ends within the turns it is given.
THEOREM MatchAssigns ==
    ASSUME NEW pattern \in Seq(Char), NEW name \in Seq(Char)
    PROVE  Match(pattern, name) <=> Assignable(pattern, name, 1, 1)
<1> DEFINE n == Len(name)
<1>1. n \in Nat /\ 1 \in 1 .. n + 1
  OBVIOUS
<1>2. CASE pattern = Empty
  <2>1. Len(pattern) = 0 /\ Len(pattern) + 1 = 1
    BY <1>2 DEF Empty
  <2>4. Assignable(pattern, name, Len(pattern) + 1, 1) <=> 1 = n + 1
    BY <1>1, AssignEnd
  <2>2. Assignable(pattern, name, 1, 1) <=> n = 0
    BY <1>1, <2>1, <2>4
  <2>3. name = Empty <=> n = 0
    BY EmptySeq DEF Empty
  <2>5. Match(pattern, name) <=> name = Empty
    BY <1>2 DEF Match, Empty
  <2> QED BY <2>2, <2>3, <2>5
<1>3. CASE pattern = <<"*">>
  <2>1. Len(pattern) = 1 /\ pattern[1] = "*" /\ 1 \in 1 .. Len(pattern) /\ Len(pattern) + 1 = 1 + 1
    BY <1>3
  <2>2. n + 1 \in 1 .. n + 1 /\ 1 <= n + 1
    BY <1>1
  <2>3. Assignable(pattern, name, 1 + 1, n + 1)
    BY <2>1, <2>2, AssignEnd
  <2>4. Assignable(pattern, name, 1, 1)
    BY <1>1, <2>1, <2>2, <2>3, AssignAfter
  <2>5. pattern # Empty
    BY <1>3 DEF Empty
  <2> QED BY <1>3, <2>4, <2>5 DEF Match
<1>4. CASE pattern # Empty /\ pattern # <<"*">>
  BY <1>4, DeepMatchAssigns DEF Match
<1> QED BY <1>2, <1>3, <1>4

\* A name matches a wildcard if it can be cut into what the pieces of it stand for.
THEOREM WildcardsAgree == Spec => []WildcardAgrees
<1>1. ASSUME SelectorsInv PROVE WildcardAgrees
  <2> DEFINE rs == selector.requirements
             r == rs[1]
             pattern == The(r)
  <2> SUFFICES ASSUME selector # NoSelector, Len(rs) = 1, r.operator = "~=",
                      NEW ls \in LabelSets, NEW key \in DOMAIN ls, NEW name \in ls[key]
               PROVE  Match(pattern, name) <=> Assignable(pattern, name, 1, 1)
    BY DEF WildcardAgrees
  <2>1. r \in Held
    BY <1>1, ElementOfSeq DEF SelectorsInv
  <2>2. r \in Validated
    BY <2>1 DEF Held, Unchecked
  <2>3. PICK v \in r.values : r.values = {v}
    BY <2>2 DEF Validated, IsRequirement, SetOp, UnaryOp
  <2>4. pattern = v /\ v \in Seq(Char)
    BY <2>2, <2>3 DEF The, Validated, AnyRequirement
  <2>5. name \in Seq(Char)
    BY LabelsAssumption
  <2> HIDE DEF pattern
  <2> QED BY <2>4, <2>5, MatchAssigns
<1> QED BY <1>1, SelectorsInvariant, PTL
=============================================================================
