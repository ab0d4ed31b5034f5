------------------------ MODULE FilteredPickerProofs ------------------------
(* PickedWasKept, OnePickerPerSet and ContextsKept for any nodes, filters,   *)
(* calls and sizes of arrays. A key of the cache leads to the picker of its  *)
(* own nodes, and a picker is built once, with its entry, because the second *)
(* look and the Build are one step. A slice is written over only by a second *)
(* append to one of those it was appended to.                                *)
EXTENDS FilteredPicker, SequenceTheorems, TLAPS

\* What a call has found so far is right for the nodes its filters kept.
Sound(q) ==
    /\ q.step = "picking" => q.nodes = q.kept
    /\ q.step = "picked" => q.node \in q.kept
    /\ q.step = "filtering" => q.todo \cup q.kept \subseteq ready
    /\ q.step \in {"filtered", "missed"} => q.kept \subseteq ready

\* Every entry serves the nodes it is found under, which are the picker's.
CacheRight == \A key \in DOMAIN cached : cached[key] = key /\ key \subseteq ready

\* A picker was built for an entry, once, and for nothing else.
BuiltOnce == DOMAIN built = DOMAIN cached /\ OnePickerPerSet

IInv ==
    /\ request = [r \in Request |-> request[r]]
    /\ \A r \in Request : Sound(request[r])
    /\ CacheRight
    /\ BuiltOnce

-----------------------------------------------------------------------------

\* A step that changes one call only, soundly, keeps the invariant.
LEMMA SoundStep ==
    ASSUME IInv, NEW r \in Request, NEW s, Sound(s), Becomes(r, s),
           UNCHANGED <<ready, cached, built>>
    PROVE IInv'
<1>1. request' = [request EXCEPT ![r] = s]
  BY DEF Becomes
<1>2. \A q \in Request : request'[q] = IF q = r THEN s ELSE request[q]
  BY <1>1 DEF IInv
<1>3. request' = [q \in Request |-> request'[q]]
  BY <1>1 DEF IInv
<1>4. \A q \in Request : Sound(request'[q])
  BY <1>2 DEF IInv
<1> QED
  BY <1>3, <1>4 DEF IInv, CacheRight, BuiltOnce, OnePickerPerSet, Sound

\* What the places of a call make of Sound.
LEMMA SoundPlaces ==
    /\ Sound(Idle)
    /\ Sound(NoSubConnAvailable)
    /\ \A c, todo, kept : todo \cup kept \subseteq ready => Sound(Filtering(c, todo, kept))
    /\ \A kept : kept \subseteq ready => Sound(Missed(kept))
    /\ \A kept : Sound(Picking(kept, kept))
    /\ \A kept : \A n \in kept : Sound(Picked(kept, n))
BY DEF Sound, Idle, NoSubConnAvailable, Filtering, Missed, Picking, Picked

LEMMA PickIInv ==
    ASSUME IInv, NEW r \in Request, NEW c \in DOMAIN contexts, Pick(r, c)
    PROVE IInv'
<1>1. CASE contexts[c].len = 0
  <2>1. Becomes(r, Picking(ready, ready))
    BY <1>1 DEF Pick
  <2> QED
    BY <2>1, SoundPlaces, SoundStep DEF Pick
<1>2. CASE contexts[c].len # 0
  <2>1. Becomes(r, Filtering(c, ready, {}))
    BY <1>2 DEF Pick
  <2> QED
    BY <2>1, SoundPlaces, SoundStep DEF Pick
<1> QED
  BY <1>1, <1>2

LEMMA EvaluateIInv ==
    ASSUME IInv, NEW r \in Request, NEW n \in Node, NEW healthy \in BOOLEAN,
           Evaluate(r, n, healthy)
    PROVE IInv'
<1> DEFINE q == request[r]
<1>1. q.todo \cup q.kept \subseteq ready /\ n \in q.todo
  BY DEF Evaluate, IInv, Sound
<1>2. PICK passed \in SUBSET {n} :
        Becomes(r, Filtering(q.ctx, q.todo \ {n}, q.kept \cup passed))
  BY DEF Evaluate
<1>3. (q.todo \ {n}) \cup (q.kept \cup passed) \subseteq ready
  BY <1>1
<1> QED
  BY <1>2, <1>3, SoundPlaces, SoundStep DEF Evaluate

\* A picker that is looked up serves the nodes that were kept.
LEMMA LookUpIInv ==
    ASSUME IInv, NEW r \in Request, LookUp(r)
    PROVE IInv'
<1> DEFINE kept == request[r].kept
<1>1. UNCHANGED <<ready, cached, built>> /\ kept \subseteq ready
  BY DEF LookUp, IInv, Sound
<1>2. CASE kept = {}
  <2>1. Becomes(r, NoSubConnAvailable)
    BY <1>2 DEF LookUp
  <2> QED
    BY <1>1, <2>1, SoundPlaces, SoundStep
<1>3. CASE kept # {} /\ kept = ready
  <2>1. Becomes(r, Picking(kept, kept))
    BY <1>3 DEF LookUp
  <2> QED
    BY <1>1, <2>1, SoundPlaces, SoundStep
<1>4. CASE kept # {} /\ kept # ready /\ kept \in DOMAIN cached
  <2>1. Becomes(r, Picking(kept, cached[kept]))
    BY <1>4 DEF LookUp, filterCacheKey
  <2>2. cached[kept] = kept
    BY <1>4 DEF IInv, CacheRight
  <2> QED
    BY <1>1, <2>1, <2>2, SoundPlaces, SoundStep
<1>5. CASE kept # {} /\ kept # ready /\ kept \notin DOMAIN cached
  <2>1. Becomes(r, Missed(kept))
    BY <1>5 DEF LookUp, filterCacheKey
  <2> QED
    BY <1>1, <2>1, SoundPlaces, SoundStep
<1> QED
  BY <1>2, <1>3, <1>4, <1>5

\* A picker is built only if the second look finds none.
LEMMA BuildOrFindIInv ==
    ASSUME IInv, NEW r \in Request, BuildOrFind(r)
    PROVE IInv'
<1> DEFINE kept == request[r].kept
<1>1. CASE kept \in DOMAIN cached
  <2>1. Becomes(r, Picking(kept, cached[kept])) /\ UNCHANGED <<ready, cached, built>>
    BY <1>1 DEF BuildOrFind, filterCacheKey, CachedMeanwhile
  <2>2. cached[kept] = kept
    BY <1>1 DEF IInv, CacheRight
  <2> QED
    BY <2>1, <2>2, SoundPlaces, SoundStep
<1>2. CASE kept \notin DOMAIN cached
  <2>0. kept \subseteq ready /\ ready' = ready
    BY DEF BuildOrFind, IInv, Sound
  <2>1. /\ Becomes(r, Picking(kept, kept))
        /\ cached' = [k \in DOMAIN cached \cup {kept} |->
                        IF k = kept THEN kept ELSE cached[k]]
        /\ built' = [s \in DOMAIN built \cup {kept} |->
                        IF s = kept THEN 1 + IF s \in DOMAIN built THEN built[s] ELSE 0
                        ELSE built[s]]
    BY <1>2 DEF BuildOrFind, filterCacheKey, CachedMeanwhile
  <2>2. CacheRight'
    BY <2>0, <2>1 DEF IInv, CacheRight
  <2>3. kept \notin DOMAIN built
    BY <1>2 DEF IInv, BuiltOnce
  <2>4. BuiltOnce'
    <3>1. DOMAIN built' = DOMAIN cached'
      BY <2>1 DEF IInv, BuiltOnce
    <3>2. built'[kept] = 1
      BY <2>1, <2>3
    <3>3. \A s \in DOMAIN built : s # kept /\ built'[s] = built[s]
      BY <2>1, <2>3
    <3>4. DOMAIN built' = DOMAIN built \cup {kept}
      BY <2>1
    <3> QED
      BY <3>1, <3>2, <3>3, <3>4 DEF IInv, BuiltOnce, OnePickerPerSet
  <2>5. \A q \in Request : request'[q] = IF q = r THEN Picking(kept, kept) ELSE request[q]
    BY <2>1 DEF Becomes, IInv
  <2>6. request' = [q \in Request |-> request'[q]]
    BY <2>1 DEF Becomes, IInv
  <2>7. \A q \in Request : Sound(request'[q])
    BY <2>5, SoundPlaces DEF IInv
  <2> QED
    BY <2>0, <2>2, <2>4, <2>6, <2>7 DEF IInv, Sound
<1> QED
  BY <1>1, <1>2

LEMMA InnerPickIInv ==
    ASSUME IInv, NEW r \in Request, InnerPick(r)
    PROVE IInv'
<1>1. request[r].nodes = request[r].kept
  BY DEF InnerPick, IInv, Sound
<1>2. UNCHANGED <<ready, cached, built>>
  BY DEF InnerPick
<1>3. ASSUME NEW n \in request[r].nodes, Becomes(r, Picked(request[r].kept, n))
      PROVE IInv'
  BY <1>1, <1>2, <1>3, SoundPlaces, SoundStep
<1>4. ASSUME Becomes(r, NoSubConnAvailable)
      PROVE IInv'
  BY <1>2, <1>4, SoundPlaces, SoundStep
<1> QED
  BY <1>3, <1>4 DEF InnerPick

LEMMA EndIInv ==
    ASSUME IInv, NEW r \in Request, End(r)
    PROVE IInv'
BY SoundPlaces, SoundStep DEF End

-----------------------------------------------------------------------------
(* Contexts. A slice shares its array with those it was appended to in place *)
(* and those appended to it; of two with one array, one descends from the    *)
(* other or a second append has already been made behind an ancestor of both.*)

Element == Filter \cup {NoFilter}

Context == [parent : Nat, array : Nat, len : Nat, wanted : Seq(Filter), line : SUBSET Nat]

\* Every slice lies in its array, in the part that filters were written to.
Slices ==
    /\ contexts \in Seq(Context)
    /\ arrays \in Seq(Seq(Element))
    /\ Len(arrays) = Len(contexts)
    /\ \A c \in DOMAIN contexts :
        /\ contexts[c].array \in DOMAIN contexts
        /\ contexts[c].len <= Len(arrays[contexts[c].array])
        /\ \A i \in 1 .. contexts[c].len : arrays[contexts[c].array][i] \in Filter

\* Two appends were made in place behind the filters of the context.
Overwritten(p) ==
    \E d, e \in Children(p) :
        d # e /\ contexts[d].array = contexts[p].array /\ contexts[e].array = contexts[p].array

\* From a context to one that descends from it filters are only added, in place all the
\* way if both have one array. Only the first context has none, and no room for any.
Lines ==
    \A c \in DOMAIN contexts :
        /\ c \in contexts[c].line
        /\ contexts[c].line \subseteq DOMAIN contexts
        /\ \A p \in contexts[c].line : contexts[p].len <= contexts[c].len
        /\ \A p \in contexts[c].line \ {c} :
            contexts[p].array = contexts[c].array =>
                \E d \in Children(p) : contexts[d].array = contexts[p].array
        /\ contexts[c].parent # 0 => contexts[c].len # 0
        /\ contexts[c].len = 0 => arrays[contexts[c].array] = <<>>

Trees ==
    \A c, d \in DOMAIN contexts :
        contexts[c].array = contexts[d].array =>
            \/ c \in contexts[d].line
            \/ d \in contexts[c].line
            \/ \E p \in (contexts[c].line \cap contexts[d].line) \ {c, d} : Overwritten(p)

\* The exact form of ChainsAreSafe: what matters is where the second append was made.
Kept ==
    \A c \in DOMAIN contexts :
        (\A p \in contexts[c].line \ {c} : ~Overwritten(p)) => FiltersOf(c) = contexts[c].wanted

CInv == Slices /\ Lines /\ Trees /\ Kept

\* Types of the parts of a context.
LEMMA ContextType ==
    ASSUME Slices, NEW c \in DOMAIN contexts
    PROVE /\ Len(contexts) \in Nat
          /\ DOMAIN contexts = 1 .. Len(contexts)
          /\ contexts[c] \in Context
          /\ contexts[c].parent \in Nat
          /\ contexts[c].array \in 1 .. Len(contexts)
          /\ contexts[c].len \in Nat
          /\ contexts[c].wanted \in Seq(Filter)
          /\ contexts[c].line \in SUBSET Nat
          /\ arrays[contexts[c].array] \in Seq(Element)
          /\ Len(arrays[contexts[c].array]) \in Nat
<1>1. contexts \in Seq(Context) /\ arrays \in Seq(Seq(Element)) /\ Len(arrays) = Len(contexts)
  BY DEF Slices
<1>2. Len(contexts) \in Nat /\ DOMAIN contexts = 1 .. Len(contexts)
  BY <1>1, LenProperties
<1>3. contexts[c] \in Context
  BY <1>1, <1>2, ElementOfSeq
<1>4. contexts[c].array \in 1 .. Len(contexts)
  BY <1>2 DEF Slices
<1>5. arrays[contexts[c].array] \in Seq(Element)
  BY <1>1, <1>4, ElementOfSeq
<1>6. Len(arrays[contexts[c].array]) \in Nat
  BY <1>5, LenProperties
<1> QED
  BY <1>2, <1>3, <1>4, <1>5, <1>6 DEF Context

\* The first elements of an array.
LEMMA PrefixProperties ==
    ASSUME NEW a, NEW n \in Nat, \A i \in 1 .. n : a[i] \in Filter
    PROVE /\ SubSeq(a, 1, n) \in Seq(Filter)
          /\ Len(SubSeq(a, 1, n)) = n
          /\ \A i \in 1 .. n : SubSeq(a, 1, n)[i] = a[i]
<1>1. /\ SubSeq(a, 1, n) \in Seq(Filter)
      /\ Len(SubSeq(a, 1, n)) = IF 1 <= n THEN n - 1 + 1 ELSE 0
      /\ \A i \in 1 .. n - 1 + 1 : SubSeq(a, 1, n)[i] = a[1 + i - 1]
  BY SubSeqProperties
<1> QED
  BY <1>1

\* Arrays that begin alike have the same slices; one that goes on with more elements
\* has a slice longer by them.
LEMMA SamePrefix ==
    ASSUME NEW a, NEW b, NEW n \in Nat,
           \A i \in 1 .. n : b[i] \in Filter,
           \A i \in 1 .. n : a[i] = b[i]
    PROVE SubSeq(a, 1, n) = SubSeq(b, 1, n)
<1>1. \A i \in 1 .. n : a[i] \in Filter
  OBVIOUS
<1>2. /\ SubSeq(a, 1, n) \in Seq(Filter) /\ SubSeq(b, 1, n) \in Seq(Filter)
      /\ Len(SubSeq(a, 1, n)) = n /\ Len(SubSeq(b, 1, n)) = n
      /\ \A i \in 1 .. n : SubSeq(a, 1, n)[i] = a[i] /\ SubSeq(b, 1, n)[i] = b[i]
  BY <1>1, PrefixProperties
<1> QED
  BY <1>2, SeqEqual

LEMMA LongerPrefix ==
    ASSUME NEW a, NEW b, NEW n \in Nat, NEW fs \in Seq(Filter),
           \A i \in 1 .. n : b[i] \in Filter,
           \A i \in 1 .. n : a[i] = b[i],
           \A i \in 1 .. Len(fs) : a[n + i] = fs[i]
    PROVE SubSeq(a, 1, n + Len(fs)) = SubSeq(b, 1, n) \o fs
<1> DEFINE s == SubSeq(b, 1, n)
           t == SubSeq(a, 1, n + Len(fs))
<1>1. Len(fs) \in Nat /\ n + Len(fs) \in Nat
  OBVIOUS
<1>2. s \in Seq(Filter) /\ Len(s) = n /\ \A i \in 1 .. n : s[i] = b[i]
  BY PrefixProperties
<1>3. ASSUME NEW i \in 1 .. n + Len(fs), i > n PROVE a[i] = fs[i - n] /\ i - n \in 1 .. Len(fs)
  <2>1. i - n \in 1 .. Len(fs) /\ n + (i - n) = i
    BY <1>1, <1>3
  <2> QED
    BY <2>1
<1>4. \A i \in 1 .. n + Len(fs) : a[i] \in Filter
  <2> SUFFICES ASSUME NEW i \in 1 .. n + Len(fs) PROVE a[i] \in Filter
    OBVIOUS
  <2>1. CASE i > n
    BY <1>3, <2>1, ElementOfSeq
  <2> QED
    BY <2>1
<1>5. t \in Seq(Filter) /\ Len(t) = n + Len(fs) /\ \A i \in 1 .. n + Len(fs) : t[i] = a[i]
  BY <1>1, <1>4, PrefixProperties
<1> HIDE DEF s, t
<1>6. /\ s \o fs \in Seq(Filter) /\ Len(s \o fs) = n + Len(fs)
      /\ \A i \in 1 .. n + Len(fs) : (s \o fs)[i] = IF i <= n THEN s[i] ELSE fs[i - n]
  BY <1>2, ConcatProperties, ZenonT(30)
<1>7. \A i \in 1 .. Len(t) : t[i] = (s \o fs)[i]
  BY <1>1, <1>2, <1>3, <1>5, <1>6
<1>8. t = s \o fs
  BY <1>5, <1>6, <1>7, SeqEqual
<1> QED
  BY <1>8 DEF s, t

\* What is written in an array, and what an array moved to another has.
LEMMA WrittenProperties ==
    ASSUME NEW array \in Seq(Element), NEW first \in Nat, NEW fs \in Seq(Filter),
           first + Len(fs) <= Len(array)
    PROVE /\ Written(array, first, fs) \in Seq(Element)
          /\ Len(Written(array, first, fs)) = Len(array)
          /\ \A i \in 1 .. Len(array) :
                Written(array, first, fs)[i] =
                    IF i \in first + 1 .. first + Len(fs) THEN fs[i - first] ELSE array[i]
          /\ \A i \in 1 .. first : Written(array, first, fs)[i] = array[i]
          /\ \A i \in 1 .. Len(fs) : Written(array, first, fs)[first + i] = fs[i]
          /\ \A i \in 1 .. Len(array) :
                Written(array, first, fs)[i] # array[i] =>
                    i > first /\ Written(array, first, fs)[i] \in Filter
<1> DEFINE w == Written(array, first, fs)
<1>1. DOMAIN array = 1 .. Len(array) /\ Len(array) \in Nat /\ Len(fs) \in Nat
  OBVIOUS
<1>2. \A i \in 1 .. Len(array) :
        w[i] = IF i \in first + 1 .. first + Len(fs) THEN fs[i - first] ELSE array[i]
  BY <1>1 DEF Written
<1>3. \A i \in 1 .. Len(array) : w[i] \in Element
  <2> SUFFICES ASSUME NEW i \in 1 .. Len(array) PROVE w[i] \in Element
    OBVIOUS
  <2>1. CASE i \in first + 1 .. first + Len(fs)
    <3>1. i - first \in 1 .. Len(fs)
      BY <1>1, <2>1
    <3> QED
      BY <1>2, <2>1, <3>1 DEF Element
  <2>2. CASE i \notin first + 1 .. first + Len(fs)
    BY <1>2, <2>2
  <2> QED
    BY <2>1, <2>2
<1>4. w = [i \in 1 .. Len(array) |-> w[i]]
  BY <1>1 DEF Written
<1> HIDE DEF w
<1>5. w \in Seq(Element) /\ Len(w) = Len(array)
  BY <1>1, <1>3, <1>4
<1>6. \A i \in 1 .. first : w[i] = array[i]
  BY <1>1, <1>2
<1>7. ASSUME NEW i \in 1 .. Len(fs) PROVE w[first + i] = fs[i]
  <2>1. first + i \in 1 .. Len(array) /\ first + i \in first + 1 .. first + Len(fs)
        /\ (first + i) - first = i
    BY <1>1
  <2> QED
    BY <1>2, <2>1
<1>8. ASSUME NEW i \in 1 .. Len(array), w[i] # array[i] PROVE i > first /\ w[i] \in Filter
  <2>1. i \in first + 1 .. first + Len(fs) /\ w[i] = fs[i - first]
    BY <1>2, <1>8
  <2>2. i - first \in 1 .. Len(fs) /\ i > first
    BY <1>1, <2>1
  <2> QED
    BY <2>1, <2>2
<1> QED
  BY <1>2, <1>5, <1>6, <1>7, <1>8 DEF w

LEMMA MovedProperties ==
    ASSUME NEW array \in Seq(Element), NEW first \in 0 .. Len(array), NEW size \in Nat
    PROVE /\ Moved(array, first, size) \in Seq(Element)
          /\ Len(Moved(array, first, size)) = size
          /\ \A i \in 1 .. size :
                Moved(array, first, size)[i] = IF i <= first THEN array[i] ELSE NoFilter
BY DEF Moved, Element

\* What a context made from c with the filters fs is, in either place.
ChildAt(c, fs, where) ==
    /\ where \in {contexts[c].array, Len(contexts) + 1}
    /\ contexts' = Append(contexts,
            [parent |-> c, array |-> where, len |-> contexts[c].len + Len(fs),
             wanted |-> contexts[c].wanted \o fs,
             line |-> contexts[c].line \cup {Len(contexts) + 1}])
    /\ arrays' \in Seq(Seq(Element))
    /\ Len(arrays') = Len(contexts) + 1
    /\ \A a \in 1 .. Len(contexts) : Len(arrays'[a]) = Len(arrays[a])
    /\ \A a \in 1 .. Len(contexts) : \A i \in 1 .. Len(arrays[a]) :
            arrays'[a][i] # arrays[a][i] =>
                a = where /\ i > contexts[c].len /\ arrays'[a][i] \in Filter
    /\ contexts[c].len + Len(fs) <= Len(arrays'[where])
    /\ \A i \in 1 .. contexts[c].len : arrays'[where][i] = arrays[contexts[c].array][i]
    /\ \A i \in 1 .. Len(fs) : arrays'[where][contexts[c].len + i] = fs[i]

LEMMA ChildIsMade ==
    ASSUME Slices, NEW c \in DOMAIN contexts, NEW fs \in Seq(Filter), WithNodeFilter(c, fs)
    PROVE \E where \in DOMAIN contexts' : ChildAt(c, fs, where)
<1> DEFINE N == Len(contexts)
           old == contexts[c]
           array == arrays[old.array]
           len == old.len + Len(fs)
           Child(where) ==
               [parent |-> c, array |-> where, len |-> len, wanted |-> old.wanted \o fs,
                line |-> old.line \cup {N + 1}]
<1>1. /\ N \in Nat /\ DOMAIN contexts = 1 .. N /\ c \in 1 .. N
      /\ old.len \in Nat /\ old.array \in 1 .. N /\ Len(fs) \in Nat
      /\ old.len <= Len(array)
      /\ array \in Seq(Element) /\ Len(array) \in Nat
  BY ContextType, LenProperties DEF Slices
<1>2. Len(arrays) = N /\ arrays \in Seq(Seq(Element)) /\ contexts \in Seq(Context)
  BY DEF Slices
<1>3. ASSUME NEW where, contexts' = Append(contexts, Child(where))
      PROVE DOMAIN contexts' = 1 .. N + 1
  BY <1>1, <1>2, <1>3
<1> HIDE DEF Child
<1>4. ASSUME len <= Len(array),
             contexts' = Append(contexts, Child(old.array)),
             arrays' = Append([arrays EXCEPT ![old.array] = Written(array, old.len, fs)], <<>>)
      PROVE \E where \in DOMAIN contexts' : ChildAt(c, fs, where)
  <2> DEFINE w == Written(array, old.len, fs)
             changed == [arrays EXCEPT ![old.array] = w]
             none == <<>>
  <2>1. /\ w \in Seq(Element)
        /\ Len(w) = Len(array)
        /\ \A i \in 1 .. old.len : w[i] = array[i]
        /\ \A i \in 1 .. Len(fs) : w[old.len + i] = fs[i]
        /\ \A i \in 1 .. Len(array) : w[i] # array[i] => i > old.len /\ w[i] \in Filter
    <3> HIDE DEF old, array, len
    <3>1. array \in Seq(Element) /\ old.len \in Nat /\ old.len + Len(fs) <= Len(array)
      BY <1>1, <1>4 DEF len
    <3> QED
      BY <3>1, WrittenProperties
  <2> HIDE DEF w
  <2>2. /\ changed \in Seq(Seq(Element)) /\ Len(changed) = N
        /\ \A a \in 1 .. N : changed[a] = IF a = old.array THEN w ELSE arrays[a]
    BY <1>1, <1>2, <2>1, ExceptSeq
  <2>3. arrays' = Append(changed, none)
    BY <1>4 DEF w
  <2>4. none \in Seq(Element)
    OBVIOUS
  <2> HIDE DEF changed, none
  <2>5. /\ arrays' \in Seq(Seq(Element)) /\ Len(arrays') = N + 1
        /\ \A a \in 1 .. N : arrays'[a] = IF a = old.array THEN w ELSE arrays[a]
    <3>1. /\ Append(changed, none) \in Seq(Seq(Element))
          /\ Len(Append(changed, none)) = Len(changed) + 1
          /\ \A a \in 1 .. Len(changed) : Append(changed, none)[a] = changed[a]
      <4>1. changed \in Seq(Seq(Element)) /\ none \in Seq(Element)
        BY <2>2, <2>4
      <4> QED
        BY ONLY <4>1, AppendProperties, SMTT(30)
    <3> QED
      BY <2>2, <2>3, <3>1
  <2>6. \A a \in 1 .. N : Len(arrays'[a]) = Len(arrays[a])
    BY <2>1, <2>5
  <2>7. \A a \in 1 .. N : \A i \in 1 .. Len(arrays[a]) :
            arrays'[a][i] # arrays[a][i] =>
                a = old.array /\ i > old.len /\ arrays'[a][i] \in Filter
    BY <2>1, <2>5
  <2>8. arrays'[old.array] = w
    BY <1>1, <2>5
  <2>9. ChildAt(c, fs, old.array)
    BY <1>4, <2>1, <2>5, <2>6, <2>7, <2>8 DEF ChildAt, Child
  <2> QED
    BY <1>1, <1>3, <1>4, <2>9
<1>5. ASSUME contexts' = Append(contexts, Child(N + 1)),
             NEW size \in Rooms(Len(array), len),
             arrays' = Append(arrays, Written(Moved(array, old.len, size), old.len, fs))
      PROVE \E where \in DOMAIN contexts' : ChildAt(c, fs, where)
  <2>1. size \in Nat /\ len <= size
    <3>1. size \in Nat /\ len \in Nat /\ 2 * Len(array) \in Nat
      <4>1. size \in Sizes
        BY ONLY size \in Rooms(Len(array), len) DEF Rooms
      <4>2. old.len \in Nat /\ Len(fs) \in Nat /\ Len(array) \in Nat
        BY <1>1
      <4> HIDE DEF old, array
      <4> QED
        BY ONLY <4>1, <4>2, SizesAssumption
    <3> HIDE DEF len, array
    <3>2. size >= IF len > 2 * Len(array) THEN len ELSE 2 * Len(array)
      BY DEF Rooms
    <3> QED
      BY <3>1, <3>2
  <2> DEFINE m == Moved(array, old.len, size)
             w == Written(m, old.len, fs)
  <2>2. /\ m \in Seq(Element) /\ Len(m) = size
        /\ \A i \in 1 .. size : m[i] = IF i <= old.len THEN array[i] ELSE NoFilter
    <3> HIDE DEF old, array
    <3>1. array \in Seq(Element) /\ old.len \in 0 .. Len(array)
      BY <1>1
    <3> QED
      BY ONLY <2>1, <3>1, MovedProperties, ZenonT(30)
  <2> HIDE DEF m
  <2>3. /\ w \in Seq(Element)
        /\ Len(w) = size
        /\ \A i \in 1 .. old.len : w[i] = m[i]
        /\ \A i \in 1 .. Len(fs) : w[old.len + i] = fs[i]
    BY <1>1, <2>1, <2>2, WrittenProperties
  <2>4. arrays' = Append(arrays, w)
    BY <1>5 DEF m
  <2> HIDE DEF w
  <2>5. /\ arrays' \in Seq(Seq(Element)) /\ Len(arrays') = N + 1
        /\ \A a \in 1 .. N : arrays'[a] = arrays[a]
        /\ arrays'[N + 1] = w
    <3>1. /\ Append(arrays, w) \in Seq(Seq(Element)) /\ Len(Append(arrays, w)) = Len(arrays) + 1
          /\ \A a \in 1 .. Len(arrays) : Append(arrays, w)[a] = arrays[a]
          /\ Append(arrays, w)[Len(arrays) + 1] = w
      BY <1>2, <2>3, AppendProperties
    <3> QED
      BY <1>2, <2>4, <3>1
  <2>6. \A i \in 1 .. old.len : w[i] = array[i]
    BY <1>1, <2>1, <2>2, <2>3
  <2>7. ChildAt(c, fs, N + 1)
    BY <1>5, <2>1, <2>3, <2>5, <2>6 DEF ChildAt, Child
  <2> QED
    <3>1. N + 1 \in DOMAIN contexts'
      BY <1>1, <1>3, <1>5 DEF Child
    <3> QED
      BY ONLY <2>7, <3>1
<1> QED
  BY <1>4, <1>5 DEF WithNodeFilter, Start, Child

\* What the contexts are after that: the old ones, and one that descends from c.
LEMMA ChildOfContexts ==
    ASSUME CInv, NEW c \in DOMAIN contexts, NEW fs \in FilterLists,
           NEW where, ChildAt(c, fs, where)
    PROVE /\ Len(contexts) \in Nat /\ DOMAIN contexts = 1 .. Len(contexts)
          /\ contexts' \in Seq(Context) /\ Len(contexts') = Len(contexts) + 1
          /\ DOMAIN contexts' = 1 .. Len(contexts) + 1
          /\ \A d \in 1 .. Len(contexts) : contexts'[d] = contexts[d]
          /\ where \in {contexts[c].array, Len(contexts) + 1}
          /\ contexts'[Len(contexts) + 1].parent = c
          /\ contexts'[Len(contexts) + 1].array = where
          /\ contexts'[Len(contexts) + 1].len = contexts[c].len + Len(fs)
          /\ contexts'[Len(contexts) + 1].wanted = contexts[c].wanted \o fs
          /\ contexts'[Len(contexts) + 1].line = contexts[c].line \cup {Len(contexts) + 1}
          /\ fs \in Seq(Filter) /\ Len(fs) \in Nat \ {0}
          /\ \A p \in 1 .. Len(contexts) :
                Children(p) \subseteq 1 .. Len(contexts) /\ Children(p) \subseteq Children(p)'
          /\ Len(contexts) + 1 \in Children(c)'
<1> DEFINE N == Len(contexts)
           child == [parent |-> c, array |-> where, len |-> contexts[c].len + Len(fs),
                     wanted |-> contexts[c].wanted \o fs,
                     line |-> contexts[c].line \cup {N + 1}]
<1>1. contexts \in Seq(Context) /\ N \in Nat /\ DOMAIN contexts = 1 .. N
  BY DEF CInv, Slices
<1>2. fs \in Seq(Filter) /\ Len(fs) \in Nat \ {0}
  BY FiltersAssumption
<1>3. /\ contexts[c].array \in 1 .. N /\ contexts[c].len \in Nat
      /\ contexts[c].wanted \in Seq(Filter) /\ contexts[c].line \in SUBSET Nat
  BY ContextType DEF CInv
<1>4. child \in Context
  <2>1. where \in Nat /\ c \in Nat
    BY <1>1, <1>3 DEF ChildAt
  <2>2. contexts[c].wanted \o fs \in Seq(Filter) /\ contexts[c].len + Len(fs) \in Nat
    BY <1>2, <1>3, ConcatProperties
  <2>3. contexts[c].line \cup {N + 1} \in SUBSET Nat
    BY <1>1, <1>3
  <2> QED
    BY <1>1, <2>1, <2>2, <2>3 DEF Context
<1>5. contexts' = Append(contexts, child)
  BY DEF ChildAt
<1> HIDE DEF child
<1>6. /\ contexts' \in Seq(Context) /\ Len(contexts') = N + 1 /\ DOMAIN contexts' = 1 .. N + 1
      /\ \A d \in 1 .. N : contexts'[d] = contexts[d]
      /\ contexts'[N + 1] = child
  BY <1>1, <1>4, <1>5
<1>7. /\ child.parent = c /\ child.array = where /\ child.len = contexts[c].len + Len(fs)
      /\ child.wanted = contexts[c].wanted \o fs
      /\ child.line = contexts[c].line \cup {N + 1}
  BY DEF child
<1>8. ASSUME NEW p \in 1 .. N
      PROVE Children(p) \subseteq 1 .. N /\ Children(p) \subseteq Children(p)'
  BY <1>1, <1>6 DEF Children
<1>9. N + 1 \in Children(c)'
  BY <1>1, <1>6, <1>7 DEF Children
<1>10. where \in {contexts[c].array, N + 1}
  BY DEF ChildAt
<1> QED
  BY <1>1, <1>2, <1>6, <1>7, <1>8, <1>9, <1>10

\* Another context makes no damage good.
LEMMA OverwrittenStays ==
    ASSUME CInv, NEW c \in DOMAIN contexts, NEW fs \in FilterLists, NEW where,
           ChildAt(c, fs, where), NEW p \in DOMAIN contexts, Overwritten(p)
    PROVE Overwritten(p)'
<1>1. PICK d, e \in Children(p) :
        d # e /\ contexts[d].array = contexts[p].array /\ contexts[e].array = contexts[p].array
  BY DEF Overwritten
<1>2. d \in DOMAIN contexts /\ e \in DOMAIN contexts
  BY DEF Children
<1>3. DOMAIN contexts = 1 .. Len(contexts)
  BY ChildOfContexts
<1>4. contexts'[d] = contexts[d] /\ contexts'[e] = contexts[e] /\ contexts'[p] = contexts[p]
  BY <1>2, <1>3, ChildOfContexts
<1>5. d \in Children(p)' /\ e \in Children(p)'
  BY <1>1, <1>3, ChildOfContexts
<1> QED
  BY <1>1, <1>4, <1>5 DEF Overwritten

\* An array keeps the filters that any slice has of it, and the child finds its own.
LEMMA SlicesStay ==
    ASSUME CInv, NEW c \in DOMAIN contexts, NEW fs \in FilterLists,
           NEW where \in DOMAIN contexts', ChildAt(c, fs, where)
    PROVE Slices'
<1> DEFINE N == Len(contexts)
<1> USE DEF CInv
<1>1. /\ N \in Nat /\ DOMAIN contexts = 1 .. N /\ DOMAIN contexts' = 1 .. N + 1
      /\ contexts' \in Seq(Context) /\ Len(contexts') = N + 1
      /\ \A d \in 1 .. N : contexts'[d] = contexts[d]
      /\ contexts'[N + 1].array = where
      /\ contexts'[N + 1].len = contexts[c].len + Len(fs)
      /\ fs \in Seq(Filter) /\ Len(fs) \in Nat
  BY ChildOfContexts
<1>2. ASSUME NEW d \in 1 .. N
      PROVE /\ contexts'[d].array \in 1 .. N + 1
            /\ contexts'[d].len <= Len(arrays'[contexts'[d].array])
            /\ \A i \in 1 .. contexts'[d].len : arrays'[contexts'[d].array][i] \in Filter
  <2> DEFINE a == contexts[d].array
             n == contexts[d].len
  <2>1. a \in 1 .. N /\ n \in Nat /\ Len(arrays[a]) \in Nat
    BY <1>1, ContextType
  <2>2. n <= Len(arrays[a]) /\ \A i \in 1 .. n : arrays[a][i] \in Filter
    BY <1>1 DEF Slices
  <2>3. contexts'[d].array = a /\ contexts'[d].len = n
    BY <1>1
  <2> HIDE DEF a, n
  <2>4. Len(arrays'[a]) = Len(arrays[a])
    BY <2>1 DEF ChildAt
  <2>5. ASSUME NEW i \in 1 .. n
        PROVE arrays'[a][i] = arrays[a][i] \/ arrays'[a][i] \in Filter
    <3>1. i \in 1 .. Len(arrays[a])
      BY <2>1, <2>2
    <3>2. arrays'[a][i] # arrays[a][i] => arrays'[a][i] \in Filter
      BY ONLY <2>1, <3>1, ChildAt(c, fs, where) DEF ChildAt, N
    <3> QED
      BY <3>2
  <2> QED
    BY <1>1, <2>1, <2>2, <2>3, <2>4, <2>5
<1>3. /\ contexts'[N + 1].len <= Len(arrays'[where])
      /\ \A i \in 1 .. contexts'[N + 1].len : arrays'[where][i] \in Filter
  <2> DEFINE n == contexts[c].len
  <2>0. contexts'[N + 1].len = n + Len(fs)
    BY <1>1
  <2>1. n \in Nat /\ \A i \in 1 .. n : arrays[contexts[c].array][i] \in Filter
    BY ContextType DEF Slices
  <2>2. /\ n + Len(fs) <= Len(arrays'[where])
        /\ \A i \in 1 .. n : arrays'[where][i] \in Filter
        /\ \A i \in 1 .. Len(fs) : arrays'[where][n + i] = fs[i]
    BY <2>1 DEF ChildAt
  <2> HIDE DEF n
  <2>3. ASSUME NEW i \in 1 .. n + Len(fs), i > n PROVE arrays'[where][i] \in Filter
    <3>1. i - n \in 1 .. Len(fs) /\ n + (i - n) = i
      BY <1>1, <2>1, <2>3
    <3>2. arrays'[where][i] = fs[i - n]
      BY <2>2, <3>1
    <3> QED
      BY <1>1, <3>1, <3>2, ElementOfSeq
  <2> QED
    BY <1>1, <2>0, <2>1, <2>2, <2>3
<1>4. arrays' \in Seq(Seq(Element)) /\ Len(arrays') = N + 1
  BY DEF ChildAt
<1>5. ASSUME NEW d \in 1 .. N + 1
      PROVE /\ contexts'[d].array \in 1 .. N + 1
            /\ contexts'[d].len <= Len(arrays'[contexts'[d].array])
            /\ \A i \in 1 .. contexts'[d].len : arrays'[contexts'[d].array][i] \in Filter
  <2>1. d \in 1 .. N \/ d = N + 1
    BY <1>1
  <2> QED
    BY <1>1, <1>2, <1>3, <2>1
<1> HIDE DEF N, CInv
<1> QED
  BY <1>1, <1>4, <1>5 DEF Slices

LEMMA LinesStay ==
    ASSUME CInv, NEW c \in DOMAIN contexts, NEW fs \in FilterLists,
           NEW where \in DOMAIN contexts', ChildAt(c, fs, where)
    PROVE Lines'
<1> DEFINE N == Len(contexts)
<1> USE DEF CInv
<1>1. /\ N \in Nat /\ DOMAIN contexts = 1 .. N /\ DOMAIN contexts' = 1 .. N + 1
      /\ \A d \in 1 .. N : contexts'[d] = contexts[d]
      /\ contexts'[N + 1].array = where /\ contexts'[N + 1].parent = c
      /\ contexts'[N + 1].len = contexts[c].len + Len(fs)
      /\ contexts'[N + 1].line = contexts[c].line \cup {N + 1}
      /\ Len(fs) \in Nat \ {0}
      /\ where \in {contexts[c].array, N + 1}
  BY ChildOfContexts
<1>2. /\ \A p \in 1 .. N : Children(p) \subseteq 1 .. N /\ Children(p) \subseteq Children(p)'
      /\ N + 1 \in Children(c)'
  BY ChildOfContexts
<1>3. ASSUME NEW d \in 1 .. N
      PROVE /\ d \in contexts[d].line /\ contexts[d].line \subseteq 1 .. N
            /\ \A p \in contexts[d].line : contexts[p].len <= contexts[d].len
            /\ \A p \in contexts[d].line \ {d} :
                contexts[p].array = contexts[d].array =>
                    \E k \in Children(p) : contexts[k].array = contexts[p].array
            /\ contexts[d].parent # 0 => contexts[d].len # 0
            /\ contexts[d].len = 0 => arrays[contexts[d].array] = <<>>
            /\ contexts[d].array \in 1 .. N /\ contexts[d].len \in Nat
  BY <1>1, ContextType DEF Lines
<1>4. ASSUME NEW d \in 1 .. N, contexts[d].len = 0 PROVE arrays'[contexts[d].array] = <<>>
  <2> DEFINE a == contexts[d].array
  <2>1. a \in 1 .. N /\ arrays[a] = <<>>
    BY <1>3, <1>4
  <2> HIDE DEF a
  <2>2. Len(arrays'[a]) = 0 /\ arrays' \in Seq(Seq(Element)) /\ Len(arrays') = N + 1
    BY <2>1, EmptySeq DEF ChildAt
  <2>3. arrays'[a] \in Seq(Element)
    <3>1. a \in 1 .. Len(arrays')
      BY <1>1, <2>1, <2>2
    <3> QED
      BY <2>2, <3>1, ElementOfSeq
  <2>4. arrays'[a] = <<>>
    BY <2>2, <2>3, EmptySeq
  <2> QED
    BY <2>4 DEF a
<1>5. ASSUME NEW d \in 1 .. N
      PROVE /\ d \in contexts'[d].line /\ contexts'[d].line \subseteq 1 .. N + 1
            /\ \A p \in contexts'[d].line : contexts'[p].len <= contexts'[d].len
            /\ \A p \in contexts'[d].line \ {d} :
                contexts'[p].array = contexts'[d].array =>
                    \E k \in Children(p)' : contexts'[k].array = contexts'[p].array
            /\ contexts'[d].parent # 0 => contexts'[d].len # 0
            /\ contexts'[d].len = 0 => arrays'[contexts'[d].array] = <<>>
  <2>1. contexts'[d] = contexts[d] /\ 1 .. N \subseteq 1 .. N + 1
    BY <1>1
  <2>2. ASSUME NEW p \in contexts[d].line PROVE contexts'[p] = contexts[p] /\ p \in 1 .. N
    BY <1>1, <1>3
  <2>3. ASSUME NEW p \in contexts[d].line \ {d}, contexts[p].array = contexts[d].array
        PROVE \E k \in Children(p)' : contexts'[k].array = contexts[p].array
    <3>1. PICK k \in Children(p) : contexts[k].array = contexts[p].array
      BY <1>3, <2>3
    <3>2. k \in Children(p)' /\ contexts'[k] = contexts[k]
      BY <1>1, <1>2, <2>2, <2>3
    <3> QED
      BY <3>1, <3>2
  <2>4. contexts[d].len = 0 => arrays'[contexts[d].array] = <<>>
    BY <1>4
  <2> QED
    BY <1>3, <2>1, <2>2, <2>3, <2>4, SMTT(20)
<1>6. /\ N + 1 \in contexts'[N + 1].line /\ contexts'[N + 1].line \subseteq 1 .. N + 1
      /\ \A p \in contexts'[N + 1].line : contexts'[p].len <= contexts'[N + 1].len
      /\ contexts'[N + 1].len # 0
  BY <1>1, <1>3
<1>7. ASSUME NEW p \in contexts'[N + 1].line \ {N + 1}, contexts'[p].array = where
      PROVE \E k \in Children(p)' : contexts'[k].array = contexts'[p].array
  <2>1. p \in contexts[c].line /\ p \in 1 .. N /\ contexts[p].array = where
    BY <1>1, <1>3, <1>7
  <2>2. where = contexts[c].array
    BY <1>1, <1>3, <2>1
  <2>3. CASE p = c
    BY <1>1, <1>2, <1>7, <2>3
  <2>4. CASE p # c
    <3>1. PICK k \in Children(p) : contexts[k].array = contexts[p].array
      BY <1>1, <1>3, <2>1, <2>2, <2>4
    <3> QED
      BY <1>1, <1>2, <2>1, <3>1
  <2> QED
    BY <2>3, <2>4
<1>8. ASSUME NEW d \in 1 .. N + 1
      PROVE /\ d \in contexts'[d].line /\ contexts'[d].line \subseteq 1 .. N + 1
            /\ \A p \in contexts'[d].line : contexts'[p].len <= contexts'[d].len
            /\ \A p \in contexts'[d].line \ {d} :
                contexts'[p].array = contexts'[d].array =>
                    \E k \in Children(p)' : contexts'[k].array = contexts'[p].array
            /\ contexts'[d].parent # 0 => contexts'[d].len # 0
            /\ contexts'[d].len = 0 => arrays'[contexts'[d].array] = <<>>
  <2>1. d \in 1 .. N \/ d = N + 1
    BY <1>1
  <2> QED
    BY <1>1, <1>5, <1>6, <1>7, <2>1
<1> HIDE DEF N, CInv
<1> QED
  BY <1>1, <1>8 DEF Lines

\* The child against a context whose slice lies in the same array.
LEMMA TreesStay ==
    ASSUME CInv, NEW c \in DOMAIN contexts, NEW fs \in FilterLists,
           NEW where \in DOMAIN contexts', ChildAt(c, fs, where)
    PROVE Trees'
<1> DEFINE N == Len(contexts)
<1> USE DEF CInv
<1>1. /\ N \in Nat /\ DOMAIN contexts = 1 .. N /\ DOMAIN contexts' = 1 .. N + 1
      /\ \A d \in 1 .. N : contexts'[d] = contexts[d]
      /\ contexts'[N + 1].array = where
      /\ contexts'[N + 1].line = contexts[c].line \cup {N + 1}
      /\ where \in {contexts[c].array, N + 1}
      /\ \A p \in 1 .. N : Children(p) \subseteq 1 .. N /\ Children(p) \subseteq Children(p)'
      /\ N + 1 \in Children(c)'
  BY ChildOfContexts
<1>2. \A d \in 1 .. N : /\ d \in contexts[d].line /\ contexts[d].line \subseteq 1 .. N
                        /\ contexts[d].array \in 1 .. N
  BY <1>1, ContextType DEF Lines
<1>3. ASSUME NEW d \in 1 .. N, contexts[d].array = where
      PROVE \/ d \in contexts'[N + 1].line
            \/ \E p \in (contexts'[N + 1].line \cap contexts[d].line) \ {N + 1, d} :
                    Overwritten(p)'
  <2>1. where = contexts[c].array
    BY <1>1, <1>2, <1>3
  <2>2. CASE c = d \/ d \in contexts[c].line
    BY <1>1, <1>2, <2>2
  <2>3. CASE c # d /\ c \in contexts[d].line
    <3>1. PICK k \in Children(c) : contexts[k].array = contexts[c].array
      BY <1>1, <1>3, <2>1, <2>3 DEF Lines
    <3>2. k \in 1 .. N /\ k # N + 1
      BY <1>1, <3>1
    <3>3. k \in Children(c)' /\ N + 1 \in Children(c)'
      BY <1>1
    <3>4. Overwritten(c)'
      BY <1>1, <2>1, <3>1, <3>2, <3>3 DEF Overwritten
    <3> QED
      BY <1>1, <1>2, <2>3, <3>4
  <2>4. CASE \E p \in (contexts[c].line \cap contexts[d].line) \ {c, d} : Overwritten(p)
    <3>1. PICK p \in (contexts[c].line \cap contexts[d].line) \ {c, d} : Overwritten(p)
      BY <2>4
    <3>2. p \in 1 .. N /\ Overwritten(p)'
      BY <1>1, <1>2, <3>1, OverwrittenStays
    <3> QED
      BY <1>1, <3>1, <3>2
  <2> QED
    BY <1>1, <1>3, <2>1, <2>2, <2>3, <2>4 DEF Trees
<1>4. ASSUME NEW d \in 1 .. N, NEW e \in 1 .. N, contexts[d].array = contexts[e].array
      PROVE \/ d \in contexts[e].line
            \/ e \in contexts[d].line
            \/ \E p \in (contexts[d].line \cap contexts[e].line) \ {d, e} : Overwritten(p)'
  <2>1. CASE \E p \in (contexts[d].line \cap contexts[e].line) \ {d, e} : Overwritten(p)
    <3>1. PICK p \in (contexts[d].line \cap contexts[e].line) \ {d, e} : Overwritten(p)
      BY <2>1
    <3> QED
      BY <1>1, <1>2, <3>1, OverwrittenStays
  <2> QED
    BY <1>1, <1>4, <2>1 DEF Trees
<1>5. ASSUME NEW d \in 1 .. N + 1, NEW e \in 1 .. N + 1, contexts'[d].array = contexts'[e].array
      PROVE \/ d \in contexts'[e].line
            \/ e \in contexts'[d].line
            \/ \E p \in (contexts'[d].line \cap contexts'[e].line) \ {d, e} : Overwritten(p)'
  <2>1. (d \in 1 .. N \/ d = N + 1) /\ (e \in 1 .. N \/ e = N + 1)
    BY <1>1
  <2>2. CASE d = N + 1 /\ e = N + 1
    BY <1>1, <2>2
  <2>3. CASE d \in 1 .. N /\ e \in 1 .. N
    BY <1>1, <1>4, <1>5, <2>3
  <2>4. CASE d \in 1 .. N /\ e = N + 1
    BY <1>1, <1>3, <1>5, <2>4
  <2>5. CASE d = N + 1 /\ e \in 1 .. N
    BY <1>1, <1>3, <1>5, <2>5
  <2> QED
    BY <2>1, <2>2, <2>3, <2>4, <2>5
<1> HIDE DEF N, CInv
<1> QED
  BY <1>1, <1>5 DEF Trees

\* The filters of the slices whose array has had one append in place stay, and the
\* child's are its parent's and its own.
LEMMA KeptStays ==
    ASSUME CInv, NEW c \in DOMAIN contexts, NEW fs \in FilterLists,
           NEW where \in DOMAIN contexts', ChildAt(c, fs, where)
    PROVE Kept'
<1> DEFINE N == Len(contexts)
<1> USE DEF CInv
<1>1. /\ N \in Nat /\ DOMAIN contexts = 1 .. N /\ DOMAIN contexts' = 1 .. N + 1
      /\ \A d \in 1 .. N : contexts'[d] = contexts[d]
      /\ where \in {contexts[c].array, N + 1}
      /\ contexts'[N + 1].array = where
      /\ contexts'[N + 1].len = contexts[c].len + Len(fs)
      /\ contexts'[N + 1].wanted = contexts[c].wanted \o fs
      /\ contexts'[N + 1].line = contexts[c].line \cup {N + 1}
      /\ fs \in Seq(Filter) /\ Len(fs) \in Nat
      /\ \A p \in 1 .. N : Children(p) \subseteq 1 .. N /\ Children(p) \subseteq Children(p)'
      /\ N + 1 \in Children(c)'
  BY ChildOfContexts
<1>2. \A d \in 1 .. N :
        /\ d \in contexts[d].line /\ contexts[d].line \subseteq 1 .. N
        /\ \A p \in contexts[d].line : contexts[p].len <= contexts[d].len
        /\ contexts[d].array \in 1 .. N /\ contexts[d].len \in Nat
  BY <1>1, ContextType DEF Lines
<1>3. \A p \in 1 .. N : Overwritten(p) => Overwritten(p)'
  BY <1>1, OverwrittenStays
<1>4. ASSUME NEW d \in 1 .. N, \A p \in contexts[d].line \ {d} : ~Overwritten(p)',
             contexts[d].array = where
      PROVE contexts[d].len <= contexts[c].len
  <2>1. where = contexts[c].array
    BY <1>1, <1>2, <1>4
  <2>2. CASE c # d /\ c \in contexts[d].line
    <3>1. PICK k \in Children(c) : contexts[k].array = contexts[c].array
      <4>1. c \in DOMAIN contexts /\ d \in DOMAIN contexts /\ c \in contexts[d].line \ {d}
        BY <1>1, <2>2
      <4>2. contexts[c].array = contexts[d].array
        BY <1>4, <2>1
      <4> QED
        BY ONLY Lines, <4>1, <4>2 DEF Lines
    <3>2. k \in 1 .. N /\ k # N + 1 /\ k \in Children(c)'
      BY <1>1, <3>1
    <3>3. Overwritten(c)'
      BY <1>1, <2>1, <3>1, <3>2 DEF Overwritten
    <3> QED
      BY <1>4, <2>2, <3>3
  <2>3. CASE c = d \/ d \in contexts[c].line
    BY <1>1, <1>2, <2>3
  <2>4. CASE \E p \in (contexts[c].line \cap contexts[d].line) \ {c, d} : Overwritten(p)
    BY <1>1, <1>2, <1>3, <1>4, <2>4
  <2> QED
    BY <1>1, <1>4, <2>1, <2>2, <2>3, <2>4 DEF Trees
<1>5. ASSUME NEW d \in 1 .. N, \A p \in contexts[d].line \ {d} : ~Overwritten(p)'
      PROVE FiltersOf(d)' = contexts[d].wanted
  <2> DEFINE a == contexts[d].array
             n == contexts[d].len
  <2>1. FiltersOf(d) = contexts[d].wanted
    BY <1>1, <1>2, <1>3, <1>5 DEF Kept
  <2>2. FiltersOf(d)' = SubSeq(arrays'[a], 1, n) /\ FiltersOf(d) = SubSeq(arrays[a], 1, n)
    BY <1>1 DEF FiltersOf
  <2>3. /\ a \in 1 .. N /\ n \in Nat /\ n <= Len(arrays[a]) /\ Len(arrays[a]) \in Nat
        /\ \A i \in 1 .. n : arrays[a][i] \in Filter
    BY <1>1, ContextType DEF Slices
  <2>4. a = where => n <= contexts[c].len
    BY <1>4, <1>5
  <2> HIDE DEF a, n
  <2>5. \A i \in 1 .. n : arrays'[a][i] = arrays[a][i]
    <3> SUFFICES ASSUME NEW i \in 1 .. n, arrays'[a][i] # arrays[a][i] PROVE FALSE
      OBVIOUS
    <3>1. i \in 1 .. Len(arrays[a]) /\ a \in 1 .. N
      BY <2>3
    <3>2. a = where /\ i > contexts[c].len
      BY <3>1 DEF ChildAt
    <3>3. contexts[c].len \in Nat
      BY <1>1, <1>2
    <3> QED
      BY <2>3, <2>4, <3>2, <3>3
  <2>6. SubSeq(arrays'[a], 1, n) = SubSeq(arrays[a], 1, n)
    BY <2>3, <2>5, SamePrefix
  <2> QED
    BY <2>1, <2>2, <2>6
<1>6. ASSUME NEW d, d = N + 1, \A p \in contexts[c].line : ~Overwritten(p)'
      PROVE FiltersOf(d)' = contexts[c].wanted \o fs
  <2> DEFINE a == contexts[c].array
             n == contexts[c].len
  <2>1. FiltersOf(c) = contexts[c].wanted
    BY <1>1, <1>2, <1>3, <1>6 DEF Kept
  <2>2. /\ FiltersOf(d)' = SubSeq(arrays'[where], 1, n + Len(fs))
        /\ FiltersOf(c) = SubSeq(arrays[a], 1, n)
    BY <1>1, <1>6 DEF FiltersOf
  <2>3. n \in Nat /\ \A i \in 1 .. n : arrays[a][i] \in Filter
    BY <1>1, ContextType DEF Slices
  <2>4. /\ \A i \in 1 .. n : arrays'[where][i] = arrays[a][i]
        /\ \A i \in 1 .. Len(fs) : arrays'[where][n + i] = fs[i]
    BY DEF ChildAt
  <2> HIDE DEF a, n
  <2>5. SubSeq(arrays'[where], 1, n + Len(fs)) = SubSeq(arrays[a], 1, n) \o fs
    <3> DEFINE grown == arrays'[where]
               old == arrays[a]
    <3>1. /\ fs \in Seq(Filter) /\ n \in Nat
          /\ \A i \in 1 .. n : old[i] \in Filter
          /\ \A i \in 1 .. n : grown[i] = old[i]
          /\ \A i \in 1 .. Len(fs) : grown[n + i] = fs[i]
      BY <1>1, <2>3, <2>4
    <3> HIDE DEF grown, old
    <3>2. SubSeq(grown, 1, n + Len(fs)) = SubSeq(old, 1, n) \o fs
      BY <3>1, LongerPrefix
    <3> QED
      BY <3>2 DEF grown, old
  <2> QED
    BY <2>1, <2>2, <2>5
<1>7. ASSUME NEW d \in 1 .. N + 1, \A p \in contexts'[d].line \ {d} : ~Overwritten(p)'
      PROVE FiltersOf(d)' = contexts'[d].wanted
  <2>1. CASE d \in 1 .. N
    BY <1>1, <1>5, <1>7, <2>1
  <2>2. CASE d = N + 1
    <3>1. \A p \in contexts[c].line : p \in contexts'[d].line \ {d}
      BY <1>1, <1>2, <2>2
    <3>2. FiltersOf(d)' = contexts[c].wanted \o fs
      BY <1>6, <1>7, <2>2, <3>1
    <3> QED
      BY <1>1, <2>2, <3>2
  <2> QED
    BY <1>1, <2>1, <2>2
<1> HIDE DEF N, CInv
<1> QED
  BY <1>1, <1>7 DEF Kept

-----------------------------------------------------------------------------
(* The theorems. *)

\* What is cached and what calls have found agrees, whatever calls run at once.
THEOREM InductiveInvariant == Spec => []IInv
<1>1. Init => IInv
  BY SoundPlaces DEF Init, IInv, CacheRight, BuiltOnce, OnePickerPerSet
<1>2. IInv /\ [Next]_vars => IInv'
  <2> SUFFICES ASSUME IInv, [Next]_vars PROVE IInv'
    OBVIOUS
  <2>1. ASSUME UNCHANGED <<ready, cached, built, request>> PROVE IInv'
    BY <2>1 DEF IInv, CacheRight, BuiltOnce, OnePickerPerSet, Sound
  <2>2. CASE UNCHANGED vars
    BY <2>1, <2>2 DEF vars
  <2>3. ASSUME NEW c \in DOMAIN contexts, NEW fs \in FilterLists, WithNodeFilter(c, fs)
        PROVE IInv'
    BY <2>1, <2>3 DEF WithNodeFilter
  <2>4. ASSUME NEW r \in Request,
               \/ \E c \in DOMAIN contexts : Pick(r, c)
               \/ \E n \in Node, healthy \in BOOLEAN : Evaluate(r, n, healthy)
               \/ LookUp(r) \/ BuildOrFind(r) \/ InnerPick(r) \/ End(r)
        PROVE IInv'
    BY <2>4, PickIInv, EvaluateIInv, LookUpIInv, BuildOrFindIInv, InnerPickIInv, EndIInv
  <2> QED
    BY <2>2, <2>3, <2>4 DEF Next
<1> QED
  BY <1>1, <1>2, PTL DEF Spec

\* PickedWasKept: a call gets a node that passed its filters, for any number of
\* calls that fill the cache at once.
THEOREM PickedAlwaysKept == Spec => []PickedWasKept
<1>1. IInv => PickedWasKept
  BY DEF IInv, Sound, PickedWasKept
<1> QED
  BY <1>1, InductiveInvariant, PTL

\* OnePickerPerSet: no set of nodes gets a second inner picker.
THEOREM AlwaysOnePicker == Spec => []OnePickerPerSet
<1>1. IInv => OnePickerPerSet
  BY DEF IInv, BuiltOnce
<1> QED
  BY <1>1, InductiveInvariant, PTL

\* Slices, lines and arrays agree: a context has its filters until a second append is
\* made in place behind one it descends from.
THEOREM ContextsInvariant == Spec => []CInv
<1>1. Init => CInv
  <2> SUFFICES ASSUME Init PROVE CInv
    OBVIOUS
  <2> DEFINE first == [parent |-> 0, array |-> 1, len |-> 0, wanted |-> <<>>, line |-> {1}]
  <2>1. contexts = <<first>> /\ arrays = << <<>> >> /\ first \in Context
    BY DEF Init, Context
  <2>2. /\ contexts \in Seq(Context) /\ DOMAIN contexts = {1} /\ Len(contexts) = 1
        /\ contexts[1] = first
    BY <2>1
  <2>3. /\ arrays \in Seq(Seq(Element)) /\ DOMAIN arrays = {1} /\ Len(arrays) = 1
        /\ arrays[1] = <<>>
    BY <2>1
  <2>4. Slices
    BY <2>2, <2>3 DEF Slices
  <2>5. Lines
    BY <2>2, <2>3 DEF Lines
  <2>6. Trees
    BY <2>2 DEF Trees
  <2>7. FiltersOf(1) = <<>>
    BY <2>2, <2>3, SubSeqEmpty DEF FiltersOf
  <2>8. Kept
    BY <2>2, <2>7 DEF Kept
  <2> QED
    BY <2>4, <2>5, <2>6, <2>8 DEF CInv
<1>2. CInv /\ [Next]_vars => CInv'
  <2> SUFFICES ASSUME CInv, [Next]_vars PROVE CInv'
    OBVIOUS
  <2>1. CASE UNCHANGED <<contexts, arrays>>
    <3>1. contexts' = contexts /\ arrays' = arrays
      BY <2>1
    <3>2. \A c : FiltersOf(c)' = FiltersOf(c)
      BY <3>1 DEF FiltersOf
    <3>3. \A p : Children(p)' = Children(p)
      BY <3>1 DEF Children
    <3>4. \A p : Overwritten(p)' = Overwritten(p)
      BY <3>1, <3>3 DEF Overwritten
    <3>5. Slices' /\ Lines'
      BY <3>1, <3>3 DEF CInv, Slices, Lines
    <3>6. Trees' /\ Kept'
      BY <3>1, <3>2, <3>4 DEF CInv, Trees, Kept
    <3> QED
      BY <3>5, <3>6 DEF CInv
  <2>2. ASSUME NEW c \in DOMAIN contexts, NEW fs \in FilterLists, WithNodeFilter(c, fs)
        PROVE CInv'
    <3>1. fs \in Seq(Filter)
      BY FiltersAssumption
    <3>2. PICK where \in DOMAIN contexts' : ChildAt(c, fs, where)
      BY <2>2, <3>1, ChildIsMade DEF CInv
    <3>3. Slices'
      BY <3>2, SlicesStay
    <3>4. Lines'
      BY <3>2, LinesStay
    <3>5. Trees'
      BY <3>2, TreesStay
    <3>6. Kept'
      BY <3>2, KeptStays
    <3> QED
      BY <3>3, <3>4, <3>5, <3>6 DEF CInv
  <2>3. UNCHANGED <<contexts, arrays>> \/
        \E c \in DOMAIN contexts, fs \in FilterLists : WithNodeFilter(c, fs)
    BY DEF Next, vars, Pick, Evaluate, LookUp, BuildOrFind, InnerPick, End
  <2> QED
    BY <2>1, <2>2, <2>3
<1> QED
  BY <1>1, <1>2, PTL DEF Spec

\* ContextsKept: no append reaches the filters of a context, unless one it descends
\* from had filters and was the parent of two, for any lists and sizes of arrays.
THEOREM ContextsAlwaysKept == Spec => []ContextsKept
<1>1. IInv /\ CInv => ContextsKept
  <2> SUFFICES ASSUME IInv, CInv PROVE ContextsKept
    OBVIOUS
  <2> USE DEF CInv
  <2>1. ASSUME NEW c \in DOMAIN contexts PROVE NoFilter \notin ToSet(FiltersOf(c))
    <3> DEFINE a == arrays[contexts[c].array]
               n == contexts[c].len
    <3>1. n \in Nat /\ \A i \in 1 .. n : a[i] \in Filter
      BY ContextType DEF Slices
    <3> HIDE DEF a, n
    <3>2. SubSeq(a, 1, n) \in Seq(Filter)
      BY <3>1, PrefixProperties
    <3>3. FiltersOf(c) \in Seq(Filter)
      BY <3>2 DEF FiltersOf, a, n
    <3>4. \A f \in ToSet(FiltersOf(c)) : f \in Filter
      BY <3>3, LenProperties, ElementOfSeq DEF ToSet
    <3> QED
      BY <3>4, FiltersAssumption
  <2>2. TypeOK
    BY <2>1 DEF TypeOK, IInv, CacheRight, Sound, Slices
  <2>3. ASSUME NEW c \in DOMAIN contexts, NEW p \in contexts[c].line \ {c}, Overwritten(p)
        PROVE contexts[p].len # 0 /\ \E d, e \in Children(p) : d # e
    <3>1. PICK d, e \in Children(p) : d # e /\ contexts[d].array = contexts[p].array
      BY <2>3 DEF Overwritten
    <3>2. p \in DOMAIN contexts /\ d \in DOMAIN contexts /\ contexts[d].parent = p
      BY <2>3 DEF Lines, Children
    <3>3. p # 0
      BY <3>2, ContextType
    <3>4. contexts[d].len # 0 /\ contexts[d].len \in Nat
          /\ contexts[d].len <= Len(arrays[contexts[p].array])
      BY <3>1, <3>2, <3>3, ContextType DEF Lines, Slices
    <3>5. arrays[contexts[p].array] # <<>>
      BY <3>4, EmptySeq
    <3> QED
      BY <3>1, <3>2, <3>5 DEF Lines
  <2>4. ChainsAreSafe
    BY <2>3 DEF ChainsAreSafe, Kept
  <2> QED
    BY <2>2, <2>4 DEF ContextsKept
<1> QED
  BY <1>1, InductiveInvariant, ContextsInvariant, PTL
=============================================================================
