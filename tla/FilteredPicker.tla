--------------------------- MODULE FilteredPicker ---------------------------
(* picker/filter.go: contexts that carry node filters, and the picker that   *)
(* evaluates them for each call and keeps one inner picker per set of nodes. *)
(* A filteredPicker shares nothing with the one that replaces it but the     *)
(* inner builder, so there is one here. WithNodeFilter appends to the slice  *)
(* of the context it is given, which Go does in place when there is room.    *)
EXTENDS Filters, Naturals

CONSTANTS
    Node,           \* addresses of SubConns, one each
    AttrsOf,        \* the attributes of each
    FilterLists,    \* the arguments WithNodeFilter is called with
    Request,        \* calls under way at once
    NoFilter,       \* an element of an array that no slice has reached yet
    Sizes,          \* bound: how many pointers the allocator makes room for
    MaxContexts     \* bound: contexts made

ASSUME ContextsAssumption == MaxContexts \in Nat \ {0}
ASSUME SizesAssumption == Sizes \subseteq Nat

Filter == UNION {ToSet(fs) : fs \in FilterLists}

ASSUME FiltersAssumption == FilterLists \subseteq Seq(Filter) \ {<<>>} /\ NoFilter \notin Filter

VARIABLES
    contexts,   \* [parent, array, len, and the history wanted and line];
                \* the first has no filters
    arrays,     \* the array each context allocated, if it did
    ready,      \* allNodes of the picker
    cached,     \* cachedPickers: the nodes of the picker under each key
    built,      \* history: inner pickers built for a set of nodes
    request

vars == <<contexts, arrays, ready, cached, built, request>>

-----------------------------------------------------------------------------
(* Contexts. *)

\* NodeFiltersFromContext, as the array holds them now.
FiltersOf(c) == SubSeq(arrays[contexts[c].array], 1, contexts[c].len)

\* What append makes room for: twice as much, or as much as is needed, in the
\* next size the allocator has.
Rooms(cap, needed) ==
    LET n == IF needed > 2 * cap THEN needed ELSE 2 * cap
    IN {size \in Sizes : size >= n /\ \A s \in Sizes : s >= n => size <= s}

\* The array with the filters in it, behind the first elements.
Written(array, first, fs) ==
    [i \in DOMAIN array |-> IF i \in first + 1 .. first + Len(fs) THEN fs[i - first] ELSE array[i]]

\* Another array that starts with the same elements.
Moved(array, first, size) == [i \in 1 .. size |-> IF i <= first THEN array[i] ELSE NoFilter]

\* Mutant: the filters of a context replace those it had.
StartReplacing(c) == 0

\* append writes behind the elements the slice has.
Start(c) == contexts[c].len

WithNodeFilter(c, fs) ==
    LET old == contexts[c]
        array == arrays[old.array]
        len == Start(c) + Len(fs)
        Child(where) ==
            [parent |-> c, array |-> where, len |-> len, wanted |-> old.wanted \o fs,
             line |-> old.line \cup {Len(contexts) + 1}]
    IN /\ Len(contexts) < MaxContexts
       /\ \/ /\ len <= Len(array)
             /\ contexts' = Append(contexts, Child(old.array))
             /\ arrays' = Append([arrays EXCEPT ![old.array] = Written(array, Start(c), fs)],
                                 <<>>)
          \/ /\ len > Len(array)
             /\ contexts' = Append(contexts, Child(Len(contexts) + 1))
             /\ \E size \in Rooms(Len(array), len) :
                    arrays' = Append(arrays, Written(Moved(array, old.len, size), Start(c), fs))
       /\ UNCHANGED <<ready, cached, built, request>>

-----------------------------------------------------------------------------
(* Pick. *)

Idle == [step |-> "idle"]
Filtering(c, todo, kept) ==
    IF todo = {} THEN [step |-> "filtered", kept |-> kept]
    ELSE [step |-> "filtering", ctx |-> c, todo |-> todo, kept |-> kept]
Missed(kept) == [step |-> "missed", kept |-> kept]
Picking(kept, nodes) == [step |-> "picking", kept |-> kept, nodes |-> nodes]
Picked(kept, n) == [step |-> "picked", kept |-> kept, node |-> n]
NoSubConnAvailable == [step |-> "none"]

Becomes(r, s) == request' = [request EXCEPT ![r] = s]

Init ==
    /\ contexts = <<[parent |-> 0, array |-> 1, len |-> 0, wanted |-> <<>>,
                   line |-> {1}]>>
    /\ arrays = << <<>> >>
    /\ ready \in SUBSET Node
    /\ cached = <<>>
    /\ built = <<>>
    /\ request = [r \in Request |-> Idle]

\* Without filters the default picker answers; it was built from every node.
Pick(r, c) ==
    /\ request[r] = Idle
    /\ Becomes(r, IF contexts[c].len = 0 THEN Picking(ready, ready)
                  ELSE Filtering(c, ready, {}))
    /\ UNCHANGED <<contexts, arrays, ready, cached, built>>

\* One round of the loop over the nodes, with the filters the array has now.
Evaluate(r, n, healthy) ==
    LET q == request[r] IN
    /\ q.step = "filtering"
    /\ n \in q.todo
    /\ LET keep == \A f \in ToSet(FiltersOf(q.ctx)) : Keeps(f, n, AttrsOf[n], healthy)
       IN Becomes(r, Filtering(q.ctx, q.todo \ {n}, q.kept \cup IF keep THEN {n} ELSE {}))
    /\ UNCHANGED <<contexts, arrays, ready, cached, built>>

\* Mutant: the key tells only how many nodes are left.
NumberKey(nodes) == 1 .. Cardinality(nodes)

\* The sorted addresses of the nodes: the same for the same set only.
filterCacheKey(nodes) == nodes

\* All nodes evaluated, the cache is read under the read lock.
LookUp(r) ==
    LET q == request[r]
        key == filterCacheKey(q.kept)
    IN /\ q.step = "filtered"
       /\ Becomes(r, IF q.kept = {} THEN NoSubConnAvailable
                     ELSE IF q.kept = ready THEN Picking(q.kept, ready)
                     ELSE IF key \in DOMAIN cached THEN Picking(q.kept, cached[key])
                     ELSE Missed(q.kept))
       /\ UNCHANGED <<contexts, arrays, ready, cached, built>>

\* Mutant: no second look under the lock.
CachedNever(key) == FALSE

CachedMeanwhile(key) == key \in DOMAIN cached

\* The lock is held from the second look to the end of the inner Build.
BuildOrFind(r) ==
    LET q == request[r]
        key == filterCacheKey(q.kept)
    IN /\ q.step = "missed"
       /\ IF CachedMeanwhile(key)
          THEN /\ Becomes(r, Picking(q.kept, cached[key]))
               /\ UNCHANGED <<cached, built>>
          ELSE /\ Becomes(r, Picking(q.kept, q.kept))
               /\ cached' = [k \in DOMAIN cached \cup {key} |->
                                IF k = key THEN q.kept ELSE cached[k]]
               /\ built' = [s \in DOMAIN built \cup {q.kept} |->
                                IF s = q.kept THEN 1 + IF s \in DOMAIN built THEN built[s] ELSE 0
                                ELSE built[s]]
       /\ UNCHANGED <<contexts, arrays, ready>>

\* The inner picker chooses, an error picker if it was built from nothing.
InnerPick(r) ==
    LET q == request[r] IN
    /\ q.step = "picking"
    /\ \/ \E n \in q.nodes : Becomes(r, Picked(q.kept, n))
       \/ q.nodes = {} /\ Becomes(r, NoSubConnAvailable)
    /\ UNCHANGED <<contexts, arrays, ready, cached, built>>

\* The call ends, or waits for another picker.
End(r) ==
    /\ request[r].step \in {"picked", "none"}
    /\ Becomes(r, Idle)
    /\ UNCHANGED <<contexts, arrays, ready, cached, built>>

Next ==
    \/ \E c \in DOMAIN contexts, fs \in FilterLists : WithNodeFilter(c, fs)
    \/ \E r \in Request :
        \/ \E c \in DOMAIN contexts : Pick(r, c)
        \/ \E n \in Node, healthy \in BOOLEAN : Evaluate(r, n, healthy)
        \/ LookUp(r) \/ BuildOrFind(r) \/ InnerPick(r) \/ End(r)

Spec == Init /\ [][Next]_vars

-----------------------------------------------------------------------------
(* Properties *)

\* No slice reaches past what was written to its array, which only grows by
\* appends; the nodes a call still evaluates are the picker's.
TypeOK ==
    /\ Len(arrays) = Len(contexts)
    /\ \A c \in DOMAIN contexts : NoFilter \notin ToSet(FiltersOf(c))
    /\ \A key \in DOMAIN cached : cached[key] \subseteq ready
    /\ \A r \in Request :
        request[r].step = "filtering" => request[r].todo \cup request[r].kept \subseteq ready

\* The node a call gets passed the filters of its context, whatever other calls
\* put in the cache: pickers are looked up by the nodes they serve.
PickedWasKept ==
    \A r \in Request : request[r].step = "picked" => request[r].node \in request[r].kept

\* A set of nodes has one inner picker, hence one set of counters, however many
\* calls miss the cache at once.
OnePickerPerSet == \A s \in DOMAIN built : built[s] = 1

Children(p) == {d \in DOMAIN contexts : contexts[d].parent = p}

\* A context has the filters it was made with, after those of its parent, unless one
\* it descends from had filters and was the parent of two: appending in place, with
\* the second over the first, is why that matters.
ChainsAreSafe ==
    \A c \in DOMAIN contexts :
        (\A p \in contexts[c].line \ {c} :
            contexts[p].len # 0 => \A d, e \in Children(p) : d = e)
        => FiltersOf(c) = contexts[c].wanted

\* Contexts keep their filters, and their slices their arrays.
ContextsKept == TypeOK /\ ChainsAreSafe
=============================================================================
