---------------------------- MODULE PriorityQueue ----------------------------
(* grpclient/priorityqueue: container/heap over items with a value. A queue  *)
(* is the sequence of its items, the root first; the queueIndex of an item,  *)
(* which Swap and Push keep, is its position. The loops of the heap are      *)
(* written without recursion: the positions they go through are the least    *)
(* set that has the first one and the next one of each.                      *)
EXTENDS Naturals, Sequences

QueueIndex(queue, item) == CHOOSE i \in DOMAIN queue : queue[i] = item

\* The positions of a loop that goes on from k to step[k], and ends where that is k.
Visited(step, i) ==
    {k \in DOMAIN step : \A C \in SUBSET DOMAIN step :
        i \in C /\ (\A c \in C : step[c] \in C) => k \in C}

\* The loop swaps an item with the one at the next position: the item at i ends at
\* the last position, the others one position nearer to i.
Swapped(queue, step, i) ==
    LET visited == Visited(step, i)
    IN [k \in DOMAIN queue |->
            IF k \notin visited THEN queue[k]
            ELSE IF step[k] # k THEN queue[step[k]]
            ELSE queue[i]]

SmallerChild(queue, Val, k) ==
    IF 2 * k + 1 <= Len(queue) /\ Val[queue[2 * k + 1]] < Val[queue[2 * k]]
    THEN 2 * k + 1 ELSE 2 * k

\* heap.down: the item at i moves below every smaller child with a smaller value.
DownStep(queue, Val, i) ==
    [k \in DOMAIN queue |->
        LET child == SmallerChild(queue, Val, k)
        IN IF 2 * k <= Len(queue) /\ Val[queue[child]] < Val[queue[i]] THEN child ELSE k]

Down(queue, Val, i) == Swapped(queue, DownStep(queue, Val, i), i)

\* heap.up: the item at i moves above every parent with a greater value.
UpStep(queue, Val, i) ==
    [k \in DOMAIN queue |->
        IF k > 1 /\ Val[queue[i]] < Val[queue[k \div 2]] THEN k \div 2 ELSE k]

Up(queue, Val, i) == Swapped(queue, UpStep(queue, Val, i), i)

\* UpdateItem, after the value of the item has changed.
UpdateItem(queue, Val, item) ==
    LET i == QueueIndex(queue, item)
        down == Down(queue, Val, i)
    IN IF down # queue THEN down ELSE Up(queue, Val, i)

PushItem(queue, Val, item) == Up(Append(queue, item), Val, Len(queue) + 1)

Minimum(queue) == queue[1]
=============================================================================
