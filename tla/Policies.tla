------------------------------ MODULE Policies ------------------------------
(* The pickers of package picker: round robin, weighted and random weighted  *)
(* round robin, least connections (mc), least response time (mrt) and power  *)
(* of two choices (p2c). A balancer builds one from the READY SubConns, gRPC *)
(* picks for each call and reports the end of the call, also to a picker that*)
(* has been replaced. A response time is measured in whole microseconds; an  *)
(* average, a float64, is any fraction between the old average and the time. *)
EXTENDS WeightedRoundRobin, PriorityQueue, FiniteSets

CONSTANTS
    Policy,     \* the policies to consider
    Node,       \* SubConns
    Weight,     \* the weights attributes may carry
    Request,    \* calls under way at once
    MaxTime,    \* bound: response times are 0 .. MaxTime
    Grain       \* bound: the fractions of a microsecond averages are told apart by

ASSUME NodeAssumption == IsFiniteSet(Node)
ASSUME RequestAssumption == IsFiniteSet(Request)
ASSUME WeightAssumption == Weight \subseteq -(MaxInt + 1) .. MaxInt
ASSUME MaxTimeAssumption == MaxTime \in Nat \ {0}
ASSUME GrainAssumption == Grain \in Nat \ {0}

VARIABLES
    policy,
    weightOf,   \* the weights in the nodes' attributes
    subConns,   \* the nodes of the picker, in the order of the map's iteration
    panicked,   \* Build has panicked
    next,       \* the index round robin, wrr and rwrr pick next
    wrr,        \* the fields i and cw of the wrr
    queue,      \* the heap of mc and mrt
    val,        \* the values of its items
    ewma,       \* the averages of mrt and p2c, in fractions of a microsecond
    inflight,   \* the counters of p2c's nodes
    long,       \* nodes p2c has not picked for more than forcePick
    forcing,    \* p2c's flag "picked": a forced pick is under way
    request,    \* where a call is: its step, its node, the picker it came from
    picks       \* history: picks in this cycle of rr or wrr

pickerVars == <<subConns, panicked, next, wrr, queue, val, ewma, inflight, long,
                forcing, picks>>
vars == <<policy, weightOf, pickerVars, request>>
roundVars == <<policy, weightOf, subConns, panicked, next, wrr, picks>>
queueVars == <<queue, val>>
loadVars == <<ewma, inflight, long, forcing>>

Ready == ToSet(subConns)
WeightsOf(scs) == [i \in DOMAIN scs |-> weightOf[scs[i]]]
weights == WeightsOf(subConns)
Weighted == policy \in {"wrr", "rwrr"}
Queued == policy \in {"mc", "mrt"}

Idle == [step |-> "idle"]
Running(n) == [step |-> "running", node |-> n]
Chosen(n, forced) == [step |-> "chosen", node |-> n, forced |-> forced]
Gone == [step |-> "gone"]   \* its picker has been replaced

\* The calls this picker has picked n for and that have not ended.
Calls(n) == Cardinality({r \in Request : request[r] = Running(n)})

Zero == [n \in Node |-> 0]

NextIndexes(ws, w) ==
    CASE policy = "wrr" /\ Len(ws) > 1 -> {WrrNext(ws, w).i}
      [] policy = "rwrr" /\ SumOfWeights(ws) > 0 ->
            {RwrrIndex(ws, r) : r \in 1 .. SumOfWeights(ws)}
      [] OTHER -> {0}

WrrAfter(ws, w) == IF policy = "wrr" /\ Len(ws) > 1 THEN WrrNext(ws, w) ELSE w

\* A new rr picker starts anywhere.
FirstIndexes(scs) == IF policy = "rr" THEN 0 .. (Len(scs) - 1) ELSE {0}

\* The heap of a new mc or mrt picker: every node is pushed with value 0.
NewQueue(scs) ==
    LET pushed[i \in 0 .. Len(scs)] ==
            IF i = 0 THEN <<>> ELSE PushItem(pushed[i - 1], Zero, scs[i])
    IN IF Queued THEN pushed[Len(scs)] ELSE <<>>

\* The counters of new p2c nodes, and what mrt has measured.
NewCounters ==
    /\ ewma' = Zero
    /\ inflight' = Zero
    /\ long' = {}
    /\ forcing' = FALSE

\* An error picker for no node; rwrr draws from a sum that must not be negative.
\* The weights stay the same from one Build to the next: a new picker takes nothing
\* over from the old one, so nothing depends on that.
BuildFor(scs) ==
    LET ws == WeightsOf(scs)
        panics == policy = "rwrr" /\ scs # <<>> /\ SumOfWeights(ws) < 0
    IN /\ subConns' = scs
       /\ panicked' = panics
       /\ next' \in IF panics \/ scs = <<>> THEN {0}
                    ELSE IF Weighted THEN NextIndexes(ws, WrrStart(ws)) ELSE FirstIndexes(scs)
       /\ wrr' = WrrAfter(ws, WrrStart(ws))
       /\ queue' = NewQueue(scs)
       /\ val' = Zero
       /\ NewCounters
       /\ picks' = Zero

Orders == UNION {SetToSeqs(ready) : ready \in SUBSET Node}

Init ==
    /\ policy \in Policy
    /\ weightOf \in IF Weighted THEN [Node -> Weight] ELSE {[n \in Node |-> 1]}
    /\ subConns = <<>>
    /\ panicked = FALSE
    /\ next = 0
    /\ wrr = WrrStart(<<>>)
    /\ queue = <<>>
    /\ val = Zero
    /\ ewma = Zero
    /\ inflight = Zero
    /\ long = {}
    /\ forcing = FALSE
    /\ picks = Zero
    /\ request = [r \in Request |-> Idle]

\* Calls under way stay with the picker they came from. A panic ends the process.
Build ==
    /\ ~panicked
    /\ \E scs \in Orders : BuildFor(scs)
    /\ request' = [r \in Request |-> IF request[r] = Idle THEN Idle ELSE Gone]
    /\ UNCHANGED <<policy, weightOf>>

Picks(r, n) == request' = [request EXCEPT ![r] = Running(n)]

Starts(r) == request[r] = Idle /\ subConns # <<>> /\ ~panicked

(* rr, wrr, rwrr *)

\* The share of a node in a cycle; every cycle of rr and wrr starts anew.
ShareOf(n) ==
    LET i == QueueIndex(subConns, n) - 1
    IN IF policy = "rr" THEN 1 ELSE Share(weights, i)

Cycles == policy = "rr" \/ (policy = "wrr" /\ Positive(weights) # {})

Counted(n) ==
    LET counts == [picks EXCEPT ![n] = @ + 1]
    IN IF ~Cycles \/ \A m \in Ready : counts[m] = ShareOf(m) THEN Zero ELSE counts

PickNext(r) ==
    /\ Starts(r)
    /\ LET n == subConns[next + 1]
       IN Picks(r, n) /\ picks' = Counted(n)
    /\ UNCHANGED <<policy, weightOf, subConns, panicked, queueVars, loadVars>>

PickRoundRobin(r) ==
    /\ policy = "rr"
    /\ PickNext(r)
    /\ next' = (next + 1) % Len(subConns)
    /\ UNCHANGED wrr

PickWeighted(r) ==
    /\ policy = "wrr"
    /\ PickNext(r)
    /\ next' \in NextIndexes(weights, wrr)
    /\ wrr' = WrrAfter(weights, wrr)

PickRandom(r) ==
    /\ policy = "rwrr"
    /\ PickNext(r)
    /\ next' \in NextIndexes(weights, wrr)
    /\ UNCHANGED wrr

(* mc, mrt *)

\* Mutant: the heap is not put in order again.
FixedNever(v, n) == queue

Fixed(v, n) == UpdateItem(queue, v, n)

PickFewest(r) ==
    /\ policy = "mc"
    /\ Starts(r)
    /\ LET n == Minimum(queue)
       IN /\ Picks(r, n)
          /\ val' = [val EXCEPT ![n] = @ + 1]
          /\ queue' = Fixed(val', n)
    /\ UNCHANGED <<roundVars, loadVars>>

PickFastest(r) ==
    /\ policy = "mrt"
    /\ Starts(r)
    /\ Picks(r, Minimum(queue))
    /\ UNCHANGED <<roundVars, queueVars, loadVars>>

(* p2c *)

\* A node that is not measured yet, or at 0, counts as one microsecond.
Load(n) == (IF ewma[n] = 0 THEN Grain ELSE ewma[n]) * (inflight[n] + 1)

\* Two different nodes, the one with the lower load, or the other if it has not
\* been picked for long and no forced pick is under way.
Choose(r) ==
    /\ policy = "p2c"
    /\ Starts(r)
    /\ IF Len(subConns) = 1
       THEN /\ request' = [request EXCEPT ![r] = Chosen(subConns[1], FALSE)]
            /\ UNCHANGED forcing
       ELSE \E a \in Ready : \E b \in Ready \ {a} :
            LET picked == IF Load(b) > Load(a) THEN a ELSE b
                unpicked == IF picked = a THEN b ELSE a
                forced == unpicked \in long /\ ~forcing
            IN /\ request' = [request EXCEPT ![r] =
                                Chosen(IF forced THEN unpicked ELSE picked, forced)]
               /\ forcing' = (forcing \/ forced)
    /\ UNCHANGED <<roundVars, queueVars, ewma, inflight, long>>

\* Mutant: the flag stays set after a forced pick.
ReleasedNever(forced) == forcing

Released(forced) == forcing /\ ~forced

\* pickNode; other calls may have chosen since.
Commit(r) ==
    /\ request[r].step = "chosen"
    /\ LET n == request[r].node
       IN /\ Picks(r, n)
          /\ long' = long \ {n}
          /\ inflight' = [inflight EXCEPT ![n] = @ + 1]
          /\ forcing' = Released(request[r].forced)
    /\ UNCHANGED <<roundVars, queueVars, ewma>>

\* forcePick has passed since the node was picked.
Elapse(n) ==
    /\ policy = "p2c"
    /\ n \in Ready \ long
    /\ long' = long \cup {n}
    /\ UNCHANGED <<roundVars, queueVars, ewma, inflight, forcing, request>>

(* The end of a call *)

\* The values of an average.
Fractions == 0 .. Grain * MaxTime

Average(old, new) == IF old < new THEN old .. new ELSE new .. old

\* The call of r ends.
Ends(r) ==
    /\ request[r].step = "running"
    /\ request' = [request EXCEPT ![r] = Idle]

\* A response time is measured: it replaces an average of 0 and moves another.
Measures(n) ==
    \E time \in 0 .. MaxTime :
        LET measured == Grain * time
        IN \E new \in IF ewma[n] = 0 THEN {measured} ELSE Average(ewma[n], measured) :
            ewma' = [ewma EXCEPT ![n] = new]

\* Done of the round robins keeps no account.
DoneUncounted(r) ==
    /\ policy \in {"rr", "wrr", "rwrr"}
    /\ Ends(r)
    /\ UNCHANGED <<roundVars, queueVars, loadVars>>

DoneFewest(r) ==
    /\ policy = "mc"
    /\ Ends(r)
    /\ LET n == request[r].node
       IN /\ val' = [val EXCEPT ![n] = @ - 1]
          /\ queue' = Fixed(val', n)
    /\ UNCHANGED <<roundVars, loadVars>>

\* int64(average): whole microseconds.
Micros(average) == average \div Grain

\* Only the times of calls that succeed count.
DoneFastest(r, failed) ==
    /\ policy = "mrt"
    /\ Ends(r)
    /\ LET n == request[r].node
       IN IF failed THEN UNCHANGED <<ewma, queueVars>>
          ELSE /\ Measures(n)
               /\ val' = [val EXCEPT ![n] = Micros(ewma'[n])]
               /\ queue' = Fixed(val', n)
    /\ UNCHANGED <<roundVars, inflight, long, forcing>>

DoneChosen(r) ==
    /\ policy = "p2c"
    /\ Ends(r)
    /\ LET n == request[r].node
       IN Measures(n) /\ inflight' = [inflight EXCEPT ![n] = @ - 1]
    /\ UNCHANGED <<roundVars, queueVars, long, forcing>>

\* The end of a call of a replaced picker changes that picker only.
DoneGone(r) ==
    /\ request[r] = Gone
    /\ request' = [request EXCEPT ![r] = Idle]
    /\ UNCHANGED <<policy, weightOf, pickerVars>>

Next ==
    \/ Build
    \/ \E r \in Request :
        \/ PickRoundRobin(r)
        \/ PickWeighted(r)
        \/ PickRandom(r)
        \/ PickFewest(r)
        \/ PickFastest(r)
        \/ Choose(r)
        \/ Commit(r)
        \/ DoneUncounted(r)
        \/ DoneFewest(r)
        \/ \E failed \in BOOLEAN : DoneFastest(r, failed)
        \/ DoneChosen(r)
        \/ DoneGone(r)
    \/ \E n \in Node : Elapse(n)

Spec == Init /\ [][Next]_vars

-----------------------------------------------------------------------------
(* Properties *)

\* Every variable has a value the program can give it.
TypeOK ==
    /\ policy \in Policy
    /\ subConns \in Orders
    /\ Queued => ToSet(queue) = Ready /\ Len(queue) = Len(subConns)
    /\ long \subseteq Ready
    /\ \A n \in Node : val[n] \in Int /\ ewma[n] \in Fractions /\ inflight[n] \in Int

\* The index picked next is one of a node, however the picker's arithmetic went.
NextIsNode == subConns # <<>> => next \in 0 .. (Len(subConns) - 1)

\* In each cycle of round robin a node is picked once, in each cycle of weighted
\* round robin as often as its weight says, from the first pick of a picker on.
SharesKept ==
    Cycles => \A n \in Ready : picks[n] <= ShareOf(n)

\* Random weighted round robin gives every node as many of the random weights as
\* its own weight is, if no weight is negative and the type holds their sum.
RandomShares ==
    policy = "rwrr" /\ (\A j \in DOMAIN weights : weights[j] >= 0)
        /\ Prefix(weights, Len(weights)) <= MaxInt =>
            \A i \in 0 .. Len(weights) - 1 :
                Cardinality({r \in 1 .. SumOfWeights(weights) : RwrrIndex(weights, r) = i})
                = weights[i + 1]

\* What mc picks has the fewest calls, what mrt picks the lowest average in whole
\* microseconds, as the calls that started and ended tell it, whatever order they
\* came in. A node that is slower by less than a microsecond may be picked.
LeastPicked ==
    [][\A r \in Request :
        Starts(r) /\ Queued /\ request'[r].step = "running" =>
            \A m \in Ready :
                LET n == request'[r].node
                IN IF policy = "mc" THEN Calls(n) <= Calls(m)
                   ELSE Micros(ewma[n]) <= Micros(ewma[m])]_vars

\* p2c counts the calls under way, and its flag is set by one of the calls that
\* have chosen, whatever they interleave with.
CountsExact ==
    policy = "p2c" =>
        /\ \A n \in Ready : inflight[n] = Calls(n)
        /\ Cardinality({r \in Request : request[r].step = "chosen" /\ request[r].forced})
           = (IF forcing THEN 1 ELSE 0)

\* Whatever its weights are, a picker picks one of its nodes, and keeps the shares
\* the weights stand for.
Shares == NextIsNode /\ SharesKept /\ RandomShares

\* The state a policy picks by is whole, and its counts are those of the calls.
CountsKept == TypeOK /\ CountsExact
=============================================================================
