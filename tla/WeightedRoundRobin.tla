------------------------- MODULE WeightedRoundRobin -------------------------
(* The index arithmetic of wrrpicker.go and rwrrpicker.go. Indexes start at  *)
(* 0, as in the code; weights[i + 1] is the weight of index i. The loops are *)
(* given by what they come to: the greatest common divisor, the first index  *)
(* whose weight reaches a bar, the first one a random weight falls on.       *)
EXTENDS Naturals, Integers, Sequences, SequencesExt, FiniteSetsExt

CONSTANT MaxInt     \* the greatest value of a weight's type, 2^31 - 1

ASSUME MaxIntAssumption == MaxInt \in Nat \ {0}

\* What an int32 keeps of a sum.
Wrapped(x) == ((x + MaxInt + 1) % (2 * (MaxInt + 1))) - (MaxInt + 1)

Positive(weights) == {w \in ToSet(weights) : w > 0}

\* What add has computed after the last weight: only positive ones count.
MaxWeight(weights) == IF Positive(weights) = {} THEN 0 ELSE Max(Positive(weights))

GCD(weights) ==
    Max({0} \cup {d \in 1 .. MaxWeight(weights) : \A w \in Positive(weights) : w % d = 0})

\* Mutant: the index of a new wrr is the first one.
WrrStartAtFirst(weights) == [i |-> 0, cw |-> 0]

\* The fields i and cw of a new wrr.
WrrStart(weights) == [i |-> IF Positive(weights) = {} THEN 0 ELSE -1, cw |-> 0]

\* The indexes from a given one on whose weights reach a bar.
Reaching(weights, from, bar) ==
    {i \in 0 .. Len(weights) - 1 : from <= i /\ weights[i + 1] >= bar}

\* wrr.next, for two weights or more: on to the next index that reaches the bar cw;
\* after the last one, and at first, a new round with the bar lower by the gcd, and
\* back to the greatest weight below 1, which some index reaches.
WrrNext(weights, start) ==
    LET rest == IF start.i < 0 THEN {} ELSE Reaching(weights, start.i + 1, start.cw)
        down == start.cw - GCD(weights)
        bar == IF down > 0 THEN down ELSE MaxWeight(weights)
    IN IF rest # {} THEN [i |-> Min(rest), cw |-> start.cw]
       ELSE IF bar = 0 THEN [i |-> 0, cw |-> 0]
       ELSE [i |-> Min(Reaching(weights, 0, bar)), cw |-> bar]

\* The share of an index in a cycle of weighted round robin.
Share(weights, i) == IF weights[i + 1] > 0 THEN weights[i + 1] \div GCD(weights) ELSE 0

\* The sum of the first n weights.
Prefix(weights, n) ==
    LET sum[k \in 0 .. Len(weights)] == IF k = 0 THEN 0 ELSE sum[k - 1] + weights[k]
    IN sum[n]

\* sumOfWeights of rwrr; it makes no difference that it wraps after each weight.
SumOfWeights(weights) == Wrapped(Prefix(weights, Len(weights)))

\* rwrr.next for the random weight r, from 1 to sumOfWeights: what is left of r after
\* the weights up to the index wraps too, and is below 1 after the last one.
RwrrIndex(weights, r) ==
    Min({i \in 0 .. Len(weights) - 1 : Wrapped(r - Prefix(weights, i + 1)) <= 0})
=============================================================================
