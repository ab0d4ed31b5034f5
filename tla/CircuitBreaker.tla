--------------------------- MODULE CircuitBreaker ---------------------------
(***************************************************************************)
(* circuitbreaker/circuitbreaker.go: one breaker as a record, and what each *)
(* of its methods, all of which hold cb.mu, makes of it. Time is abstract: *)
(* the clock only ever asks whether OpenTimeout has passed since the       *)
(* breaker opened.                                                         *)
(***************************************************************************)
EXTENDS Integers

CONSTANTS FailureThreshold, SuccessThreshold, HalfOpenMaxRequests

\* Config's fields are ints a caller sets as it likes; negative ones act as 0.
ASSUME ConfigAssumption ==
    /\ FailureThreshold \in Nat
    /\ SuccessThreshold \in Nat
    /\ HalfOpenMaxRequests \in Nat

AtLeastOne(n) == IF n = 0 THEN 1 ELSE n

Breaker == [state : {"closed", "open", "halfOpen"},
            failureCount : 0..FailureThreshold, successCount : 0..SuccessThreshold,
            halfOpenRequests : 0..AtLeastOne(HalfOpenMaxRequests),
            timedOut : BOOLEAN]

\* toClosed, toOpen and toHalfOpen: every count starts again.
Entered(state) ==
    [state |-> state, failureCount |-> 0, successCount |-> 0, halfOpenRequests |-> 0,
     timedOut |-> FALSE]

New == Entered("closed")

\* What Allow returns.
Admits(cb) ==
    \/ cb.state = "closed"
    \/ cb.state = "open" /\ cb.timedOut
    \/ cb.state = "halfOpen" /\ cb.halfOpenRequests < HalfOpenMaxRequests

\* What Allow leaves behind: an admission in half-open state takes a slot.
AfterAllow(cb) ==
    IF ~Admits(cb) \/ cb.state = "closed" THEN cb
    ELSE LET probing == IF cb.state = "open" THEN Entered("halfOpen") ELSE cb
         IN [probing EXCEPT !.halfOpenRequests = @ + 1]

\* Mutant: a success in closed state does not end the run of failures.
AfterSuccessKeepsFailures(cb) ==
    IF cb.state # "halfOpen" THEN cb
    ELSE IF cb.successCount + 1 >= SuccessThreshold THEN Entered("closed")
    ELSE [cb EXCEPT !.successCount = @ + 1]

AfterSuccess(cb) ==
    IF cb.state # "halfOpen" THEN
        [cb EXCEPT !.failureCount = 0,
                   !.successCount = IF cb.state = "closed" THEN 0 ELSE @]
    ELSE IF cb.successCount + 1 >= SuccessThreshold THEN Entered("closed")
    ELSE [cb EXCEPT !.successCount = @ + 1, !.failureCount = 0]

\* Mutant: a breaker that opens keeps the count of the failures that opened it.
AfterFailureKeepsCount(cb) ==
    IF cb.state = "halfOpen" THEN Entered("open")
    ELSE IF cb.state = "open" THEN [cb EXCEPT !.successCount = 0]
    ELSE IF cb.failureCount + 1 >= FailureThreshold
         THEN [Entered("open") EXCEPT !.failureCount = cb.failureCount + 1]
    ELSE [cb EXCEPT !.failureCount = @ + 1, !.successCount = 0]

AfterFailure(cb) ==
    IF cb.state = "halfOpen" THEN Entered("open")
    ELSE IF cb.state = "open" THEN [cb EXCEPT !.successCount = 0]
    ELSE IF cb.failureCount + 1 >= FailureThreshold THEN Entered("open")
    ELSE [cb EXCEPT !.failureCount = @ + 1, !.successCount = 0]

\* The counts belong to the current period only: no failure is carried into
\* open or half-open, no success or slot out of half-open, and half-open is
\* entered with its first slot taken.
PeriodCounts(cb) ==
    /\ cb.state = "closed" => cb.successCount = 0 /\ cb.halfOpenRequests = 0
    /\ cb.state = "open" =>
        cb.failureCount = 0 /\ cb.successCount = 0 /\ cb.halfOpenRequests = 0
    /\ cb.state = "halfOpen" => cb.failureCount = 0 /\ cb.halfOpenRequests # 0
    /\ cb.timedOut => cb.state = "open"
=============================================================================
