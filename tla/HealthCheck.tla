---------------------------- MODULE HealthCheck ----------------------------
(***************************************************************************)
(* healthcheck/healthcheck.go: Checker. Its map and each EndpointHealth    *)
(* have a lock of their own; what interleaves is the loop, the goroutines  *)
(* of a round, the callbacks they make after unlocking, the users that add *)
(* and remove endpoints, and the users that call Start and Stop.           *)
(***************************************************************************)
EXTENDS Integers, FiniteSets

CONSTANTS
    Addr,                \* endpoint addresses
    Health,              \* EndpointHealth objects; one nobody holds may be made again
    User,                \* goroutines that call Start and Stop
    Loop,                \* BOUND: loop goroutines alive at once
    None,                \* absent entry of c.endpoints
    UnhealthyThreshold,  \* Config.UnhealthyThreshold
    HealthyThreshold     \* Config.HealthyThreshold

ASSUME CheckerAssumption ==
    /\ UnhealthyThreshold \in Nat \ {0}
    /\ HealthyThreshold \in Nat \ {0}
    /\ None \notin Health

VARIABLES
    endpoints,   \* c.endpoints
    health,      \* the EndpointHealth objects
    running,     \* c.running; once started, c.stopCh is closed when it is false
    loop,        \* loop goroutines, each with its round of checks
    user,        \* where each user is in Start or Stop
    up,          \* the servers that answer
    told         \* history: per object, the last status OnStatusChange reported

vars == <<endpoints, health, running, loop, user, up, told>>

Status == {"unknown", "healthy", "unhealthy"}

\* Counts stop at their threshold, beyond which the code treats all alike.
EndpointHealth == [addr : Addr, status : Status,
                   fails : 0..UnhealthyThreshold, oks : 0..HealthyThreshold]

\* A status change whose callback has not run yet.
Change == [health : Health, status : Status]

Unknown(a) == [addr |-> a, status |-> "unknown", fails |-> 0, oks |-> 0]

LoopState == [pc : {"none", "begin", "checking", "waiting"}, stopped : BOOLEAN,
              todo : SUBSET Health, changes : SUBSET Change]

NoLoop == [pc |-> "none", stopped |-> FALSE, todo |-> {}, changes |-> {}]

Alive(l) == loop[l].pc # "none"
Listed == {endpoints[a] : a \in Addr} \ {None}
Reported(h) == \E l \in Loop : \E ch \in loop[l].changes : ch.health = h
Held(h) == h \in Listed \/ Reported(h) \/ \E l \in Loop : h \in loop[l].todo

Init ==
    /\ endpoints = [a \in Addr |-> None]
    /\ health \in [Health -> {Unknown(a) : a \in Addr}]
    /\ running = FALSE
    /\ loop = [l \in Loop |-> NoLoop]
    /\ user = [u \in User |-> "idle"]
    /\ up \in [Addr -> BOOLEAN]
    /\ told = [h \in Health |-> "unknown"]

-----------------------------------------------------------------------------
(* The list of endpoints, under c.mu. *)

\* Known addresses keep their object, new ones get a fresh one.
Listing(addrs) ==
    \E made \in [{a \in addrs : endpoints[a] = None} -> {h \in Health : ~Held(h)}] :
        /\ \A a, b \in DOMAIN made : made[a] = made[b] => a = b
        /\ endpoints' = [a \in Addr |-> IF a \in DOMAIN made THEN made[a]
                                        ELSE IF a \in addrs THEN endpoints[a] ELSE None]
        /\ health' = [h \in Health |->
                        IF \E a \in DOMAIN made : made[a] = h
                        THEN Unknown(CHOOSE a \in DOMAIN made : made[a] = h)
                        ELSE health[h]]
        /\ told' = [h \in Health |-> IF \E a \in DOMAIN made : made[a] = h
                                     THEN "unknown" ELSE told[h]]
        /\ UNCHANGED <<running, loop, user, up>>

Known == {a \in Addr : endpoints[a] # None}

AddEndpoint(a) == Listing(Known \cup {a})
RemoveEndpoint(a) == Listing(Known \ {a})
SetEndpoints(addrs) == Listing(addrs)

\* Unknown endpoints, and those not checked yet, are considered healthy.
IsHealthy(a) == endpoints[a] = None \/ health[endpoints[a]].status # "unhealthy"

-----------------------------------------------------------------------------
(* Start and Stop. The WaitGroup's count is the number of loops alive. *)

\* Start returns at once if the checker runs.
Starts == ~running

StartLocked(u) ==
    /\ user[u] = "idle"
    /\ Starts
    /\ running' = TRUE
    /\ user' = [user EXCEPT ![u] = "starting"]
    /\ UNCHANGED <<endpoints, health, loop, up, told>>

\* wg.Add and go, after the lock was released.
StartGo(u) ==
    /\ user[u] = "starting"
    /\ \E l \in Loop :
        /\ ~Alive(l)
        /\ loop' = [loop EXCEPT ![l].pc = "begin"]
    /\ user' = [user EXCEPT ![u] = "idle"]
    /\ UNCHANGED <<endpoints, health, running, up, told>>

\* Stop closes stopCh, the channel of every loop that waits on an open one.
StopLocked(u) ==
    /\ user[u] = "idle"
    /\ running
    /\ running' = FALSE
    /\ loop' = [l \in Loop |-> [loop[l] EXCEPT !.stopped = (loop[l].pc = "waiting")]]
    /\ user' = [user EXCEPT ![u] = "stopping"]
    /\ UNCHANGED <<endpoints, health, up, told>>

\* Mutant: Stop does not wait for the loop.
AllDoneUnwaited == TRUE

\* wg.Wait.
AllDone == \A l \in Loop : ~Alive(l)

StopReturns(u) ==
    /\ user[u] = "stopping"
    /\ AllDone
    /\ user' = [user EXCEPT ![u] = "idle"]
    /\ UNCHANGED <<endpoints, health, running, loop, up, told>>

-----------------------------------------------------------------------------
(* loop and checkAll. *)

\* The first round, or the ticker: checkAll takes the objects listed now.
RoundStart(l) ==
    /\ loop[l].pc \in {"begin", "waiting"}
    /\ loop' = [loop EXCEPT ![l] = [NoLoop EXCEPT !.pc = "checking", !.todo = Listed]]
    /\ UNCHANGED <<endpoints, health, running, user, up, told>>

\* Mutant: a Stop during the round is missed, as with a signal that is not kept.
WaitsOnClosedMissed == FALSE

\* The select reads c.stopCh again: closed by a Stop during the round, unless a
\* Start has put an open one there since.
WaitsOnClosed == ~running

\* Mutant: checkAll does not wait for its goroutines' callbacks.
RoundOverUnlessUnchecked(l) == loop[l].todo = {}

\* wg.Wait of checkAll: every goroutine of the round is done, its callback too.
RoundOver(l) == loop[l].todo = {} /\ loop[l].changes = {}

RoundEnd(l) ==
    /\ loop[l].pc = "checking"
    /\ RoundOver(l)
    /\ loop' = [loop EXCEPT ![l].pc = "waiting", ![l].stopped = WaitsOnClosed]
    /\ UNCHANGED <<endpoints, health, running, user, up, told>>

LoopExit(l) ==
    /\ loop[l].pc = "waiting"
    /\ loop[l].stopped
    /\ loop' = [loop EXCEPT ![l] = NoLoop]
    /\ UNCHANGED <<endpoints, health, running, user, up, told>>

-----------------------------------------------------------------------------
(* checkEndpoint, one per object of the round. *)

\* What doHealthCheck may find: [left, state], whether the connection left IDLE
\* before the timeout, and its state when it is read. A connection to a server
\* that answers is CONNECTING, then READY, then IDLE if the server hangs up.
Outcomes(isUp) ==
    IF isUp THEN [left : {TRUE}, state : {"CONNECTING", "READY", "IDLE"}]
    ELSE [left : {TRUE}, state : {"CONNECTING", "TRANSIENT_FAILURE"}]
         \cup [left : {FALSE}, state : {"IDLE"}]

\* doHealthCheck returns nil.
Passes(o) == IF o.left THEN o.state \in {"READY", "IDLE"} ELSE o.state = "READY"

Atmost(n, limit) == IF n < limit THEN n ELSE limit

\* Mutant: a success does not start the count of failures again.
CheckedKeepsFails(eh, ok) ==
    IF ok
    THEN LET n == Atmost(eh.oks + 1, HealthyThreshold) IN
         [eh EXCEPT !.oks = n, !.status = IF n >= HealthyThreshold THEN "healthy" ELSE @]
    ELSE LET n == Atmost(eh.fails + 1, UnhealthyThreshold) IN
         [eh EXCEPT !.oks = 0, !.fails = n,
                    !.status = IF n >= UnhealthyThreshold THEN "unhealthy" ELSE @]

\* Mutant: every check starts both counts again.
CheckedAnew(eh, ok) ==
    IF ok
    THEN [eh EXCEPT !.fails = 0, !.oks = 1,
                    !.status = IF 1 >= HealthyThreshold THEN "healthy" ELSE @]
    ELSE [eh EXCEPT !.oks = 0, !.fails = 1,
                    !.status = IF 1 >= UnhealthyThreshold THEN "unhealthy" ELSE @]

\* The object after a check, under its lock.
Checked(eh, ok) ==
    IF ok
    THEN LET n == Atmost(eh.oks + 1, HealthyThreshold) IN
         [eh EXCEPT !.fails = 0, !.oks = n,
                    !.status = IF n >= HealthyThreshold THEN "healthy" ELSE @]
    ELSE LET n == Atmost(eh.fails + 1, UnhealthyThreshold) IN
         [eh EXCEPT !.oks = 0, !.fails = n,
                    !.status = IF n >= UnhealthyThreshold THEN "unhealthy" ELSE @]

CheckEndpoint(l, h) ==
    /\ h \in loop[l].todo
    /\ \E o \in Outcomes(up[health[h].addr]) :
        LET new == Checked(health[h], Passes(o)) IN
        /\ health' = [health EXCEPT ![h] = new]
        /\ loop' = [loop EXCEPT
                        ![l].todo = @ \ {h},
                        ![l].changes = IF new.status = health[h].status THEN @
                                       ELSE @ \cup {[health |-> h, status |-> new.status]}]
    /\ UNCHANGED <<endpoints, running, user, up, told>>

\* OnStatusChange, after the lock was released.
Notify(l, h) ==
    /\ \E ch \in loop[l].changes :
        /\ ch.health = h
        /\ told' = [told EXCEPT ![h] = ch.status]
        /\ loop' = [loop EXCEPT ![l].changes = @ \ {ch}]
    /\ UNCHANGED <<endpoints, health, running, user, up>>

\* A server starts or stops answering (external).
ServerChanges(a) ==
    /\ up' = [up EXCEPT ![a] = ~@]
    /\ UNCHANGED <<endpoints, health, running, loop, user, told>>

Next ==
    \/ \E a \in Addr : AddEndpoint(a) \/ RemoveEndpoint(a) \/ ServerChanges(a)
    \/ \E addrs \in SUBSET Addr : SetEndpoints(addrs)
    \/ \E u \in User : StartLocked(u) \/ StartGo(u) \/ StopLocked(u) \/ StopReturns(u)
    \/ \E l \in Loop : \/ RoundStart(l) \/ RoundEnd(l) \/ LoopExit(l)
                       \/ \E h \in Health : CheckEndpoint(l, h) \/ Notify(l, h)

Spec == Init /\ [][Next]_vars

\* Goroutines run, checks end by their timeout, the ticker ticks. The select that
\* finds both the ticker and a closed channel chooses at random, so it does not
\* choose the ticker for ever.
Fairness ==
    /\ \A u \in User : WF_vars(StartGo(u)) /\ WF_vars(StopReturns(u))
    /\ \A l \in Loop :
        /\ WF_vars(RoundStart(l)) /\ WF_vars(RoundEnd(l)) /\ SF_vars(LoopExit(l))
        /\ \A h \in Health : WF_vars(CheckEndpoint(l, h)) /\ WF_vars(Notify(l, h))

FairSpec == Spec /\ Fairness

-----------------------------------------------------------------------------
(* Properties. *)

\* The fields of the checker, its objects and its goroutines are of their types,
\* and only a loop in a round has checks or callbacks of its own under way.
TypeOK ==
    /\ endpoints \in [Addr -> Health \cup {None}]
    /\ health \in [Health -> EndpointHealth]
    /\ running \in BOOLEAN
    /\ loop \in [Loop -> LoopState]
    /\ \A l \in Loop : loop[l].pc = "checking" \/ (loop[l].todo = {} /\ loop[l].changes = {})
    /\ user \in [User -> {"idle", "starting", "stopping"}]
    /\ up \in [Addr -> BOOLEAN]
    /\ told \in [Health -> Status]

\* An endpoint's status agrees with the run of results it counts, whichever
\* round, of whichever loop, they come from: nothing healthy has failed often
\* enough in a row, nothing unhealthy has passed often enough in a row.
StatusMatchesCounts ==
    \A h \in Health :
        LET eh == health[h] IN
        /\ eh.fails = 0 \/ eh.oks = 0
        /\ eh.status # "unhealthy" => eh.fails < UnhealthyThreshold
        /\ eh.status # "healthy" => eh.oks < HealthyThreshold

\* Every object's status is one its results account for.
StatusEarned == TypeOK /\ StatusMatchesCounts

\* Stop, line 214: "Stop stops the health check loop". Once Stop has returned and
\* nobody starts again, no loop is left that checks or reports.
QuietAfterStop ==
    (~running /\ \A u \in User : user[u] = "idle") => \A l \in Loop : ~Alive(l)

\* There is one loop at most, so one round of checks at a time, however Start and
\* Stop follow each other.
OneLoop == \A l, m \in Loop : Alive(l) /\ Alive(m) => l = m

\* Start and Stop keep the loop they own: one while running, none after Stop.
LoopOwned == QuietAfterStop /\ OneLoop

\* The callbacks of an endpoint, made outside its lock, arrive in the order of
\* its changes: when none is outstanding, the last one told its status.
ToldLatest == \A h \in Health : ~Reported(h) => told[h] = health[h].status

\* Stop returns: no loop misses that its channel was closed, in a round or not.
StopEnds == \A u \in User : user[u] = "stopping" ~> user[u] = "idle"

\* An endpoint whose server stops answering for good is found unhealthy, if the
\* checker keeps running and the endpoint keeps being listed.
DownIsFound ==
    \A a \in Addr : <>[](running /\ endpoints[a] # None /\ ~up[a]) => <>[]~IsHealthy(a)
=============================================================================
