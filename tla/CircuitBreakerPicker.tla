------------------------ MODULE CircuitBreakerPicker ------------------------
(***************************************************************************)
(* picker/circuitbreaker_picker.go with circuitbreaker.Manager: the picker *)
(* builders that keep endpoints with open circuits, or unhealthy ones, out *)
(* of the inner picker. The breakers are asked one by one while a picker   *)
(* is built; requests report to them whenever they finish.                 *)
(***************************************************************************)
EXTENDS CircuitBreaker

CONSTANTS
    Addr,        \* endpoint addresses; one READY SubConn each
    Request,     \* calls under way at once
    UsesHealth   \* CombinedPickerBuilder rather than CircuitBreakerPickerBuilder

ASSUME PickerAssumption == UsesHealth \in BOOLEAN

VARIABLES
    breakers,   \* manager.breakers
    build,      \* the Build call under way
    usable,     \* the SubConns of the inner picker in use
    ready,      \* the ReadySCs the picker in use was built from
    request,    \* calls: [addr, orphan], addr = NoAddr if not under way
    streak      \* history: per endpoint, the last results of its breaker

vars == <<breakers, build, usable, ready, request, streak>>

NoAddr == "none"

NoBuild == [active |-> FALSE, todo |-> {}, ready |-> {}, healthy |-> {}, admitted |-> {}]
NoRequest == [addr |-> NoAddr, orphan |-> FALSE]

Cap == IF FailureThreshold > SuccessThreshold THEN FailureThreshold ELSE SuccessThreshold
NoStreak == [failures |-> 0, successes |-> 0]
Longer(n) == IF n < Cap THEN n + 1 ELSE n

\* Manager.Get: the breaker of an address, made when first asked for.
Get(a) == IF a \in DOMAIN breakers THEN breakers[a] ELSE New

\* The map once address a has breaker cb.
Holding(a, cb) ==
    [b \in DOMAIN breakers \cup {a} |-> IF b = a THEN cb ELSE breakers[b]]

Init ==
    /\ breakers = [a \in {} |-> New]
    /\ build = NoBuild
    /\ usable = {}
    /\ ready = {}
    /\ request = [r \in Request |-> NoRequest]
    /\ streak = [a \in Addr |-> NoStreak]

-----------------------------------------------------------------------------
(* Build, called by one balancer under its lock, hence one at a time. A
   FilteredPickerBuilder outside, which also builds while it picks, or a builder
   shared by several clients would interleave Builds: neither is modelled. *)

BuildStart ==
    /\ ~build.active
    /\ \E r \in SUBSET Addr, h \in (IF UsesHealth THEN SUBSET Addr ELSE {{}}) :
        build' = [active |-> TRUE, todo |-> r, ready |-> r, healthy |-> h, admitted |-> {}]
    /\ UNCHANGED <<breakers, usable, ready, request, streak>>

\* An empty list of healthy addresses counts as "all healthy".
IsHealthy(a) == build.healthy = {} \/ a \in build.healthy

\* One round of the loop: Allow is called whether or not the endpoint is healthy.
BuildAllow(a) ==
    /\ build.active
    /\ a \in build.todo
    /\ breakers' = Holding(a, AfterAllow(Get(a)))
    /\ build' = [build EXCEPT
                    !.todo = @ \ {a},
                    !.admitted = IF Admits(Get(a)) /\ IsHealthy(a) THEN @ \cup {a} ELSE @]
    /\ UNCHANGED <<usable, ready, request, streak>>

\* Mutant: no fallback when every endpoint was filtered out.
FilteredOnly(admitted, all) == admitted

\* "If all circuits are open, use original list to prevent complete outage".
Filtered(admitted, all) == IF admitted = {} THEN all ELSE admitted

BuildFinish ==
    /\ build.active
    /\ build.todo = {}
    /\ usable' = Filtered(build.admitted, build.ready)
    /\ ready' = build.ready
    /\ build' = NoBuild
    /\ UNCHANGED <<breakers, request, streak>>

-----------------------------------------------------------------------------
(* circuitBreakerPicker.Pick and the Done callback it installs. *)

\* The inner policy may choose any SubConn of its picker; the breaker is not asked.
Pick(r, a) ==
    /\ request[r].addr = NoAddr
    /\ a \in usable
    /\ breakers' = Holding(a, Get(a))
    /\ request' = [request EXCEPT ![r] = [addr |-> a, orphan |-> FALSE]]
    /\ UNCHANGED <<build, usable, ready, streak>>

\* Done reports to the breaker of the pick; nobody sees a removed one any more.
Done(r, failed) ==
    LET a == request[r].addr IN
    /\ a # NoAddr
    /\ request' = [request EXCEPT ![r] = NoRequest]
    /\ IF request[r].orphan
       THEN UNCHANGED <<breakers, streak>>
       ELSE IF failed
       THEN /\ breakers' = [breakers EXCEPT ![a] = AfterFailure(@)]
            /\ streak' = [streak EXCEPT ![a] =
                            [failures |-> Longer(@.failures), successes |-> 0]]
       ELSE /\ breakers' = [breakers EXCEPT ![a] = AfterSuccess(@)]
            /\ streak' = [streak EXCEPT ![a] =
                            [failures |-> 0, successes |-> Longer(@.successes)]]
    /\ UNCHANGED <<build, usable, ready>>

-----------------------------------------------------------------------------
(* The manager's users and the clock. *)

\* Manager.Reset closes every breaker.
Reset ==
    /\ breakers' = [a \in DOMAIN breakers |-> New]
    /\ UNCHANGED <<build, usable, ready, request, streak>>

\* Manager.Remove: requests under way keep the breaker nobody can reach.
Remove(a) ==
    /\ a \in DOMAIN breakers
    /\ breakers' = [b \in DOMAIN breakers \ {a} |-> breakers[b]]
    /\ request' = [r \in Request |->
                    IF request[r].addr = a THEN [request[r] EXCEPT !.orphan = TRUE]
                    ELSE request[r]]
    /\ streak' = [streak EXCEPT ![a] = NoStreak]
    /\ UNCHANGED <<build, usable, ready>>

\* OpenTimeout passes.
TimeoutPasses(a) ==
    /\ a \in DOMAIN breakers
    /\ breakers[a].state = "open"
    /\ ~breakers[a].timedOut
    /\ breakers' = [breakers EXCEPT ![a].timedOut = TRUE]
    /\ UNCHANGED <<build, usable, ready, request, streak>>

Next ==
    \/ BuildStart \/ BuildFinish \/ Reset
    \/ \E a \in Addr : \/ BuildAllow(a) \/ Remove(a) \/ TimeoutPasses(a)
                       \/ \E r \in Request : Pick(r, a)
    \/ \E r \in Request, failed \in BOOLEAN : Done(r, failed)

Spec == Init /\ [][Next]_vars

\* Calls end, time passes, a Build that started ends, and no endpoint that keeps
\* being in a picker is left out for ever: the callers keep calling, and the
\* policies that choose go round.
Fairness ==
    /\ WF_vars(BuildFinish)
    /\ \A a \in Addr : WF_vars(BuildAllow(a)) /\ WF_vars(TimeoutPasses(a))
    /\ \A r \in Request : WF_vars(\E failed \in BOOLEAN : Done(r, failed))
    /\ \A a \in Addr : SF_vars(\E r \in Request : Pick(r, a))

FairSpec == Spec /\ Fairness

-----------------------------------------------------------------------------
(* Properties. *)

\* Breakers, the Build under way and the requests are of their types.
TypeOK ==
    /\ DOMAIN breakers \subseteq Addr
    /\ breakers \in [DOMAIN breakers -> Breaker]
    /\ build \in [active : BOOLEAN, todo : SUBSET Addr, ready : SUBSET Addr,
                  healthy : SUBSET Addr, admitted : SUBSET Addr]
    /\ usable \in SUBSET Addr
    /\ ready \in SUBSET Addr
    /\ request \in [Request -> [addr : Addr \cup {NoAddr}, orphan : BOOLEAN]]
    /\ streak \in [Addr -> [failures : 0..Cap, successes : 0..Cap]]

\* No count survives the period it belongs to, although results of requests
\* picked in an earlier period arrive in every later one.
NoCarryOver == \A a \in DOMAIN breakers : PeriodCounts(breakers[a])

\* No count or slot passes its limit, within a period or by surviving one.
Limits == TypeOK /\ NoCarryOver

\* The filter never turns READY endpoints into an outage: a picker built from
\* some offers some, whatever the breakers answered while it was built.
NoOutage == usable \subseteq ready /\ (ready # {} => usable # {})

\* Config, line 37: a circuit opens from closed only when the last
\* FailureThreshold results were all failures, whenever their requests began.
OpensAfterFailures ==
    [][\A a \in DOMAIN breakers \cap DOMAIN breakers' :
        (breakers[a].state = "closed" /\ breakers'[a].state = "open")
        => streak'[a].failures >= FailureThreshold]_vars

\* Config, line 39: only a run of SuccessThreshold successes, or Reset, closes a
\* circuit that is half-open; any failure in between starts the wait again.
ClosesAfterSuccesses ==
    [][\A a \in DOMAIN breakers \cap DOMAIN breakers' :
        (breakers[a].state = "halfOpen" /\ breakers'[a].state = "closed")
        => streak'[a].successes >= SuccessThreshold \/ Reset]_vars

\* A circuit is opened by failures in a row and closed by successes in a row, never
\* by the results of an earlier period.
MovesAreEarned == OpensAfterFailures /\ ClosesAfterSuccesses

\* A circuit closes again once its calls stop failing, as long as pickers are
\* rebuilt: the fallback keeps probing an endpoint whose half-open slots are
\* spent. It holds of a sole endpoint only: while another circuit is closed there is
\* no fallback, and an endpoint whose slots were spent by Builds stays half-open.
Recovers ==
    \A a \in Addr :
        (/\ []<>(a \in build.todo)
         /\ <>[][\A r \in Request : request[r].addr = a => ~Done(r, TRUE)]_vars)
        => <>[](Get(a).state = "closed")
=============================================================================
