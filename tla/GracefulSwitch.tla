--------------------------- MODULE GracefulSwitch ---------------------------
(***************************************************************************)
(* picker/graceful.go: GracefulSwitchPicker and the builder that feeds it. *)
(* UpdatePicker and the swap run under g.mu, but Pick reads the picker and *)
(* counts the request in two steps, and a drain goroutine reads the count  *)
(* before it takes the lock, so each of those is an action of its own.     *)
(***************************************************************************)
EXTENDS Integers, FiniteSets

CONSTANTS
    Picker,    \* pickers the inner builder makes; an unused one may be made again
    Request,   \* calls of Pick under way at once
    Drainer,   \* BOUND: drainAndSwap goroutines alive at once
    None       \* nil

ASSUME SwitchAssumption == IsFiniteSet(Request) /\ None \notin Picker

VARIABLES
    currentPicker, currentState,
    pendingPicker, pendingState,
    inflightCount, drainInProgress,
    request,       \* Pick calls: [pc, picker]
    drainer,       \* drainAndSwap goroutines: where each one is
    latest         \* history: the picker of the last UpdatePicker

switchVars == <<currentPicker, currentState, pendingPicker, pendingState,
                inflightCount, drainInProgress>>
vars == <<switchVars, request, drainer, latest>>

\* The two states GracefulPickerBuilder.Build passes.
State == {"READY", "TRANSIENT_FAILURE"}

NotPicking == [pc |-> "idle", picker |-> None]

Counted(r) == request[r].pc \in {"picking", "serving"}

Init ==
    /\ currentPicker = None
    /\ currentState = "IDLE"
    /\ pendingPicker = None
    /\ pendingState = "IDLE"
    /\ inflightCount = 0
    /\ drainInProgress = FALSE
    /\ request = [r \in Request |-> NotPicking]
    /\ drainer = [d \in Drainer |-> "none"]
    /\ latest = None

-----------------------------------------------------------------------------
(* UpdatePicker, one action per branch; the last branch of the code, "other
   cases", is unreachable. *)

\* "No picker yet", or neither the old state nor the new one is Ready.
ReplaceAtOnce(p, state) ==
    /\ currentPicker = None \/ (currentState # "READY" /\ state # "READY")
    /\ currentPicker' = p
    /\ currentState' = state
    /\ UNCHANGED <<pendingPicker, pendingState, inflightCount, drainInProgress,
                   drainer>>

\* Mutant: the pending picker is kept when the Ready one replaces the current.
PendingAfterReadyKept == pendingPicker

\* A Ready picker cancels the switch under way.
PendingAfterReady == None

\* The new state is Ready: the new picker replaces both, the drain goroutine lives on.
ReplaceByReady(p, state) ==
    /\ currentPicker # None
    /\ state = "READY"
    /\ currentPicker' = p
    /\ currentState' = state
    /\ pendingPicker' = PendingAfterReady
    /\ drainInProgress' = FALSE
    /\ UNCHANGED <<pendingState, inflightCount, drainer>>

\* Ready to not Ready: swapped at once if nothing is in flight, else pending.
Defer(p, state) ==
    /\ currentPicker # None
    /\ currentState = "READY"
    /\ state # "READY"
    /\ pendingState' = state
    /\ IF inflightCount = 0
       THEN /\ currentPicker' = p
            /\ currentState' = state
            /\ pendingPicker' = None
            /\ drainInProgress' = FALSE
            /\ UNCHANGED drainer
       ELSE /\ pendingPicker' = p
            /\ drainInProgress' = TRUE
            /\ IF drainInProgress
               THEN UNCHANGED drainer
               ELSE \E d \in Drainer :
                        /\ drainer[d] = "none"
                        /\ drainer' = [drainer EXCEPT ![d] = "waiting"]
            /\ UNCHANGED <<currentPicker, currentState>>
    /\ UNCHANGED inflightCount

(* GracefulPickerBuilder.Build: a new inner picker, Ready unless it has no SubConn. *)
Build(p, state) ==
    /\ p \notin {currentPicker, pendingPicker}
    /\ \A r \in Request : request[r].picker # p
    /\ ReplaceAtOnce(p, state) \/ ReplaceByReady(p, state) \/ Defer(p, state)
    /\ latest' = p
    /\ UNCHANGED request

-----------------------------------------------------------------------------
(* drainAndSwap. *)

\* The poll before the deadline finds nothing in flight; the lock is not held yet.
DrainSeesNone(d) ==
    /\ drainer[d] = "waiting"
    /\ inflightCount = 0
    /\ drainer' = [drainer EXCEPT ![d] = "drained"]
    /\ UNCHANGED <<switchVars, request, latest>>

\* The deadline passes.
DrainExpires(d) ==
    /\ drainer[d] = "waiting"
    /\ drainer' = [drainer EXCEPT ![d] = "expired"]
    /\ UNCHANGED <<switchVars, request, latest>>

\* Mutant: the goroutine gives up if requests are in flight after all.
SwapsIfNoneInFlight == pendingPicker # None /\ inflightCount = 0

\* swapPickersLocked does nothing without a pending picker.
Swaps == pendingPicker # None

DrainSwap(d) ==
    /\ drainer[d] \in {"drained", "expired"}
    /\ drainer' = [drainer EXCEPT ![d] = "none"]
    /\ IF Swaps
       THEN /\ currentPicker' = pendingPicker
            /\ currentState' = pendingState
            /\ pendingPicker' = None
            /\ drainInProgress' = FALSE
       ELSE UNCHANGED <<currentPicker, currentState, pendingPicker, drainInProgress>>
    /\ UNCHANGED <<pendingState, inflightCount, request, latest>>

-----------------------------------------------------------------------------
(* Pick. *)

PickLoad(r) ==
    /\ request[r].pc = "idle"
    /\ currentPicker # None
    /\ request' = [request EXCEPT ![r] = [pc |-> "loaded", picker |-> currentPicker]]
    /\ UNCHANGED <<switchVars, drainer, latest>>

PickCount(r) ==
    /\ request[r].pc = "loaded"
    /\ inflightCount' = inflightCount + 1
    /\ request' = [request EXCEPT ![r].pc = "picking"]
    /\ UNCHANGED <<currentPicker, currentState, pendingPicker, pendingState,
                   drainInProgress, drainer, latest>>

PickSucceeds(r) ==
    /\ request[r].pc = "picking"
    /\ request' = [request EXCEPT ![r].pc = "serving"]
    /\ UNCHANGED <<switchVars, drainer, latest>>

\* Mutant: a pick that failed is not taken off the count.
UncountedIfServed(r) == IF request[r].pc = "serving" THEN 1 ELSE 0

\* What the end of a pick takes off the count.
Uncounted(r) == 1

\* The inner picker fails, or the call's Done runs.
PickEnds(r) ==
    /\ Counted(r)
    /\ inflightCount' = inflightCount - Uncounted(r)
    /\ request' = [request EXCEPT ![r] = NotPicking]
    /\ UNCHANGED <<currentPicker, currentState, pendingPicker, pendingState,
                   drainInProgress, drainer, latest>>

Next ==
    \/ \E p \in Picker, state \in State : Build(p, state)
    \/ \E d \in Drainer : DrainSeesNone(d) \/ DrainExpires(d) \/ DrainSwap(d)
    \/ \E r \in Request : PickLoad(r) \/ PickCount(r) \/ PickSucceeds(r) \/ PickEnds(r)

Spec == Init /\ [][Next]_vars

\* Time passes and goroutines run. No request is assumed to end.
Fairness == \A d \in Drainer : WF_vars(DrainExpires(d)) /\ WF_vars(DrainSwap(d))

FairSpec == Spec /\ Fairness

-----------------------------------------------------------------------------
(* Properties. *)

\* The fields of the switch, its requests and its goroutines are of their types.
TypeOK ==
    /\ currentPicker \in Picker \cup {None}
    /\ pendingPicker \in Picker \cup {None}
    /\ latest \in Picker \cup {None}
    /\ currentState \in State \cup {"IDLE"}
    /\ pendingState \in State \cup {"IDLE"}
    /\ inflightCount \in Nat
    /\ drainInProgress \in BOOLEAN
    /\ request \in [Request -> [pc : {"idle", "loaded", "picking", "serving"},
                                picker : Picker \cup {None}]]
    /\ drainer \in [Drainer -> {"none", "waiting", "drained", "expired"}]

\* The count a drain waits on is that of the requests between the increment and
\* the failed pick or Done: none is leaked, which would make every drain time
\* out, and none is taken off twice, which would end a drain early.
InflightExact ==
    inflightCount = Cardinality({r \in Request : Counted(r)})

\* The count never goes below zero, and it is exact.
Counts == TypeOK /\ InflightExact

\* A pending picker is never forgotten: it waits behind a Ready picker, and a
\* goroutine that will swap it in is alive, although stale goroutines of earlier
\* drains may swap or finish at any moment.
PendingIsDrained ==
    /\ pendingPicker # None <=> drainInProgress
    /\ drainInProgress => /\ currentState = "READY"
                          /\ pendingState # "READY"
                          /\ \E d \in Drainer : drainer[d] # "none"

\* The switch implements Handover: the picker requests get is only ever replaced
\* by the newest one, no older picker resurfaces from a drain, and the newest one
\* is put to use in the end even if requests never finish.
H == INSTANCE Handover WITH offered <- latest, active <- currentPicker
ImplementsHandover == H!HSpec
=============================================================================
