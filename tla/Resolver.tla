------------------------------ MODULE Resolver ------------------------------
(* grpclient/resolver/resolver.go: the list the client gives to its gRPC     *)
(* channel, kept for the times the channel is idle and has closed it. Every  *)
(* method runs under r.mu, so each is one step.                              *)
EXTENDS Naturals, Sequences, Endpoint

CONSTANT NoState    \* no state of a resolver: a nil pointer, an idle channel

VARIABLES
    endpoints,      \* r.endpoints
    attributes,     \* r.attributes, by endpoint
    lastSeenState,
    built,          \* r.cc # nil
    channel         \* the state the channel works with

resolverVars == <<endpoints, attributes, lastSeenState, built, channel>>

\* The addresses of a list, each with the attributes of its endpoint, if any.
StateOf(eps, attrs) ==
    [i \in DOMAIN eps |->
        [addr |-> Interpret(eps[i]),
         attrs |-> IF eps[i] \in DOMAIN attrs THEN attrs[eps[i]] ELSE NoState]]

\* NewCustomizeResolver
ResolverInit(eps, attrs) ==
    /\ endpoints = eps
    /\ attributes = attrs
    /\ lastSeenState = NoState
    /\ built = FALSE
    /\ channel = NoState

\* Mutant: a state is remembered only while there is no channel to give it to.
updateStateLockedOnce(eps, attrs, hasCC) ==
    /\ lastSeenState' = IF hasCC /\ lastSeenState # NoState THEN lastSeenState
                        ELSE StateOf(eps, attrs)
    /\ channel' = IF hasCC THEN StateOf(eps, attrs) ELSE channel

updateStateLocked(eps, attrs, hasCC) ==
    /\ lastSeenState' = StateOf(eps, attrs)
    /\ channel' = IF hasCC THEN StateOf(eps, attrs) ELSE channel

\* The channel starts, or leaves the idle state.
Build ==
    /\ ~built
    /\ built' = TRUE
    /\ IF lastSeenState # NoState
       THEN channel' = lastSeenState /\ UNCHANGED lastSeenState
       ELSE updateStateLocked(endpoints, attributes, TRUE)
    /\ UNCHANGED <<endpoints, attributes>>

SetEndpoints(eps, attrs) ==
    /\ endpoints' = eps
    /\ attributes' = attrs
    /\ updateStateLocked(eps, attrs, built)
    /\ UNCHANGED built

ResolveNow ==
    /\ built
    /\ lastSeenState # NoState
    /\ channel' = lastSeenState
    /\ UNCHANGED <<endpoints, attributes, lastSeenState, built>>

\* The channel becomes idle or is closed: it forgets the state it had.
Close ==
    /\ built
    /\ built' = FALSE
    /\ channel' = NoState
    /\ UNCHANGED <<endpoints, attributes, lastSeenState>>
=============================================================================
