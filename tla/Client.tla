------------------------------- MODULE Client -------------------------------
(* grpclient/client.go: NewClient, the goroutine that applies the events of  *)
(* the discovery, the user's SetEndpoints and Close, with the resolver and   *)
(* the gRPC channel they feed. A list is written under c.mu in two steps, the*)
(* configuration first, the resolver second.                                 *)
EXTENDS Discovery

CONSTANTS
    NoState,
    UserList,               \* the lists a user gives to SetEndpoints
    MaxConsecutiveErrors    \* 5 in the code

ASSUME ErrorsAssumption == MaxConsecutiveErrors \in Nat \ {0}

\* An empty list makes the balancer of the channel wait for itself, and with it
\* SetEndpoints, which holds c.mu (BaseBalancer, EmptyListRecorded).
ASSUME UserListAssumption == <<>> \notin UserList

VARIABLES
    phase,          \* of NewClient, then of the client's life
    cfgEndpoints,   \* c.cfg.Endpoints
    cfgAttributes,  \* c.cfg.Attributes
    mu,             \* who holds c.mu
    conn,           \* c.conn is open
    wpc,            \* where watchDiscovery is
    errors,         \* its consecutiveErrors, up to the bound
    hold,           \* the revision it is applying
    applied,        \* the revision it has applied last
    refetched,      \* it has fetched a list by itself
    endpoints, attributes, lastSeenState, built, channel    \* of the resolver

R == INSTANCE Resolver

watcherVars == <<wpc, errors, hold, applied, refetched>>
cfgVars == <<cfgEndpoints, cfgAttributes, mu>>
resolverVars == <<endpoints, attributes, lastSeenState, built, channel>>
clientVars == <<phase, conn, watcherVars, cfgVars, resolverVars>>
vars == <<discoveryVars, clientVars>>

HasWatcher == kind # "none"

Init ==
    /\ DiscoveryInit
    /\ phase = "new"
    /\ cfgEndpoints = <<>>
    /\ cfgAttributes = <<>>
    /\ mu = "free"
    /\ conn = FALSE
    /\ wpc = "off"
    /\ errors = 0
    /\ hold = 0
    /\ applied = 0
    /\ refetched = FALSE
    /\ R!ResolverInit(<<>>, <<>>)

(* NewClient *)

\* The limits of message sizes contradict each other: the one error return that
\* does not cancel the context it has made.
NewClientRefuses ==
    /\ phase = "new"
    /\ phase' = "refused"
    /\ UNCHANGED <<discoveryVars, conn, watcherVars, cfgVars, resolverVars>>

\* The first list, from the discovery or else from the configuration.
NewClientFetch ==
    /\ phase = "new"
    /\ Fetched
    /\ LET addrs == EndpointsToAddrs(Listed(Current))
           attrs == EndpointsToAttrsMap(Listed(Current))
       IN /\ cfgEndpoints' = addrs
          /\ cfgAttributes' = attrs
          /\ endpoints' = addrs
          /\ attributes' = attrs
    /\ phase' = IF Listed(Current) = <<>> THEN "failed" ELSE "dial"
    /\ ctxDone' = (ctxDone \/ Listed(Current) = <<>>)
    /\ applied' = Current
    /\ UNCHANGED <<kind, log, faults, channelVars, pc, out, resume, lastEps, wait,
                   answer, watch, mu, conn, wpc, errors, hold, refetched,
                   lastSeenState, built, channel>>

NewClientFetchFails ==
    /\ phase = "new"
    /\ HasWatcher
    /\ Fails
    /\ phase' = "failed"
    /\ ctxDone' = TRUE
    /\ UNCHANGED <<kind, log, channelVars, sourceVars, conn, watcherVars, cfgVars,
                   resolverVars>>

\* grpc.NewClient succeeds; with a DialTimeout, dial then waits for READY.
Dial ==
    /\ phase = "dial"
    /\ phase' = "connect"
    /\ conn' = TRUE
    /\ UNCHANGED <<discoveryVars, watcherVars, cfgVars, resolverVars>>

\* What NewClient undoes when it fails after it has dialled.
GivesUp ==
    /\ phase' = "failed"
    /\ ctxDone' = TRUE
    /\ conn' = FALSE
    /\ built' = FALSE
    /\ channel' = NoState
    /\ UNCHANGED <<kind, log, channelVars, sourceVars, watcherVars, cfgVars,
                   endpoints, attributes, lastSeenState>>

DialFails ==
    /\ phase = "connect"
    /\ GivesUp
    /\ UNCHANGED faults

Connected ==
    /\ phase = "connect"
    /\ phase' = IF HasWatcher THEN "watch" ELSE "running"
    /\ UNCHANGED <<discoveryVars, conn, watcherVars, cfgVars, resolverVars>>

startDiscoveryWatcher ==
    /\ phase = "watch"
    /\ Watch
    /\ wpc' = "select"
    /\ phase' = "running"
    /\ UNCHANGED <<kind, log, faults, ctxDone, conn, errors, hold, applied,
                   refetched, cfgVars, resolverVars>>

startDiscoveryWatcherFails ==
    /\ phase = "watch"
    /\ Fails
    /\ GivesUp

(* watchDiscovery *)

\* Mutant: too many errors end the watcher.
AfterErrorEnds(count) ==
    IF count >= MaxConsecutiveErrors THEN "exited" ELSE "select"

AfterError(count) ==
    IF count >= MaxConsecutiveErrors THEN "fetch" ELSE "select"

\* Take one event; a list goes on to be applied, an empty one is dropped.
Receive ==
    /\ wpc = "select"
    /\ events # <<>>
    /\ events' = Tail(events)
    /\ LET event == Head(events)
           list == IF event.rev = 0 THEN <<>> ELSE Listed(event.rev)
           count == IF errors < MaxConsecutiveErrors THEN errors + 1 ELSE errors
       IN \/ /\ event.type # "Error"
             /\ list # <<>>
             /\ errors' = IF event.type = "Update" THEN 0 ELSE errors
             /\ hold' = event.rev
             /\ wpc' = "lock"
          \/ /\ event.type # "Error"
             /\ list = <<>>
             /\ UNCHANGED <<errors, hold, wpc>>
          \/ /\ event.type = "Error"
             /\ errors' = count
             /\ wpc' = AfterError(count)
             /\ UNCHANGED hold
    /\ UNCHANGED <<kind, log, faults, ctxDone, closed, sourceVars, phase, conn,
                   applied, refetched, cfgVars, resolverVars>>

\* After too many errors it asks the discovery itself.
Refetch ==
    /\ wpc = "fetch"
    /\ Fetched
    /\ IF Listed(Current) # <<>>
       THEN /\ hold' = Current
            /\ wpc' = "lock"
            /\ errors' = 0
            /\ refetched' = TRUE
       ELSE wpc' = "select" /\ UNCHANGED <<hold, errors, refetched>>
    /\ UNCHANGED <<kind, log, faults, ctxDone, channelVars, pc, out, resume, lastEps,
                   wait, answer, watch, phase, conn, applied, cfgVars, resolverVars>>

RefetchFails ==
    /\ wpc = "fetch"
    /\ Fails
    /\ wpc' = "select"
    /\ UNCHANGED <<kind, log, ctxDone, channelVars, sourceVars, phase, conn, errors,
                   hold, applied, refetched, cfgVars, resolverVars>>

Lock ==
    /\ wpc = "lock"
    /\ mu = "free"
    /\ mu' = "watcher"
    /\ cfgEndpoints' = EndpointsToAddrs(Listed(hold))
    /\ cfgAttributes' = EndpointsToAttrsMap(Listed(hold))
    /\ wpc' = "push"
    /\ UNCHANGED <<discoveryVars, phase, conn, errors, hold, applied, refetched,
                   resolverVars>>

\* The resolver gets the list, c.mu is released; the user's callback follows.
Push ==
    /\ wpc = "push"
    /\ R!SetEndpoints(EndpointsToAddrs(Listed(hold)), EndpointsToAttrsMap(Listed(hold)))
    /\ mu' = "free"
    /\ applied' = hold
    /\ hold' = 0
    /\ wpc' = "callback"
    /\ UNCHANGED <<discoveryVars, phase, conn, errors, refetched,
                   cfgEndpoints, cfgAttributes>>

CallbackReturns ==
    /\ wpc = "callback"
    /\ wpc' = "select"
    /\ UNCHANGED <<discoveryVars, phase, conn, errors, hold, applied, refetched,
                   cfgVars, resolverVars>>

WatcherReturns ==
    /\ wpc = "select"
    /\ ctxDone \/ (closed /\ events = <<>>)
    /\ wpc' = "exited"
    /\ UNCHANGED <<discoveryVars, phase, conn, errors, hold, applied, refetched,
                   cfgVars, resolverVars>>

(* The user *)

HasClient == phase \in {"running", "closing", "closed"}

\* SetEndpoints keeps the attributes the last list of the discovery left.
SetEndpoints(eps) ==
    /\ HasClient
    /\ mu = "free"
    /\ mu' = "user"
    /\ cfgEndpoints' = eps
    /\ UNCHANGED <<discoveryVars, phase, conn, watcherVars, cfgAttributes, resolverVars>>

SetEndpointsPush ==
    /\ mu = "user"
    /\ R!SetEndpoints(cfgEndpoints, cfgAttributes)
    /\ mu' = "free"
    /\ UNCHANGED <<discoveryVars, phase, conn, watcherVars, cfgEndpoints, cfgAttributes>>

\* The context of the configuration, which the client's is derived from, ends.
ContextEnds ==
    /\ ~ctxDone
    /\ ctxDone' = TRUE
    /\ UNCHANGED <<kind, log, faults, channelVars, sourceVars, clientVars>>

CloseCancel ==
    /\ phase = "running"
    /\ phase' = "closing"
    /\ ctxDone' = TRUE
    /\ UNCHANGED <<kind, log, faults, channelVars, sourceVars, conn, watcherVars,
                   cfgVars, resolverVars>>

\* Mutant: Close does not wait for watchDone.
WatcherAnywhere == TRUE

WatcherDone == HasWatcher => wpc = "exited"

\* Close waits for the watcher, then closes the discovery and the connection.
CloseConn ==
    /\ phase = "closing"
    /\ WatcherDone
    /\ phase' = "closed"
    /\ conn' = FALSE
    /\ UNCHANGED <<discoveryVars, watcherVars, cfgVars, resolverVars>>

(* The gRPC channel: it starts and leaves idleness, asks again, goes idle *)

ChannelStarts ==
    /\ conn
    /\ R!Build
    /\ UNCHANGED <<discoveryVars, phase, conn, watcherVars, cfgVars>>

ChannelAsks ==
    /\ R!ResolveNow
    /\ UNCHANGED <<discoveryVars, phase, conn, watcherVars, cfgVars>>

ChannelStops ==
    /\ R!Close
    /\ UNCHANGED <<discoveryVars, phase, conn, watcherVars, cfgVars>>

Watcher ==
    \/ Receive
    \/ Refetch
    \/ RefetchFails
    \/ Lock
    \/ Push
    \/ CallbackReturns
    \/ WatcherReturns

NewClient ==
    \/ NewClientRefuses
    \/ NewClientFetch
    \/ NewClientFetchFails
    \/ Dial
    \/ DialFails
    \/ Connected
    \/ startDiscoveryWatcher
    \/ startDiscoveryWatcherFails

Next ==
    \/ Change /\ UNCHANGED clientVars
    \/ Source /\ UNCHANGED clientVars
    \/ NewClient
    \/ Watcher
    \/ \E eps \in UserList : SetEndpoints(eps)
    \/ SetEndpointsPush
    \/ ContextEnds
    \/ CloseCancel
    \/ CloseConn
    \/ ChannelStarts
    \/ ChannelAsks
    \/ ChannelStops

Spec == Init /\ [][Next]_vars

\* Goroutines that can go on do, requests to the registry end, the ticker and
\* the backoffs fire, callbacks return. Nothing makes the registry change or
\* fail, or a user call. A Go mutex serves whoever waits, and select takes every
\* ready case again and again.
FairSpec ==
    /\ Spec
    /\ WF_vars(SourceStep /\ UNCHANGED clientVars)
    /\ WF_vars(Return /\ UNCHANGED clientVars)
    /\ WF_vars(Receive \/ Refetch \/ Push \/ CallbackReturns)
    /\ SF_vars(Lock)
    /\ SF_vars(WatcherReturns)
    /\ WF_vars(SetEndpointsPush)
    /\ WF_vars(NewClient)
    /\ WF_vars(CloseConn)

-----------------------------------------------------------------------------
(* Properties *)

\* Every variable has a value the program can give it.
TypeOK ==
    /\ kind \in Kind
    /\ Current \in 1 .. MaxRev
    /\ \A r \in 1 .. Current : log[r] \in Content
    /\ faults \in 0 .. MaxFaults
    /\ Len(events) <= 1
    /\ index \in 0 .. Current
    /\ watch \in 0 .. Current
    /\ applied \in 0 .. Current
    /\ phase \in {"new", "dial", "connect", "watch", "running", "closing", "closed",
                  "failed", "refused"}
    /\ wpc \in {"off", "select", "fetch", "lock", "push", "callback", "exited"}
    /\ mu \in {"free", "watcher", "user"}
    /\ errors \in 0 .. MaxConsecutiveErrors

\* Whenever the lock is free, a channel that is not idle works with the list and
\* the attributes of the configuration, whichever of the watcher and the user
\* wrote last and however often the channel closed the resolver in between.
ChannelShowsList ==
    built /\ mu = "free" =>
        channel = R!StateOf(cfgEndpoints, cfgAttributes)

\* NewClient that fails leaves no connection, no watcher and no goroutine that
\* goes on reading the registry, whichever of its steps failed, and no context
\* that is not cancelled, but for the one it makes before it looks at the limits
\* of message sizes.
FailedLeavesNothing ==
    /\ phase \in {"failed", "refused"} =>
        /\ ~conn /\ ~built
        /\ wpc = "off"
        /\ pc = "off"
    /\ phase = "failed" => ctxDone

\* Close has waited: after it the watcher writes no list, calls no callback and
\* asks the discovery, which is closed, nothing.
QuietAfterClose ==
    phase = "closed" => wpc \in {"off", "exited"} /\ mu # "watcher"

\* The client stops as it should, on its own and on the user's demand: nothing of it
\* is left running.
NothingLeftBehind == FailedLeavesNothing /\ QuietAfterClose

\* What a source believes it has reported is what the client works with, once
\* nothing is under way, as long as the watcher has not fetched by itself: the
\* list polls compare with, the index the blocking query waits on.
NothingWithheld ==
    /\ events = <<>> /\ wpc = "select" /\ ~refetched
    =>
    /\ pc = "tick" /\ lastEps # <<>> => Listed(applied) = lastEps
    /\ pc = "query" /\ Listed(wait) # <<>> => applied = wait

\* The client goes back to an older list only after it fetched one by itself,
\* past the event that still waited in the channel.
NoGoingBack ==
    [][applied' < applied => refetched]_vars

\* A change its source can see: it polls another list, it waits on an index
\* that is passed, etcd has a watch open that is older.
Visible(r) ==
    /\ Current = r
    /\ phase = "running"
    /\ Listed(r) # <<>>
    /\ \/ pc = "tick" /\ HasChanged(Listed(r), lastEps)
       \/ pc = "query" /\ wait < r
       \/ pc = "select" /\ watch < r

\* A change its source can see becomes the client's list, unless the next change
\* replaces it or the client is closed; with etcd, if the registry fails no more.
VisibleChangeArrives ==
    \A r \in 2 .. MaxRev :
        Visible(r) /\ (kind = "etcd" => faults = MaxFaults)
        ~> applied = r \/ Current > r \/ ctxDone

\* Cancelling, which Close does, an error in NewClient or the owner of the
\* context, ends everything that runs: the source closes its channel even if
\* nobody reads it, the watcher returns, Close and NewClient return. A client
\* whose context was cancelled under it stays until it is closed.
CancelEnds ==
    ctxDone ~> /\ pc \in {"off", "exited"}
              /\ wpc \in {"off", "exited"}
              /\ phase \in {"running", "closed", "failed", "refused"}

\* config.go, line 131: "The client will automatically watch for endpoint changes
\* and update the resolver". A lasting list reaches the resolver.
LastingChangeArrives ==
    \A r \in 2 .. MaxRev :
        phase = "running" /\ Current = r /\ Listed(r) # <<>>
        ~> applied = r \/ Current > r \/ ctxDone
=============================================================================
