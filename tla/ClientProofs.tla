---------------------------- MODULE ClientProofs ----------------------------
(* TypeOK, ChannelShowsList, NothingLeftBehind, NothingWithheld and          *)
(* NoGoingBack for any lists, sources and bounds. Two inductive invariants.  *)
(* IInv: what events and revisions may be, how far NewClient, the watcher and*)
(* Close are with respect to each other, and that the configuration, the     *)
(* resolver and the channel differ only while somebody holds the lock. RInv: *)
(* the lists on their way to the client, in which order and up to where.     *)
EXTENDS Client, TLAPS

Rev == 0 .. Current
EventType == {"none", "Update", "Delete", "Error"}
EventOf(revs) == [type : EventType, rev : revs]

\* Types of the registry and of the source's variables that carry revisions.
DType ==
    /\ kind \in Kind
    /\ log \in Seq(Content)
    /\ Len(log) \in 1 .. MaxRev
    /\ faults \in 0 .. MaxFaults
    /\ ctxDone \in BOOLEAN
    /\ events = <<>> \/ \E e \in EventOf(Rev) : events = <<e>>
    /\ out \in EventOf(Rev)
    /\ index \in Rev
    /\ answer \in Rev
    /\ watch \in Rev

\* Types of the client; a list that is applied has a revision.
CType ==
    /\ phase \in {"new", "dial", "connect", "watch", "running", "closing", "closed",
                  "failed", "refused"}
    /\ wpc \in {"off", "select", "fetch", "lock", "push", "callback", "exited"}
    /\ mu \in {"free", "watcher", "user"}
    /\ conn \in BOOLEAN
    /\ built \in BOOLEAN
    /\ errors \in 0 .. MaxConsecutiveErrors
    /\ applied \in Rev
    /\ hold \in Rev
    /\ wpc \in {"lock", "push"} => hold # 0

Before == {"new", "dial", "connect", "watch", "failed", "refused"}

\* Nothing runs before NewClient has come to its end, nor after it failed; Close
\* waits for the watcher, which holds the lock only while it pushes.
Life ==
    /\ phase \in Before => wpc = "off" /\ pc = "off" /\ mu = "free"
    /\ phase \in {"new", "dial", "failed", "refused", "closed"} => ~conn
    /\ phase \in {"new", "dial", "failed", "refused"} => ~built
    /\ phase = "failed" => ctxDone
    /\ phase = "watch" => HasWatcher
    /\ ~HasWatcher => wpc = "off"
    /\ mu = "watcher" <=> wpc = "push"
    /\ phase = "closed" => wpc \in {"off", "exited"}

\* The configuration is what the holder of the lock is about to push; the resolver
\* has it once the lock is free, and the channel has what the resolver has.
Lists ==
    /\ mu = "free" => endpoints = cfgEndpoints /\ attributes = cfgAttributes
    /\ mu = "watcher" => /\ cfgEndpoints = EndpointsToAddrs(Listed(hold))
                         /\ cfgAttributes = EndpointsToAttrsMap(Listed(hold))
    /\ lastSeenState # NoState => lastSeenState = R!StateOf(endpoints, attributes)
    /\ built => channel = R!StateOf(endpoints, attributes)
    /\ phase = "new" => lastSeenState = NoState

IInv == DType /\ CType /\ Life /\ Lists

\* What the bounds are.
LEMMA Bounds ==
    /\ MaxRev \in Nat /\ MaxRev >= 1
    /\ MaxFaults \in Nat
    /\ MaxConsecutiveErrors \in Nat /\ MaxConsecutiveErrors >= 1
BY BoundsAssumption, ErrorsAssumption

\* A request that fails.
LEMMA FailsType ==
    ASSUME DType, Fails
    PROVE faults' \in 0 .. MaxFaults
BY Bounds DEF DType, Fails

-----------------------------------------------------------------------------
LEMMA InitIInv == Init => IInv
<1> SUFFICES ASSUME Init PROVE IInv
  OBVIOUS
<1>1. log \in Seq(Content) /\ Len(log) = 1
  <2>1. PICK c \in First : log = <<c>>
    BY DEF Init, DiscoveryInit
  <2>2. c \in Content
    BY FirstAssumption
  <2> QED BY <2>1, <2>2
<1>2. /\ kind \in Kind /\ faults = 0 /\ ctxDone = FALSE /\ events = <<>>
      /\ out = NoEvent /\ index = 0 /\ answer = 0 /\ watch = 0 /\ pc = "off"
  BY DEF Init, DiscoveryInit
<1>3. /\ phase = "new" /\ cfgEndpoints = <<>> /\ cfgAttributes = <<>> /\ mu = "free"
      /\ conn = FALSE /\ wpc = "off" /\ errors = 0 /\ hold = 0 /\ applied = 0
  BY DEF Init
<1>4. /\ endpoints = <<>> /\ attributes = <<>> /\ lastSeenState = NoState /\ built = FALSE
  BY DEF Init, R!ResolverInit
<1>5. 0 \in Rev /\ 1 \in 1 .. MaxRev /\ 0 \in 0 .. MaxFaults /\ 0 \in 0 .. MaxConsecutiveErrors
  BY <1>1, Bounds DEF Rev, Current
<1>6. DType
  BY <1>1, <1>2, <1>5 DEF DType, EventOf, EventType, NoEvent
<1>7. CType
  BY <1>3, <1>4, <1>5 DEF CType
<1>8. Life /\ Lists
  BY <1>2, <1>3, <1>4 DEF Life, Lists, Before, HasWatcher
<1> QED
  BY <1>6, <1>7, <1>8 DEF IInv

\* The registry gets another list; those it had stay.
LEMMA ChangeIInv ==
    ASSUME IInv, Change, UNCHANGED clientVars
    PROVE IInv'
<1> USE DEF IInv
<1>1. PICK c \in Content : log' = Append(log, c)
  BY DEF Change
<1>2. /\ log' \in Seq(Content)
      /\ Len(log') = Len(log) + 1
      /\ \A r \in 1 .. Len(log) : log'[r] = log[r]
      /\ Len(log) \in Nat
      /\ Len(log) < MaxRev
  BY <1>1 DEF DType, Change, Current
<1>3. UNCHANGED <<kind, faults, ctxDone, events, out, index, answer, watch, pc>>
      /\ UNCHANGED <<phase, wpc, mu, conn, built, errors, applied, hold>>
      /\ UNCHANGED <<endpoints, attributes, lastSeenState, channel, cfgEndpoints, cfgAttributes>>
  BY DEF Change, channelVars, sourceVars, clientVars, watcherVars, cfgVars, resolverVars
<1>4. Rev \subseteq Rev' /\ EventOf(Rev) \subseteq EventOf(Rev')
  BY <1>2 DEF Rev, Current, EventOf
<1>5. DType'
  <2>1. Len(log') \in 1 .. MaxRev
    BY <1>2, Bounds
  <2> QED
    BY <1>2, <1>3, <1>4, <2>1 DEF DType
<1>6. CType'
  BY <1>3, <1>4 DEF CType
<1>7. Life'
  BY <1>3 DEF Life, HasWatcher
<1>8. Lists'
  <2>1. ASSUME mu = "watcher" PROVE Listed(hold)' = Listed(hold)
    <3>1. hold \in 1 .. Len(log)
      BY <1>2, <2>1 DEF CType, Life, Rev, Current
    <3> QED
      BY <1>2, <1>3, <3>1 DEF Listed
  <2> QED
    BY <1>3, <2>1 DEF Lists
<1> QED
  BY <1>5, <1>6, <1>7, <1>8

\* A step of the source touches none of what the client and its list depend on, and
\* there is none before the source runs.
LEMMA SourceIInv ==
    ASSUME IInv, Source, UNCHANGED clientVars
    PROVE IInv'
<1> USE DEF IInv
<1>0. Len(log) \in Nat /\ Current \in Nat /\ Current >= 1
  BY Bounds DEF DType, Current
<1>1. ASSUME DType', UNCHANGED <<kind, log, ctxDone>>, pc # "off"
      PROVE IInv'
  <2>1. UNCHANGED <<phase, wpc, mu, conn, built, errors, applied, hold>>
        /\ UNCHANGED <<endpoints, attributes, lastSeenState, channel, cfgEndpoints, cfgAttributes>>
    BY DEF clientVars, watcherVars, cfgVars, resolverVars
  <2>2. CType' /\ Life' /\ Lists'
    BY <1>1, <2>1 DEF CType, Life, Lists, Rev, Current, HasWatcher, Listed
  <2> QED
    BY <1>1, <2>2
<1> DEFINE Typed == /\ faults' \in 0 .. MaxFaults
                    /\ events' = <<>> \/ \E e \in EventOf(Rev) : events' = <<e>>
                    /\ out' \in EventOf(Rev)
                    /\ index' \in Rev
                    /\ answer' \in Rev
                    /\ watch' \in Rev
                    /\ UNCHANGED <<kind, log, ctxDone>>
                    /\ pc # "off"
<1>2. Typed => IInv'
  <2>1. Typed => DType'
    BY DEF DType, Rev, Current
  <2> QED
    BY <1>1, <2>1
<1> DEFINE Old == /\ faults \in 0 .. MaxFaults
                  /\ events = <<>> \/ \E e \in EventOf(Rev) : events = <<e>>
                  /\ out \in EventOf(Rev)
                  /\ index \in Rev
                  /\ answer \in Rev
                  /\ watch \in Rev
<1>3. Old
  BY DEF DType
<1>4. /\ NoEvent \in EventOf(Rev)
      /\ \A type \in EventType : \A r \in Rev : Event(type, r) \in EventOf(Rev)
      /\ Current \in Rev /\ 0 \in Rev
  BY <1>0 DEF NoEvent, Event, EventOf, EventType, Rev
<1>5. Fails => faults' \in 0 .. MaxFaults
  BY FailsType
<1>6. \A type \in EventType, r \in Rev : \A then :
          Sends(type, r, then) => out' \in EventOf(Rev)
  BY <1>4 DEF Sends
<1>7. {"Update", "Delete", "Error"} \subseteq EventType
  BY DEF EventType
<1> HIDE DEF Typed
<1>8. CASE Send
  <2>1. events = <<>>
    BY <1>8, <1>3 DEF Send, HasRoom
  <2>2. events' = <<out>>
    BY <1>8, <2>1 DEF Send
  <2> QED
    BY <1>2, <1>3, <1>4, <1>8, <2>2 DEF Typed, Send
<1>9. CASE PollChanged \/ PollFails
  BY <1>2, <1>3, <1>4, <1>5, <1>6, <1>7, <1>9 DEF Typed, PollChanged, PollFails, channelVars
<1>10. CASE CustomEvent
  BY <1>2, <1>3, <1>4, <1>6, <1>7, <1>10 DEF Typed, CustomEvent, channelVars
<1>11. CASE EtcdSelect \/ EtcdBackoff
  BY <1>2, <1>3, <1>4, <1>11 DEF Typed, EtcdSelect, EtcdBackoff, etcdRest, channelVars
<1>12. CASE EtcdResponse
  <2>1. watch' \in Rev
    BY <1>0, <1>3, <1>12 DEF EtcdResponse, Rev
  <2> QED
    BY <1>2, <1>3, <1>12, <2>1 DEF Typed, EtcdResponse, etcdRest, channelVars
<1>13. CASE EtcdGet \/ EtcdRefetch
  BY <1>2, <1>3, <1>4, <1>5, <1>6, <1>7, <1>13
     DEF Typed, EtcdGet, EtcdRefetch, etcdRest, channelVars
<1>14. CASE EtcdWatchClosed
  BY <1>2, <1>3, <1>4, <1>5, <1>6, <1>7, <1>14 DEF Typed, EtcdWatchClosed, etcdRest, channelVars
<1>15. CASE EtcdWatchError
  <2>1. faults' \in 0 .. MaxFaults
    BY <1>3, <1>15, Bounds DEF EtcdWatchError
  <2> QED
    BY <1>2, <1>3, <1>4, <1>6, <1>7, <1>15, <2>1 DEF Typed, EtcdWatchError, etcdRest, channelVars
<1>16. CASE ConsulQuery \/ ConsulAnswer
  BY <1>2, <1>3, <1>4, <1>16 DEF Typed, ConsulQuery, ConsulAnswer, consulRest, channelVars
<1>17. CASE ConsulHandle
  BY <1>2, <1>3, <1>4, <1>6, <1>7, <1>17 DEF Typed, ConsulHandle, consulRest, channelVars
<1>18. CASE ConsulFails
  BY <1>2, <1>3, <1>4, <1>5, <1>6, <1>7, <1>18 DEF Typed, ConsulFails
<1>19. CASE Return
  BY <1>2, <1>3, <1>4, <1>19 DEF Typed, Return, ReturnsFrom
<1> QED
  BY <1>8, <1>9, <1>10, <1>11, <1>12, <1>13, <1>14, <1>15, <1>16, <1>17, <1>18, <1>19
     DEF Source, SourceStep

-----------------------------------------------------------------------------
(* NewClient. *)

LEMMA NewClientFetchIInv ==
    ASSUME IInv, NewClientFetch
    PROVE IInv'
<1> USE DEF IInv
<1>1. Current \in Rev /\ Current \in Nat
  BY Bounds DEF DType, Rev, Current
<1>2. UNCHANGED <<kind, log, faults, events, out, answer, watch, pc>>
      /\ UNCHANGED <<mu, conn, wpc, errors, hold, lastSeenState, built, channel>>
  BY DEF NewClientFetch, channelVars
<1>3. /\ phase = "new"
      /\ phase' \in {"failed", "dial"}
      /\ phase' = "failed" => ctxDone'
      /\ ctxDone' \in BOOLEAN
      /\ applied' = Current
      /\ endpoints' = cfgEndpoints' /\ attributes' = cfgAttributes'
  BY DEF NewClientFetch, DType
<1>4. index' \in Rev
  BY <1>1 DEF NewClientFetch, Fetched, DType
<1>5. DType'
  BY <1>2, <1>3, <1>4 DEF DType, Rev, Current
<1>6. CType'
  BY <1>1, <1>2, <1>3 DEF CType, Rev, Current
<1>7. Life'
  BY <1>2, <1>3 DEF Life, Before, HasWatcher
<1>8. Lists'
  BY <1>2, <1>3 DEF Lists, Life, Before
<1> QED
  BY <1>5, <1>6, <1>7, <1>8

\* A NewClient that fails, at whichever step, leaves what Life says.
LEMMA FailedIInv ==
    ASSUME IInv, NewClientFetchFails \/ DialFails \/ startDiscoveryWatcherFails
    PROVE IInv'
<1> USE DEF IInv
<1>1. /\ phase \in {"new", "connect", "watch"}
      /\ phase' = "failed" /\ ctxDone' = TRUE
      /\ UNCHANGED <<kind, log, events, out, index, answer, watch, pc>>
      /\ UNCHANGED <<mu, wpc, errors, hold, applied>>
      /\ UNCHANGED <<endpoints, attributes, lastSeenState, cfgEndpoints, cfgAttributes>>
  BY DEF NewClientFetchFails, DialFails, startDiscoveryWatcherFails, GivesUp, channelVars,
         sourceVars, watcherVars, cfgVars, resolverVars
<1>2. conn' = FALSE /\ built' = FALSE
  <2>1. CASE NewClientFetchFails
    BY <2>1 DEF NewClientFetchFails, resolverVars, Life, CType
  <2> QED
    BY <2>1 DEF DialFails, startDiscoveryWatcherFails, GivesUp
<1>3. faults' \in 0 .. MaxFaults
  BY FailsType DEF NewClientFetchFails, DialFails, startDiscoveryWatcherFails, DType
<1>4. DType'
  BY <1>1, <1>3 DEF DType, Rev, Current
<1>5. CType'
  BY <1>1, <1>2 DEF CType, Rev, Current
<1>6. Life'
  BY <1>1, <1>2 DEF Life, Before, HasWatcher
<1>7. Lists'
  BY <1>1, <1>2 DEF Lists, Life, Before
<1> QED
  BY <1>4, <1>5, <1>6, <1>7

\* The source, with the revisions it has reported, stays when a step leaves it alone.
LEMMA SourceStays ==
    ASSUME DType, UNCHANGED discoveryVars
    PROVE /\ DType'
          /\ Rev' = Rev /\ HasWatcher' = HasWatcher
          /\ UNCHANGED <<kind, log, ctxDone, events, pc>>
          /\ \A r : Listed(r)' = Listed(r)
BY DEF DType, discoveryVars, channelVars, sourceVars, Rev, Current, HasWatcher, Listed

LEMMA DialIInv ==
    ASSUME IInv, NewClientRefuses \/ Dial \/ Connected
    PROVE IInv'
<1> USE DEF IInv
<1>1. UNCHANGED discoveryVars
  BY DEF NewClientRefuses, Dial, Connected
<1>2. UNCHANGED <<wpc, errors, hold, applied, cfgEndpoints, cfgAttributes, mu, endpoints,
                  attributes, lastSeenState, built, channel>>
  BY DEF NewClientRefuses, Dial, Connected, watcherVars, cfgVars, resolverVars
<1>3. \/ phase = "new" /\ phase' = "refused" /\ conn' = conn
      \/ phase = "dial" /\ phase' = "connect" /\ conn' = TRUE
      \/ /\ phase = "connect" /\ conn' = conn
         /\ phase' = IF HasWatcher THEN "watch" ELSE "running"
  BY DEF NewClientRefuses, Dial, Connected
<1>4. CType'
  BY <1>1, <1>2, <1>3, SourceStays DEF CType
<1>5. Life'
  BY <1>1, <1>2, <1>3, SourceStays DEF Life, Before
<1>6. Lists'
  BY <1>1, <1>2, <1>3, SourceStays DEF Lists, Life, Before
<1> QED
  BY <1>1, <1>4, <1>5, <1>6, SourceStays

LEMMA StartWatcherIInv ==
    ASSUME IInv, startDiscoveryWatcher
    PROVE IInv'
<1> USE DEF IInv
<1>1. Current \in Rev
  BY Bounds DEF DType, Rev, Current
<1>2. UNCHANGED <<kind, log, faults, ctxDone, conn, errors, hold, applied, mu, cfgEndpoints,
                  cfgAttributes, endpoints, attributes, lastSeenState, built, channel>>
      /\ wpc' = "select" /\ phase = "watch" /\ phase' = "running"
  BY DEF startDiscoveryWatcher, cfgVars, resolverVars
<1>3. /\ index' \in Rev /\ watch' \in Rev
      /\ out' = out /\ answer' = answer
      /\ events' = <<FirstEvent>>
  BY <1>1 DEF startDiscoveryWatcher, Watch, WatchPolling, WatchStatic, WatchCustom,
             WatchRegistry, Fetched, DType
<1>4. FirstEvent \in EventOf(Rev)
  BY <1>1 DEF FirstEvent, Event, EventOf, EventType
<1>5. DType'
  BY <1>2, <1>3, <1>4 DEF DType, Rev, Current
<1>6. CType'
  BY <1>2 DEF CType, Rev, Current
<1>7. Life'
  BY <1>2 DEF Life, Before, HasWatcher
<1>8. Lists'
  BY <1>2 DEF Lists, Life, Before
<1> QED
  BY <1>5, <1>6, <1>7, <1>8

-----------------------------------------------------------------------------
(* The watcher. *)

\* An event with a list has a revision.
LEMMA ReceiveIInv ==
    ASSUME IInv, Receive
    PROVE IInv'
<1> USE DEF IInv
<1>1. PICK e \in EventOf(Rev) : events = <<e>>
  BY DEF DType, Receive
<1>2. Head(events) = e /\ Tail(events) = <<>>
  BY <1>1
<1>3. UNCHANGED <<kind, log, faults, ctxDone, out, index, answer, watch, pc>>
      /\ UNCHANGED <<phase, conn, applied, mu, cfgEndpoints, cfgAttributes, endpoints,
                     attributes, lastSeenState, built, channel>>
      /\ events' = <<>> /\ wpc = "select"
  BY <1>2 DEF Receive, sourceVars, cfgVars, resolverVars
<1>4. e.rev \in Rev
  BY DEF EventOf
<1>5. /\ wpc' \in {"lock", "select", "fetch"}
      /\ hold' \in Rev
      /\ wpc' = "lock" => hold' # 0
      /\ errors' \in 0 .. MaxConsecutiveErrors
  <2> DEFINE list == IF e.rev = 0 THEN <<>> ELSE Listed(e.rev)
             count == IF errors < MaxConsecutiveErrors THEN errors + 1 ELSE errors
  <2>1. count \in 0 .. MaxConsecutiveErrors /\ 0 \in 0 .. MaxConsecutiveErrors
    BY Bounds DEF CType
  <2>2. hold \in Rev /\ errors \in 0 .. MaxConsecutiveErrors
    BY DEF CType
  <2>3. \/ /\ list # <<>>
           /\ errors' = IF e.type = "Update" THEN 0 ELSE errors
           /\ hold' = e.rev
           /\ wpc' = "lock"
        \/ UNCHANGED <<errors, hold, wpc>>
        \/ /\ errors' = count
           /\ wpc' = AfterError(count)
           /\ UNCHANGED hold
    BY <1>2 DEF Receive
  <2> HIDE DEF count
  <2>4. AfterError(count) \in {"fetch", "select"}
    BY DEF AfterError
  <2> QED
    BY <1>3, <1>4, <2>1, <2>2, <2>3, <2>4
<1>6. DType'
  BY <1>3 DEF DType, Rev, Current
<1>7. CType'
  BY <1>3, <1>5 DEF CType, Rev, Current
<1>8. Life'
  BY <1>3, <1>5 DEF Life, Before, HasWatcher
<1>9. Lists'
  BY <1>3, <1>5 DEF Lists, Life
<1> QED
  BY <1>6, <1>7, <1>8, <1>9

LEMMA RefetchIInv ==
    ASSUME IInv, Refetch \/ RefetchFails
    PROVE IInv'
<1> USE DEF IInv
<1>1. Current \in Rev /\ Current # 0
  BY Bounds DEF DType, Rev, Current
<1>2. UNCHANGED <<kind, log, ctxDone, events, out, answer, watch, pc>>
      /\ UNCHANGED <<phase, conn, applied, mu, cfgEndpoints, cfgAttributes, endpoints,
                     attributes, lastSeenState, built, channel>>
      /\ wpc = "fetch"
  BY DEF Refetch, RefetchFails, channelVars, sourceVars, cfgVars, resolverVars
<1>3. faults' \in 0 .. MaxFaults /\ index' \in Rev
  BY <1>1, FailsType DEF Refetch, RefetchFails, sourceVars, Fetched, DType
<1>4. /\ wpc' \in {"lock", "select"}
      /\ hold' \in Rev
      /\ wpc' = "lock" => hold' # 0
      /\ errors' \in 0 .. MaxConsecutiveErrors
  BY <1>1, Bounds DEF Refetch, RefetchFails, CType
<1>5. DType'
  BY <1>2, <1>3 DEF DType, Rev, Current
<1>6. CType'
  BY <1>2, <1>4 DEF CType, Rev, Current
<1>7. Life'
  BY <1>2, <1>4 DEF Life, Before, HasWatcher
<1>8. Lists'
  BY <1>2, <1>4 DEF Lists, Life
<1> QED
  BY <1>5, <1>6, <1>7, <1>8

LEMMA LockIInv ==
    ASSUME IInv, Lock
    PROVE IInv'
<1> USE DEF IInv
<1>1. UNCHANGED discoveryVars
  BY DEF Lock
<1>2. /\ UNCHANGED <<phase, conn, errors, hold, applied, endpoints, attributes,
                     lastSeenState, built, channel>>
      /\ wpc = "lock" /\ wpc' = "push" /\ mu = "free" /\ mu' = "watcher"
      /\ cfgEndpoints' = EndpointsToAddrs(Listed(hold))
      /\ cfgAttributes' = EndpointsToAttrsMap(Listed(hold))
  BY DEF Lock, resolverVars
<1>3. CType'
  BY <1>1, <1>2, SourceStays DEF CType
<1>4. Life'
  BY <1>1, <1>2, SourceStays DEF Life, Before
<1>5. Lists'
  <2>1. Listed(hold)' = Listed(hold)
    BY <1>1, <1>2, SourceStays DEF Listed
  <2> QED
    BY <1>2, <2>1 DEF Lists
<1> QED
  BY <1>1, <1>3, <1>4, <1>5, SourceStays

\* What setting the endpoints of the resolver makes of it and of the channel.
LEMMA Pushed ==
    ASSUME NEW eps, NEW attrs, R!SetEndpoints(eps, attrs)
    PROVE /\ endpoints' = eps /\ attributes' = attrs /\ built' = built
          /\ lastSeenState' = R!StateOf(eps, attrs)
          /\ built => channel' = R!StateOf(eps, attrs)
BY DEF R!SetEndpoints, R!updateStateLocked

\* The watcher pushes what it has configured, and so does the user.
LEMMA PushIInv ==
    ASSUME IInv, Push \/ SetEndpointsPush
    PROVE IInv'
<1> USE DEF IInv
<1>1. UNCHANGED discoveryVars
  BY DEF Push, SetEndpointsPush
<1>2. UNCHANGED <<phase, conn, errors, cfgEndpoints, cfgAttributes>> /\ mu' = "free"
  BY DEF Push, SetEndpointsPush, watcherVars
<1>3. \/ /\ wpc = "push" /\ mu = "watcher" /\ wpc' = "callback"
         /\ hold' = 0 /\ applied' = hold
      \/ mu = "user" /\ UNCHANGED <<wpc, hold, applied>>
  BY DEF Push, SetEndpointsPush, watcherVars, Life
<1>4. R!SetEndpoints(cfgEndpoints, cfgAttributes)
  BY DEF Push, SetEndpointsPush, Lists, Life
<1>5. /\ endpoints' = cfgEndpoints /\ attributes' = cfgAttributes /\ built' = built
      /\ lastSeenState' = R!StateOf(cfgEndpoints, cfgAttributes)
      /\ built => channel' = R!StateOf(cfgEndpoints, cfgAttributes)
  BY <1>4, Pushed
<1>6. phase \notin Before
  BY <1>3 DEF Life
<1>7. CType'
  <2>1. 0 \in Rev
    BY Bounds DEF DType, Rev, Current
  <2> QED
    BY <1>1, <1>2, <1>3, <1>5, <2>1, SourceStays DEF CType
<1>8. Life'
  BY <1>1, <1>2, <1>3, <1>5, <1>6, SourceStays DEF Life, Before
<1>9. Lists'
  BY <1>2, <1>5, <1>6 DEF Lists, Before
<1> QED
  BY <1>1, <1>7, <1>8, <1>9, SourceStays

LEMMA WatcherMovesIInv ==
    ASSUME IInv, CallbackReturns \/ WatcherReturns
    PROVE IInv'
<1> USE DEF IInv
<1>1. UNCHANGED discoveryVars
  BY DEF CallbackReturns, WatcherReturns
<1>2. UNCHANGED <<phase, conn, errors, hold, applied, mu, cfgEndpoints, cfgAttributes,
                  endpoints, attributes, lastSeenState, built, channel>>
      /\ wpc \in {"callback", "select"} /\ wpc' \in {"select", "exited"}
  BY DEF CallbackReturns, WatcherReturns, cfgVars, resolverVars
<1>3. phase # "closed"
  BY <1>2 DEF Life
<1>4. CType'
  BY <1>1, <1>2, SourceStays DEF CType
<1>5. Life'
  BY <1>1, <1>2, <1>3, SourceStays DEF Life, Before
<1>6. Lists'
  BY <1>1, <1>2, SourceStays DEF Lists, Life, Listed
<1> QED
  BY <1>1, <1>4, <1>5, <1>6, SourceStays

-----------------------------------------------------------------------------
(* The user and the channel. *)

LEMMA SetEndpointsIInv ==
    ASSUME IInv, NEW eps, SetEndpoints(eps)
    PROVE IInv'
<1> USE DEF IInv
<1>1. UNCHANGED discoveryVars
  BY DEF SetEndpoints
<1>2. UNCHANGED <<phase, conn, wpc, errors, hold, applied, cfgAttributes,
                  endpoints, attributes, lastSeenState, built, channel>>
      /\ mu = "free" /\ mu' = "user" /\ phase \notin Before
  BY DEF SetEndpoints, HasClient, Before, watcherVars, resolverVars
<1>3. CType'
  BY <1>1, <1>2, SourceStays DEF CType
<1>4. Life'
  BY <1>1, <1>2, SourceStays DEF Life
<1>5. Lists'
  BY <1>2 DEF Lists
<1> QED
  BY <1>1, <1>3, <1>4, <1>5, SourceStays

LEMMA CloseIInv ==
    ASSUME IInv, ContextEnds \/ CloseCancel \/ CloseConn
    PROVE IInv'
<1> USE DEF IInv
<1>1. UNCHANGED <<kind, log, faults, events, out, index, answer, watch, pc>>
      /\ UNCHANGED <<wpc, errors, hold, applied, mu, cfgEndpoints, cfgAttributes,
                     endpoints, attributes, lastSeenState, built, channel>>
  BY DEF ContextEnds, CloseCancel, CloseConn, clientVars, discoveryVars, channelVars, sourceVars,
         watcherVars, cfgVars, resolverVars
<1>2. \/ ctxDone' = TRUE /\ UNCHANGED <<phase, conn>>
      \/ phase = "running" /\ phase' = "closing" /\ ctxDone' = TRUE /\ conn' = conn
      \/ /\ phase = "closing" /\ phase' = "closed" /\ ctxDone' = ctxDone /\ conn' = FALSE
         /\ WatcherDone
  BY DEF ContextEnds, CloseCancel, CloseConn, clientVars, discoveryVars
<1>3. DType'
  BY <1>1, <1>2 DEF DType, Rev, Current
<1>4. CType'
  BY <1>1, <1>2 DEF CType, Rev, Current
<1>5. Life'
  BY <1>1, <1>2 DEF Life, Before, HasWatcher, WatcherDone
<1>6. Lists'
  BY <1>1, <1>2 DEF Lists, Life, Listed
<1> QED
  BY <1>3, <1>4, <1>5, <1>6

\* A channel that starts or asks gets the resolver's list, one that stops forgets it.
LEMMA ChannelIInv ==
    ASSUME IInv, ChannelStarts \/ ChannelAsks \/ ChannelStops
    PROVE IInv'
<1> USE DEF IInv
<1>1. UNCHANGED discoveryVars
  BY DEF ChannelStarts, ChannelAsks, ChannelStops
<1>2. UNCHANGED <<phase, conn, wpc, errors, hold, applied, mu, cfgEndpoints,
                  cfgAttributes, endpoints, attributes>>
  BY DEF ChannelStarts, ChannelAsks, ChannelStops, R!Build, R!ResolveNow, R!Close,
         watcherVars, cfgVars
<1>3. /\ built' \in BOOLEAN
      /\ built' => built \/ conn
      /\ lastSeenState' \in {lastSeenState, R!StateOf(endpoints, attributes)}
      /\ lastSeenState' # lastSeenState => conn
      /\ built' => channel' = R!StateOf(endpoints, attributes)
  BY DEF ChannelStarts, ChannelAsks, ChannelStops, R!Build, R!ResolveNow, R!Close,
         R!updateStateLocked, Lists, CType
<1>4. CType'
  BY <1>1, <1>2, <1>3, SourceStays DEF CType
<1>5. Life'
  BY <1>1, <1>2, <1>3, SourceStays DEF Life
<1>6. Lists'
  BY <1>1, <1>2, <1>3, SourceStays DEF Lists, Life, Listed
<1> QED
  BY <1>1, <1>4, <1>5, <1>6, SourceStays

-----------------------------------------------------------------------------
(***************************************************************************)
(* What is on its way to the client, in which order. The source reports    *)
(* through the event it sends, the one in the channel and the one the      *)
(* watcher applies; a fetch of the watcher's own goes past all three.      *)
(***************************************************************************)
\* Where the goroutine of each source may be when it is not sending.
PlaceOf(place) ==
    \/ kind = "func" /\ place = "tick"
    \/ kind \in {"static", "custom"} /\ place = "idle"
    \/ kind = "etcd" /\ place \in {"top", "select", "get", "backoff", "pause", "refetch"}
    \/ kind = "consul" /\ place \in {"top", "query", "answered"}

\* A source keeps to its places, only polls remember a list, an event is kept only
\* while it is sent, and nothing is reported before the source runs.
Places ==
    /\ pc \in {"off", "exited", "sending"} \/ PlaceOf(pc)
    /\ pc = "sending" => PlaceOf(resume) /\ resume \notin {"query", "answered"}
    /\ kind # "func" => lastEps = <<>>
    /\ pc # "sending" => out.rev = 0
    /\ pc = "off" => events = <<>> /\ lastEps = <<>>

\* The revision of the event in the channel.
InChannel == IF events = <<>> THEN 0 ELSE Head(events).rev

\* Errors carry no list, the watcher holds one only while it applies it, and what has
\* been fetched has a revision.
Carried ==
    /\ out.rev # 0 => out.type # "Error"
    /\ InChannel # 0 => Head(events).type # "Error"
    /\ wpc \notin {"lock", "push"} => hold = 0
    /\ phase \notin {"new", "failed", "refused"} => applied # 0
    /\ kind = "consul" /\ pc # "off" => index # 0
    /\ pc \in {"query", "answered"} => wait \in 1 .. Current

\* Neither is a list, or the first is not newer.
NotAfter(r, s) == r = 0 \/ s = 0 \/ r <= s

\* Applied, held, in the channel, being sent, answered: each is no newer than the next.
InOrder ==
    ~refetched =>
        /\ NotAfter(applied, hold)
        /\ NotAfter(applied, InChannel) /\ NotAfter(hold, InChannel)
        /\ NotAfter(applied, out.rev) /\ NotAfter(hold, out.rev)
        /\ NotAfter(InChannel, out.rev)
        /\ pc = "answered" => applied <= answer /\ hold <= answer /\ InChannel <= answer

\* The newest list on its way to the client, or the one it has.
Latest == IF out.rev # 0 THEN out.rev
          ELSE IF InChannel # 0 THEN InChannel
          ELSE IF hold # 0 THEN hold
          ELSE applied

\* What a running source believes it has reported is on its way, unless it is empty.
Reported ==
    ~refetched =>
        /\ pc # "exited" /\ lastEps # <<>> => Listed(Latest) = lastEps
        /\ kind = "consul" /\ pc \notin {"off", "exited"} /\ Listed(index) # <<>>
           => Latest = index
        /\ pc \in {"query", "answered"} /\ Listed(wait) # <<>> => Latest = wait

RInv == Places /\ Carried /\ InOrder /\ Reported

\* The revisions that are under way are revisions, and there is one once the source runs.
LEMMA UnderWay ==
    ASSUME IInv, RInv
    PROVE /\ Len(log) \in Nat /\ Current \in Nat /\ Current >= 1 /\ Current = Len(log)
          /\ Rev = 0 .. Current
          /\ InChannel \in Rev /\ out.rev \in Rev /\ hold \in Rev /\ applied \in Rev
          /\ index \in Rev /\ answer \in Rev
          /\ Latest \in Rev
          /\ pc # "off" => applied # 0 /\ Latest # 0
<1>1. DType /\ CType /\ Life
  BY DEF IInv
<1>2. Len(log) \in Nat /\ Current \in Nat /\ Current >= 1
  BY <1>1, Bounds DEF DType, Current
<1>3. InChannel \in Rev
  BY <1>1, <1>2 DEF DType, InChannel, EventOf, Rev
<1>4. out.rev \in Rev /\ hold \in Rev /\ applied \in Rev /\ index \in Rev /\ answer \in Rev
  BY <1>1 DEF DType, CType, EventOf
<1>5. pc # "off" => applied # 0
  BY <1>1 DEF Life, Before, RInv, Carried
<1> QED
  BY <1>2, <1>3, <1>4, <1>5 DEF Latest, Current, Rev

LEMMA InitRInv == Init => RInv
<1> SUFFICES ASSUME Init PROVE RInv
  OBVIOUS
<1>1. /\ out = NoEvent /\ pc = "off" /\ events = <<>> /\ lastEps = <<>>
      /\ hold = 0 /\ applied = 0 /\ phase = "new"
  BY DEF Init, DiscoveryInit
<1>2. out.rev = 0 /\ InChannel = 0
  BY <1>1 DEF NoEvent, InChannel
<1> QED
  BY <1>1, <1>2 DEF RInv, Places, Carried, InOrder, Reported, NotAfter

\* A step that leaves what is reported alone.
LEMMA ReportStays ==
    ASSUME IInv, RInv,
           UNCHANGED <<kind, log, pc, out, resume, events, lastEps, index, wait, answer>>,
           UNCHANGED <<hold, applied, refetched>>,
           wpc' \notin {"lock", "push"} => hold = 0,
           phase' \notin {"new", "failed", "refused"} => phase \notin {"new", "failed", "refused"}
    PROVE RInv'
<1>1. InChannel' = InChannel /\ Latest' = Latest /\ Current' = Current
  BY DEF InChannel, Latest, Current
<1>2. Places'
  BY DEF RInv, Places, PlaceOf
<1>3. Carried'
  BY <1>1 DEF RInv, Carried
<1>4. InOrder'
  BY <1>1 DEF RInv, InOrder, NotAfter
<1>5. Reported'
  <2>1. Listed(Latest)' = Listed(Latest) /\ Listed(index)' = Listed(index)
        /\ Listed(wait)' = Listed(wait)
    BY <1>1 DEF Listed
  <2> QED
    BY <1>1, <2>1 DEF RInv, Reported
<1> QED
  BY <1>2, <1>3, <1>4, <1>5 DEF RInv

LEMMA ChangeRInv ==
    ASSUME IInv, RInv, Change, UNCHANGED clientVars
    PROVE RInv'
<1>1. UNCHANGED <<kind, pc, out, resume, events, lastEps, index, wait, answer>>
      /\ UNCHANGED <<hold, applied, refetched, wpc, phase>>
  BY DEF Change, channelVars, sourceVars, clientVars, watcherVars
<1>2. PICK c \in Content : log' = Append(log, c)
  BY DEF Change
<1>3. /\ Len(log') = Len(log) + 1
      /\ \A r \in 1 .. Len(log) : log'[r] = log[r]
  BY <1>2 DEF IInv, DType
<1>4. InChannel' = InChannel /\ Latest' = Latest /\ Current' = Current + 1
  BY <1>1, <1>3 DEF InChannel, Latest, Current
<1>5. \A r \in 1 .. Current : log'[r] = log[r]
  BY <1>3 DEF Current
<1>6. Places'
  BY <1>1 DEF RInv, Places, PlaceOf
<1>7. Carried'
  BY <1>1, <1>4, UnderWay DEF RInv, Carried
<1>8. InOrder'
  BY <1>1, <1>4 DEF RInv, InOrder, NotAfter
<1>9. Reported'
  <2>1. ASSUME pc # "off" PROVE Listed(Latest)' = Listed(Latest)
    <3>1. Latest \in 1 .. Current
      BY <2>1, UnderWay DEF Rev
    <3> QED
      BY <1>1, <1>4, <1>5, <3>1 DEF Listed
  <2>2. ASSUME kind = "consul", pc # "off" PROVE Listed(index)' = Listed(index)
    <3>1. index \in 1 .. Current
      BY <2>2, UnderWay DEF Rev, RInv, Carried
    <3> QED
      BY <1>1, <1>5, <3>1 DEF Listed
  <2>3. ASSUME pc \in {"query", "answered"} PROVE Listed(wait)' = Listed(wait)
    <3>1. wait \in 1 .. Current
      BY <2>3 DEF RInv, Carried
    <3> QED
      BY <1>1, <1>5, <3>1 DEF Listed
  <2>4. pc = "off" => lastEps = <<>>
    BY DEF RInv, Places
  <2> QED
    BY <1>1, <1>4, <2>1, <2>2, <2>3, <2>4 DEF RInv, Reported
<1> QED
  BY <1>6, <1>7, <1>8, <1>9 DEF RInv

-----------------------------------------------------------------------------
(* The steps of the source. *)

\* A step of the source leaves the client, the registry and the kind alone.
SourceOnly == UNCHANGED <<kind, log, hold, applied, refetched, wpc, phase>>

\* The source moves on and reports nothing.
LEMMA SourceQuiet ==
    ASSUME IInv, RInv, SourceOnly, UNCHANGED <<events, out, lastEps, index>>,
           pc \notin {"off", "exited", "sending"}, PlaceOf(pc'),
           pc' = "query" => wait' = index,
           pc' = "answered" => pc = "query" /\ wait' = wait /\ answer' = Current
    PROVE RInv'
<1>1. UNCHANGED <<kind, log, hold, applied, refetched, wpc, phase>>
  BY DEF SourceOnly
<1>2. InChannel' = InChannel /\ Latest' = Latest /\ Current' = Current
  BY <1>1 DEF InChannel, Latest, Current
<1>3. pc' \notin {"off", "exited", "sending"} /\ (pc' \in {"query", "answered"} => kind = "consul")
  BY DEF PlaceOf
<1>4. out.rev = 0
  BY DEF RInv, Places
<1>5. Places'
  BY <1>1, <1>3, <1>4 DEF RInv, Places, PlaceOf
<1>6. Carried'
  BY <1>1, <1>2, <1>3, UnderWay DEF RInv, Carried, Rev
<1>7. InOrder'
  <2>1. applied <= Current /\ hold <= Current /\ InChannel <= Current
    BY UnderWay
  <2> QED
    BY <1>1, <1>2, <1>3, <2>1 DEF RInv, InOrder, NotAfter
<1>8. Reported'
  <2>1. Listed(Latest)' = Listed(Latest) /\ Listed(index)' = Listed(index)
    BY <1>1, <1>2 DEF Listed
  <2>2. CASE pc' = "query"
    <3>1. Listed(wait)' = Listed(index)
      BY <1>1, <2>2 DEF Listed
    <3> QED
      BY <1>1, <1>2, <1>3, <2>1, <2>2, <3>1 DEF RInv, Reported
  <2>3. CASE pc' = "answered"
    <3>1. Listed(wait)' = Listed(wait)
      BY <1>1, <2>3 DEF Listed
    <3> QED
      BY <1>1, <1>2, <1>3, <2>1, <2>3, <3>1 DEF RInv, Reported
  <2>4. CASE pc' \notin {"query", "answered"}
    BY <1>1, <1>2, <1>3, <2>1, <2>4 DEF RInv, Reported
  <2> QED
    BY <2>2, <2>3, <2>4
<1> QED
  BY <1>5, <1>6, <1>7, <1>8 DEF RInv

\* The source reports an error.
LEMMA SourceError ==
    ASSUME IInv, RInv, SourceOnly, UNCHANGED <<events, lastEps, index>>,
           pc \notin {"off", "exited", "sending"},
           NEW then, PlaceOf(then), then \notin {"query", "answered"},
           Sends("Error", 0, then)
    PROVE RInv'
<1>1. UNCHANGED <<kind, log, hold, applied, refetched, wpc, phase>>
  BY DEF SourceOnly
<1>2. pc' = "sending" /\ resume' = then /\ out'.rev = 0 /\ out.rev = 0
  BY DEF Sends, Event, RInv, Places
<1>3. InChannel' = InChannel /\ Latest' = Latest
  BY <1>1, <1>2 DEF InChannel, Latest
<1>4. Places'
  BY <1>1, <1>2 DEF RInv, Places, PlaceOf
<1>5. Carried'
  BY <1>1, <1>2, <1>3 DEF RInv, Carried
<1>6. InOrder'
  BY <1>1, <1>2, <1>3 DEF RInv, InOrder, NotAfter
<1>7. Reported'
  <2>1. Listed(Latest)' = Listed(Latest) /\ Listed(index)' = Listed(index)
    BY <1>1, <1>3 DEF Listed
  <2> QED
    BY <1>1, <1>2, <1>3, <2>1 DEF RInv, Reported
<1> QED
  BY <1>4, <1>5, <1>6, <1>7 DEF RInv

\* The source reports a list that is no older than any other under way.
LEMMA SourceUpdate ==
    ASSUME IInv, RInv, SourceOnly, UNCHANGED events,
           pc \notin {"off", "exited", "sending"},
           NEW type, type # "Error", NEW r \in 1 .. Current,
           NEW then, PlaceOf(then), then \notin {"query", "answered"},
           Sends(type, r, then),
           ~refetched => applied <= r /\ hold <= r /\ InChannel <= r,
           lastEps' = IF kind = "func" THEN Listed(r) ELSE lastEps,
           index' = IF kind = "consul" THEN r ELSE index
    PROVE RInv'
<1>1. UNCHANGED <<kind, log, hold, applied, refetched, wpc, phase>>
  BY DEF SourceOnly
<1>2. pc' = "sending" /\ resume' = then /\ out'.rev = r /\ out'.type = type
  BY DEF Sends, Event
<1>3. InChannel' = InChannel /\ Latest' = r /\ r # 0
  BY <1>1, <1>2, UnderWay DEF InChannel, Latest
<1>4. Places'
  BY <1>1, <1>2 DEF RInv, Places, PlaceOf
<1>5. Carried'
  BY <1>1, <1>2, <1>3 DEF RInv, Carried
<1>6. InOrder'
  BY <1>1, <1>2, <1>3 DEF RInv, InOrder, NotAfter
<1>7. Reported'
  <2>1. Listed(Latest)' = Listed(r)
    BY <1>1, <1>3 DEF Listed
  <2>2. kind # "func" => lastEps = <<>>
    BY DEF RInv, Places
  <2> QED
    BY <1>1, <1>2, <1>3, <2>1, <2>2 DEF Reported
<1> QED
  BY <1>4, <1>5, <1>6, <1>7 DEF RInv

\* The goroutine of the source returns, with what it had not yet sent.
LEMMA SourceExits ==
    ASSUME IInv, RInv, SourceOnly, UNCHANGED <<events, lastEps, index>>,
           pc # "off", pc' = "exited", out'.rev = 0
    PROVE RInv'
<1>1. UNCHANGED <<kind, log, hold, applied, refetched, wpc, phase>>
  BY DEF SourceOnly
<1>2. InChannel' = InChannel
  BY DEF InChannel
<1>3. Places' /\ Carried'
  BY <1>1, <1>2 DEF RInv, Places, PlaceOf, Carried
<1>4. InOrder' /\ Reported'
  BY <1>1, <1>2 DEF RInv, InOrder, NotAfter, Reported
<1> QED
  BY <1>3, <1>4 DEF RInv

\* An event moves from the source to the channel.
LEMMA SendRInv ==
    ASSUME IInv, RInv, SourceOnly, Send
    PROVE RInv'
<1>1. UNCHANGED <<kind, log, hold, applied, refetched, wpc, phase>>
  BY DEF SourceOnly
<1>2. UNCHANGED <<lastEps, index>> /\ pc = "sending" /\ pc' = resume /\ out' = NoEvent
  BY DEF Send
<1>3. events = <<>> /\ events' = <<out>>
  <2>1. events = <<>> \/ \E e \in EventOf(Rev) : events = <<e>>
    BY DEF IInv, DType
  <2>2. events = <<>>
    BY <2>1 DEF Send, HasRoom
  <2> QED
    BY <2>2 DEF Send
<1>4. /\ InChannel = 0 /\ InChannel' = out.rev /\ Head(events') = out /\ out'.rev = 0
      /\ Latest' = Latest
  BY <1>1, <1>2, <1>3, UnderWay DEF InChannel, NoEvent, Latest
<1>5. PlaceOf(resume) /\ resume \notin {"query", "answered", "off", "exited", "sending"}
  BY <1>2 DEF RInv, Places, PlaceOf
<1>6. Places'
  BY <1>1, <1>2, <1>4, <1>5 DEF RInv, Places, PlaceOf
<1>7. Carried'
  BY <1>1, <1>2, <1>4, <1>5 DEF RInv, Carried
<1>8. InOrder'
  BY <1>1, <1>2, <1>4, <1>5 DEF RInv, InOrder, NotAfter
<1>9. Reported'
  <2>1. Listed(Latest)' = Listed(Latest) /\ Listed(index)' = Listed(index)
    BY <1>1, <1>2, <1>4 DEF Listed
  <2> QED
    BY <1>1, <1>2, <1>4, <1>5, <2>1 DEF RInv, Reported
<1> QED
  BY <1>6, <1>7, <1>8, <1>9 DEF RInv

LEMMA SourceRInv ==
    ASSUME IInv, RInv, Source, UNCHANGED clientVars
    PROVE RInv'
<1>0. UNCHANGED <<hold, applied, refetched, wpc, phase>>
  BY DEF clientVars, watcherVars
<1>1. Places
  BY DEF RInv
<1>2. /\ Current \in 1 .. Current
      /\ applied <= Current /\ hold <= Current /\ InChannel <= Current
  BY UnderWay
<1>3. CASE Send
  BY <1>0, <1>3, SendRInv DEF Send, SourceOnly
<1>4. CASE PollChanged
  <2>1. SourceOnly /\ UNCHANGED <<events, index>> /\ pc = "tick" /\ kind = "func"
    BY <1>0, <1>1, <1>4 DEF PollChanged, SourceOnly, channelVars, Places, PlaceOf
  <2> QED
    BY <1>2, <1>4, <2>1, SourceUpdate DEF PollChanged, Remembered, PlaceOf
<1>5. CASE PollFails
  <2>1. SourceOnly /\ UNCHANGED <<events, lastEps, index>> /\ pc = "tick" /\ kind = "func"
    BY <1>0, <1>1, <1>5 DEF PollFails, SourceOnly, channelVars, Places, PlaceOf
  <2> QED
    BY <1>5, <2>1, SourceError DEF PollFails, PlaceOf
<1>6. CASE CustomEvent
  <2>1. /\ SourceOnly /\ UNCHANGED <<events, lastEps, index>> /\ pc = "idle"
        /\ kind = "custom"
    BY <1>0, <1>6 DEF CustomEvent, SourceOnly, channelVars
  <2>2. PICK type \in {"Update", "Delete"} : Sends(type, Current, "idle")
    BY <1>6 DEF CustomEvent
  <2> QED
    BY <1>2, <2>1, <2>2, SourceUpdate DEF PlaceOf
<1> DEFINE Etcd == SourceOnly /\ UNCHANGED <<events, lastEps, index>> /\ kind = "etcd"
<1>7. CASE EtcdSelect \/ EtcdResponse \/ EtcdBackoff
  <2>1. Etcd /\ UNCHANGED out
    BY <1>0, <1>1, <1>7 DEF EtcdSelect, EtcdResponse, EtcdBackoff, etcdRest, SourceOnly,
                            channelVars, Places, PlaceOf
  <2>2. pc \notin {"off", "exited", "sending"} /\ pc' \in {"select", "get", "refetch", "top"}
    BY <1>7 DEF EtcdSelect, EtcdResponse, EtcdBackoff
  <2> QED
    BY <2>1, <2>2, SourceQuiet DEF PlaceOf
<1>8. CASE EtcdGet \/ EtcdRefetch
  <2>1. Etcd /\ pc \notin {"off", "exited", "sending"}
    BY <1>0, <1>1, <1>8 DEF EtcdGet, EtcdRefetch, etcdRest, SourceOnly,
                            channelVars, Places, PlaceOf
  <2>2. CASE Sends("Update", Current, "top")
    BY <1>2, <2>1, <2>2, SourceUpdate DEF PlaceOf
  <2>3. CASE Sends("Error", 0, "top")
    BY <2>1, <2>3, SourceError DEF PlaceOf
  <2>4. CASE pc' = "top" /\ UNCHANGED out
    BY <2>1, <2>4, SourceQuiet DEF PlaceOf
  <2> QED
    BY <1>8, <2>2, <2>3, <2>4 DEF EtcdGet, EtcdRefetch
<1>9. CASE EtcdWatchClosed \/ EtcdWatchError
  <2>1. Etcd /\ pc = "select"
    BY <1>0, <1>1, <1>9 DEF EtcdWatchClosed, EtcdWatchError, etcdRest, SourceOnly,
                            channelVars, Places, PlaceOf
  <2>2. PICK then \in {"backoff", "pause", "top"} : Sends("Error", 0, then)
    BY <1>9 DEF EtcdWatchClosed, EtcdWatchError
  <2> QED
    BY <2>1, <2>2, SourceError DEF PlaceOf
<1>10. CASE ConsulQuery \/ ConsulAnswer
  <2>1. SourceOnly /\ UNCHANGED <<events, lastEps, index, out>> /\ kind = "consul"
    BY <1>0, <1>1, <1>10 DEF ConsulQuery, ConsulAnswer, consulRest, SourceOnly,
                             channelVars, Places, PlaceOf
  <2>2. \/ pc = "top" /\ pc' = "query" /\ wait' = index
        \/ pc = "query" /\ pc' = "answered" /\ wait' = wait /\ answer' = Current
    BY <1>10 DEF ConsulQuery, ConsulAnswer
  <2> QED
    BY <2>1, <2>2, SourceQuiet DEF PlaceOf
<1>11. CASE ConsulHandle
  <2>1. /\ SourceOnly /\ UNCHANGED <<events, lastEps>> /\ kind = "consul"
        /\ pc = "answered"
    BY <1>0, <1>1, <1>11 DEF ConsulHandle, consulRest, SourceOnly, channelVars, Places, PlaceOf
  <2>2. CASE answer > wait
    <3>1. answer \in 1 .. Current
      BY <2>1, <2>2, UnderWay DEF RInv, Carried, Rev
    <3>2. ~refetched => applied <= answer /\ hold <= answer /\ InChannel <= answer
      BY <2>1 DEF RInv, InOrder
    <3>3. index' = answer /\ Sends("Update", answer, "top")
      BY <1>11, <2>2 DEF ConsulHandle
    <3> QED
      BY <2>1, <3>1, <3>2, <3>3, SourceUpdate DEF PlaceOf
  <2>3. CASE ~(answer > wait)
    <3>1. pc' = "top" /\ UNCHANGED <<index, out>>
      BY <1>11, <2>3 DEF ConsulHandle
    <3> QED
      BY <2>1, <3>1, SourceQuiet DEF PlaceOf
  <2> QED
    BY <2>2, <2>3
<1>12. CASE ConsulFails
  <2>1. SourceOnly /\ UNCHANGED <<events, lastEps, index>> /\ kind = "consul" /\ pc = "query"
    BY <1>0, <1>1, <1>12 DEF ConsulFails, SourceOnly, Places, PlaceOf
  <2>2. CASE pc' = "exited" /\ UNCHANGED out
    BY <1>1, <2>1, <2>2, SourceExits DEF Places
  <2>3. CASE Sends("Error", 0, "top")
    BY <2>1, <2>3, SourceError DEF PlaceOf
  <2> QED
    BY <1>12, <2>2, <2>3 DEF ConsulFails
<1>13. CASE Return
  <2>1. SourceOnly /\ UNCHANGED <<events, lastEps, index>>
    BY <1>0, <1>13 DEF Return, SourceOnly
  <2>2. pc # "off" /\ pc' = "exited" /\ out'.rev = 0
    BY <1>13 DEF Return, ReturnsFrom, NoEvent
  <2> QED
    BY <2>1, <2>2, SourceExits
<1> QED
  BY <1>3, <1>4, <1>5, <1>6, <1>7, <1>8, <1>9, <1>10, <1>11, <1>12, <1>13
     DEF Source, SourceStep

-----------------------------------------------------------------------------
(* The steps of the client. *)

\* Nothing is under way when NewClient fetches its list.
LEMMA NewClientFetchRInv ==
    ASSUME IInv, RInv, NewClientFetch
    PROVE RInv'
<1>1. UNCHANGED <<kind, log, pc, out, resume, events, lastEps, wait, answer, hold, refetched, wpc>>
      /\ phase = "new" /\ applied' = Current
  BY DEF NewClientFetch, channelVars
<1>2. pc = "off" /\ wpc = "off"
  BY <1>1 DEF IInv, Life, Before
<1>3. events = <<>> /\ lastEps = <<>> /\ out.rev = 0 /\ hold = 0
  BY <1>2 DEF RInv, Places, Carried
<1>4. InChannel' = 0 /\ Current # 0
  BY <1>1, <1>3, UnderWay DEF InChannel
<1>5. Places' /\ Carried'
  BY <1>1, <1>2, <1>3, <1>4 DEF RInv, Places, PlaceOf, Carried
<1>6. InOrder' /\ Reported'
  BY <1>1, <1>2, <1>3, <1>4 DEF InOrder, NotAfter, Reported
<1> QED
  BY <1>5, <1>6 DEF RInv

\* The first event is the list the source remembers.
LEMMA StartWatcherRInv ==
    ASSUME IInv, RInv, startDiscoveryWatcher
    PROVE RInv'
<1>1. UNCHANGED <<kind, log, hold, applied, refetched, out, wait>>
      /\ phase = "watch" /\ phase' = "running" /\ wpc' = "select"
  BY DEF startDiscoveryWatcher, Watch
<1>2. pc = "off" /\ wpc = "off"
  BY <1>1 DEF IInv, Life, Before
<1>3. out.rev = 0 /\ hold = 0 /\ lastEps = <<>>
  BY <1>2 DEF RInv, Places, Carried
<1>4. events' = <<Event("Update", Current)>>
  BY DEF startDiscoveryWatcher, Watch, FirstEvent
<1>5. /\ InChannel' = Current /\ Head(events').type = "Update" /\ Current' = Current
      /\ Latest' = Current /\ Current # 0
  BY <1>1, <1>3, <1>4, UnderWay DEF InChannel, Event, Latest, Current
<1>6. /\ PlaceOf(pc') /\ pc' \in {"tick", "idle", "top"}
      /\ lastEps' = IF kind = "func" THEN Listed(Current) ELSE lastEps
      /\ index' = IF kind = "consul" THEN Current ELSE index
  BY DEF startDiscoveryWatcher, Watch, WatchPolling, WatchStatic, WatchCustom,
         WatchRegistry, Fetched, PlaceOf
<1>7. Places'
  BY <1>1, <1>3, <1>6 DEF Places, PlaceOf
<1>8. Carried'
  BY <1>1, <1>3, <1>5, <1>6 DEF RInv, Carried
<1>9. InOrder'
  BY <1>1, <1>3, <1>5, <1>6, UnderWay DEF InOrder, NotAfter
<1>10. Reported'
  <2>1. Listed(Latest)' = Listed(Current)
    BY <1>1, <1>5 DEF Listed
  <2> QED
    BY <1>1, <1>3, <1>5, <1>6, <2>1 DEF Reported
<1> QED
  BY <1>7, <1>8, <1>9, <1>10 DEF RInv

\* The watcher holds the list it has received; one without endpoints is nobody's.
LEMMA ReceiveRInv ==
    ASSUME IInv, RInv, Receive
    PROVE RInv'
<1>1. PICK e \in EventOf(Rev) : events = <<e>>
  BY DEF Receive, IInv, DType
<1>2. UNCHANGED <<kind, log, pc, out, resume, lastEps, index, wait, answer>>
      /\ UNCHANGED <<applied, refetched, phase>> /\ wpc = "select"
  BY DEF Receive, sourceVars
<1>3. Head(events) = e /\ events' = <<>> /\ InChannel = e.rev /\ InChannel' = 0 /\ e.rev \in Rev
  BY <1>1 DEF Receive, InChannel, EventOf
<1>4. hold = 0
  BY <1>2 DEF RInv, Carried
<1>5. \/ /\ e.rev # 0
         /\ hold' = e.rev
         /\ wpc' = "lock"
      \/ /\ e.rev = 0 \/ Listed(e.rev) = <<>>
         /\ hold' = 0
         /\ wpc' \in {"select", "fetch"}
  <2>1. e.rev # 0 => e.type # "Error"
    BY <1>3 DEF RInv, Carried
  <2>2. \A count : AfterError(count) \in {"select", "fetch"}
    BY DEF AfterError
  <2>3. \/ /\ (IF e.rev = 0 THEN <<>> ELSE Listed(e.rev)) # <<>>
           /\ hold' = e.rev /\ wpc' = "lock"
        \/ /\ (IF e.rev = 0 THEN <<>> ELSE Listed(e.rev)) = <<>>
           /\ hold' = hold /\ wpc' = wpc
        \/ /\ e.type = "Error" /\ hold' = hold
           /\ \E count : wpc' = AfterError(count)
    BY <1>3 DEF Receive
  <2> QED
    BY <1>2, <1>4, <2>1, <2>2, <2>3
<1>6. Places'
  BY <1>2, <1>3 DEF RInv, Places, PlaceOf
<1>7. Carried'
  BY <1>2, <1>3, <1>5 DEF RInv, Carried, Current
<1>8. InOrder'
  BY <1>2, <1>3, <1>4, <1>5, UnderWay DEF RInv, InOrder, NotAfter, Rev
<1>9. Reported'
  <2>1. Listed(Latest)' = Listed(Latest') /\ Listed(index)' = Listed(index)
        /\ Listed(wait)' = Listed(wait)
    BY <1>2 DEF Listed
  <2>2. Latest' = Latest \/ (Latest = e.rev /\ Listed(e.rev) = <<>>)
    BY <1>2, <1>3, <1>4, <1>5 DEF Latest
  <2> QED
    BY <1>2, <2>1, <2>2 DEF RInv, Reported
<1> QED
  BY <1>6, <1>7, <1>8, <1>9 DEF RInv

\* From its own fetch on, nothing is promised; an empty list only moves the index.
LEMMA RefetchRInv ==
    ASSUME IInv, RInv, Refetch
    PROVE RInv'
<1>1. UNCHANGED <<kind, log, pc, out, resume, events, lastEps, wait, answer, applied, phase>>
      /\ wpc = "fetch"
  BY DEF Refetch, channelVars
<1>2. index' = (IF kind = "consul" THEN Current ELSE index) /\ Current # 0
  BY UnderWay DEF Refetch, Fetched
<1>3. hold = 0
  BY <1>1 DEF RInv, Carried
<1>4. \/ wpc' = "lock" /\ refetched' = TRUE
      \/ Listed(Current) = <<>> /\ wpc' = "select" /\ UNCHANGED <<hold, refetched>>
  BY DEF Refetch
<1>5. InChannel' = InChannel /\ Current' = Current
  BY <1>1 DEF InChannel, Current
<1>6. Places'
  BY <1>1 DEF RInv, Places, PlaceOf
<1>7. Carried'
  BY <1>1, <1>2, <1>3, <1>4, <1>5 DEF RInv, Carried
<1>8. InOrder'
  BY <1>1, <1>3, <1>4, <1>5 DEF RInv, InOrder, NotAfter
<1>9. Reported'
  <2>1. CASE refetched' = TRUE
    BY <2>1 DEF Reported
  <2>2. CASE Listed(Current) = <<>> /\ UNCHANGED <<hold, refetched>>
    <3>1. Latest' = Latest
      BY <1>1, <1>5, <2>2 DEF Latest
    <3>2. Listed(Latest)' = Listed(Latest) /\ Listed(wait)' = Listed(wait)
      BY <1>1, <3>1 DEF Listed
    <3>3. kind = "consul" => Listed(index)' = <<>>
      BY <1>1, <1>2, <2>2 DEF Listed
    <3> QED
      BY <1>1, <2>2, <3>1, <3>2, <3>3 DEF RInv, Reported
  <2> QED
    BY <1>4, <2>1, <2>2
<1> QED
  BY <1>6, <1>7, <1>8, <1>9 DEF RInv

\* What was held is applied.
LEMMA PushRInv ==
    ASSUME IInv, RInv, Push
    PROVE RInv'
<1>1. UNCHANGED <<kind, log, pc, out, resume, events, lastEps, index, wait, answer>>
      /\ UNCHANGED <<refetched, phase>> /\ wpc = "push"
  BY DEF Push, discoveryVars, channelVars, sourceVars
<1>2. hold # 0 /\ hold' = 0 /\ applied' = hold /\ wpc' = "callback"
  BY <1>1 DEF Push, IInv, CType
<1>3. InChannel' = InChannel /\ Latest' = Latest /\ Current' = Current
  BY <1>1, <1>2 DEF InChannel, Latest, Current
<1>4. Places'
  BY <1>1 DEF RInv, Places, PlaceOf
<1>5. Carried'
  BY <1>1, <1>2, <1>3 DEF RInv, Carried
<1>6. InOrder'
  BY <1>1, <1>2, <1>3, UnderWay DEF RInv, InOrder, NotAfter, Rev
<1>7. Reported'
  <2>1. Listed(Latest)' = Listed(Latest) /\ Listed(index)' = Listed(index)
        /\ Listed(wait)' = Listed(wait)
    BY <1>1, <1>3 DEF Listed
  <2> QED
    BY <1>1, <1>3, <2>1 DEF RInv, Reported
<1> QED
  BY <1>4, <1>5, <1>6, <1>7 DEF RInv

\* Every other step leaves what is under way alone.
LEMMA OtherRInv ==
    ASSUME IInv, RInv,
           \/ NewClientRefuses \/ NewClientFetchFails \/ Dial \/ DialFails \/ Connected
           \/ startDiscoveryWatcherFails
           \/ RefetchFails \/ Lock \/ CallbackReturns \/ WatcherReturns
           \/ (\E eps \in UserList : SetEndpoints(eps)) \/ SetEndpointsPush
           \/ ContextEnds \/ CloseCancel \/ CloseConn
           \/ ChannelStarts \/ ChannelAsks \/ ChannelStops
           \/ UNCHANGED vars
    PROVE RInv'
<1>1. UNCHANGED <<kind, log, pc, out, resume, events, lastEps, index, wait, answer>>
      /\ UNCHANGED <<hold, applied, refetched>>
  BY DEF NewClientRefuses, NewClientFetchFails, Dial, DialFails, Connected, startDiscoveryWatcherFails, GivesUp,
         RefetchFails, Lock, CallbackReturns, WatcherReturns, SetEndpoints, SetEndpointsPush,
         ContextEnds, CloseCancel, CloseConn, ChannelStarts, ChannelAsks, ChannelStops, vars, clientVars,
         discoveryVars, channelVars, sourceVars, watcherVars
<1>2. \/ wpc' = wpc
      \/ wpc \in {"fetch", "callback", "select"}
      \/ wpc' = "push"
  BY DEF NewClientRefuses, NewClientFetchFails, Dial, DialFails, Connected, startDiscoveryWatcherFails, GivesUp,
         RefetchFails, Lock, CallbackReturns, WatcherReturns, SetEndpoints, SetEndpointsPush,
         ContextEnds, CloseCancel, CloseConn, ChannelStarts, ChannelAsks, ChannelStops, vars, clientVars,
         watcherVars
<1>3. wpc' \notin {"lock", "push"} => hold = 0
  BY <1>2 DEF RInv, Carried
<1>4. phase' \notin {"new", "failed", "refused"} => phase \notin {"new", "failed", "refused"}
  BY DEF NewClientRefuses, NewClientFetchFails, Dial, DialFails, Connected, startDiscoveryWatcherFails, GivesUp,
         RefetchFails, Lock, CallbackReturns, WatcherReturns, SetEndpoints, SetEndpointsPush,
         ContextEnds, CloseCancel, CloseConn, ChannelStarts, ChannelAsks, ChannelStops, vars, clientVars
<1> QED
  BY <1>1, <1>3, <1>4, ReportStays

-----------------------------------------------------------------------------
(* The theorems. *)

\* The invariant the theorems below follow from.
THEOREM InductiveInvariant == Spec => []IInv
<1>1. IInv /\ [Next]_vars => IInv'
  <2> SUFFICES ASSUME IInv, [Next]_vars PROVE IInv'
    OBVIOUS
  <2>1. CASE UNCHANGED vars
    BY <2>1 DEF vars, discoveryVars, clientVars, channelVars, sourceVars, watcherVars, cfgVars,
                resolverVars, IInv, DType, CType, Life, Lists, Rev, Current, HasWatcher, Listed
  <2>2. CASE Change /\ UNCHANGED clientVars
    BY <2>2, ChangeIInv
  <2>3. CASE Source /\ UNCHANGED clientVars
    BY <2>3, SourceIInv
  <2>4. CASE NewClient
    BY <2>4, NewClientFetchIInv, FailedIInv, DialIInv, StartWatcherIInv DEF NewClient
  <2>5. CASE Watcher
    BY <2>5, ReceiveIInv, RefetchIInv, LockIInv, PushIInv, WatcherMovesIInv DEF Watcher
  <2>6. CASE (\E eps \in UserList : SetEndpoints(eps)) \/ SetEndpointsPush
    BY <2>6, SetEndpointsIInv, PushIInv
  <2>7. CASE ContextEnds \/ CloseCancel \/ CloseConn
    BY <2>7, CloseIInv
  <2>8. CASE ChannelStarts \/ ChannelAsks \/ ChannelStops
    BY <2>8, ChannelIInv
  <2> QED
    BY <2>1, <2>2, <2>3, <2>4, <2>5, <2>6, <2>7, <2>8 DEF Next
<1> QED
  BY InitIInv, <1>1, PTL DEF Spec

\* TypeOK: for any number of revisions, failures and errors the channel between
\* source and client holds one event, and no variable leaves its range.
THEOREM TypeCorrect == Spec => []TypeOK
<1>1. IInv => TypeOK
  <2> SUFFICES ASSUME IInv PROVE TypeOK
    OBVIOUS
  <2>1. DType /\ CType
    BY DEF IInv
  <2>2. Len(events) <= 1
    <3>1. CASE events = <<>>
      BY <3>1
    <3>2. CASE \E e \in EventOf(Rev) : events = <<e>>
      BY <3>2
    <3> QED
      BY <2>1, <3>1, <3>2 DEF DType
  <2>3. \A r \in 1 .. Current : log[r] \in Content
    BY <2>1 DEF DType, Current
  <2> QED
    BY <2>1, <2>2, <2>3 DEF TypeOK, DType, CType, Rev, Current
<1> QED
  BY <1>1, InductiveInvariant, PTL

\* ChannelShowsList: whoever writes lists, and however often the channel goes idle,
\* a channel that is built works with the configuration when the lock is free.
THEOREM ChannelAlwaysShowsList == Spec => []ChannelShowsList
<1>1. IInv => ChannelShowsList
  BY DEF IInv, Lists, ChannelShowsList
<1> QED
  BY <1>1, InductiveInvariant, PTL

\* NothingLeftBehind: a NewClient that failed and a Close that returned have left no
\* goroutine, no connection and no writer.
THEOREM NothingEverLeftBehind == Spec => []NothingLeftBehind
<1>1. IInv => NothingLeftBehind
  BY DEF IInv, Life, CType, Before, NothingLeftBehind, FailedLeavesNothing, QuietAfterClose
<1> QED
  BY <1>1, InductiveInvariant, PTL

\* What is on its way to the client stays in order, and is what the source believes it
\* has reported, until the watcher fetches a list by itself.
THEOREM ReportedInvariant == Spec => []RInv
<1>1. IInv /\ RInv /\ [Next]_vars => RInv'
  <2> SUFFICES ASSUME IInv, RInv, [Next]_vars PROVE RInv'
    OBVIOUS
  <2>1. CASE Change /\ UNCHANGED clientVars
    BY <2>1, ChangeRInv
  <2>2. CASE Source /\ UNCHANGED clientVars
    BY <2>2, SourceRInv
  <2>3. CASE NewClient
    BY <2>3, NewClientFetchRInv, StartWatcherRInv, OtherRInv DEF NewClient
  <2>4. CASE Watcher
    BY <2>4, ReceiveRInv, RefetchRInv, PushRInv, OtherRInv DEF Watcher
  <2> QED
    BY <2>1, <2>2, <2>3, <2>4, OtherRInv DEF Next
<1> QED
  BY InitRInv, <1>1, InductiveInvariant, PTL DEF Spec

\* NothingWithheld: once nothing is under way, the list the polls compare with and the
\* index the blocking query waits on are those of the list the client works with.
THEOREM NothingEverWithheld == Spec => []NothingWithheld
<1>1. IInv /\ RInv => NothingWithheld
  <2> SUFFICES ASSUME IInv, RInv, events = <<>>, wpc = "select", ~refetched
               PROVE /\ pc = "tick" /\ lastEps # <<>> => Listed(applied) = lastEps
                     /\ pc = "query" /\ Listed(wait) # <<>> => applied = wait
    BY DEF NothingWithheld
  <2>1. InChannel = 0 /\ hold = 0
    BY DEF InChannel, RInv, Carried
  <2>2. pc \in {"tick", "query"} => out.rev = 0
    BY DEF RInv, Places
  <2>3. pc \in {"tick", "query"} => Latest = applied
    BY <2>1, <2>2 DEF Latest
  <2> QED
    BY <2>3 DEF RInv, Reported
<1> QED
  BY <1>1, InductiveInvariant, ReportedInvariant, PTL

\* NoGoingBack: the list the client works with is replaced by an older one only after
\* the watcher has fetched one by itself.
THEOREM NeverGoesBack == Spec => NoGoingBack
<1>1. IInv /\ RInv /\ [Next]_vars => [applied' < applied => refetched]_vars
  <2> SUFFICES ASSUME IInv, RInv, Next, applied' < applied PROVE refetched
    BY DEF vars, clientVars, watcherVars
  <2>1. applied \in Nat /\ Current \in Nat /\ applied <= Current /\ hold \in Nat
    BY UnderWay
  <2>2. applied' = applied \/ NewClientFetch \/ Push
    BY DEF Next, NewClient, Watcher, NewClientRefuses, NewClientFetchFails, Dial, DialFails, Connected,
           startDiscoveryWatcher, startDiscoveryWatcherFails, GivesUp, Receive, Refetch,
           RefetchFails, Lock, CallbackReturns, WatcherReturns, SetEndpoints, SetEndpointsPush,
           ContextEnds, CloseCancel, CloseConn, ChannelStarts, ChannelAsks, ChannelStops, clientVars,
           watcherVars
  <2>3. CASE NewClientFetch
    BY <2>1, <2>3 DEF NewClientFetch
  <2>4. CASE Push
    <3>1. applied' = hold /\ hold # 0
      BY <2>4 DEF Push, IInv, CType
    <3> QED
      BY <2>1, <3>1 DEF RInv, InOrder, NotAfter
  <2> QED
    BY <2>1, <2>2, <2>3, <2>4
<1> QED
  BY <1>1, InductiveInvariant, ReportedInvariant, PTL DEF Spec, NoGoingBack
=============================================================================
