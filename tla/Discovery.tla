----------------------------- MODULE Discovery -----------------------------
(* Package grpclient/discovery: the sources a client watches for endpoints.  *)
(* A registry outside the program holds a list that changes; a goroutine of  *)
(* the source turns its changes into events on a channel with room for one.  *)
(* Revision r of the registry is log[r], events name the revision they carry.*)
EXTENDS Naturals, Integers, Sequences, SequencesExt

CONSTANTS
    Content,    \* the lists the registry may hold
    First,      \* bound: those of them it may hold at the start
    Kind,       \* the sources to consider
    MaxRev,     \* bound: revisions of the registry
    MaxFaults   \* bound: failures of the registry

ASSUME ContentAssumption ==
    \A c \in Content : \A i \in DOMAIN c :
        DOMAIN c[i] = {"addr", "weight", "meta"} /\ c[i].weight \in Int
ASSUME FirstAssumption == First \subseteq Content
ASSUME KindAssumption ==
    Kind \subseteq {"none", "func", "static", "custom", "etcd", "consul"}
ASSUME BoundsAssumption == MaxRev \in Nat \ {0} /\ MaxFaults \in Nat

VARIABLES
    kind,       \* the discovery of the client; "none" is a client without one
    log,        \* the lists the registry has held, the last is the current one
    faults,     \* failures so far
    ctxDone,    \* the client's context is cancelled
    events,     \* the channel between source and client
    closed,     \* that channel is closed
    pc,         \* where the goroutine of the source is
    out,        \* the event it is sending
    resume,     \* where it goes on after that
    lastEps,    \* PollingDiscovery.lastEps
    index,      \* ConsulDiscovery.lastIndex, shared with GetEndpoints
    wait,       \* the index the blocking query under way waits on
    answer,     \* the index of its answer, until it is handled
    watch       \* the revision etcd's watch has reported, 0 without a watch

sourceVars == <<pc, out, resume, lastEps, index, wait, answer, watch>>
channelVars == <<events, closed>>
discoveryVars == <<kind, log, faults, ctxDone, channelVars, sourceVars>>

Current == Len(log)

\* A registry's entry has a weight of at least 1, whatever is stored.
WithWeight(eps) ==
    [i \in DOMAIN eps |->
        IF eps[i].weight <= 0 THEN [eps[i] EXCEPT !.weight = 1] ELSE eps[i]]

Listed(r) ==
    IF kind \in {"etcd", "consul"} THEN WithWeight(log[r]) ELSE log[r]

\* A map built over a list: the last entry of an address is the one it keeps.
LastEntry(eps, addr) ==
    eps[CHOOSE i \in DOMAIN eps :
        eps[i].addr = addr /\ \A j \in DOMAIN eps : j > i => eps[j].addr # addr]

EndpointsToAddrs(eps) == [i \in DOMAIN eps |-> eps[i].addr]

EndpointsToAttrsMap(eps) ==
    [addr \in ToSet(EndpointsToAddrs(eps)) |->
        [weight |-> LastEntry(eps, addr).weight, meta |-> LastEntry(eps, addr).meta]]

\* hasChanged: addresses and weights, neither metadata nor repeated addresses.
HasChanged(new, old) ==
    ~(/\ Len(new) = Len(old)
      /\ \A i \in DOMAIN new :
            /\ new[i].addr \in ToSet(EndpointsToAddrs(old))
            /\ LastEntry(old, new[i].addr).weight = new[i].weight)

NoEvent == [type |-> "none", rev |-> 0]
Event(type, rev) == [type |-> type, rev |-> rev]

\* A request to the registry fails, of its own or because the context is over.
Fails ==
    \/ faults < MaxFaults /\ faults' = faults + 1
    \/ ctxDone /\ UNCHANGED faults

\* What a successful GetEndpoints leaves behind: Consul's is the shared index.
Fetched == index' = IF kind = "consul" THEN Current ELSE index

\* The goroutine is to send the event and then to go on at "then".
Sends(type, rev, then) ==
    /\ out' = Event(type, rev)
    /\ resume' = then
    /\ pc' = "sending"

DiscoveryInit ==
    /\ kind \in Kind
    /\ log \in {<<c>> : c \in First}
    /\ faults = 0
    /\ ctxDone = FALSE
    /\ events = <<>>
    /\ closed = FALSE
    /\ pc = "off"
    /\ out = NoEvent
    /\ resume = "top"
    /\ lastEps = <<>>
    /\ index = 0
    /\ wait = 0
    /\ answer = 0
    /\ watch = 0

(* The registry and the calls the client makes *)

\* The list in the registry changes: instances register, unregister, fail.
Change ==
    /\ kind # "none"
    /\ Current < MaxRev
    /\ \E c \in Content \ {log[Current]} : log' = Append(log, c)
    /\ UNCHANGED <<kind, faults, ctxDone, channelVars, sourceVars>>

\* Mutant: the list the source was made with.
FirstEventAsMade == Event("Update", 1)

FirstEvent == Event("Update", Current)

\* A DiscoveryFunc has no Watch; the client wraps it in a PollingDiscovery.
WatchPolling ==
    /\ kind = "func"
    /\ lastEps' = Listed(Current)
    /\ pc' = "tick"
    /\ UNCHANGED watch

\* The goroutine of a static list only waits for the end of the context.
WatchStatic ==
    /\ kind = "static"
    /\ pc' = "idle"
    /\ UNCHANGED <<lastEps, watch>>

WatchCustom ==
    /\ kind = "custom"
    /\ pc' = "idle"
    /\ watch' = Current
    /\ UNCHANGED lastEps

WatchRegistry ==
    /\ kind \in {"etcd", "consul"}
    /\ pc' = "top"
    /\ UNCHANGED <<lastEps, watch>>

\* Watch: fetch, put the first event in the empty channel, start the goroutine.
Watch ==
    /\ Fetched
    /\ events' = <<FirstEvent>>
    /\ \/ WatchPolling
       \/ WatchStatic
       \/ WatchCustom
       \/ WatchRegistry
    /\ UNCHANGED <<closed, out, resume, wait, answer>>

(* What every goroutine does *)

\* Mutant: the channel holds two events.
HasRoomForTwo == Len(events) < 2

HasRoom == Len(events) < 1

Send ==
    /\ pc = "sending"
    /\ HasRoom
    /\ events' = Append(events, out)
    /\ pc' = resume
    /\ out' = NoEvent
    /\ resume' = "top"
    /\ UNCHANGED <<kind, log, faults, ctxDone, closed, lastEps, index, wait, answer,
                   watch>>

\* Mutant: an event is sent without a look at the context.
ReturnsFromButSending == {"tick", "idle", "top", "select", "backoff", "pause"}

ReturnsFrom == {"tick", "idle", "top", "select", "backoff", "pause", "sending"}

\* Wherever it selects on ctx.Done() it may return, and close the channel.
Return ==
    /\ ctxDone
    /\ pc \in ReturnsFrom
    /\ pc' = "exited"
    /\ closed' = TRUE
    /\ out' = NoEvent
    /\ resume' = "top"
    /\ UNCHANGED <<kind, log, faults, ctxDone, events, lastEps,
                   index, wait, answer, watch>>

(* PollingDiscovery *)

\* Mutant: polls compare with the first list for ever.
RememberedFirst == UNCHANGED lastEps

Remembered == lastEps' = Listed(Current)

\* A poll that finds no change does nothing.
PollChanged ==
    /\ pc = "tick"
    /\ HasChanged(Listed(Current), lastEps)
    /\ Remembered
    /\ Sends("Update", Current, "tick")
    /\ UNCHANGED <<kind, log, faults, ctxDone, channelVars, index, wait, answer, watch>>

PollFails ==
    /\ pc = "tick"
    /\ Fails
    /\ Sends("Error", 0, "tick")
    /\ UNCHANGED <<kind, log, ctxDone, channelVars, lastEps, index, wait, answer, watch>>

(* A user's own implementation of Discovery, which may send any event; "watch" *)
(* is the revision it has sent.                                                *)

CustomEvent ==
    /\ kind = "custom"
    /\ pc = "idle"
    /\ watch < Current
    /\ watch' = Current
    /\ \E type \in {"Update", "Delete"} : Sends(type, Current, "idle")
    /\ UNCHANGED <<kind, log, faults, ctxDone, channelVars, lastEps, index, wait, answer>>

(* EtcdDiscovery *)

etcdRest == <<kind, log, ctxDone, channelVars, lastEps, index, wait, answer>>

\* Create the watch if there is none: it reports what comes after this moment.
EtcdSelect ==
    /\ kind = "etcd"
    /\ pc = "top"
    /\ ~ctxDone
    /\ watch' = IF watch = 0 THEN Current ELSE watch
    /\ pc' = "select"
    /\ UNCHANGED <<etcdRest, faults, out, resume>>

EtcdResponse ==
    /\ pc = "select"
    /\ watch < Current
    /\ watch' \in (watch + 1) .. Current
    /\ pc' = "get"
    /\ UNCHANGED <<etcdRest, faults, out, resume>>

EtcdGet ==
    /\ pc = "get"
    /\ \/ Sends("Update", Current, "top") /\ UNCHANGED faults
       \/ Sends("Error", 0, "top") /\ Fails
    /\ UNCHANGED <<etcdRest, watch>>

EtcdWatchClosed ==
    /\ pc = "select"
    /\ Fails
    /\ watch' = 0
    /\ Sends("Error", 0, "backoff")
    /\ UNCHANGED etcdRest

\* resp.Err(): a cancelled watch is made again after a pause, without a Get.
EtcdWatchError ==
    /\ pc = "select"
    /\ faults < MaxFaults
    /\ faults' = faults + 1
    /\ \/ watch' = 0 /\ Sends("Error", 0, "pause")
       \/ UNCHANGED watch /\ Sends("Error", 0, "top")
    /\ UNCHANGED etcdRest

EtcdBackoff ==
    /\ pc \in {"backoff", "pause"}
    /\ pc' = IF pc = "backoff" THEN "refetch" ELSE "top"
    /\ UNCHANGED <<etcdRest, faults, out, resume, watch>>

\* After a reconnect the list is fetched before the watch is made again.
EtcdRefetch ==
    /\ pc = "refetch"
    /\ \/ Sends("Update", Current, "top") /\ UNCHANGED faults
       \/ pc' = "top" /\ Fails /\ UNCHANGED <<out, resume>>
    /\ UNCHANGED <<etcdRest, watch>>

(* ConsulDiscovery *)

consulRest == <<kind, log, ctxDone, channelVars, lastEps, watch>>

ConsulQuery ==
    /\ kind = "consul"
    /\ pc = "top"
    /\ ~ctxDone
    /\ wait' = index
    /\ pc' = "query"
    /\ UNCHANGED <<consulRest, faults, out, resume, index, answer>>

\* The agent answers at once if the index is past the one waited on, else when
\* it changes or when the wait time is over.
ConsulAnswer ==
    /\ pc = "query"
    /\ answer' = Current
    /\ pc' = "answered"
    /\ UNCHANGED <<consulRest, faults, out, resume, index, wait>>

ConsulHandle ==
    /\ pc = "answered"
    /\ IF answer > wait
       THEN index' = answer /\ Sends("Update", answer, "top")
       ELSE pc' = "top" /\ UNCHANGED <<index, out, resume>>
    /\ wait' = 0
    /\ answer' = 0
    /\ UNCHANGED <<consulRest, faults>>

ConsulFails ==
    /\ pc = "query"
    /\ Fails
    /\ IF ctxDone
       THEN pc' = "exited" /\ closed' = TRUE /\ UNCHANGED <<out, resume>>
       ELSE Sends("Error", 0, "top") /\ UNCHANGED closed
    /\ wait' = 0
    /\ UNCHANGED <<kind, log, ctxDone, events, lastEps, watch, index, answer>>

\* The goroutine's steps, the registry's answers to it included.
SourceStep ==
    \/ Send
    \/ PollChanged
    \/ EtcdSelect
    \/ EtcdResponse
    \/ EtcdGet
    \/ EtcdBackoff
    \/ EtcdRefetch
    \/ ConsulQuery
    \/ ConsulAnswer
    \/ ConsulHandle
    \/ ConsulFails

Source ==
    \/ SourceStep
    \/ Return
    \/ PollFails
    \/ CustomEvent
    \/ EtcdWatchClosed
    \/ EtcdWatchError
=============================================================================
