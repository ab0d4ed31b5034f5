---------------------------- MODULE BaseBalancer ----------------------------
(***************************************************************************)
(* balancer/balancer.go: the baseBalancer every registered policy builds.  *)
(* Its handlers run under b.mu, so each is one action; what interleaves    *)
(* with them is gRPC: the SubConns' connections, the goroutines started by *)
(* SubConn.Connect, and the state notifications, which reach the listener  *)
(* of one SubConn in order but later than the change they report. One      *)
(* handler never returns: an update to an empty list calls ResolverError,  *)
(* which locks the mutex the update holds.                                 *)
(***************************************************************************)
EXTENDS Integers, Sequences, FiniteSets

CONSTANTS
    Addr,       \* addresses without their attributes, the keys of b.subConns
    Attr,       \* attribute values an address may carry
    SubConn,    \* SubConns alive at once; a released one may be made again
    NoSubConn,  \* absent entry of b.subConns
    MaxNotes    \* BOUND: transport changes of one SubConn awaiting delivery

ASSUME BalancerAssumption ==
    /\ IsFiniteSet(SubConn)
    /\ NoSubConn \notin SubConn
    /\ MaxNotes \in Nat \ {0}

VARIABLES
    mu,           \* b.mu: "free", or "held" by an update that waits for it
    csEvltr,      \* b.csEvltr: how many SubConns are in each counted state
    state,        \* b.state
    subConns,     \* b.subConns: address -> SubConn
    scStates,     \* b.scStates: SubConn -> last recorded state
    scAddrs,      \* b.scAddrs: SubConn -> address with its latest attributes
    picker,       \* b.picker
    resolverErr,  \* b.resolverErr # nil
    connErr,      \* b.connErr # nil
    published,    \* what the channel last got from cc.UpdateState
    resolved,     \* history: the address list of the last resolver update
    conn,         \* gRPC: the state of each connection
    notes,        \* gRPC: notifications not yet delivered, per SubConn
    connects      \* gRPC: SubConns with a Connect goroutine still to run

errVars == <<resolverErr, connErr>>
balancerVars == <<mu, csEvltr, state, subConns, scStates, scAddrs, picker,
                  resolverErr, connErr, published>>
connVars == <<resolved, conn, notes, connects>>
vars == <<balancerVars, connVars>>

Counted == {"IDLE", "CONNECTING", "READY", "TRANSIENT_FAILURE"}
ConnState == Counted \cup {"SHUTDOWN"}
NoState == "NONE"          \* absent entry of b.scStates
NoAttr == "NONE"           \* address not in the list
NoAddr == [addr |-> "NONE", attr |-> NoAttr]  \* absent entry of b.scAddrs

Address == [addr : Addr, attr : Attr]

\* An errPicker carries the errors it was made from, a built picker the READY
\* SubConns with their addresses; "queue" is ErrPicker(ErrNoSubConnAvailable).
Picker == [kind : {"queue", "err", "built"},
           ready : SUBSET [sc : SubConn, address : Address \cup {NoAddr}],
           conn : BOOLEAN, resolver : BOOLEAN]

QueuePicker == [kind |-> "queue", ready |-> {}, conn |-> FALSE, resolver |-> FALSE]

InUse == {subConns[a] : a \in Addr} \ {NoSubConn}

-----------------------------------------------------------------------------
(* Helpers of the handlers. *)

\* ConnectivityStateEvaluator.RecordTransition: one leaves old, one enters new.
RecordTransition(counts, old, new) ==
    [st \in Counted |-> counts[st] + (IF st = new THEN 1 ELSE 0)
                                   - (IF st = old THEN 1 ELSE 0)]

\* ConnectivityStateEvaluator.CurrentState.
CurrentState(counts) ==
    IF counts["READY"] > 0 THEN "READY"
    ELSE IF counts["CONNECTING"] > 0 THEN "CONNECTING"
    ELSE IF counts["IDLE"] > 0 THEN "IDLE"
    ELSE "TRANSIENT_FAILURE"

\* The readySCs map handed to the picker builder.
ReadySCs(subs, states, addrs) ==
    {[sc |-> subs[a], address |-> addrs[subs[a]]] :
        a \in {b \in Addr : subs[b] # NoSubConn /\ states[subs[b]] = "READY"}}

ErrPicker(cErr, rErr) ==
    [kind |-> "err", ready |-> {}, conn |-> cErr, resolver |-> rErr]

RegeneratePicker(st, subs, states, addrs, cErr, rErr) ==
    IF st = "TRANSIENT_FAILURE"
    THEN ErrPicker(cErr, rErr)
    ELSE [kind |-> "built", ready |-> ReadySCs(subs, states, addrs),
          conn |-> FALSE, resolver |-> FALSE]

\* cc.UpdateState with what the handler has just stored.
Publish == published' = [state |-> state', picker |-> picker']

-----------------------------------------------------------------------------
Init ==
    /\ mu = "free"
    /\ csEvltr = [st \in Counted |-> 0]
    /\ state = "CONNECTING"
    /\ subConns = [a \in Addr |-> NoSubConn]
    /\ scStates = [sc \in SubConn |-> NoState]
    /\ scAddrs = [sc \in SubConn |-> NoAddr]
    /\ picker = QueuePicker
    /\ resolverErr = FALSE
    /\ connErr = FALSE
    /\ published = [state |-> "CONNECTING", picker |-> QueuePicker]
    /\ resolved = [a \in Addr |-> NoAttr]
    /\ conn = [sc \in SubConn |-> "SHUTDOWN"]
    /\ notes = [sc \in SubConn |-> <<>>]
    /\ connects = {}

\* SubConns gRPC may hand out: nothing of an earlier life is left of them.
Fresh == {sc \in SubConn : /\ conn[sc] = "SHUTDOWN"
                           /\ notes[sc] = <<>>
                           /\ sc \notin connects
                           /\ scStates[sc] = NoState}

(* ResolverError: the resolver reports an error on its own. *)
ResolverError ==
    /\ mu = "free"
    /\ resolverErr' = TRUE
    /\ state' = IF InUse = {} THEN "TRANSIENT_FAILURE" ELSE state
    /\ IF state' = "TRANSIENT_FAILURE"
       THEN /\ picker' = RegeneratePicker(state', subConns, scStates, scAddrs,
                                          connErr, TRUE)
            /\ Publish
       ELSE UNCHANGED <<picker, published>>
    /\ UNCHANGED <<mu, csEvltr, subConns, scStates, scAddrs, connErr, connVars>>

\* The loop over the resolved addresses: the SubConns they have afterwards. An
\* address outside DOMAIN made is known already or NewSubConn failed for it.
Resolved(latest, made) ==
    [a \in Addr |-> IF a \in DOMAIN made THEN made[a]
                    ELSE IF a \in DOMAIN latest THEN subConns[a]
                    ELSE NoSubConn]

\* Mutant: attributes are stored only when the SubConn is made.
RefreshAddrsOnce(subs, latest) ==
    [sc \in SubConn |->
        IF \E a \in DOMAIN latest : subs[a] = sc /\ scAddrs[sc] = NoAddr
        THEN LET a == CHOOSE x \in DOMAIN latest : subs[x] = sc
             IN [addr |-> a, attr |-> latest[a]]
        ELSE scAddrs[sc]]

\* Every SubConn of a resolved address gets the latest attributes.
RefreshAddrs(subs, latest) ==
    [sc \in SubConn |->
        IF \E a \in DOMAIN latest : subs[a] = sc
        THEN LET a == CHOOSE x \in DOMAIN latest : subs[x] = sc
             IN [addr |-> a, attr |-> latest[a]]
        ELSE scAddrs[sc]]

\* Mutant: one transition is recorded for an update, however many SubConns it makes.
CountCreatedOnce(created) ==
    [csEvltr EXCEPT !["IDLE"] = @ + (IF created = {} THEN 0 ELSE 1)]

\* Each SubConn made enters the evaluator from Shutdown to Idle.
CountCreated(created) == [csEvltr EXCEPT !["IDLE"] = @ + Cardinality(created)]

(* UpdateClientConnState down to its look at the length of the list. latest maps
   the resolved addresses to attributes, made the new ones for which NewSubConn
   succeeded to their SubConns. *)
AdoptAddresses(latest, made) ==
    LET created == {made[a] : a \in DOMAIN made}
        removed == {subConns[a] : a \in Addr \ DOMAIN latest} \ {NoSubConn}
    IN
    /\ resolverErr' = FALSE
    /\ subConns' = Resolved(latest, made)
    /\ scStates' = [sc \in SubConn |-> IF sc \in created THEN "IDLE" ELSE scStates[sc]]
    /\ scAddrs' = RefreshAddrs(subConns', latest)
    /\ csEvltr' = CountCreated(created)
    /\ connects' = connects \cup created
    /\ conn' = [sc \in SubConn |-> IF sc \in created THEN "IDLE"
                                   ELSE IF sc \in removed THEN "SHUTDOWN"
                                   ELSE conn[sc]]
    /\ notes' = [sc \in SubConn |-> IF sc \in removed THEN Append(notes[sc], "SHUTDOWN")
                                    ELSE notes[sc]]
    /\ resolved' = [a \in Addr |-> IF a \in DOMAIN latest THEN latest[a] ELSE NoAttr]
    /\ UNCHANGED <<connErr, state>>

(* UpdateClientConnState: a list with addresses ends in a new picker; for an
   empty one it calls b.ResolverError with b.mu held, and waits for ever. *)
UpdateClientConnState(latest, made) ==
    /\ mu = "free"
    /\ AdoptAddresses(latest, made)
    /\ \/ /\ DOMAIN latest # {}
          /\ picker' = RegeneratePicker(state', subConns', scStates', scAddrs',
                                        connErr, FALSE)
          /\ Publish
          /\ UNCHANGED mu
       \/ /\ DOMAIN latest = {}
          /\ mu' = "held"
          /\ UNCHANGED <<picker, published>>

ResolverUpdate ==
    \E addrs \in SUBSET Addr :
        \E latest \in [addrs -> Attr],
           news \in SUBSET {a \in addrs : subConns[a] = NoSubConn} :
            \E made \in [news -> Fresh] :
                /\ \A a, b \in news : made[a] = made[b] => a = b
                /\ UpdateClientConnState(latest, made)

\* Mutant: a failed SubConn's retries are recorded.
StaysFailedNever(sc, s) == FALSE

\* Mutant: a failed SubConn stays failed whatever happens to it.
StaysFailedForever(sc, s) == scStates[sc] = "TRANSIENT_FAILURE" /\ s # "SHUTDOWN"

\* "Once a subconn enters TRANSIENT_FAILURE, ignore subsequent IDLE or CONNECTING".
StaysFailed(sc, s) ==
    scStates[sc] = "TRANSIENT_FAILURE" /\ s \in {"CONNECTING", "IDLE"}

\* Mutant: a failed SubConn that becomes idle is ignored altogether.
ConnectIfIdleUnlessFailed(sc, s) ==
    IF s = "IDLE" /\ scStates[sc] # "TRANSIENT_FAILURE" THEN connects \cup {sc}
    ELSE connects

\* Both branches call sc.Connect() on an idle SubConn.
ConnectIfIdle(sc, s) == IF s = "IDLE" THEN connects \cup {sc} ELSE connects

\* Mutant: the entry of a SubConn that shut down is kept.
RecordedAlways(s) == s

\* The entry of scStates after the notification: deleted on Shutdown.
Recorded(s) == IF s = "SHUTDOWN" THEN NoState ELSE s

\* "this sc entered or left ready", or the error message may have changed.
PickerOutdated(old, s, st) ==
    (s = "READY") # (old = "READY") \/ st = "TRANSIENT_FAILURE"

(* updateSubConnState, the early returns: unknown SubConn, or a failed one. *)
IgnoreSubConnState(sc, s) ==
    /\ scStates[sc] = NoState \/ StaysFailed(sc, s)
    /\ connects' = IF scStates[sc] = NoState THEN connects ELSE ConnectIfIdle(sc, s)
    /\ UNCHANGED balancerVars

(* updateSubConnState, the recorded transition. *)
RecordSubConnState(sc, s) ==
    LET old == scStates[sc] IN
    /\ old # NoState
    /\ ~StaysFailed(sc, s)
    /\ scStates' = [scStates EXCEPT ![sc] = Recorded(s)]
    /\ scAddrs' = [scAddrs EXCEPT ![sc] = IF s = "SHUTDOWN" THEN NoAddr ELSE @]
    /\ connErr' = (connErr \/ s = "TRANSIENT_FAILURE")
    /\ connects' = ConnectIfIdle(sc, s)
    /\ csEvltr' = RecordTransition(csEvltr, old, s)
    /\ state' = CurrentState(csEvltr')
    /\ picker' = IF PickerOutdated(old, s, state')
                 THEN RegeneratePicker(state', subConns, scStates', scAddrs',
                                       connErr', resolverErr)
                 ELSE picker
    /\ Publish
    /\ UNCHANGED <<mu, subConns, resolverErr>>

UpdateSubConnState(sc) ==
    /\ mu = "free"
    /\ notes[sc] # <<>>
    /\ notes' = [notes EXCEPT ![sc] = Tail(@)]
    /\ LET s == Head(notes[sc]) IN
        IgnoreSubConnState(sc, s) \/ RecordSubConnState(sc, s)
    /\ UNCHANGED <<resolved, conn>>

(* ExitIdle: reconnect every SubConn recorded as idle. *)
ExitIdle ==
    /\ mu = "free"
    /\ connects' = connects \cup {sc \in InUse : scStates[sc] = "IDLE"}
    /\ UNCHANGED <<balancerVars, resolved, conn, notes>>

-----------------------------------------------------------------------------
(* gRPC's side of a SubConn (external). *)

Notify(sc, s) ==
    /\ conn' = [conn EXCEPT ![sc] = s]
    /\ notes' = [notes EXCEPT ![sc] = Append(@, s)]

\* The goroutine of SubConn.Connect: it connects an idle connection only.
RunConnect(sc) ==
    /\ sc \in connects
    /\ Len(notes[sc]) < MaxNotes
    /\ connects' = connects \ {sc}
    /\ IF conn[sc] = "IDLE" THEN Notify(sc, "CONNECTING") ELSE UNCHANGED <<conn, notes>>
    /\ UNCHANGED <<balancerVars, resolved>>

Transport(sc, from, to) ==
    /\ conn[sc] = from
    /\ Len(notes[sc]) < MaxNotes
    /\ Notify(sc, to)
    /\ UNCHANGED <<balancerVars, resolved, connects>>

ConnectSucceeds(sc) == Transport(sc, "CONNECTING", "READY")
ConnectFails(sc) == Transport(sc, "CONNECTING", "TRANSIENT_FAILURE")
BackoffExpires(sc) == Transport(sc, "TRANSIENT_FAILURE", "IDLE")
ConnectionLost(sc) == Transport(sc, "READY", "IDLE")

Next ==
    \/ ResolverError
    \/ ResolverUpdate
    \/ ExitIdle
    \/ \E sc \in SubConn :
        \/ UpdateSubConnState(sc)
        \/ RunConnect(sc)
        \/ ConnectSucceeds(sc)
        \/ ConnectFails(sc)
        \/ BackoffExpires(sc)
        \/ ConnectionLost(sc)

Spec == Init /\ [][Next]_vars

\* gRPC runs its goroutines, delivers its notifications, and ends every backoff.
Fairness == \A sc \in SubConn : /\ WF_vars(UpdateSubConnState(sc))
                                /\ WF_vars(RunConnect(sc))
                                /\ WF_vars(BackoffExpires(sc))

FairSpec == Spec /\ Fairness
-----------------------------------------------------------------------------
(* Properties. *)

\* The fields of the balancer and gRPC's side of its SubConns are of their types.
TypeOK ==
    /\ mu \in {"free", "held"}
    /\ csEvltr \in [Counted -> Int]
    /\ state \in Counted
    /\ subConns \in [Addr -> SubConn \cup {NoSubConn}]
    /\ scStates \in [SubConn -> Counted \cup {NoState}]
    /\ scAddrs \in [SubConn -> Address \cup {NoAddr}]
    /\ picker \in Picker
    /\ resolverErr \in BOOLEAN
    /\ connErr \in BOOLEAN
    /\ resolved \in [Addr -> Attr \cup {NoAttr}]
    /\ published \in [state : Counted, picker : Picker]
    /\ conn \in [SubConn -> ConnState]
    /\ notes \in [SubConn -> Seq(ConnState)]
    /\ connects \in SUBSET SubConn

\* The evaluator's counters, which only ever see pairs of states, count exactly
\* the SubConns recorded in each state: over any sequence of creations,
\* notifications and removals none drifts, and none wraps below zero.
EvaluatorExact ==
    \A st \in Counted : csEvltr[st] = Cardinality({sc \in SubConn : scStates[sc] = st})

\* A picker the channel holds chooses among exactly the SubConns that are READY
\* now, although the balancer rebuilds it only on some of the changes.
ChannelPickerFresh ==
    published.picker.kind = "built" =>
        published.picker.ready = ReadySCs(subConns, scStates, scAddrs)

\* A picker the channel holds sees each endpoint as the resolver described it
\* last: attributes changed by a later resolution reach the policies and filters.
AttributesLatest ==
    \A r \in published.picker.ready : resolved[r.address.addr] = r.address.attr

\* No picker the channel holds chooses a SubConn that was shut down, although
\* states reported before the shutdown are still delivered after it.
RemovedNeverPicked ==
    \A r \in published.picker.ready : conn[r.sc] # "SHUTDOWN"

\* The connections gRPC keeps open for the balancer are those of its addresses,
\* one each: none is leaked by a resolver update and none is shared.
NoLeakedConnection ==
    /\ {sc \in SubConn : conn[sc] # "SHUTDOWN"} = InUse
    /\ \A a, b \in Addr : subConns[a] = subConns[b] /\ subConns[a] # NoSubConn => a = b

\* A balancer that waits for its own mutex has closed every connection, and a
\* picker it published earlier has only closed ones to choose from.
HeldServesNothing ==
    mu = "held" => /\ \A sc \in SubConn : conn[sc] = "SHUTDOWN"
                   /\ \A r \in published.picker.ready : conn[r.sc] = "SHUTDOWN"

\* The balancer's books are right: over any sequence of resolutions, late
\* notifications and removals its maps, its counters and the connections gRPC keeps
\* for it stay in step.
Books == TypeOK /\ EvaluatorExact /\ NoLeakedConnection /\ HeldServesNothing

\* The picker a channel holds, whichever of the balancer's handlers published it,
\* chooses among the right connections, with the right attributes; but for an
\* update to an empty list, which closes them and never gets to publish another.
PickerCorrect ==
    mu = "free" => ChannelPickerFresh /\ AttributesLatest /\ RemovedNeverPicked

\* Somebody will reconnect every idle connection: a Connect is still to run or
\* the notification that makes the balancer call it is still to be delivered.
NoLostReconnect ==
    \A sc \in SubConn : conn[sc] = "IDLE" =>
        sc \in connects \/ \E i \in 1..Len(notes[sc]) : notes[sc][i] = "IDLE"

Quiet == connects = {} /\ \A sc \in SubConn : notes[sc] = <<>>

\* With nothing in flight the balancer's view is right: it records the state of
\* every connection, but for one that keeps failing, and reports the aggregate
\* of what it records, although updates of the address list report a state
\* computed before them.
SettledView ==
    Quiet => /\ \A sc \in SubConn : \/ conn[sc] = "SHUTDOWN" /\ scStates[sc] = NoState
                                    \/ scStates[sc] = conn[sc]
                                    \/ /\ scStates[sc] = "TRANSIENT_FAILURE"
                                       /\ conn[sc] \in {"IDLE", "CONNECTING"}
             /\ InUse # {} => state = CurrentState(csEvltr)

\* Once every SubConn has failed the balancer keeps reporting TRANSIENT_FAILURE
\* through all their reconnection attempts until one of them is READY.
NoFlapping ==
    [][(/\ state = "TRANSIENT_FAILURE"
        /\ \A sc \in SubConn : scStates[sc] \in {NoState, "TRANSIENT_FAILURE"}
        /\ state' # "TRANSIENT_FAILURE")
       => \E sc \in SubConn : scStates'[sc] = "READY"]_vars

\* A connection that stays READY is eventually in the channel's picker for good,
\* whatever else the resolver and the other connections do. None stays READY past an
\* empty list.
ReadyIsPicked ==
    \A sc \in SubConn :
        <>[](conn[sc] = "READY") => <>[](\E r \in published.picker.ready : r.sc = sc)

\* A connection that was lost or failed is tried again, failed ones too, whose
\* notifications the balancer does not record, unless an update of the list, which
\* an empty one may be, closes it.
FailedIsRetried ==
    \A sc \in SubConn : conn[sc] \in {"IDLE", "TRANSIENT_FAILURE"}
                         ~> conn[sc] \in {"CONNECTING", "SHUTDOWN"}

\* The entry kept for a removed SubConn goes away with its last notification,
\* which an update to an empty list keeps from ever being handled.
RemovedIsForgotten ==
    \A sc \in SubConn : conn[sc] = "SHUTDOWN" ~> scStates[sc] = NoState \/ mu = "held"

\* The addresses are all gone and the SubConns they had are not forgotten yet.
Emptied ==
    /\ \A a \in Addr : resolved[a] = NoAttr
    /\ \E sc \in SubConn : scStates[sc] # NoState

\* balancer.go, line 147: "If resolver state contains no addresses, return an error
\* so ClientConn will trigger re-resolve. Also records this as an resolver error".
\* An empty list is on record as an error, or another list has replaced it.
EmptyListRecorded == Emptied ~> resolverErr \/ ~Emptied
=============================================================================
