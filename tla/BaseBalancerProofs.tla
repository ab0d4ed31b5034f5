-------------------------- MODULE BaseBalancerProofs --------------------------
(***************************************************************************)
(* Type correctness and the safety invariants of BaseBalancer, for every   *)
(* set of addresses, attributes and SubConns.                              *)
(***************************************************************************)
EXTENDS BaseBalancer, FiniteSetTheorems, SequenceTheorems, TLAPS

(***************************************************************************)
(* Counting. InState(f, st) is the set whose size the evaluator keeps.     *)
(***************************************************************************)
InState(f, st) == {sc \in SubConn : f[sc] = st}

\* InState is a set of SubConns, so it is finite and has a natural size.
LEMMA InStateFinite ==
    ASSUME NEW f, NEW st
    PROVE  IsFiniteSet(InState(f, st)) /\ Cardinality(InState(f, st)) \in Nat
BY BalancerAssumption, FS_Subset, FS_CardinalityType DEF InState

\* Moving one SubConn to another state changes the sizes as RecordTransition does.
LEMMA InStateMove ==
    ASSUME NEW f, NEW sc \in SubConn, NEW new, NEW st,
           NEW g, g[sc] = new, \A x \in SubConn \ {sc} : g[x] = f[x]
    PROVE  Cardinality(InState(g, st)) =
             Cardinality(InState(f, st)) + (IF st = new THEN 1 ELSE 0)
                                         - (IF st = f[sc] THEN 1 ELSE 0)
<1>1. IsFiniteSet(InState(f, st)) /\ Cardinality(InState(f, st)) \in Nat
  BY InStateFinite
<1>2. CASE st = new /\ st # f[sc]
  <2>1. InState(g, st) = InState(f, st) \cup {sc}
    BY <1>2 DEF InState
  <2>2. sc \notin InState(f, st)
    BY <1>2 DEF InState
  <2>3. Cardinality(InState(f, st) \cup {sc}) = Cardinality(InState(f, st)) + 1
    BY <1>1, <2>2, FS_AddElement
  <2>4. Cardinality(InState(g, st)) = Cardinality(InState(f, st)) + 1
    BY <2>1, <2>3
  <2> QED BY <1>1, <1>2, <2>4
<1>3. CASE st # new /\ st = f[sc]
  <2>1. InState(g, st) = InState(f, st) \ {sc}
    BY <1>3 DEF InState
  <2>2. sc \in InState(f, st)
    BY <1>3 DEF InState
  <2>3. Cardinality(InState(f, st) \ {sc}) = Cardinality(InState(f, st)) - 1
    BY <1>1, <2>2, FS_RemoveElement
  <2>4. Cardinality(InState(g, st)) = Cardinality(InState(f, st)) - 1
    BY <2>1, <2>3
  <2> QED BY <1>1, <1>3, <2>4
<1>4. CASE (st = new) = (st = f[sc])
  <2>1. InState(g, st) = InState(f, st)
    BY <1>4 DEF InState
  <2> QED BY <1>1, <1>4, <2>1
<1> QED BY <1>2, <1>3, <1>4

(***************************************************************************)
(* The inductive invariant: what each conjunct is needed for is said where *)
(* it is used.                                                             *)
(***************************************************************************)
\* A live connection is tracked, so it is never made a second time.
LiveIsTracked ==
    \A sc \in SubConn : conn[sc] # "SHUTDOWN" => scStates[sc] # NoState

\* Shutdown is reported of shut-down SubConns only.
ShutdownReported ==
    \A sc \in SubConn : \A i \in 1..Len(notes[sc]) :
        notes[sc][i] = "SHUTDOWN" => conn[sc] = "SHUTDOWN"

\* The balancer's addresses are those of the last resolution.
AddrsResolved ==
    \A a \in Addr : subConns[a] # NoSubConn =>
        scAddrs[subConns[a]] = [addr |-> a, attr |-> resolved[a]]

\* b.picker, and not only the channel's copy of it, is fresh, until an update to an
\* empty list keeps the mutex.
PickerFresh ==
    mu = "free" =>
    picker.ready = IF picker.kind = "built" THEN ReadySCs(subConns, scStates, scAddrs)
                   ELSE {}

\* The channel holds b.picker.
InStep == published.picker = picker

IInv ==
    /\ TypeOK
    /\ EvaluatorExact
    /\ NoLeakedConnection
    /\ LiveIsTracked
    /\ ShutdownReported
    /\ AddrsResolved
    /\ PickerFresh
    /\ InStep
    /\ HeldServesNothing

(***************************************************************************)
(* Type correctness.                                                       *)
(***************************************************************************)
LEMMA ReadySCsType ==
    ASSUME NEW subs \in [Addr -> SubConn \cup {NoSubConn}],
           NEW states \in [SubConn -> Counted \cup {NoState}],
           NEW addrs \in [SubConn -> Address \cup {NoAddr}]
    PROVE  ReadySCs(subs, states, addrs)
             \in SUBSET [sc : SubConn, address : Address \cup {NoAddr}]
BY DEF ReadySCs

\* regeneratePicker makes a picker, whatever the state and the errors.
LEMMA RegenerateType ==
    ASSUME NEW subs \in [Addr -> SubConn \cup {NoSubConn}],
           NEW states \in [SubConn -> Counted \cup {NoState}],
           NEW addrs \in [SubConn -> Address \cup {NoAddr}],
           NEW st, NEW cErr \in BOOLEAN, NEW rErr \in BOOLEAN
    PROVE  RegeneratePicker(st, subs, states, addrs, cErr, rErr) \in Picker
BY ReadySCsType DEF RegeneratePicker, ErrPicker, Picker

\* The aggregate is one of the four counted states, never SHUTDOWN.
LEMMA CurrentStateType == \A counts : CurrentState(counts) \in Counted
BY DEF CurrentState, Counted

\* A balancer just built is of its types.
LEMMA TypeInit == Init => TypeOK
<1>1. QueuePicker \in Picker
  BY DEF QueuePicker, Picker
<1>2. "CONNECTING" \in Counted /\ "SHUTDOWN" \in ConnState
  BY DEF Counted, ConnState
<1> SUFFICES ASSUME Init PROVE TypeOK
  OBVIOUS
<1>3. published \in [state : Counted, picker : Picker]
  BY <1>1, <1>2 DEF Init
<1>4. notes \in [SubConn -> Seq(ConnState)] /\ conn \in [SubConn -> ConnState]
  BY <1>2 DEF Init
<1>5. /\ csEvltr \in [Counted -> Int]
      /\ scStates \in [SubConn -> Counted \cup {NoState}]
      /\ scAddrs \in [SubConn -> Address \cup {NoAddr}]
  BY DEF Init
<1>6. /\ subConns \in [Addr -> SubConn \cup {NoSubConn}]
      /\ resolved \in [Addr -> Attr \cup {NoAttr}]
      /\ connects \in SUBSET SubConn
  BY DEF Init
<1>7. /\ state \in Counted /\ picker \in Picker /\ resolverErr \in BOOLEAN
      /\ connErr \in BOOLEAN /\ mu \in {"free", "held"}
  BY <1>1, <1>2 DEF Init
<1> QED BY <1>3, <1>4, <1>5, <1>6, <1>7 DEF TypeOK

\* A resolver update, with the choices ResolverUpdate makes.
LEMMA TypeUpdate ==
    ASSUME TypeOK,
           NEW addrs \in SUBSET Addr, NEW latest \in [addrs -> Attr],
           NEW news \in SUBSET {a \in addrs : subConns[a] = NoSubConn},
           NEW made \in [news -> Fresh],
           UpdateClientConnState(latest, made)
    PROVE  TypeOK'
<1> DEFINE created == {made[a] : a \in DOMAIN made}
           removed == {subConns[a] : a \in Addr \ DOMAIN latest} \ {NoSubConn}
<1> USE DEF TypeOK
<1>1. DOMAIN latest = addrs /\ DOMAIN made = news /\ Fresh \in SUBSET SubConn
  BY DEF Fresh
<1>2. created \in SUBSET SubConn /\ removed \in SUBSET SubConn
  BY <1>1
<1>3. Cardinality(created) \in Int
  BY <1>2, BalancerAssumption, FS_Subset, FS_CardinalityType
<1>4. subConns' \in [Addr -> SubConn \cup {NoSubConn}]
  BY <1>1 DEF UpdateClientConnState, AdoptAddresses, Resolved
<1>5. scStates' \in [SubConn -> Counted \cup {NoState}]
  BY DEF UpdateClientConnState, AdoptAddresses, Counted
<1>6. scAddrs' \in [SubConn -> Address \cup {NoAddr}]
  <2> SUFFICES ASSUME NEW sc \in SubConn
               PROVE  RefreshAddrs(subConns', latest)[sc] \in Address \cup {NoAddr}
    BY DEF UpdateClientConnState, AdoptAddresses, RefreshAddrs
  <2> QED BY <1>1 DEF RefreshAddrs, Address
<1>7. csEvltr' \in [Counted -> Int]
  BY <1>3 DEF UpdateClientConnState, AdoptAddresses, CountCreated, Counted
<1>8. /\ state' \in Counted /\ resolverErr' \in BOOLEAN /\ connErr' \in BOOLEAN
      /\ mu' \in {"free", "held"}
  BY DEF UpdateClientConnState, AdoptAddresses
<1>9. picker' \in Picker
  <2>1. CASE DOMAIN latest # {}
    <3>1. picker' = RegeneratePicker(state', subConns', scStates', scAddrs', connErr, FALSE)
      BY <2>1 DEF UpdateClientConnState
    <3> QED BY <1>4, <1>5, <1>6, <3>1, RegenerateType
  <2>2. CASE DOMAIN latest = {}
    BY <2>2 DEF UpdateClientConnState
  <2> QED BY <2>1, <2>2
<1>10. published' \in [state : Counted, picker : Picker]
  <2>1. CASE published' = [state |-> state', picker |-> picker']
    BY <1>8, <1>9, <2>1
  <2>2. CASE published' = published
    BY <2>2
  <2> QED BY <2>1, <2>2 DEF UpdateClientConnState, Publish
<1>11. conn' \in [SubConn -> ConnState]
  BY DEF UpdateClientConnState, AdoptAddresses, Counted, ConnState
<1>12. notes' \in [SubConn -> Seq(ConnState)]
  BY DEF UpdateClientConnState, AdoptAddresses, ConnState
<1>13. connects' \in SUBSET SubConn
  BY <1>2 DEF UpdateClientConnState, AdoptAddresses
<1>14. resolved' \in [Addr -> Attr \cup {NoAttr}]
  BY <1>1 DEF UpdateClientConnState, AdoptAddresses
<1> QED BY <1>4, <1>5, <1>6, <1>7, <1>8, <1>9, <1>10, <1>11, <1>12, <1>13, <1>14

\* Recording a notification.
LEMMA TypeRecord ==
    ASSUME TypeOK, NEW sc \in SubConn, NEW s \in ConnState, RecordSubConnState(sc, s)
    PROVE  /\ csEvltr' \in [Counted -> Int] /\ state' \in Counted
           /\ mu' \in {"free", "held"}
           /\ subConns' \in [Addr -> SubConn \cup {NoSubConn}]
           /\ scStates' \in [SubConn -> Counted \cup {NoState}]
           /\ scAddrs' \in [SubConn -> Address \cup {NoAddr}]
           /\ resolverErr' \in BOOLEAN /\ connErr' \in BOOLEAN
           /\ picker' \in Picker
           /\ published' \in [state : Counted, picker : Picker]
           /\ connects' \in SUBSET SubConn
<1> USE DEF TypeOK
<1>1. csEvltr' \in [Counted -> Int]
  BY DEF RecordSubConnState, RecordTransition
<1>2. state' \in Counted
  BY CurrentStateType DEF RecordSubConnState
<1>3. scStates' \in [SubConn -> Counted \cup {NoState}]
  BY DEF RecordSubConnState, Recorded, ConnState
<1>4. scAddrs' \in [SubConn -> Address \cup {NoAddr}]
  BY DEF RecordSubConnState
<1>5. /\ subConns' \in [Addr -> SubConn \cup {NoSubConn}]
      /\ resolverErr' \in BOOLEAN /\ connErr' \in BOOLEAN /\ mu' \in {"free", "held"}
  BY DEF RecordSubConnState
<1>6. picker' \in Picker
  BY <1>3, <1>4, <1>5, RegenerateType DEF RecordSubConnState
<1>7. published' \in [state : Counted, picker : Picker]
  BY <1>2, <1>6 DEF RecordSubConnState, Publish
<1>8. connects' \in SUBSET SubConn
  BY DEF RecordSubConnState, ConnectIfIdle
<1> QED BY <1>1, <1>2, <1>3, <1>4, <1>5, <1>6, <1>7, <1>8

\* A connection that changes state and says so.
LEMMA TypeNotify ==
    ASSUME TypeOK, NEW sc \in SubConn, NEW s \in ConnState, Notify(sc, s)
    PROVE  conn' \in [SubConn -> ConnState] /\ notes' \in [SubConn -> Seq(ConnState)]
<1>1. Append(notes[sc], s) \in Seq(ConnState)
  BY DEF TypeOK
<1> QED BY <1>1 DEF Notify, TypeOK

\* Every handler, and every step of gRPC, keeps the types.
LEMMA TypeStep == TypeOK /\ [Next]_vars => TypeOK'
<1> SUFFICES ASSUME TypeOK, [Next]_vars PROVE TypeOK'
  OBVIOUS
<1>1. CASE ResolverError
  <2>1. state' \in Counted
    BY <1>1 DEF ResolverError, TypeOK, Counted
  <2>2. picker' \in Picker
    <3>1. CASE state' = "TRANSIENT_FAILURE"
      <4>1. picker' = RegeneratePicker(state', subConns, scStates, scAddrs, connErr, TRUE)
        BY <1>1, <3>1 DEF ResolverError
      <4> QED BY <4>1, RegenerateType DEF TypeOK
    <3>2. CASE state' # "TRANSIENT_FAILURE"
      BY <1>1, <3>2 DEF ResolverError, TypeOK
    <3> QED BY <3>1, <3>2
  <2>3. published' \in [state : Counted, picker : Picker]
    <3>1. CASE state' = "TRANSIENT_FAILURE"
      <4>1. published' = [state |-> state', picker |-> picker']
        BY <1>1, <3>1 DEF ResolverError, Publish
      <4> QED BY <2>1, <2>2, <4>1
    <3>2. CASE state' # "TRANSIENT_FAILURE"
      BY <1>1, <3>2 DEF ResolverError, TypeOK
    <3> QED BY <3>1, <3>2
  <2>4. UNCHANGED <<mu, csEvltr, subConns, scStates, scAddrs, connErr, resolved, conn,
                    notes, connects>> /\ resolverErr' = TRUE
    BY <1>1 DEF ResolverError, connVars
  <2> QED BY <2>1, <2>2, <2>3, <2>4 DEF TypeOK
<1>2. CASE ResolverUpdate
  BY <1>2, TypeUpdate DEF ResolverUpdate
<1>3. CASE ExitIdle
  BY <1>3 DEF ExitIdle, TypeOK, balancerVars, InUse
<1>4. ASSUME NEW sc \in SubConn, UpdateSubConnState(sc) PROVE TypeOK'
  <2>1. PICK s : s = Head(notes[sc])
    OBVIOUS
  <2>2. s \in ConnState /\ Tail(notes[sc]) \in Seq(ConnState)
    BY <1>4, <2>1 DEF UpdateSubConnState, TypeOK
  <2>3. /\ notes' \in [SubConn -> Seq(ConnState)]
        /\ conn' \in [SubConn -> ConnState]
        /\ resolved' \in [Addr -> Attr \cup {NoAttr}]
    BY <1>4, <2>2 DEF UpdateSubConnState, TypeOK
  <2>4. CASE IgnoreSubConnState(sc, s)
    BY <2>3, <2>4 DEF IgnoreSubConnState, ConnectIfIdle, TypeOK, balancerVars
  <2>5. CASE RecordSubConnState(sc, s)
    BY <2>2, <2>3, <2>5, TypeRecord DEF TypeOK
  <2> QED BY <1>4, <2>1, <2>4, <2>5 DEF UpdateSubConnState
<1>5. ASSUME NEW sc \in SubConn, RunConnect(sc) PROVE TypeOK'
  <2>1. conn' \in [SubConn -> ConnState] /\ notes' \in [SubConn -> Seq(ConnState)]
    <3>1. CASE conn[sc] = "IDLE"
      BY <1>5, <3>1, TypeNotify DEF RunConnect, ConnState, Counted
    <3>2. CASE conn[sc] # "IDLE"
      BY <1>5, <3>2 DEF RunConnect, TypeOK
    <3> QED BY <3>1, <3>2
  <2> QED BY <1>5, <2>1 DEF RunConnect, TypeOK, balancerVars
<1>6. ASSUME NEW sc \in SubConn,
             \/ ConnectSucceeds(sc) \/ ConnectFails(sc)
             \/ BackoffExpires(sc) \/ ConnectionLost(sc)
      PROVE  TypeOK'
  <2>1. PICK from, to \in ConnState : Transport(sc, from, to)
    BY <1>6 DEF ConnectSucceeds, ConnectFails, BackoffExpires, ConnectionLost,
                ConnState, Counted
  <2>2. conn' \in [SubConn -> ConnState] /\ notes' \in [SubConn -> Seq(ConnState)]
    BY <2>1, TypeNotify DEF Transport
  <2> QED BY <2>1, <2>2 DEF Transport, TypeOK, balancerVars
<1>7. CASE UNCHANGED vars
  BY <1>7 DEF vars, balancerVars, connVars, TypeOK
<1> QED BY <1>1, <1>2, <1>3, <1>4, <1>5, <1>6, <1>7 DEF Next

\* Every reachable state of the balancer is of its types.
THEOREM TypeCorrect == Spec => []TypeOK
BY TypeInit, TypeStep, PTL DEF Spec

(***************************************************************************)
(* The inductive invariant holds initially and is kept by every action.    *)
(***************************************************************************)
LEMMA InvInit == Init => IInv
<1> SUFFICES ASSUME Init PROVE IInv
  OBVIOUS
<1>1. TypeOK
  BY TypeInit
<1>2. EvaluatorExact
  <2>1. ASSUME NEW st \in Counted PROVE {sc \in SubConn : scStates[sc] = st} = {}
    BY DEF Init, Counted, NoState
  <2> QED BY <2>1, FS_EmptySet DEF EvaluatorExact, Init
<1>3. NoLeakedConnection /\ LiveIsTracked /\ AddrsResolved
  BY DEF Init, NoLeakedConnection, LiveIsTracked, AddrsResolved, InUse
<1>4. ShutdownReported /\ PickerFresh /\ InStep /\ HeldServesNothing
  BY DEF Init, ShutdownReported, PickerFresh, InStep, QueuePicker, HeldServesNothing
<1> QED BY <1>1, <1>2, <1>3, <1>4 DEF IInv

\* gRPC reports a change of a live connection: the balancer's fields stay.
LEMMA InvNotify ==
    ASSUME IInv, TypeOK', NEW sc \in SubConn, NEW s \in Counted,
           conn[sc] # "SHUTDOWN", Notify(sc, s), UNCHANGED <<balancerVars, resolved>>
    PROVE  IInv'
<1> USE DEF IInv, TypeOK
<1>1. \A x \in SubConn : conn'[x] # "SHUTDOWN" <=> conn[x] # "SHUTDOWN"
  BY DEF Notify, Counted
<1>2. EvaluatorExact' /\ AddrsResolved' /\ PickerFresh' /\ InStep'
  BY DEF balancerVars, EvaluatorExact, AddrsResolved, PickerFresh, InStep
<1>6. HeldServesNothing'
  BY DEF balancerVars, HeldServesNothing
<1>3. NoLeakedConnection'
  <2>1. InUse' = InUse
    BY DEF balancerVars, InUse
  <2>2. {x \in SubConn : conn'[x] # "SHUTDOWN"} = {x \in SubConn : conn[x] # "SHUTDOWN"}
    BY <1>1
  <2> QED BY <2>1, <2>2 DEF balancerVars, NoLeakedConnection
<1>4. LiveIsTracked'
  BY <1>1 DEF balancerVars, LiveIsTracked
<1>5. ShutdownReported'
  <2> SUFFICES ASSUME NEW x \in SubConn, NEW i \in 1..Len(notes'[x]),
                      notes'[x][i] = "SHUTDOWN"
               PROVE  conn[x] = "SHUTDOWN"
    BY <1>1 DEF ShutdownReported
  <2>1. i \in 1..Len(notes[x]) /\ notes[x][i] = "SHUTDOWN"
    <3>1. CASE x = sc
      <4>1. notes'[x] = Append(notes[x], s) /\ notes[x] \in Seq(ConnState)
        BY <3>1 DEF Notify
      <4>2. Len(notes'[x]) = Len(notes[x]) + 1 /\ Len(notes[x]) \in Nat
        BY <4>1
      <4>3. CASE i = Len(notes[x]) + 1
        BY <4>1, <4>3 DEF Counted
      <4>4. CASE i # Len(notes[x]) + 1
        BY <4>1, <4>2, <4>4
      <4> QED BY <4>3, <4>4
    <3>2. CASE x # sc
      BY <3>2 DEF Notify
    <3> QED BY <3>1, <3>2
  <2> QED BY <2>1 DEF ShutdownReported
<1> QED BY <1>2, <1>3, <1>4, <1>5, <1>6

\* A picker just made is fresh.
LEMMA RegenerateFresh ==
    ASSUME NEW st, NEW subs, NEW states, NEW addrs, NEW cErr, NEW rErr,
           NEW p, p = RegeneratePicker(st, subs, states, addrs, cErr, rErr)
    PROVE  p.ready = IF p.kind = "built" THEN ReadySCs(subs, states, addrs) ELSE {}
BY DEF RegeneratePicker, ErrPicker

\* Taking the first notification off the queue keeps what is known of the rest.
LEMMA ShutdownDequeue ==
    ASSUME TypeOK, ShutdownReported, NEW sc \in SubConn, notes[sc] # <<>>,
           notes' = [notes EXCEPT ![sc] = Tail(@)], UNCHANGED conn
    PROVE  /\ ShutdownReported'
           /\ Head(notes[sc]) = "SHUTDOWN" => conn[sc] = "SHUTDOWN"
<1> USE DEF TypeOK
<1>1. notes[sc] \in Seq(ConnState) /\ Len(notes[sc]) \in Nat \ {0}
  BY EmptySeq
<1>2. Head(notes[sc]) = notes[sc][1] /\ 1 \in 1..Len(notes[sc])
  BY <1>1
<1>3. ASSUME NEW i \in 1..Len(Tail(notes[sc]))
      PROVE  Tail(notes[sc])[i] = notes[sc][i + 1] /\ i + 1 \in 1..Len(notes[sc])
  BY <1>1, <1>3, HeadTailProperties
<1>4. ShutdownReported'
  BY <1>3 DEF ShutdownReported
<1> QED BY <1>2, <1>4 DEF ShutdownReported

\* updateSubConnState past its early returns: counters, picker and addresses move together.
LEMMA InvRecord ==
    ASSUME IInv, TypeOK', NEW sc \in SubConn, NEW s \in ConnState,
           RecordSubConnState(sc, s), UNCHANGED <<conn, resolved>>,
           mu = "free", ShutdownReported', s = "SHUTDOWN" => conn[sc] = "SHUTDOWN"
    PROVE  IInv'
<1> USE DEF IInv, TypeOK
<1>1. EvaluatorExact'
  <2> SUFFICES ASSUME NEW st \in Counted
               PROVE  csEvltr'[st] = Cardinality(InState(scStates', st))
    BY DEF EvaluatorExact, InState
  <2>1. csEvltr[st] = Cardinality(InState(scStates, st))
    BY DEF EvaluatorExact, InState
  <2>2. Recorded(s) \in Counted \cup {NoState}
    BY DEF Recorded, ConnState
  <2>3. scStates' = [scStates EXCEPT ![sc] = Recorded(s)]
    BY DEF RecordSubConnState
  <2>4. Cardinality(InState(scStates', st)) =
          Cardinality(InState(scStates, st)) + (IF st = Recorded(s) THEN 1 ELSE 0)
                                             - (IF st = scStates[sc] THEN 1 ELSE 0)
    <3>1. scStates'[sc] = Recorded(s) /\ \A x \in SubConn \ {sc} : scStates'[x] = scStates[x]
      BY <2>3
    <3> QED BY ONLY <3>1, sc \in SubConn, InStateMove
  <2>5. csEvltr'[st] = csEvltr[st] + (IF st = s THEN 1 ELSE 0)
                                   - (IF st = scStates[sc] THEN 1 ELSE 0)
    BY DEF RecordSubConnState, RecordTransition
  <2>6. st = s <=> st = Recorded(s)
    BY DEF Recorded, Counted, NoState
  <2> QED BY <2>1, <2>4, <2>5, <2>6
<1>2. NoLeakedConnection'
  BY DEF RecordSubConnState, NoLeakedConnection, InUse
<1>3. LiveIsTracked'
  BY DEF RecordSubConnState, LiveIsTracked, Recorded, ConnState, Counted, NoState
<1>4. \A a \in Addr : subConns[a] # NoSubConn => subConns[a] \in SubConn
                                               /\ conn[subConns[a]] # "SHUTDOWN"
  BY DEF NoLeakedConnection, InUse
<1>5. \A a \in Addr : subConns[a] # NoSubConn => scAddrs'[subConns[a]] = scAddrs[subConns[a]]
  BY <1>4 DEF RecordSubConnState
<1>6. AddrsResolved'
  BY <1>5 DEF RecordSubConnState, AddrsResolved
<1>7. PickerFresh'
  <2>1. CASE PickerOutdated(scStates[sc], s, state')
    <3>1. picker' = RegeneratePicker(state', subConns', scStates', scAddrs', connErr',
                                     resolverErr')
      BY <2>1 DEF RecordSubConnState
    <3> QED BY <3>1, RegenerateFresh DEF PickerFresh
  <2>2. CASE ~PickerOutdated(scStates[sc], s, state')
    <3>1. picker' = picker /\ subConns' = subConns
      BY <2>2 DEF RecordSubConnState
    <3>2. \A a \in Addr : subConns[a] # NoSubConn =>
            (scStates'[subConns[a]] = "READY" <=> scStates[subConns[a]] = "READY")
      BY <1>4, <2>2 DEF RecordSubConnState, PickerOutdated, Recorded, NoState
    <3>3. ReadySCs(subConns', scStates', scAddrs') = ReadySCs(subConns, scStates, scAddrs)
      BY <1>5, <3>1, <3>2 DEF ReadySCs
    <3> QED BY <3>1, <3>3 DEF PickerFresh
  <2> QED BY <2>1, <2>2
<1>8. InStep' /\ HeldServesNothing'
  BY DEF RecordSubConnState, InStep, Publish, HeldServesNothing
<1> QED BY <1>1, <1>2, <1>3, <1>6, <1>7, <1>8

\* A resolver update: the SubConns made, kept and shut down stay accounted for.
LEMMA InvUpdate ==
    ASSUME IInv, TypeOK',
           NEW addrs \in SUBSET Addr, NEW latest \in [addrs -> Attr],
           NEW news \in SUBSET {a \in addrs : subConns[a] = NoSubConn},
           NEW made \in [news -> Fresh],
           \A a, b \in news : made[a] = made[b] => a = b,
           UpdateClientConnState(latest, made)
    PROVE  IInv'
<1> DEFINE created == {made[a] : a \in DOMAIN made}
           removed == {subConns[a] : a \in Addr \ DOMAIN latest} \ {NoSubConn}
<1> USE DEF IInv, TypeOK
<1>1. DOMAIN latest = addrs /\ DOMAIN made = news
  OBVIOUS
<1>2. /\ created \in SUBSET SubConn
      /\ \A sc \in created : /\ conn[sc] = "SHUTDOWN" /\ notes[sc] = <<>>
                             /\ scStates[sc] = NoState
  BY <1>1 DEF Fresh
<1>3. \A a \in Addr : subConns[a] # NoSubConn => subConns[a] \in SubConn
                                               /\ conn[subConns[a]] # "SHUTDOWN"
  BY DEF NoLeakedConnection, InUse
<1>4. /\ removed \in SUBSET SubConn
      /\ \A sc \in removed : conn[sc] # "SHUTDOWN"
      /\ created \cap removed = {}
  BY <1>2, <1>3
<1>5. subConns' = [a \in Addr |-> IF a \in news THEN made[a]
                                  ELSE IF a \in addrs THEN subConns[a]
                                  ELSE NoSubConn]
  BY <1>1 DEF UpdateClientConnState, AdoptAddresses, Resolved
<1>6. conn' = [sc \in SubConn |-> IF sc \in created THEN "IDLE"
                                  ELSE IF sc \in removed THEN "SHUTDOWN"
                                  ELSE conn[sc]]
  BY DEF UpdateClientConnState, AdoptAddresses
<1>7. scStates' = [sc \in SubConn |-> IF sc \in created THEN "IDLE" ELSE scStates[sc]]
  BY DEF UpdateClientConnState, AdoptAddresses
<1>8. \A a, b \in Addr : subConns'[a] = subConns'[b] /\ subConns'[a] # NoSubConn => a = b
  <2> SUFFICES ASSUME NEW a \in Addr, NEW b \in Addr,
                      subConns'[a] = subConns'[b], subConns'[a] # NoSubConn
               PROVE  a = b
    OBVIOUS
  <2>1. CASE a \in news /\ b \in news
    BY <1>5, <2>1
  <2>2. CASE a \notin news /\ b \notin news
    BY <1>5, <2>2 DEF NoLeakedConnection
  <2>3. CASE (a \in news) # (b \in news)
    BY <1>1, <1>2, <1>3, <1>5, <2>3
  <2> QED BY <2>1, <2>2, <2>3
<1>9. EvaluatorExact'
  <2> SUFFICES ASSUME NEW st \in Counted
               PROVE  csEvltr'[st] = Cardinality(InState(scStates', st))
    BY DEF EvaluatorExact, InState
  <2>1. csEvltr[st] = Cardinality(InState(scStates, st))
    BY DEF EvaluatorExact, InState
  <2>2. Cardinality(InState(scStates', st)) =
          Cardinality(InState(scStates, st)) + (IF st = "IDLE" THEN Cardinality(created) ELSE 0)
    <3>1. IsFiniteSet(InState(scStates, st)) /\ Cardinality(InState(scStates, st)) \in Nat
      BY InStateFinite
    <3>2. IsFiniteSet(created) /\ Cardinality(created) \in Nat
      BY <1>2, BalancerAssumption, FS_Subset, FS_CardinalityType
    <3>3. CASE st = "IDLE"
      <4>1. InState(scStates', st) = InState(scStates, st) \cup created
        <5> HIDE DEF created
        <5> QED BY <1>2, <1>7, <3>3 DEF InState
      <4>2. InState(scStates, st) \cap created = {}
        <5> HIDE DEF created
        <5> QED BY <1>2 DEF InState, NoState, Counted
      <4>3. Cardinality(InState(scStates, st) \cup created) =
              Cardinality(InState(scStates, st)) + Cardinality(created)
                - Cardinality(InState(scStates, st) \cap created)
        <5> HIDE DEF created
        <5> QED BY <3>1, <3>2, FS_Union
      <4>4. Cardinality(InState(scStates', st)) =
              Cardinality(InState(scStates, st)) + Cardinality(created) - 0
        <5> HIDE DEF created
        <5> QED BY <4>1, <4>2, <4>3, FS_EmptySet
      <4> HIDE DEF created
      <4> QED BY <3>1, <3>2, <3>3, <4>4
    <3>4. CASE st # "IDLE"
      <4>1. InState(scStates', st) = InState(scStates, st)
        <5> HIDE DEF created
        <5> QED BY <1>2, <1>7, <3>4 DEF InState, NoState, Counted
      <4> HIDE DEF created
      <4> QED BY <3>1, <3>4, <4>1
    <3> QED BY <3>3, <3>4
  <2>3. csEvltr' = [csEvltr EXCEPT !["IDLE"] = @ + Cardinality(created)]
    BY DEF UpdateClientConnState, AdoptAddresses, CountCreated
  <2>4. Cardinality(created) \in Nat /\ Cardinality(InState(scStates, st)) \in Nat
    BY <1>2, BalancerAssumption, FS_Subset, FS_CardinalityType, InStateFinite
  <2> HIDE DEF created
  <2> QED BY <2>1, <2>2, <2>3, <2>4
<1>10. NoLeakedConnection'
  <2>1. ASSUME NEW sc \in SubConn PROVE conn'[sc] # "SHUTDOWN" <=> sc \in InUse'
    <3>1. CASE sc \in created
      BY <1>1, <1>2, <1>5, <1>6, <3>1, BalancerAssumption DEF InUse
    <3>2. CASE sc \in removed
      <4>1. PICK a \in Addr \ addrs : sc = subConns[a]
        BY <1>1, <3>2
      <4>2. sc \notin created
        BY <1>4, <3>2
      <4>3. ASSUME NEW b \in Addr, subConns'[b] = sc PROVE FALSE
        <5>1. CASE b \in news
          BY <1>1, <1>5, <4>2, <4>3, <5>1
        <5>2. CASE b \notin news
          BY <1>5, <3>2, <4>1, <4>3, <5>2 DEF NoLeakedConnection
        <5> QED BY <5>1, <5>2
      <4> QED BY <1>6, <3>2, <4>2, <4>3 DEF InUse
    <3>3. CASE sc \notin created /\ sc \notin removed
      <4>1. conn'[sc] = conn[sc] /\ (conn[sc] # "SHUTDOWN" <=> sc \in InUse)
        BY <1>6, <3>3 DEF NoLeakedConnection
      <4>2. sc \in InUse => sc \in InUse'
        <5> SUFFICES ASSUME NEW a \in Addr, sc = subConns[a] PROVE sc \in InUse'
          BY DEF InUse
        <5>1. a \in addrs
          BY <1>1, <3>3, BalancerAssumption
        <5>2. a \notin news
          BY BalancerAssumption
        <5> QED BY <1>5, <5>1, <5>2, BalancerAssumption DEF InUse
      <4>3. sc \in InUse' => sc \in InUse
        BY <1>1, <1>5, <3>3, BalancerAssumption DEF InUse
      <4> QED BY <4>1, <4>2, <4>3
    <3> QED BY <3>1, <3>2, <3>3
  <2>2. InUse' \in SUBSET SubConn
    BY DEF InUse
  <2>3. {sc \in SubConn : conn'[sc] # "SHUTDOWN"} = InUse'
    BY <2>1, <2>2
  <2> QED BY <1>8, <2>3 DEF NoLeakedConnection
<1>11. LiveIsTracked'
  BY <1>6, <1>7 DEF LiveIsTracked, NoState
<1>12. ShutdownReported'
  <2> SUFFICES ASSUME NEW sc \in SubConn, NEW i \in 1..Len(notes'[sc]),
                      notes'[sc][i] = "SHUTDOWN"
               PROVE  conn'[sc] = "SHUTDOWN"
    BY DEF ShutdownReported
  <2>1. notes' = [x \in SubConn |-> IF x \in removed THEN Append(notes[x], "SHUTDOWN")
                                    ELSE notes[x]]
    BY DEF UpdateClientConnState, AdoptAddresses
  <2>2. sc \notin created
    <3>1. SUFFICES ASSUME sc \in created PROVE FALSE
      OBVIOUS
    <3>2. notes'[sc] = <<>>
      BY <1>2, <1>4, <2>1, <3>1
    <3> QED BY <3>2
  <2>3. CASE sc \in removed
    BY <1>6, <2>2, <2>3
  <2>4. CASE sc \notin removed
    BY <1>6, <2>1, <2>2, <2>4 DEF ShutdownReported
  <2> QED BY <2>3, <2>4
<1>13. AddrsResolved'
  <2> SUFFICES ASSUME NEW a \in Addr, subConns'[a] # NoSubConn
               PROVE  scAddrs'[subConns'[a]] = [addr |-> a, attr |-> resolved'[a]]
    BY DEF AddrsResolved
  <2>1. a \in addrs /\ subConns'[a] \in SubConn
    BY <1>5
  <2>2. scAddrs' = RefreshAddrs(subConns', latest) /\ resolved'[a] = latest[a]
    BY <1>1, <2>1 DEF UpdateClientConnState, AdoptAddresses
  <2>3. \A x \in DOMAIN latest : subConns'[x] = subConns'[a] => x = a
    BY <1>1, <1>8
  <2>4. (CHOOSE x \in DOMAIN latest : subConns'[x] = subConns'[a]) = a
    BY <1>1, <2>1, <2>3
  <2> QED BY <1>1, <2>1, <2>2, <2>4 DEF RefreshAddrs
<1>14. PickerFresh'
  <2>1. CASE mu' = "held"
    BY <2>1 DEF PickerFresh
  <2>2. CASE mu' # "held"
    <3>1. picker' = RegeneratePicker(state', subConns', scStates', scAddrs', connErr, FALSE)
      BY <2>2 DEF UpdateClientConnState
    <3> QED BY <3>1 DEF PickerFresh, RegeneratePicker, ErrPicker
  <2> QED BY <2>1, <2>2
<1>15. InStep'
  <2>1. \/ published' = [state |-> state', picker |-> picker']
        \/ picker' = picker /\ published' = published
    BY DEF UpdateClientConnState, Publish
  <2>2. published.picker = picker
    BY DEF InStep
  <2>3. published'.picker = picker'
    BY <2>1, <2>2
  <2> QED BY <2>3 DEF InStep
<1>16. HeldServesNothing'
  <2> SUFFICES ASSUME mu' = "held"
               PROVE  /\ \A sc \in SubConn : conn'[sc] = "SHUTDOWN"
                      /\ \A r \in published'.picker.ready : conn'[r.sc] = "SHUTDOWN"
    BY DEF HeldServesNothing
  <2>1. DOMAIN latest = {}
    BY DEF UpdateClientConnState
  <2>2. InUse' = {}
    BY <1>1, <1>5, <2>1 DEF InUse
  <2>3. \A sc \in SubConn : conn'[sc] = "SHUTDOWN"
    BY <1>10, <2>2 DEF NoLeakedConnection
  <2>4. \A r \in published'.picker.ready : r.sc \in SubConn
    BY DEF Picker
  <2> QED BY <2>3, <2>4
<1> QED BY <1>9, <1>10, <1>11, <1>12, <1>13, <1>14, <1>15, <1>16

\* Every step of the balancer and of gRPC keeps the inductive invariant.
LEMMA InvStep == IInv /\ [Next]_vars => IInv'
<1> SUFFICES ASSUME IInv, [Next]_vars PROVE IInv'
  OBVIOUS
<1>1. TypeOK /\ TypeOK'
  BY TypeStep DEF IInv
<1>2. CASE ResolverError
  <2>1. UNCHANGED <<mu, csEvltr, subConns, scStates, scAddrs, resolved, conn, notes>>
        /\ mu = "free"
    BY <1>2 DEF ResolverError, connVars
  <2>2. PickerFresh' /\ InStep'
    <3>1. CASE state' = "TRANSIENT_FAILURE"
      <4>1. picker' = RegeneratePicker(state', subConns', scStates', scAddrs', connErr, TRUE)
        BY <1>2, <2>1, <3>1 DEF ResolverError
      <4>2. published' = [state |-> state', picker |-> picker']
        BY <1>2, <3>1 DEF ResolverError, Publish
      <4> QED BY <4>1, <4>2, RegenerateFresh DEF PickerFresh, InStep
    <3>2. CASE state' # "TRANSIENT_FAILURE"
      BY <1>2, <2>1, <3>2 DEF ResolverError, IInv, PickerFresh, InStep
    <3> QED BY <3>1, <3>2
  <2> QED BY <1>1, <2>1, <2>2
       DEF IInv, EvaluatorExact, NoLeakedConnection, InUse, LiveIsTracked,
           ShutdownReported, AddrsResolved, HeldServesNothing
<1>3. CASE ResolverUpdate
  BY <1>1, <1>3, InvUpdate DEF ResolverUpdate
<1>4. ASSUME NEW sc \in SubConn, UpdateSubConnState(sc) PROVE IInv'
  <2>1. /\ ShutdownReported'
        /\ Head(notes[sc]) = "SHUTDOWN" => conn[sc] = "SHUTDOWN"
    BY <1>1, <1>4, ShutdownDequeue DEF UpdateSubConnState, IInv
  <2>2. Head(notes[sc]) \in ConnState
    BY <1>1, <1>4 DEF UpdateSubConnState, TypeOK
  <2>3. CASE IgnoreSubConnState(sc, Head(notes[sc]))
    BY <1>1, <1>4, <2>1, <2>3
       DEF UpdateSubConnState, IgnoreSubConnState, balancerVars, IInv, EvaluatorExact,
           NoLeakedConnection, InUse, LiveIsTracked, AddrsResolved, PickerFresh, InStep,
           HeldServesNothing
  <2>4. CASE RecordSubConnState(sc, Head(notes[sc]))
    BY <1>1, <1>4, <2>1, <2>2, <2>4, InvRecord DEF UpdateSubConnState
  <2> QED BY <1>4, <2>3, <2>4 DEF UpdateSubConnState
<1>5. ASSUME NEW sc \in SubConn, RunConnect(sc), conn[sc] = "IDLE" PROVE IInv'
  BY <1>1, <1>5, InvNotify DEF RunConnect, Counted
<1>6. ASSUME NEW sc \in SubConn,
             \/ ConnectSucceeds(sc) \/ ConnectFails(sc)
             \/ BackoffExpires(sc) \/ ConnectionLost(sc)
      PROVE  IInv'
  <2>1. PICK from, to \in Counted : Transport(sc, from, to)
    BY <1>6 DEF ConnectSucceeds, ConnectFails, BackoffExpires, ConnectionLost, Counted
  <2> QED BY <1>1, <2>1, InvNotify DEF Transport, Counted
<1>7. ASSUME UNCHANGED <<balancerVars, resolved, conn, notes>> PROVE IInv'
  BY <1>1, <1>7
     DEF balancerVars, IInv, EvaluatorExact, NoLeakedConnection, InUse, LiveIsTracked,
         ShutdownReported, AddrsResolved, PickerFresh, InStep, HeldServesNothing
<1>8. CASE ExitIdle
  BY <1>7, <1>8 DEF ExitIdle
<1>9. ASSUME NEW sc \in SubConn, RunConnect(sc), conn[sc] # "IDLE" PROVE IInv'
  BY <1>7, <1>9 DEF RunConnect
<1>10. CASE UNCHANGED vars
  BY <1>7, <1>10 DEF vars, connVars
<1> QED BY <1>2, <1>3, <1>4, <1>5, <1>6, <1>8, <1>9, <1>10 DEF Next

\* The inductive invariant holds in every reachable state; the theorems below follow.
THEOREM InductiveInvariant == Spec => []IInv
BY InvInit, InvStep, PTL DEF Spec

(***************************************************************************)
(* What the invariant says of the channel.                                 *)
(***************************************************************************)
\* RecordTransition never loses or doubles a SubConn, over any history.
THEOREM EvaluatorAlwaysExact == Spec => []EvaluatorExact
BY InductiveInvariant, PTL DEF IInv

\* Resolver updates neither leak a connection nor share one between addresses.
THEOREM ConnectionsOwned == Spec => []NoLeakedConnection
BY InductiveInvariant, PTL DEF IInv

\* A balancer that waits for itself serves nothing: every connection is closed.
THEOREM HeldAlwaysServesNothing == Spec => []HeldServesNothing
BY InductiveInvariant, PTL DEF IInv

\* The SubConns the channel may pick, and the addresses it sees them with.
LEMMA PickedFromInUse ==
    ASSUME IInv, mu = "free", NEW r \in published.picker.ready
    PROVE  \E a \in Addr : /\ subConns[a] # NoSubConn
                           /\ r.sc = subConns[a]
                           /\ r.address = [addr |-> a, attr |-> resolved[a]]
<1>1. r \in ReadySCs(subConns, scStates, scAddrs)
  BY DEF IInv, PickerFresh, InStep
<1>2. PICK a \in Addr : /\ subConns[a] # NoSubConn
                        /\ r = [sc |-> subConns[a], address |-> scAddrs[subConns[a]]]
  BY <1>1 DEF ReadySCs
<1> QED BY <1>2 DEF IInv, AddrsResolved

\* Until an update to an empty list keeps the mutex: the conditions under which
\* updateSubConnState rebuilds the picker suffice.
THEOREM PickerAlwaysFresh == Spec => [](mu = "free" => ChannelPickerFresh)
<1>1. IInv => (mu = "free" => ChannelPickerFresh)
  BY DEF IInv, PickerFresh, InStep, ChannelPickerFresh
<1> QED BY <1>1, InductiveInvariant, PTL

\* Until then: attributes of the last resolution are the ones every picker works with.
THEOREM AttributesAlwaysLatest == Spec => [](mu = "free" => AttributesLatest)
<1>1. IInv => (mu = "free" => AttributesLatest)
  <2> SUFFICES ASSUME IInv, mu = "free", NEW r \in published.picker.ready
               PROVE  resolved[r.address.addr] = r.address.attr
    BY DEF AttributesLatest
  <2>1. PICK a \in Addr : r.address = [addr |-> a, attr |-> resolved[a]]
    BY PickedFromInUse
  <2> QED BY <2>1
<1> QED BY <1>1, InductiveInvariant, PTL

\* Until then: a SubConn that was shut down is in no picker, late notifications or not.
THEOREM RemovedNeverPickedAgain == Spec => [](mu = "free" => RemovedNeverPicked)
<1>1. IInv => (mu = "free" => RemovedNeverPicked)
  <2> SUFFICES ASSUME IInv, mu = "free", NEW r \in published.picker.ready
               PROVE  conn[r.sc] # "SHUTDOWN"
    BY DEF RemovedNeverPicked
  <2>1. PICK a \in Addr : subConns[a] # NoSubConn /\ r.sc = subConns[a]
    BY PickedFromInUse
  <2>2. r.sc \in InUse
    BY <2>1 DEF InUse
  <2> QED BY <2>2 DEF IInv, NoLeakedConnection
<1> QED BY <1>1, InductiveInvariant, PTL

\* Maps, counters and connections never get out of step.
THEOREM BooksAlwaysRight == Spec => []Books
BY TypeCorrect, EvaluatorAlwaysExact, ConnectionsOwned, HeldAlwaysServesNothing, PTL
   DEF Books

\* Whatever picker the channel holds, it is up to date until an empty list is handled.
THEOREM PickerAlwaysCorrect == Spec => []PickerCorrect
BY PickerAlwaysFresh, AttributesAlwaysLatest, RemovedNeverPickedAgain, PTL DEF PickerCorrect

\* With every SubConn failed, TRANSIENT_FAILURE is left for READY only.
THEOREM FailureSticks == Spec => NoFlapping
<1>1. ASSUME IInv, IInv', [Next]_vars,
             state = "TRANSIENT_FAILURE",
             \A sc \in SubConn : scStates[sc] \in {NoState, "TRANSIENT_FAILURE"},
             state' # "TRANSIENT_FAILURE"
      PROVE  \E sc \in SubConn : scStates'[sc] = "READY"
  <2>1. \/ ResolverError \/ ResolverUpdate
        \/ \E sc \in SubConn : UpdateSubConnState(sc)
    BY <1>1 DEF Next, vars, balancerVars, ExitIdle, RunConnect, ConnectSucceeds,
                ConnectFails, BackoffExpires, ConnectionLost, Transport
  <2>2. ~ResolverError /\ ~ResolverUpdate
    BY <1>1 DEF ResolverError, ResolverUpdate, UpdateClientConnState, AdoptAddresses
  <2>3. PICK sc \in SubConn : UpdateSubConnState(sc)
    BY <2>1, <2>2
  <2>4. PICK s : RecordSubConnState(sc, s)
    BY <1>1, <2>3 DEF UpdateSubConnState, IgnoreSubConnState, balancerVars
  <2>5. scStates[sc] = "TRANSIENT_FAILURE" /\ s \notin {"CONNECTING", "IDLE"}
    BY <1>1, <2>4 DEF RecordSubConnState, StaysFailed
  <2>6. \A x \in SubConn : scStates'[x] \notin {"CONNECTING", "IDLE"}
    BY <1>1, <2>4, <2>5 DEF RecordSubConnState, Recorded, NoState, IInv, TypeOK
  <2>7. state' = CurrentState(csEvltr')
    BY <2>4 DEF RecordSubConnState
  <2>8. \E st \in {"READY", "CONNECTING", "IDLE"} : csEvltr'[st] > 0
    BY <1>1, <2>7 DEF CurrentState
  <2>9. PICK st \in {"READY", "CONNECTING", "IDLE"} :
          \E x \in SubConn : scStates'[x] = st
    <3>1. PICK st \in {"READY", "CONNECTING", "IDLE"} : csEvltr'[st] > 0
      BY <2>8
    <3>2. Cardinality({x \in SubConn : scStates'[x] = st}) > 0
      BY <1>1, <3>1 DEF IInv, EvaluatorExact, Counted
    <3>3. {x \in SubConn : scStates'[x] = st} # {}
      BY <3>2, FS_EmptySet
    <3> QED BY <3>3
  <2> QED BY <2>6, <2>9
<1>2. IInv /\ IInv' /\ [Next]_vars =>
        [(/\ state = "TRANSIENT_FAILURE"
          /\ \A sc \in SubConn : scStates[sc] \in {NoState, "TRANSIENT_FAILURE"}
          /\ state' # "TRANSIENT_FAILURE")
         => \E sc \in SubConn : scStates'[sc] = "READY"]_vars
  BY <1>1
<1> QED BY <1>2, InductiveInvariant, PTL DEF Spec, NoFlapping


(***************************************************************************)
(* What the balancer knows, or is about to be told.                        *)
(***************************************************************************)
\* The balancer's record of a SubConn that has no notification under way.
Settled(sc) ==
    \/ conn[sc] = "SHUTDOWN" /\ scStates[sc] = NoState
    \/ scStates[sc] = conn[sc]
    \/ scStates[sc] = "TRANSIENT_FAILURE" /\ conn[sc] \in {"IDLE", "CONNECTING"}

\* The last notification tells the true state; with none left the record is right.
ToldTruth ==
    \A sc \in SubConn :
        IF notes[sc] = <<>> THEN Settled(sc) ELSE notes[sc][Len(notes[sc])] = conn[sc]

\* A SubConn recorded as idle that has something to report: it will be recorded.
Reports(sc) ==
    /\ scStates[sc] = "IDLE"
    /\ notes[sc] # <<>> \/ (conn[sc] = "IDLE" /\ sc \in connects)

\* The state is the aggregate, or a SubConn's next report will make it that.
StateDue ==
    state = CurrentState(csEvltr) \/ InUse = {} \/ \E sc \in SubConn : Reports(sc)

VInv == NoLostReconnect /\ ToldTruth /\ StateDue

\* What is left of a queue without its first element.
LEMMA Dequeued ==
    ASSUME NEW S, NEW q \in Seq(S), q # <<>>
    PROVE  /\ Head(q) = q[1] /\ 1 \in 1..Len(q) /\ Head(q) \in S
           /\ \A i \in 2..Len(q) : i - 1 \in 1..Len(Tail(q)) /\ Tail(q)[i - 1] = q[i]
           /\ Tail(q) = <<>> => Len(q) = 1
           /\ Tail(q) # <<>> => Tail(q)[Len(Tail(q))] = q[Len(q)]
<1>1. /\ Len(q) \in Nat \ {0} /\ Head(q) = q[1]
      /\ Tail(q) \in Seq(S) /\ Len(Tail(q)) = Len(q) - 1
      /\ \A i \in 1..Len(Tail(q)) : Tail(q)[i] = q[i + 1]
  BY EmptySeq, HeadTailProperties
<1>2. Tail(q) = <<>> => Len(q) = 1
  <2> SUFFICES ASSUME Tail(q) = <<>> PROVE Len(q) = 1
    OBVIOUS
  <2>1. Len(Tail(q)) = 0
    BY EmptySeq, Zenon
  <2> QED BY <1>1, <2>1
<1>3. Tail(q) # <<>> => Len(Tail(q)) \in Nat \ {0}
  BY <1>1, EmptySeq
<1>4. Tail(q) # <<>> => Tail(q)[Len(Tail(q))] = q[Len(q)]
  BY <1>1, <1>3
<1>5. \A i \in 2..Len(q) : i - 1 \in 1..Len(Tail(q)) /\ Tail(q)[i - 1] = q[i]
  BY <1>1
<1> QED BY <1>1, <1>2, <1>4, <1>5

\* What a notification that is added changes of a queue.
LEMMA Enqueued ==
    ASSUME NEW S, NEW q \in Seq(S), NEW s \in S
    PROVE  /\ Append(q, s) # <<>>
           /\ Append(q, s)[Len(Append(q, s))] = s
           /\ Len(Append(q, s)) \in 1..Len(Append(q, s))
           /\ \A i \in 1..Len(q) : i \in 1..Len(Append(q, s)) /\ Append(q, s)[i] = q[i]
<1>1. /\ Append(q, s) \in Seq(S) /\ Len(Append(q, s)) = Len(q) + 1 /\ Len(q) \in Nat
      /\ Append(q, s)[Len(q) + 1] = s
      /\ \A i \in 1..Len(q) : Append(q, s)[i] = q[i]
  BY AppendProperties
<1> QED BY <1>1, EmptySeq

LEMMA ViewInit == Init => VInv
<1> SUFFICES ASSUME Init PROVE VInv
  OBVIOUS
<1>1. InUse = {}
  BY DEF Init, InUse
<1>2. \A sc \in SubConn : notes[sc] = <<>> /\ conn[sc] = "SHUTDOWN" /\ scStates[sc] = NoState
  BY DEF Init
<1> QED BY <1>1, <1>2 DEF VInv, NoLostReconnect, ToldTruth, Settled, StateDue

\* A change of a connection is told; only a Connect that was due leaves IDLE.
LEMMA ViewNotify ==
    ASSUME IInv, VInv, NEW sc \in SubConn, NEW s \in ConnState, Notify(sc, s),
           UNCHANGED balancerVars, connects \ {sc} \subseteq connects'
    PROVE  VInv'
<1> USE DEF VInv
<1>1. notes[sc] \in Seq(ConnState)
  BY DEF IInv, TypeOK
<1>2. /\ conn'[sc] = s /\ notes'[sc] = Append(notes[sc], s)
      /\ \A x \in SubConn \ {sc} : conn'[x] = conn[x] /\ notes'[x] = notes[x]
  BY DEF Notify, IInv, TypeOK
<1>3. UNCHANGED <<csEvltr, state, subConns, scStates>>
  BY DEF balancerVars
<1>4. NoLostReconnect'
  BY <1>1, <1>2, Enqueued DEF NoLostReconnect
<1>5. ToldTruth'
  BY <1>1, <1>2, <1>3, Enqueued DEF ToldTruth, Settled
<1>6. StateDue'
  <2>1. ASSUME NEW x \in SubConn, Reports(x) PROVE Reports(x)'
    BY <1>1, <1>2, <1>3, <2>1, Enqueued DEF Reports
  <2> QED BY <1>3, <2>1 DEF StateDue, InUse
<1> QED BY <1>4, <1>5, <1>6

\* A notification that is delivered is recorded, or the record was failed and stays.
LEMMA ViewDeliver ==
    ASSUME IInv, VInv, NEW sc \in SubConn, UpdateSubConnState(sc)
    PROVE  VInv'
<1> USE DEF VInv
<1> DEFINE s == Head(notes[sc])
<1>1. notes[sc] \in Seq(ConnState) /\ notes[sc] # <<>>
  BY DEF IInv, TypeOK, UpdateSubConnState
<1>2. /\ notes'[sc] = Tail(notes[sc]) /\ conn' = conn
      /\ \A x \in SubConn \ {sc} : notes'[x] = notes[x]
  BY DEF UpdateSubConnState, IInv, TypeOK
<1>3. s = notes[sc][1] /\ 1 \in 1..Len(notes[sc])
  BY <1>1, Dequeued
<1>4. s = "SHUTDOWN" => conn[sc] = "SHUTDOWN"
  BY <1>3 DEF IInv, ShutdownReported
<1>5. \/ IgnoreSubConnState(sc, s)
      \/ RecordSubConnState(sc, s)
  BY DEF UpdateSubConnState
<1>6. /\ connects \subseteq connects'
      /\ s = "IDLE" /\ scStates[sc] # NoState => sc \in connects'
      /\ \A x \in SubConn \ {sc} : scStates'[x] = scStates[x]
  BY <1>5 DEF IgnoreSubConnState, RecordSubConnState, ConnectIfIdle, balancerVars, IInv, TypeOK
<1>7. conn[sc] # "SHUTDOWN" => scStates[sc] # NoState
  BY DEF IInv, LiveIsTracked
<1>8. NoLostReconnect'
  <2> SUFFICES ASSUME NEW x \in SubConn, conn[x] = "IDLE", x \notin connects'
               PROVE  \E i \in 1..Len(notes'[x]) : notes'[x][i] = "IDLE"
    BY <1>2 DEF NoLostReconnect
  <2>1. PICK i \in 1..Len(notes[x]) : notes[x][i] = "IDLE"
    BY <1>6 DEF NoLostReconnect
  <2>2. CASE x = sc
    <3>1. i # 1
      BY <1>3, <1>6, <1>7, <2>1, <2>2
    <3>2. i \in 2..Len(notes[sc])
      BY <2>1, <2>2, <3>1
    <3>3. i - 1 \in 1..Len(Tail(notes[sc])) /\ Tail(notes[sc])[i - 1] = notes[sc][i]
      BY <1>1, <3>2, Dequeued
    <3> QED BY <1>2, <2>1, <2>2, <3>3
  <2>3. CASE x # sc
    BY <1>2, <2>1, <2>3
  <2> QED BY <2>2, <2>3
<1>9. ToldTruth'
  <2>1. ASSUME NEW x \in SubConn \ {sc}
        PROVE  IF notes'[x] = <<>> THEN Settled(x)' ELSE notes'[x][Len(notes'[x])] = conn'[x]
    BY <1>2, <1>6 DEF ToldTruth, Settled
  <2>2. notes[sc][Len(notes[sc])] = conn[sc]
    BY <1>1 DEF ToldTruth
  <2>3. CASE Tail(notes[sc]) # <<>>
    <3>1. Tail(notes[sc])[Len(Tail(notes[sc]))] = notes[sc][Len(notes[sc])]
      BY <1>1, <2>3, Dequeued
    <3>2. notes'[sc] # <<>> /\ notes'[sc][Len(notes'[sc])] = conn'[sc]
      BY <1>2, <2>2, <2>3, <3>1, Zenon
    <3>3. ASSUME NEW x \in SubConn
          PROVE  IF notes'[x] = <<>> THEN Settled(x)' ELSE notes'[x][Len(notes'[x])] = conn'[x]
      <4>1. CASE x = sc
        BY <3>2, <4>1, Zenon
      <4>2. CASE x # sc
        BY <2>1, <4>2
      <4> QED BY <4>1, <4>2
    <3> QED BY <3>3 DEF ToldTruth
  <2>4. CASE Tail(notes[sc]) = <<>>
    <3>1. s = conn[sc]
      BY <1>1, <1>3, <2>2, <2>4, Dequeued
    <3>2. Settled(sc)'
      <4>1. CASE scStates[sc] = NoState
        BY <1>2, <1>5, <1>7, <4>1
           DEF Settled, IgnoreSubConnState, RecordSubConnState, balancerVars
      <4>2. CASE scStates[sc] # NoState /\ StaysFailed(sc, s)
        BY <1>2, <1>5, <3>1, <4>2
           DEF Settled, IgnoreSubConnState, RecordSubConnState, StaysFailed, balancerVars
      <4>3. CASE scStates[sc] # NoState /\ ~StaysFailed(sc, s)
        <5>1. RecordSubConnState(sc, s)
          BY <1>5, <4>3 DEF IgnoreSubConnState
        <5>2. scStates'[sc] = IF s = "SHUTDOWN" THEN NoState ELSE s
          BY <5>1 DEF RecordSubConnState, Recorded, IInv, TypeOK
        <5> QED BY <1>2, <3>1, <5>2 DEF Settled
      <4> QED BY <4>1, <4>2, <4>3
    <3> QED BY <1>2, <2>1, <2>4, <3>2 DEF ToldTruth
  <2> QED BY <2>3, <2>4
<1>10. StateDue'
  <2>1. CASE RecordSubConnState(sc, s)
    BY <2>1 DEF RecordSubConnState, StateDue
  <2>2. CASE IgnoreSubConnState(sc, s)
    <3>1. UNCHANGED <<csEvltr, state, subConns, scStates>>
      BY <2>2 DEF IgnoreSubConnState, balancerVars
    <3>2. scStates[sc] # "IDLE"
      BY <2>2 DEF IgnoreSubConnState, StaysFailed, NoState
    <3>3. ASSUME NEW x \in SubConn, Reports(x) PROVE Reports(x)'
      BY <1>2, <1>6, <3>1, <3>2, <3>3 DEF Reports
    <3> QED BY <3>1, <3>3 DEF StateDue, InUse
  <2> QED BY <1>5, <2>1, <2>2
<1> QED BY <1>8, <1>9, <1>10

\* A new SubConn will connect, a removed one is told, and the others stay.
LEMMA ViewUpdate ==
    ASSUME IInv, VInv, ResolverUpdate
    PROVE  VInv'
<1> USE DEF VInv
<1>1. SUFFICES ASSUME NEW addrs \in SUBSET Addr, NEW latest \in [addrs -> Attr],
                      NEW news \in SUBSET {a \in addrs : subConns[a] = NoSubConn},
                      NEW made \in [news -> Fresh], UpdateClientConnState(latest, made)
               PROVE  VInv'
  BY DEF ResolverUpdate
<1> DEFINE created == {made[a] : a \in DOMAIN made}
           removed == {subConns[a] : a \in Addr \ DOMAIN latest} \ {NoSubConn}
<1>2. created \subseteq Fresh /\ created \subseteq SubConn /\ removed \subseteq InUse
  BY <1>1 DEF Fresh, InUse
<1>3. \A sc \in created : notes[sc] = <<>> /\ conn[sc] = "SHUTDOWN"
  BY <1>2 DEF Fresh
<1>4. \A sc \in removed : sc \in SubConn /\ conn[sc] # "SHUTDOWN"
  BY <1>2 DEF IInv, NoLeakedConnection
<1>5. /\ connects' = connects \cup created
      /\ \A sc \in SubConn :
            /\ scStates'[sc] = IF sc \in created THEN "IDLE" ELSE scStates[sc]
            /\ conn'[sc] = IF sc \in created THEN "IDLE"
                           ELSE IF sc \in removed THEN "SHUTDOWN" ELSE conn[sc]
            /\ notes'[sc] = IF sc \in removed THEN Append(notes[sc], "SHUTDOWN") ELSE notes[sc]
      /\ csEvltr' = CountCreated(created)
      /\ state' = state
      /\ subConns' = Resolved(latest, made)
  BY <1>1 DEF UpdateClientConnState, AdoptAddresses
<1>6. \A sc \in SubConn : notes[sc] \in Seq(ConnState)
  BY DEF IInv, TypeOK
<1>7. "SHUTDOWN" \in ConnState
  BY DEF ConnState
<1> HIDE DEF created, removed
<1>8. NoLostReconnect'
  <2> SUFFICES ASSUME NEW sc \in SubConn, conn'[sc] = "IDLE", sc \notin created
               PROVE  sc \in connects' \/ \E i \in 1..Len(notes'[sc]) : notes'[sc][i] = "IDLE"
    BY <1>5 DEF NoLostReconnect
  <2> QED BY <1>5 DEF NoLostReconnect
<1>9. ToldTruth'
  <2> SUFFICES ASSUME NEW sc \in SubConn
               PROVE  IF notes'[sc] = <<>> THEN Settled(sc)'
                      ELSE notes'[sc][Len(notes'[sc])] = conn'[sc]
    BY DEF ToldTruth
  <2>1. CASE sc \in created
    BY <1>3, <1>4, <1>5, <2>1 DEF Settled
  <2>2. CASE sc \in removed
    <3>1. conn'[sc] = "SHUTDOWN" /\ notes'[sc] = Append(notes[sc], "SHUTDOWN")
      BY <1>3, <1>4, <1>5, <2>2
    <3>2. /\ Append(notes[sc], "SHUTDOWN") # <<>>
          /\ Append(notes[sc], "SHUTDOWN")[Len(Append(notes[sc], "SHUTDOWN"))] = "SHUTDOWN"
      BY <1>6, <1>7, Enqueued
    <3> QED BY <3>1, <3>2, Zenon
  <2>3. CASE sc \notin created /\ sc \notin removed
    BY <1>5, <2>3 DEF ToldTruth, Settled
  <2> QED BY <2>1, <2>2, <2>3
<1>10. StateDue'
  <2>1. CASE created # {}
    <3>1. PICK sc \in created : TRUE
      BY <2>1
    <3>2. Reports(sc)'
      BY <1>2, <1>5, <3>1 DEF Reports
    <3> QED BY <1>2, <3>1, <3>2 DEF StateDue
  <2>2. CASE created = {}
    <3>1. csEvltr' = csEvltr
      <4>1. CountCreated(created) = [csEvltr EXCEPT !["IDLE"] = @ + 0]
        BY <2>2, FS_EmptySet DEF CountCreated
      <4>2. csEvltr["IDLE"] \in Int /\ csEvltr \in [Counted -> Int]
        BY DEF IInv, TypeOK, Counted
      <4> QED BY <1>5, <4>1, <4>2
    <3>2. DOMAIN made = {}
      BY <2>2 DEF created
    <3>3. \A a \in Addr : subConns'[a] = IF a \in DOMAIN latest THEN subConns[a] ELSE NoSubConn
      BY <1>5, <3>2 DEF Resolved
    <3>4. InUse' \subseteq InUse
      BY <3>3 DEF InUse
    <3>5. ASSUME NEW sc \in SubConn, Reports(sc) PROVE Reports(sc)'
      <4>1. scStates'[sc] = "IDLE" /\ sc \in SubConn
        BY <1>5, <2>2, <3>5 DEF Reports
      <4>2. CASE sc \in removed
        <5>1. Append(notes[sc], "SHUTDOWN") # <<>>
          BY <1>6, <1>7, Enqueued
        <5>2. notes'[sc] # <<>>
          BY <1>5, <4>2, <5>1
        <5> QED BY <4>1, <5>2 DEF Reports
      <4>3. CASE sc \notin removed
        BY <1>5, <2>2, <3>5, <4>1, <4>3 DEF Reports
      <4> QED BY <4>2, <4>3
    <3> QED BY <1>5, <3>1, <3>4, <3>5 DEF StateDue
  <2> QED BY <2>1, <2>2
<1> QED BY <1>8, <1>9, <1>10

\* Every step keeps what the balancer knows or is about to be told.
LEMMA ViewStep == IInv /\ VInv /\ [Next]_vars => VInv'
<1> SUFFICES ASSUME IInv, VInv, [Next]_vars PROVE VInv'
  OBVIOUS
<1>1. ASSUME UNCHANGED <<csEvltr, state, subConns, scStates, conn, notes>>,
             connects \subseteq connects'
      PROVE  VInv'
  <2>1. NoLostReconnect'
    BY <1>1 DEF VInv, NoLostReconnect
  <2>2. ToldTruth'
    BY <1>1 DEF VInv, ToldTruth, Settled
  <2>3. StateDue'
    BY <1>1 DEF VInv, StateDue, InUse, Reports
  <2> QED BY <2>1, <2>2, <2>3 DEF VInv
<1>2. CASE ResolverError
  <2>1. UNCHANGED <<csEvltr, subConns, scStates, conn, notes, connects>>
        /\ state' = IF InUse = {} THEN "TRANSIENT_FAILURE" ELSE state
    BY <1>2 DEF ResolverError, connVars
  <2>2. CASE InUse = {}
    <3>1. NoLostReconnect' /\ ToldTruth'
      BY <2>1 DEF VInv, NoLostReconnect, ToldTruth, Settled
    <3>2. StateDue'
      BY <2>1, <2>2 DEF StateDue, InUse
    <3> QED BY <3>1, <3>2 DEF VInv
  <2> QED BY <1>1, <2>1, <2>2
<1>3. CASE ResolverUpdate
  BY <1>3, ViewUpdate
<1>4. CASE ExitIdle
  BY <1>1, <1>4 DEF ExitIdle, balancerVars
<1>5. ASSUME NEW sc \in SubConn, UpdateSubConnState(sc) PROVE VInv'
  BY <1>5, ViewDeliver
<1>6. ASSUME NEW sc \in SubConn, RunConnect(sc), conn[sc] = "IDLE" PROVE VInv'
  BY <1>6, ViewNotify DEF RunConnect, ConnState, Counted
<1>7. ASSUME NEW sc \in SubConn, RunConnect(sc), conn[sc] # "IDLE" PROVE VInv'
  <2>1. /\ UNCHANGED <<csEvltr, state, subConns, scStates, conn, notes>>
        /\ connects' = connects \ {sc}
    BY <1>7 DEF RunConnect, balancerVars
  <2>2. NoLostReconnect'
    BY <1>7, <2>1 DEF VInv, NoLostReconnect
  <2>3. ToldTruth'
    BY <2>1 DEF VInv, ToldTruth, Settled
  <2>4. StateDue'
    BY <1>7, <2>1 DEF VInv, StateDue, InUse, Reports
  <2> QED BY <2>2, <2>3, <2>4 DEF VInv
<1>8. ASSUME NEW sc \in SubConn,
             \/ ConnectSucceeds(sc) \/ ConnectFails(sc)
             \/ BackoffExpires(sc) \/ ConnectionLost(sc)
      PROVE  VInv'
  <2>1. PICK from, to \in ConnState : Transport(sc, from, to)
    BY <1>8 DEF ConnectSucceeds, ConnectFails, BackoffExpires, ConnectionLost, ConnState, Counted
  <2> QED BY <2>1, ViewNotify DEF Transport
<1>9. CASE UNCHANGED vars
  BY <1>1, <1>9 DEF vars, connVars, balancerVars
<1> QED BY <1>2, <1>3, <1>4, <1>5, <1>6, <1>7, <1>8, <1>9 DEF Next

\* What the balancer knows, or is about to be told, in every reachable state.
THEOREM ViewInvariant == Spec => []VInv
<1>1. Init => IInv /\ VInv
  BY InvInit, ViewInit
<1>2. (IInv /\ VInv) /\ [Next]_vars => (IInv /\ VInv)'
  BY InvStep, ViewStep
<1> QED BY <1>1, <1>2, PTL DEF Spec

\* NoLostReconnect: every idle connection has a Connect or a notification coming, the
\* failed ones included, whose notifications are not recorded.
THEOREM NeverLostReconnect == Spec => []NoLostReconnect
BY ViewInvariant, PTL DEF VInv

\* SettledView: with nothing under way the balancer records the state of every
\* connection and reports the aggregate of what it records.
THEOREM ViewSettles == Spec => []SettledView
<1>1. VInv => SettledView
  <2> SUFFICES ASSUME VInv, Quiet PROVE SettledView
    BY DEF SettledView
  <2>1. \A sc \in SubConn : Settled(sc) /\ ~Reports(sc)
    BY DEF VInv, Quiet, ToldTruth, Reports
  <2>2. InUse # {} => state = CurrentState(csEvltr)
    BY <2>1 DEF VInv, StateDue
  <2> QED BY <2>1, <2>2 DEF SettledView, Settled
<1> QED BY <1>1, ViewInvariant, PTL
=============================================================================
