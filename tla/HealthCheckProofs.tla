------------------------- MODULE HealthCheckProofs -------------------------
(***************************************************************************)
(* Proofs about HealthCheck, for any endpoints, thresholds and numbers of  *)
(* objects and loops. What depends on Start and Stop following each other  *)
(* is proved for one user, as TLC shows it false of two.                   *)
(***************************************************************************)
EXTENDS HealthCheck, TLAPS

\* The count after one more result stays within its limit and moves up by one.
LEMMA AtmostStep ==
    ASSUME NEW limit \in Nat \ {0}, NEW n \in 0..limit
    PROVE  /\ Atmost(n + 1, limit) \in 0..limit
           /\ n < limit => Atmost(n + 1, limit) = n + 1
           /\ n = limit => Atmost(n + 1, limit) = limit
BY DEF Atmost

\* StatusMatchesCounts of one object.
Consistent(eh) ==
    /\ eh.fails = 0 \/ eh.oks = 0
    /\ eh.status # "unhealthy" => eh.fails < UnhealthyThreshold
    /\ eh.status # "healthy" => eh.oks < HealthyThreshold

\* A check keeps an object of its type: no count passes its threshold.
LEMMA CheckedType ==
    ASSUME NEW eh \in EndpointHealth, NEW ok
    PROVE  Checked(eh, ok) \in EndpointHealth
<1>1. /\ Atmost(eh.oks + 1, HealthyThreshold) \in 0..HealthyThreshold
      /\ Atmost(eh.fails + 1, UnhealthyThreshold) \in 0..UnhealthyThreshold
  BY CheckerAssumption, AtmostStep DEF EndpointHealth
<1>2. 0 \in 0..HealthyThreshold /\ 0 \in 0..UnhealthyThreshold
  BY CheckerAssumption
<1>3. CASE ok
  BY <1>1, <1>2, <1>3 DEF Checked, EndpointHealth, Status
<1>4. CASE ~ok
  BY <1>1, <1>2, <1>4 DEF Checked, EndpointHealth, Status
<1> QED BY <1>3, <1>4

\* Counts start again with a result of the other kind, and a threshold reached
\* sets the status.
LEMMA CheckedConsistent ==
    ASSUME NEW eh \in EndpointHealth, Consistent(eh), NEW ok
    PROVE  Consistent(Checked(eh, ok))
BY SMTT(30), CheckerAssumption DEF Checked, Consistent, EndpointHealth, Status, Atmost

-----------------------------------------------------------------------------
(***************************************************************************)
(* Type correctness and the counts, for any number of users.               *)
(***************************************************************************)
BaseInv == TypeOK /\ StatusMatchesCounts

\* A new object has the type and no counts.
LEMMA UnknownConsistent ==
    ASSUME NEW a \in Addr
    PROVE  Unknown(a) \in EndpointHealth /\ Consistent(Unknown(a))
BY CheckerAssumption DEF Unknown, EndpointHealth, Status, Consistent

\* A checker just made is of its types.
LEMMA BaseInit == Init => BaseInv
<1> SUFFICES ASSUME Init PROVE BaseInv
  OBVIOUS
<1>1. \A h \in Health : health[h] \in EndpointHealth /\ Consistent(health[h])
  <2> TAKE h \in Health
  <2>1. PICK a \in Addr : health[h] = Unknown(a)
    BY DEF Init
  <2> QED BY <2>1, UnknownConsistent
<1>2. StatusMatchesCounts
  BY <1>1 DEF StatusMatchesCounts, Consistent
<1>3. health \in [Health -> EndpointHealth]
  BY <1>1 DEF Init
<1>4. TypeOK
  BY <1>3 DEF Init, TypeOK, NoLoop, Status, LoopState
<1> QED BY <1>2, <1>4 DEF BaseInv

\* A change of the list: known endpoints keep their objects and their counts.
LEMMA BaseListing ==
    ASSUME BaseInv, NEW addrs \in SUBSET Addr, Listing(addrs)
    PROVE  BaseInv'
<1>1. PICK made \in [{a \in addrs : endpoints[a] = None} -> {h \in Health : ~Held(h)}] :
        /\ endpoints' = [a \in Addr |-> IF a \in DOMAIN made THEN made[a]
                                        ELSE IF a \in addrs THEN endpoints[a] ELSE None]
        /\ health' = [h \in Health |->
                        IF \E a \in DOMAIN made : made[a] = h
                        THEN Unknown(CHOOSE a \in DOMAIN made : made[a] = h)
                        ELSE health[h]]
        /\ told' = [h \in Health |-> IF \E a \in DOMAIN made : made[a] = h
                                     THEN "unknown" ELSE told[h]]
        /\ UNCHANGED <<running, loop, user, up>>
  BY DEF Listing
<1>2. ASSUME NEW h \in Health PROVE health'[h] \in EndpointHealth /\ Consistent(health'[h])
  <2>1. CASE \E a \in DOMAIN made : made[a] = h
    <3> DEFINE b == CHOOSE a \in DOMAIN made : made[a] = h
    <3>1. b \in Addr
      BY <2>1
    <3>2. health'[h] = Unknown(b)
      BY <1>1, <2>1
    <3> QED BY <3>1, <3>2, UnknownConsistent
  <2>2. CASE ~\E a \in DOMAIN made : made[a] = h
    <3>1. health'[h] = health[h]
      BY <1>1, <2>2
    <3> QED BY <3>1 DEF BaseInv, TypeOK, StatusMatchesCounts, Consistent
  <2> QED BY <2>1, <2>2
<1>3. StatusMatchesCounts'
  BY <1>2 DEF StatusMatchesCounts, Consistent
<1>4. health' \in [Health -> EndpointHealth]
  BY <1>1, <1>2
<1>5. endpoints' \in [Addr -> Health \cup {None}]
  BY <1>1 DEF BaseInv, TypeOK
<1>6. told' \in [Health -> Status]
  BY <1>1 DEF BaseInv, TypeOK, Status
<1> QED BY <1>1, <1>3, <1>4, <1>5, <1>6 DEF BaseInv, TypeOK

\* The lists the handlers ask for are lists of addresses.
LEMMA ListingSteps ==
    ASSUME NEW a \in Addr, AddEndpoint(a) \/ RemoveEndpoint(a)
    PROVE  \E addrs \in SUBSET Addr : Listing(addrs)
<1>1. Known \cup {a} \in SUBSET Addr /\ Known \ {a} \in SUBSET Addr
  BY DEF Known
<1> QED BY <1>1 DEF AddEndpoint, RemoveEndpoint

\* A round stays a round with other checks and callbacks under way.
LEMMA RoundType ==
    ASSUME NEW r \in LoopState, NEW t \in SUBSET Health, NEW c \in SUBSET Change
    PROVE  /\ [r EXCEPT !.todo = t, !.changes = c] \in LoopState
           /\ [r EXCEPT !.todo = t, !.changes = c].pc = r.pc
           /\ [r EXCEPT !.changes = c] \in LoopState
           /\ [r EXCEPT !.changes = c].pc = r.pc
BY DEF LoopState

\* A check updates one object, and its round.
LEMMA BaseCheck ==
    ASSUME BaseInv, NEW l \in Loop, NEW h \in Health, CheckEndpoint(l, h)
    PROVE  BaseInv'
<1>1. PICK o \in Outcomes(up[health[h].addr]) :
        LET new == Checked(health[h], Passes(o)) IN
        /\ health' = [health EXCEPT ![h] = new]
        /\ loop' = [loop EXCEPT
                        ![l].todo = @ \ {h},
                        ![l].changes = IF new.status = health[h].status THEN @
                                       ELSE @ \cup {[health |-> h, status |-> new.status]}]
  BY DEF CheckEndpoint
<1>2. health[h] \in EndpointHealth /\ Consistent(health[h])
  BY DEF BaseInv, TypeOK, StatusMatchesCounts, Consistent
<1> DEFINE new == Checked(health[h], Passes(o))
<1>3. new \in EndpointHealth /\ Consistent(new)
  BY <1>2, CheckedType, CheckedConsistent
<1>4. new.status \in Status
  BY <1>3 DEF EndpointHealth
<1>5. health' = [health EXCEPT ![h] = new]
  BY <1>1
<1>6. loop' = [loop EXCEPT
                 ![l].todo = @ \ {h},
                 ![l].changes = IF new.status = health[h].status THEN @
                                ELSE @ \cup {[health |-> h, status |-> new.status]}]
  BY <1>1
<1>7. loop[l].pc = "checking"
  BY DEF CheckEndpoint, BaseInv, TypeOK
<1> HIDE DEF new
<1>8. health' \in [Health -> EndpointHealth]
  BY <1>3, <1>5 DEF BaseInv, TypeOK
<1>9. StatusMatchesCounts'
  <2> SUFFICES ASSUME NEW k \in Health PROVE Consistent(health'[k])
    BY DEF StatusMatchesCounts, Consistent
  <2>1. CASE k = h
    BY <2>1, <1>3, <1>5 DEF BaseInv, TypeOK
  <2>2. CASE k # h
    BY <2>2, <1>5 DEF BaseInv, TypeOK, StatusMatchesCounts, Consistent
  <2> QED BY <2>1, <2>2
<1>10. [health |-> h, status |-> new.status] \in Change
  BY <1>4 DEF Change
<1> DEFINE changes == IF new.status = health[h].status THEN loop[l].changes
                     ELSE loop[l].changes \cup {[health |-> h, status |-> new.status]}
<1>11. changes \in SUBSET Change
  BY <1>10 DEF BaseInv, TypeOK, LoopState
<1>12. \A m \in Loop : loop'[m] = IF m = l
                                   THEN [loop[l] EXCEPT !.todo = @ \ {h}, !.changes = changes]
                                   ELSE loop[m]
  BY <1>6 DEF BaseInv, TypeOK, LoopState
<1> HIDE DEF changes
<1>13. loop' = [m \in Loop |-> loop'[m]]
  BY <1>6 DEF BaseInv, TypeOK
<1>14. ASSUME NEW m \in Loop
       PROVE  /\ loop'[m] \in LoopState
              /\ loop'[m].pc = "checking" \/ (loop'[m].todo = {} /\ loop'[m].changes = {})
  <2>1. loop[m] \in LoopState /\ loop[l] \in LoopState /\ loop[l].todo \ {h} \in SUBSET Health
    BY DEF BaseInv, TypeOK, LoopState
  <2>2. CASE m = l
    <3> DEFINE todo == loop[l].todo \ {h}
    <3>1. loop'[m] = [loop[l] EXCEPT !.todo = todo, !.changes = changes]
      BY <2>2, <1>12
    <3>2. todo \in SUBSET Health
      BY <2>1
    <3> HIDE DEF todo
    <3>3. /\ [loop[l] EXCEPT !.todo = todo, !.changes = changes] \in LoopState
          /\ [loop[l] EXCEPT !.todo = todo, !.changes = changes].pc = loop[l].pc
      BY ONLY <2>1, <3>2, <1>11, RoundType, ZenonT(30)
    <3> QED BY <3>1, <3>3, <1>7
  <2>3. CASE m # l
    BY <2>1, <2>3, <1>12 DEF BaseInv, TypeOK
  <2> QED BY <2>2, <2>3
<1>15. loop' \in [Loop -> LoopState]
  BY <1>13, <1>14
<1> QED BY <1>8, <1>9, <1>14, <1>15 DEF CheckEndpoint, BaseInv, TypeOK

\* Every step keeps the types and the counts.
LEMMA BaseStep == BaseInv /\ [Next]_vars => BaseInv'
<1> SUFFICES ASSUME BaseInv, [Next]_vars PROVE BaseInv'
  OBVIOUS
<1> USE DEF BaseInv, TypeOK, StatusMatchesCounts
<1>1. ASSUME NEW a \in Addr, AddEndpoint(a) \/ RemoveEndpoint(a) PROVE BaseInv'
  BY <1>1, ListingSteps, BaseListing
<1>2. ASSUME NEW addrs \in SUBSET Addr, SetEndpoints(addrs) PROVE BaseInv'
  BY <1>2, BaseListing DEF SetEndpoints
<1>3. ASSUME NEW a \in Addr, ServerChanges(a) PROVE BaseInv'
  BY <1>3 DEF ServerChanges
<1>4. ASSUME NEW u \in User, StartLocked(u) PROVE BaseInv'
  BY <1>4 DEF StartLocked
<1>5. ASSUME NEW u \in User, StartGo(u) PROVE BaseInv'
  BY <1>5 DEF StartGo, Alive, LoopState
<1>6. ASSUME NEW u \in User, StopLocked(u) PROVE BaseInv'
  <2>1. ASSUME NEW l \in Loop
        PROVE  /\ loop'[l] \in LoopState
               /\ loop'[l].pc = loop[l].pc /\ loop'[l].todo = loop[l].todo
               /\ loop'[l].changes = loop[l].changes
    <3>1. PICK b \in BOOLEAN : b = (loop[l].pc = "waiting")
      OBVIOUS
    <3>2. loop'[l] = [loop[l] EXCEPT !.stopped = (loop[l].pc = "waiting")]
      BY <1>6 DEF StopLocked
    <3>3. loop'[l] = [loop[l] EXCEPT !.stopped = b]
      BY ONLY <3>1, <3>2, Zenon
    <3>4. loop[l] \in LoopState
      OBVIOUS
    <3> QED BY ONLY <3>3, <3>4, b \in BOOLEAN DEF LoopState
  <2>2. loop' = [l \in Loop |-> loop'[l]]
    BY <1>6 DEF StopLocked
  <2>3. loop' \in [Loop -> LoopState]
    BY ONLY <2>1, <2>2
  <2> QED BY <1>6, <2>1, <2>3 DEF StopLocked
<1>7. ASSUME NEW u \in User, StopReturns(u) PROVE BaseInv'
  BY <1>7 DEF StopReturns
<1>8. ASSUME NEW l \in Loop, RoundStart(l) PROVE BaseInv'
  <2>1. Listed \in SUBSET Health
    BY DEF Listed
  <2> QED BY <1>8, <2>1 DEF RoundStart, NoLoop, LoopState
<1>9. ASSUME NEW l \in Loop, RoundEnd(l) PROVE BaseInv'
  BY <1>9, ZenonT(30) DEF RoundEnd, RoundOver, WaitsOnClosed, LoopState
<1>10. ASSUME NEW l \in Loop, LoopExit(l) PROVE BaseInv'
  BY <1>10 DEF LoopExit, NoLoop, LoopState
<1>11. ASSUME NEW l \in Loop, NEW h \in Health, CheckEndpoint(l, h) PROVE BaseInv'
  BY <1>11, BaseCheck
<1>12. ASSUME NEW l \in Loop, NEW h \in Health, Notify(l, h) PROVE BaseInv'
  <2>1. PICK ch \in loop[l].changes :
          /\ ch.health = h
          /\ told' = [told EXCEPT ![h] = ch.status]
          /\ loop' = [loop EXCEPT ![l].changes = @ \ {ch}]
    BY <1>12 DEF Notify
  <2>2. loop[l] \in LoopState /\ ch \in Change /\ loop[l].changes \ {ch} \in SUBSET Change
    BY DEF LoopState
  <2>3. told' \in [Health -> Status]
    BY <2>1, <2>2 DEF Change
  <2>4. loop[l].pc = "checking"
    BY <2>1
  <2>5. loop' = [loop EXCEPT ![l] = [loop[l] EXCEPT !.changes = loop[l].changes \ {ch}]]
    BY <2>1
  <2>6. loop' \in [Loop -> LoopState] /\ loop'[l].pc = "checking"
    BY <2>2, <2>4, <2>5, RoundType
  <2> QED BY <1>12, <2>3, <2>5, <2>6 DEF Notify
<1>13. CASE UNCHANGED vars
  BY <1>13 DEF vars
<1> QED
  BY <1>1, <1>2, <1>3, <1>4, <1>5, <1>6, <1>7, <1>8, <1>9, <1>10, <1>11, <1>12, <1>13 DEF Next

\* Every reachable state of the checker is of its types, whoever starts and stops.
THEOREM TypeCorrect == Spec => []TypeOK
<1>1. BaseInv => TypeOK
  BY DEF BaseInv
<1> QED BY <1>1, BaseInit, BaseStep, PTL DEF Spec

\* No endpoint's status contradicts the run of results it counts, even if several
\* loops check it.
THEOREM StatusAlwaysMatches == Spec => []StatusMatchesCounts
<1>1. BaseInv => StatusMatchesCounts
  BY DEF BaseInv
<1> QED BY <1>1, BaseInit, BaseStep, PTL DEF Spec

\* Types and statuses together.
THEOREM StatusAlwaysEarned == Spec => []StatusEarned
BY TypeCorrect, StatusAlwaysMatches, PTL DEF StatusEarned

-----------------------------------------------------------------------------
(***************************************************************************)
(* One user that starts and stops.                                         *)
(***************************************************************************)

\* Where the user is tells how many loops there can be.
LifeInv ==
    /\ OneLoop
    /\ QuietAfterStop
    /\ \A u \in User : /\ user[u] = "starting" => running /\ \A l \in Loop : ~Alive(l)
                       /\ user[u] = "stopping" => ~running

\* A loop that goes from one pc to another is alive before and after.
LEMMA AliveKept ==
    ASSUME TypeOK, NEW l \in Loop, Alive(l), NEW r, r.pc # "none",
           loop' = [loop EXCEPT ![l] = r]
    PROVE  \A m \in Loop : Alive(m)' <=> Alive(m)
BY DEF TypeOK, Alive

\* The loop's own steps neither start nor end a loop, except LoopExit.
LEMMA LifeLoop ==
    ASSUME TypeOK, NEW l \in Loop,
           \/ RoundStart(l)
           \/ RoundEnd(l)
           \/ \E h \in Health : CheckEndpoint(l, h) \/ Notify(l, h)
    PROVE  (\A m \in Loop : Alive(m)' <=> Alive(m)) /\ UNCHANGED <<running, user>>
<1>1. CASE RoundStart(l)
  BY <1>1, AliveKept DEF RoundStart, NoLoop, Alive
<1>2. CASE RoundEnd(l)
  BY <1>2 DEF RoundEnd, TypeOK, Alive, LoopState
<1>3. ASSUME NEW h \in Health, CheckEndpoint(l, h)
      PROVE  (\A m \in Loop : Alive(m)' <=> Alive(m)) /\ UNCHANGED <<running, user>>
  <2>1. PICK c : loop' = [loop EXCEPT ![l].todo = @ \ {h}, ![l].changes = c]
    BY <1>3 DEF CheckEndpoint
  <2>2. \A m \in Loop : loop'[m].pc = loop[m].pc
    BY <2>1 DEF TypeOK, LoopState
  <2> QED BY <2>2, <1>3 DEF CheckEndpoint, Alive
<1>4. ASSUME NEW h \in Health, Notify(l, h)
      PROVE  (\A m \in Loop : Alive(m)' <=> Alive(m)) /\ UNCHANGED <<running, user>>
  BY <1>4 DEF Notify, TypeOK, Alive, LoopState
<1> QED BY <1>1, <1>2, <1>3, <1>4

\* With one user no Start can slip between another's unlock and its go, and no
\* Stop can return before its loop does.
LEMMA LifeStep ==
    ASSUME NEW me, User = {me}, TypeOK, LifeInv, [Next]_vars
    PROVE  LifeInv'
<1> USE DEF LifeInv, OneLoop, QuietAfterStop
<1>1. ASSUME \A m \in Loop : Alive(m)' <=> Alive(m), UNCHANGED <<running, user>>
      PROVE  LifeInv'
  BY <1>1
<1>2. ASSUME UNCHANGED <<running, loop, user>> PROVE LifeInv'
  BY <1>1, <1>2 DEF Alive
<1>3. ASSUME NEW addrs, Listing(addrs) PROVE LifeInv'
  BY <1>2, <1>3 DEF Listing
<1>4. ASSUME NEW a \in Addr, AddEndpoint(a) \/ RemoveEndpoint(a) \/ ServerChanges(a)
      PROVE  LifeInv'
  BY <1>2, <1>3, <1>4 DEF AddEndpoint, RemoveEndpoint, ServerChanges
<1>5. CASE StartLocked(me)
  BY <1>5 DEF StartLocked, Starts, TypeOK, Alive
<1>6. CASE StartGo(me)
  <2>1. PICK l \in Loop : ~Alive(l) /\ loop' = [loop EXCEPT ![l].pc = "begin"]
    BY <1>6 DEF StartGo
  <2>2. \A m \in Loop : Alive(m)' => m = l
    BY <2>1, <1>6 DEF StartGo, TypeOK, Alive
  <2>3. user' = [user EXCEPT ![me] = "idle"] /\ running' = running /\ running
    BY <1>6 DEF StartGo
  <2> QED BY <2>2, <2>3 DEF TypeOK
<1>7. CASE StopLocked(me)
  <2>1. \A m \in Loop : Alive(m)' <=> Alive(m)
    BY <1>7 DEF StopLocked, TypeOK, LoopState, Alive
  <2> QED BY <2>1, <1>7 DEF StopLocked, TypeOK
<1>8. CASE StopReturns(me)
  BY <1>8 DEF StopReturns, AllDone, TypeOK, Alive
<1>9. ASSUME NEW l \in Loop, LoopExit(l) PROVE LifeInv'
  <2>1. \A m \in Loop : Alive(m)' => Alive(m)
    BY <1>9 DEF LoopExit, NoLoop, TypeOK, Alive
  <2> QED BY <2>1, <1>9 DEF LoopExit
<1>10. ASSUME NEW l \in Loop,
              \/ RoundStart(l)
              \/ RoundEnd(l)
              \/ \E h \in Health : CheckEndpoint(l, h) \/ Notify(l, h)
       PROVE  LifeInv'
  BY <1>1, <1>10, LifeLoop
<1>11. CASE UNCHANGED vars
  BY <1>2, <1>11 DEF vars
<1> QED
  BY <1>3, <1>4, <1>5, <1>6, <1>7, <1>8, <1>9, <1>10, <1>11 DEF Next, SetEndpoints

\* Before the first Start there is no loop.
LEMMA LifeInit == Init => LifeInv
BY DEF Init, NoLoop, LifeInv, OneLoop, QuietAfterStop, Alive

\* Start and Stop, called by one user, never leave two loops alive.
THEOREM AtMostOneLoop ==
    ASSUME NEW me, User = {me}
    PROVE  Spec => []OneLoop
<1>1. TypeOK /\ LifeInv /\ [Next]_vars => LifeInv'
  BY LifeStep
<1>2. LifeInv => OneLoop
  BY DEF LifeInv
<1> QED BY <1>1, <1>2, LifeInit, TypeCorrect, PTL DEF Spec

\* Once Stop has returned to its one user, no goroutine of the checker is left.
THEOREM StopIsComplete ==
    ASSUME NEW me, User = {me}
    PROVE  Spec => []QuietAfterStop
<1>1. TypeOK /\ LifeInv /\ [Next]_vars => LifeInv'
  BY LifeStep
<1>2. LifeInv => QuietAfterStop
  BY DEF LifeInv
<1> QED BY <1>1, <1>2, LifeInit, TypeCorrect, PTL DEF Spec

\* With one user the loop that runs is always the one Start made and Stop ends.
THEOREM LoopAlwaysOwned ==
    ASSUME NEW me, User = {me}
    PROVE  Spec => []LoopOwned
BY AtMostOneLoop, StopIsComplete, PTL DEF LoopOwned

-----------------------------------------------------------------------------
(***************************************************************************)
(* The order of the callbacks.                                             *)
(***************************************************************************)

\* An outstanding callback tells the object's status, and its check is over.
ToldInv ==
    /\ ToldLatest
    /\ \A l \in Loop : \A ch \in loop[l].changes :
        ch.status = health[ch.health].status /\ ch.health \notin loop[l].todo

\* A check reports a change only if nothing of the object is outstanding.
LEMMA ToldCheck ==
    ASSUME TypeOK, OneLoop, ToldInv, NEW l \in Loop, NEW h \in Health, CheckEndpoint(l, h)
    PROVE  ToldInv'
<1>1. PICK o \in Outcomes(up[health[h].addr]) :
        LET new == Checked(health[h], Passes(o)) IN
        /\ health' = [health EXCEPT ![h] = new]
        /\ loop' = [loop EXCEPT
                        ![l].todo = @ \ {h},
                        ![l].changes = IF new.status = health[h].status THEN @
                                       ELSE @ \cup {[health |-> h, status |-> new.status]}]
  BY DEF CheckEndpoint
<1> DEFINE new == Checked(health[h], Passes(o))
           changes == IF new.status = health[h].status THEN loop[l].changes
                      ELSE loop[l].changes \cup {[health |-> h, status |-> new.status]}
<1>2. health' = [health EXCEPT ![h] = new]
  BY <1>1
<1>3. /\ loop'[l].changes = changes
      /\ loop'[l].todo = loop[l].todo \ {h}
      /\ \A m \in Loop : m # l => loop'[m] = loop[m]
  BY <1>1 DEF TypeOK, LoopState
<1>4. h \in loop[l].todo /\ told' = told
  BY DEF CheckEndpoint
<1>5. \A m \in Loop : m # l => loop[m].changes = {}
  BY <1>4 DEF TypeOK, OneLoop, Alive
<1> HIDE DEF new
<1>6. ~Reported(h) /\ told[h] = health[h].status
  BY <1>4, <1>5 DEF ToldInv, ToldLatest, Reported
<1>7. \A k \in Health : k # h => health'[k] = health[k]
  BY <1>2 DEF TypeOK
<1>8. health'[h] = new
  BY <1>2 DEF TypeOK
<1>9. \A ch \in loop[l].changes : ch \in Change /\ ch.health # h
  BY <1>4 DEF ToldInv, TypeOK, LoopState
<1>10. ASSUME NEW m \in Loop, NEW ch \in loop'[m].changes
       PROVE  ch.status = health'[ch.health].status /\ ch.health \notin loop'[m].todo
  <2>1. m = l
    BY <1>3, <1>5
  <2>2. CASE ch \in loop[l].changes
    BY <2>1, <2>2, <1>3, <1>7, <1>9 DEF ToldInv, Change
  <2>3. CASE ch \notin loop[l].changes
    <3>1. ch = [health |-> h, status |-> new.status]
      BY <2>1, <2>3, <1>3
    <3> QED BY <3>1, <2>1, <1>3, <1>8
  <2> QED BY <2>2, <2>3
<1>11. ASSUME NEW k \in Health, ~Reported(k)' PROVE told'[k] = health'[k].status
  <2>1. CASE k = h
    <3>1. new.status = health[h].status
      <4> SUFFICES ASSUME new.status # health[h].status PROVE FALSE
        OBVIOUS
      <4>1. [health |-> h, status |-> new.status] \in loop'[l].changes
        BY <1>3
      <4> QED BY <4>1, <2>1, <1>11 DEF Reported
    <3> QED BY <3>1, <2>1, <1>4, <1>6, <1>8
  <2>2. CASE k # h
    <3>1. ~Reported(k)
      BY <1>3, <1>5, <1>11 DEF Reported
    <3> QED BY <3>1, <2>2, <1>4, <1>7 DEF ToldInv, ToldLatest
  <2> QED BY <2>1, <2>2
<1> QED BY <1>10, <1>11 DEF ToldInv, ToldLatest

\* A fresh object is one nothing is outstanding of.
LEMMA ToldListing ==
    ASSUME TypeOK, ToldInv, NEW addrs \in SUBSET Addr, Listing(addrs)
    PROVE  ToldInv'
<1>1. PICK made \in [{a \in addrs : endpoints[a] = None} -> {h \in Health : ~Held(h)}] :
        /\ health' = [h \in Health |->
                        IF \E a \in DOMAIN made : made[a] = h
                        THEN Unknown(CHOOSE a \in DOMAIN made : made[a] = h)
                        ELSE health[h]]
        /\ told' = [h \in Health |-> IF \E a \in DOMAIN made : made[a] = h
                                     THEN "unknown" ELSE told[h]]
        /\ UNCHANGED <<running, loop, user, up>>
  BY DEF Listing
<1> DEFINE Made(h) == \E a \in DOMAIN made : made[a] = h
<1>2. ASSUME NEW h \in Health, Made(h)
      PROVE  ~Reported(h) /\ told'[h] = "unknown" /\ health'[h].status = "unknown"
  BY <1>1, <1>2 DEF Held, Unknown
<1>3. ASSUME NEW h \in Health, ~Made(h)
      PROVE  told'[h] = told[h] /\ health'[h] = health[h]
  BY <1>1, <1>3
<1>4. loop' = loop /\ \A h : Reported(h)' <=> Reported(h)
  BY <1>1 DEF Reported
<1> HIDE DEF Made
<1>5. ToldLatest'
  BY <1>2, <1>3, <1>4 DEF ToldInv, ToldLatest
<1>6. ASSUME NEW l \in Loop, NEW ch \in loop[l].changes
      PROVE  ch.status = health'[ch.health].status /\ ch.health \notin loop[l].todo
  <2>1. ch \in Change /\ Reported(ch.health)
    BY DEF TypeOK, LoopState, Reported
  <2>2. ch.health \in Health
    BY <2>1 DEF Change
  <2> QED BY <2>1, <2>2, <1>2, <1>3 DEF ToldInv
<1> QED BY <1>4, <1>5, <1>6 DEF ToldInv

\* Every step keeps the outstanding callbacks and what was told in agreement.
LEMMA ToldStep ==
    ASSUME TypeOK, OneLoop, ToldInv, [Next]_vars
    PROVE  ToldInv'
<1>1. ASSUME UNCHANGED <<health, told>>,
             \A l \in Loop : loop'[l].changes = loop[l].changes
                             /\ (loop'[l].todo = loop[l].todo \/ loop[l].changes = {})
      PROVE  ToldInv'
  BY <1>1 DEF ToldInv, ToldLatest, Reported
<1>2. ASSUME NEW a \in Addr, AddEndpoint(a) \/ RemoveEndpoint(a) PROVE ToldInv'
  BY <1>2, ListingSteps, ToldListing
<1>3. ASSUME NEW addrs \in SUBSET Addr, SetEndpoints(addrs) PROVE ToldInv'
  BY <1>3, ToldListing DEF SetEndpoints
<1>4. ASSUME NEW a \in Addr, ServerChanges(a) PROVE ToldInv'
  BY <1>1, <1>4 DEF ServerChanges
<1>5. ASSUME NEW u \in User, StartLocked(u) \/ StartGo(u) \/ StopLocked(u) \/ StopReturns(u)
      PROVE  ToldInv'
  BY <1>1, <1>5 DEF StartLocked, StartGo, StopLocked, StopReturns, TypeOK, LoopState
<1>6. ASSUME NEW l \in Loop, RoundStart(l) \/ RoundEnd(l) \/ LoopExit(l) PROVE ToldInv'
  <2>1. loop[l].changes = {} /\ UNCHANGED <<health, told>>
    BY <1>6 DEF RoundStart, RoundEnd, RoundOver, LoopExit, TypeOK
  <2>2. loop'[l].changes = {}
    <3>1. CASE RoundStart(l)
      BY <3>1 DEF RoundStart, NoLoop, TypeOK
    <3>2. CASE RoundEnd(l)
      BY <3>2, <2>1 DEF RoundEnd, TypeOK, LoopState
    <3>3. CASE LoopExit(l)
      BY <3>3 DEF LoopExit, NoLoop, TypeOK
    <3> QED BY <1>6, <3>1, <3>2, <3>3
  <2>3. \A m \in Loop : m # l => loop'[m] = loop[m]
    BY <1>6 DEF RoundStart, RoundEnd, LoopExit, TypeOK
  <2> QED BY <1>1, <2>1, <2>2, <2>3
<1>7. ASSUME NEW l \in Loop, NEW h \in Health, CheckEndpoint(l, h) PROVE ToldInv'
  BY <1>7, ToldCheck
<1>8. ASSUME NEW l \in Loop, NEW h \in Health, Notify(l, h) PROVE ToldInv'
  <2>1. PICK ch \in loop[l].changes :
          /\ ch.health = h
          /\ told' = [told EXCEPT ![h] = ch.status]
          /\ loop' = [loop EXCEPT ![l].changes = @ \ {ch}]
    BY <1>8 DEF Notify
  <2>2. \A m \in Loop : loop'[m].changes \subseteq loop[m].changes /\ loop'[m].todo = loop[m].todo
    BY <2>1 DEF TypeOK, LoopState
  <2>3. health' = health
    BY <1>8 DEF Notify
  <2>4. ASSUME NEW k \in Health, ~Reported(k)' PROVE told'[k] = health[k].status
    <3>1. CASE k = h
      BY <3>1, <2>1 DEF TypeOK, ToldInv
    <3>2. CASE k # h
      <4>1. ~Reported(k)
        BY <3>2, <2>1, <2>4 DEF Reported, TypeOK, LoopState
      <4> QED BY <4>1, <3>2, <2>1 DEF TypeOK, ToldInv, ToldLatest
    <3> QED BY <3>1, <3>2
  <2> QED BY <2>2, <2>3, <2>4 DEF ToldInv, ToldLatest
<1>9. CASE UNCHANGED vars
  BY <1>1, <1>9 DEF vars
<1> QED
  BY <1>2, <1>3, <1>4, <1>5, <1>6, <1>7, <1>8, <1>9 DEF Next

\* The user's view of an endpoint is its status whenever no callback is under way,
\* although callbacks run outside the endpoint's lock.
THEOREM CallbacksInOrder ==
    ASSUME NEW me, User = {me}
    PROVE  Spec => []ToldLatest
<1>1. Init => ToldInv
  BY DEF Init, NoLoop, ToldInv, ToldLatest, Unknown
<1>2. TypeOK /\ OneLoop /\ ToldInv /\ [Next]_vars => ToldInv'
  BY ToldStep
<1>3. ToldInv => ToldLatest
  BY DEF ToldInv
<1> QED BY <1>1, <1>2, <1>3, AtMostOneLoop, TypeCorrect, PTL DEF Spec
=============================================================================
