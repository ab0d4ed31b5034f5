--------------------- MODULE CircuitBreakerPickerProofs ---------------------
(***************************************************************************)
(* Safety of the circuit breakers and of the pickers built with them, for  *)
(* every number of endpoints and requests and every configuration.         *)
(***************************************************************************)
EXTENDS CircuitBreakerPicker, TLAPS

\* A Build only admits endpoints it was given.
BuildWithin == build.todo \subseteq build.ready /\ build.admitted \subseteq build.ready

\* What a breaker counts was really seen in a row: the failures of a closed
\* circuit, the successes of a half-open one.
Counted(cb, seen) ==
    /\ cb.state = "closed" => cb.failureCount <= seen.failures
    /\ cb.state = "halfOpen" => cb.successCount <= seen.successes

CountsSeen == \A a \in DOMAIN breakers : Counted(breakers[a], streak[a])

IInv == TypeOK /\ NoCarryOver /\ NoOutage /\ BuildWithin /\ CountsSeen

-----------------------------------------------------------------------------
(* The breaker's methods. *)

\* Good is what each breaker in the map satisfies, as the methods preserve it.
Good(cb) == cb \in Breaker /\ PeriodCounts(cb)

\* A closed or open period entered anew has nothing to count, and half-open has
\* its first slot.
LEMMA EnteredGood ==
    /\ Good(Entered("closed")) /\ Good(Entered("open"))
    /\ Good([Entered("halfOpen") EXCEPT !.halfOpenRequests = 1])
<1>1. 1 \in 0..AtLeastOne(HalfOpenMaxRequests)
  BY ConfigAssumption DEF AtLeastOne
<1>2. 0 \in 0..AtLeastOne(HalfOpenMaxRequests)
  BY ConfigAssumption DEF AtLeastOne
<1>3. Good(Entered("closed")) /\ Good(Entered("open"))
  BY <1>2, ConfigAssumption DEF Good, Entered, Breaker, PeriodCounts
<1>4. Good([Entered("halfOpen") EXCEPT !.halfOpenRequests = 1])
  <2> DEFINE e == Entered("halfOpen")
  <2>1. /\ e \in Breaker /\ e.state = "halfOpen" /\ e.failureCount = 0
        /\ e.timedOut = FALSE
    BY <1>2, ConfigAssumption DEF Entered, Breaker
  <2> HIDE DEF e
  <2>2. [e EXCEPT !.halfOpenRequests = 1] \in Breaker
    BY <2>1, <1>1 DEF Breaker
  <2>3. PeriodCounts([e EXCEPT !.halfOpenRequests = 1])
    BY <2>1 DEF PeriodCounts, Breaker
  <2> QED  BY <2>2, <2>3 DEF Good, e
<1> QED  BY <1>3, <1>4

\* Allow keeps the counts within their period, and counts no result.
LEMMA AllowGood ==
    ASSUME NEW cb, Good(cb)
    PROVE  /\ Good(AfterAllow(cb))
           /\ AfterAllow(cb).state = "closed" => AfterAllow(cb) = cb
           /\ AfterAllow(cb).state = "halfOpen" =>
                \/ cb.state = "halfOpen" /\ AfterAllow(cb).successCount = cb.successCount
                \/ cb.state = "open" /\ AfterAllow(cb).successCount = 0
           /\ AfterAllow(cb).state = "open" => cb.state = "open"
           /\ cb.state = "halfOpen" => AfterAllow(cb).state = "halfOpen"
<1>1. cb \in Breaker /\ PeriodCounts(cb)
  BY DEF Good
<1>2. CASE ~Admits(cb) \/ cb.state = "closed"
  <2>1. AfterAllow(cb) = cb
    BY <1>2 DEF AfterAllow
  <2> QED  BY <2>1, <1>1, <1>2 DEF Breaker
<1>3. CASE Admits(cb) /\ cb.state = "open"
  <2>1. AfterAllow(cb) = [Entered("halfOpen") EXCEPT !.halfOpenRequests = 1]
    BY <1>3 DEF AfterAllow, Entered
  <2>2. AfterAllow(cb).state = "halfOpen" /\ AfterAllow(cb).successCount = 0
    BY <2>1 DEF Entered
  <2> QED  BY <2>1, <2>2, <1>3, EnteredGood
<1>4. CASE Admits(cb) /\ cb.state = "halfOpen"
  <2> DEFINE n == cb.halfOpenRequests + 1
  <2>1. AfterAllow(cb) = [cb EXCEPT !.halfOpenRequests = n]
    BY <1>4 DEF AfterAllow
  <2>2. n \in 0..AtLeastOne(HalfOpenMaxRequests) /\ n # 0
    BY <1>1, <1>4, ConfigAssumption DEF Admits, Breaker, AtLeastOne
  <2> HIDE DEF n
  <2>3. /\ AfterAllow(cb) \in Breaker
        /\ PeriodCounts(AfterAllow(cb))
        /\ AfterAllow(cb).state = "halfOpen"
        /\ AfterAllow(cb).successCount = cb.successCount
    BY <2>1, <2>2, <1>1, <1>4 DEF Breaker, PeriodCounts
  <2> QED  BY <2>3, <1>4 DEF Good
<1> QED  BY <1>1, <1>2, <1>3, <1>4 DEF Breaker

\* A success is counted in half-open state and ends a run of failures.
LEMMA SuccessGood ==
    ASSUME NEW cb, Good(cb)
    PROVE  /\ Good(AfterSuccess(cb))
           /\ AfterSuccess(cb).state = "closed" => AfterSuccess(cb).failureCount = 0
           /\ AfterSuccess(cb).state = "halfOpen" =>
                cb.state = "halfOpen" /\ AfterSuccess(cb).successCount = cb.successCount + 1
           /\ AfterSuccess(cb).state = "open" => cb.state = "open"
           /\ (AfterSuccess(cb).state = "closed" /\ cb.state = "halfOpen")
                => cb.successCount + 1 >= SuccessThreshold
<1>1. cb \in Breaker /\ PeriodCounts(cb)
  BY DEF Good
<1>2. CASE cb.state # "halfOpen"
  <2>0. 0 \in 0..FailureThreshold /\ 0 \in 0..SuccessThreshold
    BY ConfigAssumption
  <2>1. CASE cb.state = "closed"
    <3>1. AfterSuccess(cb) = [cb EXCEPT !.failureCount = 0, !.successCount = 0]
      BY <2>1 DEF AfterSuccess
    <3>2. AfterSuccess(cb) \in Breaker /\ AfterSuccess(cb).state = "closed"
      BY <3>1, <2>0, <2>1, <1>1 DEF Breaker
    <3>3. PeriodCounts(AfterSuccess(cb)) /\ AfterSuccess(cb).failureCount = 0
      BY <3>1, <2>1, <1>1 DEF Breaker, PeriodCounts
    <3> QED  BY <3>2, <3>3, <2>1 DEF Good
  <2>2. CASE cb.state = "open"
    <3>1. AfterSuccess(cb) = [cb EXCEPT !.failureCount = 0, !.successCount = cb.successCount]
      BY <2>2 DEF AfterSuccess
    <3>2. AfterSuccess(cb) \in Breaker /\ AfterSuccess(cb).state = "open"
      BY <3>1, <2>0, <2>2, <1>1 DEF Breaker
    <3>3. PeriodCounts(AfterSuccess(cb))
      BY <3>1, <2>2, <1>1 DEF Breaker, PeriodCounts
    <3> QED  BY <3>2, <3>3, <2>2 DEF Good
  <2> QED  BY <1>1, <1>2, <2>1, <2>2 DEF Breaker
<1>3. CASE cb.state = "halfOpen" /\ cb.successCount + 1 >= SuccessThreshold
  <2>1. AfterSuccess(cb) = Entered("closed")
    BY <1>3 DEF AfterSuccess
  <2>2. AfterSuccess(cb).state = "closed" /\ AfterSuccess(cb).failureCount = 0
    BY <2>1 DEF Entered
  <2> QED  BY <2>1, <2>2, <1>3, EnteredGood
<1>4. CASE cb.state = "halfOpen" /\ ~(cb.successCount + 1 >= SuccessThreshold)
  <2> DEFINE n == cb.successCount + 1
  <2>1. AfterSuccess(cb) = [cb EXCEPT !.successCount = n, !.failureCount = 0]
    BY <1>4 DEF AfterSuccess
  <2>2. n \in 0..SuccessThreshold
    BY <1>1, <1>4, ConfigAssumption DEF Breaker
  <2> HIDE DEF n
  <2>3. /\ AfterSuccess(cb) \in Breaker
        /\ PeriodCounts(AfterSuccess(cb))
        /\ AfterSuccess(cb).state = "halfOpen"
        /\ AfterSuccess(cb).successCount = n
    BY <2>1, <2>2, <1>1, <1>4, ConfigAssumption DEF Breaker, PeriodCounts
  <2> QED  BY <2>3, <1>4 DEF Good, n
<1> QED  BY <1>2, <1>3, <1>4

\* A failure is counted in closed state and reopens a half-open circuit.
LEMMA FailureGood ==
    ASSUME NEW cb, Good(cb)
    PROVE  /\ Good(AfterFailure(cb))
           /\ AfterFailure(cb).state # "halfOpen"
           /\ AfterFailure(cb).state = "closed" =>
                cb.state = "closed" /\ AfterFailure(cb).failureCount = cb.failureCount + 1
           /\ (AfterFailure(cb).state = "open" /\ cb.state = "closed")
                => cb.failureCount + 1 >= FailureThreshold
<1>1. cb \in Breaker /\ PeriodCounts(cb)
  BY DEF Good
<1>2. CASE cb.state = "halfOpen"
  <2>1. AfterFailure(cb) = Entered("open") /\ AfterFailure(cb).state = "open"
    BY <1>2 DEF AfterFailure, Entered
  <2> QED  BY <2>1, <1>2, EnteredGood
<1>3. CASE cb.state = "open"
  BY <1>1, <1>3, ConfigAssumption DEF Good, AfterFailure, Breaker, PeriodCounts
<1>4. CASE cb.state = "closed" /\ cb.failureCount + 1 >= FailureThreshold
  <2>1. AfterFailure(cb) = Entered("open") /\ AfterFailure(cb).state = "open"
    BY <1>4 DEF AfterFailure, Entered
  <2> QED  BY <2>1, <1>4, EnteredGood
<1>5. CASE cb.state = "closed" /\ ~(cb.failureCount + 1 >= FailureThreshold)
  <2> DEFINE n == cb.failureCount + 1
  <2>1. AfterFailure(cb) = [cb EXCEPT !.failureCount = n, !.successCount = 0]
    BY <1>5 DEF AfterFailure
  <2>2. n \in 0..FailureThreshold
    BY <1>1, <1>5, ConfigAssumption DEF Breaker
  <2> HIDE DEF n
  <2>3. /\ AfterFailure(cb) \in Breaker
        /\ PeriodCounts(AfterFailure(cb))
        /\ AfterFailure(cb).state = "closed"
        /\ AfterFailure(cb).failureCount = n
    BY <2>1, <2>2, <1>1, <1>5, ConfigAssumption DEF Breaker, PeriodCounts
  <2> QED  BY <2>3, <1>5 DEF Good, n
<1> QED  BY <1>1, <1>2, <1>3, <1>4, <1>5 DEF Breaker

\* TimeoutPasses only marks an open breaker.
LEMMA TimeoutGood ==
    ASSUME NEW cb, Good(cb), cb.state = "open"
    PROVE  Good([cb EXCEPT !.timedOut = TRUE]) /\ [cb EXCEPT !.timedOut = TRUE].state = "open"
  BY DEF Good, Breaker, PeriodCounts

-----------------------------------------------------------------------------
(* The map of breakers. *)

\* What IInv says of one breaker, given what was seen of its endpoint.
Fits(a, cb) == Good(cb) /\ Counted(cb, streak[a])

\* Histories are counted up to Cap, which is no less than either threshold.
LEMMA CapBounds ==
    /\ Cap \in Nat /\ FailureThreshold <= Cap /\ SuccessThreshold <= Cap
    /\ \A n \in 0..Cap : /\ Longer(n) \in 0..Cap
                         /\ n < Cap => Longer(n) = n + 1
                         /\ n = Cap => Longer(n) = Cap
  BY ConfigAssumption DEF Cap, Longer

\* Every breaker of the map fits, and the map is a function on addresses.
LEMMA MapFits ==
    ASSUME IInv
    PROVE  /\ DOMAIN breakers \subseteq Addr
           /\ breakers = [a \in DOMAIN breakers |-> breakers[a]]
           /\ \A a \in DOMAIN breakers : Fits(a, breakers[a])
           /\ \A a \in Addr : /\ streak[a].failures \in 0..Cap
                              /\ streak[a].successes \in 0..Cap
  BY DEF IInv, TypeOK, NoCarryOver, CountsSeen, Fits, Good

\* The breaker Get returns fits, new or not.
LEMMA GetFits ==
    ASSUME IInv, NEW a \in Addr
    PROVE  Fits(a, Get(a))
<1>1. CASE a \in DOMAIN breakers
  BY <1>1, MapFits DEF Get
<1>2. CASE a \notin DOMAIN breakers
  <2>1. Get(a) = Entered("closed")
    BY <1>2 DEF Get, New
  <2>2. Counted(Entered("closed"), streak[a])
    BY MapFits, CapBounds DEF Counted, Entered
  <2> QED  BY <2>1, <2>2, EnteredGood DEF Fits
<1> QED  BY <1>1, <1>2

\* Any map of fitting breakers on addresses satisfies the parts of IInv about it.
LEMMA FitsIsEnough ==
    ASSUME NEW B, DOMAIN B \subseteq Addr, B = [a \in DOMAIN B |-> B[a]],
           \A a \in DOMAIN B : Fits(a, B[a])
    PROVE  /\ B \in [DOMAIN B -> Breaker]
           /\ \A a \in DOMAIN B : PeriodCounts(B[a]) /\ Counted(B[a], streak[a])
  BY DEF Fits, Good

\* Allow leaves a fitting breaker fitting.
LEMMA AllowFits ==
    ASSUME IInv, NEW a \in Addr
    PROVE  Fits(a, AfterAllow(Get(a)))
<1>1. Good(Get(a)) /\ Counted(Get(a), streak[a])
  BY GetFits DEF Fits
<1>2. 0 <= streak[a].successes
  BY MapFits, CapBounds
<1>3. Counted(AfterAllow(Get(a)), streak[a])
  BY <1>1, <1>2, AllowGood DEF Counted
<1> QED  BY <1>1, <1>3, AllowGood DEF Fits

\* The map with one fitting breaker put in, and what it holds.
LEMMA HoldingFits ==
    ASSUME IInv, NEW a \in Addr, NEW cb, Fits(a, cb)
    PROVE  /\ DOMAIN Holding(a, cb) = DOMAIN breakers \cup {a}
           /\ Holding(a, cb) \in [DOMAIN Holding(a, cb) -> Breaker]
           /\ \A b \in DOMAIN Holding(a, cb) :
                PeriodCounts(Holding(a, cb)[b]) /\ Counted(Holding(a, cb)[b], streak[b])
           /\ \A b \in DOMAIN breakers :
                Holding(a, cb)[b] = IF b = a THEN cb ELSE breakers[b]
<1>1. /\ DOMAIN Holding(a, cb) = DOMAIN breakers \cup {a}
      /\ Holding(a, cb) = [b \in DOMAIN Holding(a, cb) |-> Holding(a, cb)[b]]
      /\ \A b \in DOMAIN Holding(a, cb) :
            Holding(a, cb)[b] = IF b = a THEN cb ELSE breakers[b]
  BY DEF Holding
<1>2. \A b \in DOMAIN Holding(a, cb) : Fits(b, Holding(a, cb)[b])
  BY <1>1, MapFits
<1>3. DOMAIN Holding(a, cb) \subseteq Addr
  BY <1>1, MapFits
<1> QED  BY <1>1, <1>2, <1>3, FitsIsEnough

-----------------------------------------------------------------------------
(* The inductive invariant. *)

\* The program starts in IInv: no breaker, no Build, no picker.
LEMMA InvInit == Init => IInv
  BY CapBounds
     DEF Init, IInv, TypeOK, NoCarryOver, NoOutage, BuildWithin, CountsSeen, NoBuild,
         NoRequest, NoStreak, NoAddr, PickerAssumption

\* The parts of IInv that concern the breakers, and the others.
BreakerPart ==
    /\ DOMAIN breakers \subseteq Addr
    /\ breakers \in [DOMAIN breakers -> Breaker]
    /\ streak \in [Addr -> [failures : 0..Cap, successes : 0..Cap]]
    /\ NoCarryOver /\ CountsSeen
BuildPart ==
    /\ build \in [active : BOOLEAN, todo : SUBSET Addr, ready : SUBSET Addr,
                  healthy : SUBSET Addr, admitted : SUBSET Addr]
    /\ usable \in SUBSET Addr
    /\ ready \in SUBSET Addr
    /\ NoOutage /\ BuildWithin
RequestPart == request \in [Request -> [addr : Addr \cup {NoAddr}, orphan : BOOLEAN]]

\* IInv is made of those three parts.
LEMMA Parts == IInv <=> BreakerPart /\ BuildPart /\ RequestPart
  BY DEF IInv, TypeOK, BreakerPart, BuildPart, RequestPart

\* Putting a fitting breaker into the map keeps the breakers' part.
LEMMA HoldingStep ==
    ASSUME IInv, NEW a \in Addr, NEW cb, Fits(a, cb),
           breakers' = Holding(a, cb), streak' = streak
    PROVE  BreakerPart'
<1>1. DOMAIN breakers' \subseteq Addr /\ breakers' \in [DOMAIN breakers' -> Breaker]
  <2>1. /\ DOMAIN Holding(a, cb) = DOMAIN breakers \cup {a}
        /\ Holding(a, cb) \in [DOMAIN Holding(a, cb) -> Breaker]
    BY HoldingFits
  <2>2. DOMAIN Holding(a, cb) \subseteq Addr
    BY ONLY <2>1, IInv, MapFits, a \in Addr
  <2> QED  BY ONLY <2>1, <2>2, breakers' = Holding(a, cb), Zenon
<1>2. \A b \in DOMAIN breakers' : PeriodCounts(breakers'[b]) /\ Counted(breakers'[b], streak'[b])
  BY HoldingFits
<1>3. streak' \in [Addr -> [failures : 0..Cap, successes : 0..Cap]]
  BY DEF IInv, TypeOK
<1>4. NoCarryOver' /\ CountsSeen'
  BY <1>2 DEF NoCarryOver, CountsSeen
<1> QED  BY ONLY <1>1, <1>3, <1>4 DEF BreakerPart

\* What a result does to the breaker of its endpoint fits what was seen.
LEMMA ResultFits ==
    ASSUME NEW cb, NEW seen \in [failures : 0..Cap, successes : 0..Cap],
           Good(cb), Counted(cb, seen)
    PROVE  /\ Counted(AfterFailure(cb), [failures |-> Longer(seen.failures), successes |-> 0])
           /\ Counted(AfterSuccess(cb), [failures |-> 0, successes |-> Longer(seen.successes)])
           /\ (cb.state = "closed" /\ AfterFailure(cb).state = "open")
                => Longer(seen.failures) >= FailureThreshold
           /\ (cb.state = "halfOpen" /\ AfterSuccess(cb).state = "closed")
                => Longer(seen.successes) >= SuccessThreshold
<1>1. cb.failureCount \in 0..FailureThreshold /\ cb.successCount \in 0..SuccessThreshold
  BY DEF Good, Breaker
<1>2. /\ seen.failures \in 0..Cap /\ seen.successes \in 0..Cap
      /\ AfterFailure(cb).failureCount \in 0..FailureThreshold
      /\ AfterSuccess(cb).successCount \in 0..SuccessThreshold
  BY FailureGood, SuccessGood DEF Good, Breaker
<1>3. Counted(AfterFailure(cb), [failures |-> Longer(seen.failures), successes |-> 0])
  <2>1. SUFFICES ASSUME AfterFailure(cb).state = "closed"
                 PROVE  AfterFailure(cb).failureCount <= Longer(seen.failures)
    BY FailureGood DEF Counted
  <2>2. /\ AfterFailure(cb).failureCount = cb.failureCount + 1
        /\ cb.failureCount <= seen.failures
    BY <2>1, FailureGood DEF Counted
  <2> QED  BY <2>2, <1>1, <1>2, CapBounds, ConfigAssumption
<1>4. Counted(AfterSuccess(cb), [failures |-> 0, successes |-> Longer(seen.successes)])
  <2>1. AfterSuccess(cb).state = "closed" => AfterSuccess(cb).failureCount <= 0
    BY SuccessGood
  <2>2. AfterSuccess(cb).state = "halfOpen" =>
          AfterSuccess(cb).successCount <= Longer(seen.successes)
    <3>1. SUFFICES ASSUME AfterSuccess(cb).state = "halfOpen"
                   PROVE  AfterSuccess(cb).successCount <= Longer(seen.successes)
      OBVIOUS
    <3>2. /\ AfterSuccess(cb).successCount = cb.successCount + 1
          /\ cb.successCount <= seen.successes
      BY <3>1, SuccessGood DEF Counted
    <3> QED  BY <3>2, <1>1, <1>2, CapBounds, ConfigAssumption
  <2> QED  BY <2>1, <2>2 DEF Counted
<1>5. (cb.state = "closed" /\ AfterFailure(cb).state = "open")
        => Longer(seen.failures) >= FailureThreshold
  BY <1>1, <1>2, CapBounds, ConfigAssumption, FailureGood DEF Counted
<1>6. (cb.state = "halfOpen" /\ AfterSuccess(cb).state = "closed")
        => Longer(seen.successes) >= SuccessThreshold
  BY <1>1, <1>2, CapBounds, ConfigAssumption, SuccessGood DEF Counted
<1> QED  BY <1>3, <1>4, <1>5, <1>6

\* Done: the result reaches the breaker it belongs to and what was seen with it.
LEMMA DoneStep ==
    ASSUME IInv, NEW r \in Request, NEW failed \in BOOLEAN, Done(r, failed),
           ~request[r].orphan
    PROVE  LET a == request[r].addr IN
           /\ a \in Addr
           /\ DOMAIN breakers' = DOMAIN breakers
           /\ breakers' = [b \in DOMAIN breakers' |-> breakers'[b]]
           /\ \A b \in DOMAIN breakers : b # a => breakers'[b] = breakers[b]
           /\ a \in DOMAIN breakers =>
                breakers'[a] = IF failed THEN AfterFailure(breakers[a])
                                         ELSE AfterSuccess(breakers[a])
           /\ streak' \in [Addr -> [failures : 0..Cap, successes : 0..Cap]]
           /\ \A b \in Addr : b # a => streak'[b] = streak[b]
           /\ streak'[a] = IF failed
                THEN [failures |-> Longer(streak[a].failures), successes |-> 0]
                ELSE [failures |-> 0, successes |-> Longer(streak[a].successes)]
<1> DEFINE a == request[r].addr
<1>1. a \in Addr
  BY DEF Done, IInv, TypeOK
<1>2. breakers = [b \in DOMAIN breakers |-> breakers[b]]
  BY MapFits
<1>3. streak \in [Addr -> [failures : 0..Cap, successes : 0..Cap]]
  BY DEF IInv, TypeOK
<1>4. Longer(streak[a].failures) \in 0..Cap /\ Longer(streak[a].successes) \in 0..Cap
  BY <1>1, MapFits, CapBounds
<1>5. 0 \in 0..Cap
  BY CapBounds
<1> HIDE DEF a
<1>6. CASE failed
  <2>1. /\ breakers' = [breakers EXCEPT ![a] = AfterFailure(@)]
        /\ streak' = [streak EXCEPT ![a] = [failures |-> Longer(@.failures), successes |-> 0]]
    BY <1>6 DEF Done, a
  <2> QED  BY <2>1, <1>1, <1>2, <1>3, <1>4, <1>5, <1>6 DEF a
<1>7. CASE ~failed
  <2>1. /\ breakers' = [breakers EXCEPT ![a] = AfterSuccess(@)]
        /\ streak' = [streak EXCEPT ![a] = [failures |-> 0, successes |-> Longer(@.successes)]]
    BY <1>7 DEF Done, a
  <2> QED  BY <2>1, <1>1, <1>2, <1>3, <1>4, <1>5, <1>7 DEF a
<1> QED  BY <1>6, <1>7

\* Done keeps the breakers' part of IInv.
LEMMA DoneBreakers ==
    ASSUME IInv, NEW r \in Request, NEW failed \in BOOLEAN, Done(r, failed)
    PROVE  BreakerPart'
<1>1. CASE request[r].orphan
  BY <1>1, Parts DEF Done, BreakerPart, NoCarryOver, CountsSeen
<1>2. CASE ~request[r].orphan
  <2> DEFINE a == request[r].addr
  <2> HIDE DEF a
  <2>1. /\ a \in Addr
        /\ DOMAIN breakers' = DOMAIN breakers
        /\ breakers' = [b \in DOMAIN breakers' |-> breakers'[b]]
        /\ \A b \in DOMAIN breakers : b # a => breakers'[b] = breakers[b]
        /\ a \in DOMAIN breakers =>
             breakers'[a] = IF failed THEN AfterFailure(breakers[a])
                                      ELSE AfterSuccess(breakers[a])
        /\ streak' \in [Addr -> [failures : 0..Cap, successes : 0..Cap]]
        /\ \A b \in Addr : b # a => streak'[b] = streak[b]
        /\ streak'[a] = IF failed
             THEN [failures |-> Longer(streak[a].failures), successes |-> 0]
             ELSE [failures |-> 0, successes |-> Longer(streak[a].successes)]
    BY <1>2, DoneStep DEF a
  <2>2. DOMAIN breakers \subseteq Addr /\ \A b \in DOMAIN breakers : Fits(b, breakers[b])
    BY MapFits
  <2>3. streak[a] \in [failures : 0..Cap, successes : 0..Cap]
    BY <2>1 DEF IInv, TypeOK
  <2>4. a \in DOMAIN breakers => Good(breakers'[a]) /\ Counted(breakers'[a], streak'[a])
    <3>1. SUFFICES ASSUME a \in DOMAIN breakers
                   PROVE  Good(breakers'[a]) /\ Counted(breakers'[a], streak'[a])
      OBVIOUS
    <3>2. Good(breakers[a]) /\ Counted(breakers[a], streak[a])
      BY <2>2, <3>1 DEF Fits
    <3>3. CASE failed
      <4>1. /\ breakers'[a] = AfterFailure(breakers[a])
            /\ streak'[a] = [failures |-> Longer(streak[a].failures), successes |-> 0]
        BY ONLY <2>1, <3>1, <3>3
      <4>2. Counted(AfterFailure(breakers[a]), [failures |-> Longer(streak[a].failures), successes |-> 0])
        BY ONLY <2>3, <3>2, ResultFits
      <4>3. Good(AfterFailure(breakers[a]))
        BY ONLY <3>2, FailureGood
      <4> QED  BY ONLY <4>1, <4>2, <4>3, Zenon
    <3>4. CASE ~failed
      <4>1. /\ breakers'[a] = AfterSuccess(breakers[a])
            /\ streak'[a] = [failures |-> 0, successes |-> Longer(streak[a].successes)]
        BY ONLY <2>1, <3>1, <3>4
      <4>2. Counted(AfterSuccess(breakers[a]), [failures |-> 0, successes |-> Longer(streak[a].successes)])
        BY ONLY <2>3, <3>2, ResultFits
      <4>3. Good(AfterSuccess(breakers[a]))
        BY ONLY <3>2, SuccessGood
      <4> QED  BY ONLY <4>1, <4>2, <4>3, Zenon
    <3> QED  BY <3>3, <3>4
  <2>5. \A b \in DOMAIN breakers : Good(breakers'[b]) /\ Counted(breakers'[b], streak'[b])
    BY <2>1, <2>2, <2>4 DEF Fits
  <2>6. breakers' \in [DOMAIN breakers' -> Breaker]
    BY <2>1, <2>5 DEF Good
  <2>7. NoCarryOver' /\ CountsSeen'
    BY <2>1, <2>5 DEF NoCarryOver, CountsSeen, Good
  <2>8. DOMAIN breakers' \subseteq Addr
    BY <2>1, <2>2
  <2> QED  BY ONLY <2>1, <2>6, <2>7, <2>8 DEF BreakerPart
<1> QED  BY <1>1, <1>2

\* Every step preserves IInv, one case per action.
LEMMA InvStep == IInv /\ [Next]_vars => IInv'
<1> SUFFICES ASSUME IInv, [Next]_vars PROVE IInv'
  OBVIOUS
<1>0. BreakerPart /\ BuildPart /\ RequestPart
  BY Parts
<1>p. (BreakerPart /\ BuildPart /\ RequestPart)' => IInv'
  BY DEF IInv, TypeOK, BreakerPart, BuildPart, RequestPart
<1>1. CASE BuildStart
  <2>1. BuildPart'
    <3>1. PICK r \in SUBSET Addr, h \in (IF UsesHealth THEN SUBSET Addr ELSE {{}}) :
            build' = [active |-> TRUE, todo |-> r, ready |-> r, healthy |-> h, admitted |-> {}]
      BY <1>1 DEF BuildStart
    <3>2. h \in SUBSET Addr
      OBVIOUS
    <3> QED  BY <3>1, <3>2, <1>0, <1>1 DEF BuildStart, BuildPart, NoOutage, BuildWithin
  <2>2. BreakerPart' /\ RequestPart'
    BY <1>0, <1>1 DEF BuildStart, BreakerPart, RequestPart, NoCarryOver, CountsSeen
  <2> QED  BY <2>1, <2>2, <1>p
<1>2. CASE BuildFinish
  <2>1. BuildPart'
    BY <1>0, <1>2 DEF BuildFinish, BuildPart, NoOutage, BuildWithin, NoBuild, Filtered
  <2>2. BreakerPart' /\ RequestPart'
    BY <1>0, <1>2 DEF BuildFinish, BreakerPart, RequestPart, NoCarryOver, CountsSeen
  <2> QED  BY <2>1, <2>2, <1>p
<1>3. CASE Reset
  <2>1. BuildPart' /\ RequestPart'
    BY <1>0, <1>3 DEF Reset, BuildPart, RequestPart, NoOutage, BuildWithin
  <2>2. breakers' = [a \in DOMAIN breakers |-> Entered("closed")] /\ streak' = streak
    BY <1>3 DEF Reset, New
  <2>3. \A a \in Addr : Counted(Entered("closed"), streak[a])
    BY MapFits, CapBounds DEF Counted, Entered
  <2>4. /\ DOMAIN breakers' = DOMAIN breakers /\ DOMAIN breakers \subseteq Addr
        /\ \A a \in DOMAIN breakers : breakers'[a] = Entered("closed")
    BY <2>2, MapFits
  <2>5. Entered("closed") \in Breaker /\ PeriodCounts(Entered("closed"))
    BY EnteredGood DEF Good
  <2>6. BreakerPart'
    BY <1>0, <2>2, <2>3, <2>4, <2>5 DEF BreakerPart, NoCarryOver, CountsSeen
  <2> QED  BY <2>1, <2>6, <1>p
<1>4. ASSUME NEW a \in Addr, BuildAllow(a) PROVE IInv'
  <2>1. BuildPart'
    BY <1>0, <1>4 DEF BuildAllow, BuildPart, NoOutage, BuildWithin
  <2>2. BreakerPart'
    BY <1>4, AllowFits, HoldingStep DEF BuildAllow
  <2>3. RequestPart'
    BY <1>0, <1>4 DEF BuildAllow, RequestPart
  <2> QED  BY <2>1, <2>2, <2>3, <1>p
<1>5. ASSUME NEW a \in Addr, Remove(a) PROVE IInv'
  <2>1. BuildPart'
    BY <1>0, <1>5 DEF Remove, BuildPart, NoOutage, BuildWithin
  <2>2. RequestPart'
    BY <1>0, <1>5 DEF Remove, RequestPart
  <2>3. NoStreak \in [failures : 0..Cap, successes : 0..Cap]
    BY CapBounds DEF NoStreak
  <2>4. /\ DOMAIN breakers' \subseteq DOMAIN breakers /\ a \notin DOMAIN breakers'
        /\ breakers' = [b \in DOMAIN breakers' |-> breakers'[b]]
        /\ \A b \in DOMAIN breakers' : breakers'[b] = breakers[b]
    BY <1>5 DEF Remove
  <2>5. /\ streak' \in [Addr -> [failures : 0..Cap, successes : 0..Cap]]
        /\ \A b \in Addr : b # a => streak'[b] = streak[b]
    BY <1>0, <1>5, <2>3 DEF Remove, BreakerPart
  <2>6. \A b \in DOMAIN breakers' : Good(breakers'[b]) /\ Counted(breakers'[b], streak'[b])
    BY <2>4, <2>5, MapFits DEF Fits
  <2>7. DOMAIN breakers' \subseteq Addr /\ breakers' \in [DOMAIN breakers' -> Breaker]
    BY <2>4, <2>6, MapFits DEF Good
  <2>8. NoCarryOver' /\ CountsSeen'
    BY <2>6 DEF NoCarryOver, CountsSeen, Good
  <2>9. BreakerPart'
    BY ONLY <2>5, <2>7, <2>8 DEF BreakerPart
  <2> QED  BY <2>1, <2>2, <2>9, <1>p
<1>6. ASSUME NEW a \in Addr, TimeoutPasses(a) PROVE IInv'
  <2>1. BuildPart' /\ RequestPart'
    BY <1>0, <1>6 DEF TimeoutPasses, BuildPart, RequestPart, NoOutage, BuildWithin
  <2> DEFINE cb == [breakers[a] EXCEPT !.timedOut = TRUE]
  <2>2. Good(cb) /\ cb.state = "open"
    BY <1>6, MapFits, TimeoutGood DEF TimeoutPasses, Fits
  <2>3. Fits(a, cb)
    BY <2>2 DEF Fits, Counted
  <2>4. breakers' = Holding(a, cb)
    BY <1>6, MapFits DEF TimeoutPasses, Holding
  <2>5. streak' = streak
    BY <1>6 DEF TimeoutPasses
  <2> HIDE DEF cb
  <2>6. BreakerPart'
    BY <2>3, <2>4, <2>5, HoldingStep
  <2> QED  BY <2>1, <2>6, <1>p
<1>7. ASSUME NEW a \in Addr, NEW r \in Request, Pick(r, a) PROVE IInv'
  <2>1. BuildPart'
    BY <1>0, <1>7 DEF Pick, BuildPart, NoOutage, BuildWithin
  <2>2. BreakerPart'
    BY <1>7, GetFits, HoldingStep DEF Pick
  <2>3. RequestPart'
    BY <1>0, <1>7 DEF Pick, RequestPart
  <2> QED  BY <2>1, <2>2, <2>3, <1>p
<1>8. ASSUME NEW r \in Request, NEW failed \in BOOLEAN, Done(r, failed) PROVE IInv'
  <2>1. BuildPart'
    BY <1>0, <1>8 DEF Done, BuildPart, NoOutage, BuildWithin
  <2>2. RequestPart'
    BY <1>0, <1>8 DEF Done, RequestPart, NoRequest
  <2> QED  BY <2>1, <2>2, <1>8, DoneBreakers, <1>p
<1>9. CASE UNCHANGED vars
  BY <1>0, <1>9, <1>p
     DEF vars, BreakerPart, BuildPart, RequestPart, NoCarryOver, CountsSeen, NoOutage, BuildWithin
<1> QED  BY <1>1, <1>2, <1>3, <1>4, <1>5, <1>6, <1>7, <1>8, <1>9 DEF Next

-----------------------------------------------------------------------------
(* The theorems. *)

\* IInv holds in every reachable state.
THEOREM InductiveInvariant == Spec => []IInv
  BY InvInit, InvStep, PTL DEF Spec

\* Breakers, Builds and requests keep their types: no count passes its threshold,
\* no half-open circuit hands out more slots than HalfOpenMaxRequests.
THEOREM TypeCorrect == Spec => []TypeOK
<1>1. IInv => TypeOK
  BY DEF IInv
<1> QED  BY <1>1, InductiveInvariant, PTL

\* Late results never smuggle a count from one period into the next.
THEOREM PeriodsSeparate == Spec => []NoCarryOver
<1>1. IInv => NoCarryOver
  BY DEF IInv
<1> QED  BY <1>1, InductiveInvariant, PTL

\* No count or slot ever passes its limit.
THEOREM LimitsKept == Spec => []Limits
BY TypeCorrect, PeriodsSeparate, PTL DEF Limits

\* Filtering never leaves a picker built from READY SubConns with none.
THEOREM NeverAnOutage == Spec => []NoOutage
<1>1. IInv => NoOutage
  BY DEF IInv
<1> QED  BY <1>1, InductiveInvariant, PTL

\* No step but a result, Reset or Remove ends a closed or half-open period.
LEMMA PeriodsEndByResults ==
    ASSUME IInv, [Next]_vars, NEW a \in DOMAIN breakers \cap DOMAIN breakers',
           ~Reset, \A r \in Request, failed \in BOOLEAN : ~Done(r, failed)
    PROVE  /\ breakers'[a].state = "closed" => breakers[a].state = "closed"
           /\ breakers'[a].state = "open" => breakers[a].state = "open"
<1>0. a \in Addr /\ Fits(a, breakers[a])
  BY MapFits
<1>1. CASE BuildStart \/ BuildFinish \/ UNCHANGED vars
  BY <1>1 DEF BuildStart, BuildFinish, vars
<1>2. ASSUME NEW b \in Addr, BuildAllow(b)
      PROVE  /\ breakers'[a].state = "closed" => breakers[a].state = "closed"
             /\ breakers'[a].state = "open" => breakers[a].state = "open"
  <2>1. breakers'[a] = IF a = b THEN AfterAllow(breakers[a]) ELSE breakers[a]
    BY <1>2, <1>0 DEF BuildAllow, Holding, Get
  <2> QED  BY <2>1, <1>0, AllowGood DEF Fits
<1>3. ASSUME NEW b \in Addr, Remove(b)
      PROVE  breakers'[a] = breakers[a]
  BY <1>3 DEF Remove
<1>4. ASSUME NEW b \in Addr, TimeoutPasses(b)
      PROVE  breakers'[a].state = breakers[a].state
  <2>1. breakers' = [breakers EXCEPT ![b] = [breakers[b] EXCEPT !.timedOut = TRUE]]
    BY <1>4 DEF TimeoutPasses
  <2>2. a = b => breakers[a] \in Breaker
    BY <1>0 DEF Fits, Good
  <2> QED  BY <2>1, <2>2 DEF Breaker
<1>5. ASSUME NEW b \in Addr, NEW r \in Request, Pick(r, b)
      PROVE  breakers'[a] = breakers[a]
  BY <1>5 DEF Pick, Holding, Get
<1> QED  BY <1>1, <1>2, <1>3, <1>4, <1>5 DEF Next

\* A result reaches the breaker of its own endpoint only, and opens or closes it
\* only at the end of a run that reached the threshold.
LEMMA ResultsAtThreshold ==
    ASSUME IInv, NEW a \in DOMAIN breakers \cap DOMAIN breakers',
           NEW r \in Request, NEW failed \in BOOLEAN, Done(r, failed)
    PROVE  /\ (breakers[a].state = "closed" /\ breakers'[a].state = "open")
                => streak'[a].failures >= FailureThreshold
           /\ (breakers[a].state = "halfOpen" /\ breakers'[a].state = "closed")
                => streak'[a].successes >= SuccessThreshold
<1>0. a \in Addr /\ Good(breakers[a]) /\ Counted(breakers[a], streak[a])
  BY MapFits DEF Fits
<1>1. streak[a] \in [failures : 0..Cap, successes : 0..Cap]
  BY <1>0 DEF IInv, TypeOK
<1>2. CASE request[r].orphan \/ request[r].addr # a
  <2>1. breakers'[a] = breakers[a]
    BY <1>2, DoneStep DEF Done
  <2> QED  BY <2>1
<1>3. CASE ~request[r].orphan /\ request[r].addr = a /\ failed
  <2>1. /\ breakers'[a] = AfterFailure(breakers[a])
        /\ streak'[a] = [failures |-> Longer(streak[a].failures), successes |-> 0]
    BY <1>3, DoneStep
  <2>2. (breakers[a].state = "closed" /\ AfterFailure(breakers[a]).state = "open")
          => Longer(streak[a].failures) >= FailureThreshold
    BY ONLY <1>0, <1>1, ResultFits
  <2>3. breakers[a].state = "halfOpen" => AfterFailure(breakers[a]).state # "closed"
    BY <1>0, FailureGood
  <2> QED  BY <2>1, <2>2, <2>3
<1>4. CASE ~request[r].orphan /\ request[r].addr = a /\ ~failed
  <2>1. /\ breakers'[a] = AfterSuccess(breakers[a])
        /\ streak'[a] = [failures |-> 0, successes |-> Longer(streak[a].successes)]
    BY <1>4, DoneStep
  <2>2. (breakers[a].state = "halfOpen" /\ AfterSuccess(breakers[a]).state = "closed")
          => Longer(streak[a].successes) >= SuccessThreshold
    BY ONLY <1>0, <1>1, ResultFits
  <2>3. breakers[a].state = "closed" => AfterSuccess(breakers[a]).state # "open"
    BY <1>0, SuccessGood
  <2> QED  BY <2>1, <2>2, <2>3
<1> QED  BY <1>2, <1>3, <1>4

\* A circuit opens from closed only after FailureThreshold failures in a row.
THEOREM OpensOnlyAfterFailures == Spec => OpensAfterFailures
<1>1. ASSUME IInv, [Next]_vars, NEW a \in DOMAIN breakers \cap DOMAIN breakers',
             breakers[a].state = "closed" /\ breakers'[a].state = "open"
      PROVE  streak'[a].failures >= FailureThreshold
  <2>1. CASE \E r \in Request, failed \in BOOLEAN : Done(r, failed)
    BY <1>1, <2>1, ResultsAtThreshold
  <2>2. CASE Reset
    BY <1>1, <2>2 DEF Reset, New, Entered
  <2> QED  BY <1>1, <2>1, <2>2, PeriodsEndByResults
<1>2. IInv /\ [Next]_vars =>
        [\A a \in DOMAIN breakers \cap DOMAIN breakers' :
            (breakers[a].state = "closed" /\ breakers'[a].state = "open")
            => streak'[a].failures >= FailureThreshold]_vars
  BY <1>1
<1> QED  BY <1>2, InductiveInvariant, PTL DEF Spec, OpensAfterFailures

\* A half-open circuit closes only after SuccessThreshold successes in a row, or
\* by Reset.
THEOREM ClosesOnlyAfterSuccesses == Spec => ClosesAfterSuccesses
<1>1. ASSUME IInv, [Next]_vars, NEW a \in DOMAIN breakers \cap DOMAIN breakers',
             breakers[a].state = "halfOpen" /\ breakers'[a].state = "closed"
      PROVE  streak'[a].successes >= SuccessThreshold \/ Reset
  <2>1. CASE \E r \in Request, failed \in BOOLEAN : Done(r, failed)
    BY <1>1, <2>1, ResultsAtThreshold
  <2> QED  BY <1>1, <2>1, PeriodsEndByResults
<1>2. IInv /\ [Next]_vars =>
        [\A a \in DOMAIN breakers \cap DOMAIN breakers' :
            (breakers[a].state = "halfOpen" /\ breakers'[a].state = "closed")
            => streak'[a].successes >= SuccessThreshold \/ Reset]_vars
  BY <1>1
<1> QED  BY <1>2, InductiveInvariant, PTL DEF Spec, ClosesAfterSuccesses

\* Every move of a circuit is earned by a run of results.
THEOREM MovesAlwaysEarned == Spec => MovesAreEarned
BY OpensOnlyAfterFailures, ClosesOnlyAfterSuccesses DEF MovesAreEarned
=============================================================================
