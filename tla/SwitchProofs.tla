---------------------------- MODULE SwitchProofs ----------------------------
(* How a client gets a balancer, and how its picker is replaced. OwnBalancer *)
(* for any number of clients and policies: a dialled client that nobody      *)
(* overtook got the builder it registered itself. GracefulSwitch for any     *)
(* number of pickers, requests and goroutines: its types, its in-flight      *)
(* count, that no pending picker is forgotten, and that every step is one    *)
(* Handover allows. Names that begin with R are those of Registration.       *)
EXTENDS Registration, GracefulSwitch, FiniteSetTheorems, TLAPS

-----------------------------------------------------------------------------
(* Registration: while a client has only registered, its name still leads to *)
(* its own builder unless somebody overtook it.                              *)

\* Every variable is a function over what it should be one of.
Shape ==
    /\ config \in [Client -> Config]
    /\ step \in [Client -> {"new", "registered", "dialled", "failed"}]
    /\ registry \in [Policy -> Builder \cup {NoBuilder}]
    /\ builder \in [Client -> Builder \cup {NoBuilder}]
    /\ raced \subseteq Client

\* A name leads to the builder of a client that registered under it.
NamesRight ==
    \A p \in Policy : registry[p] # NoBuilder =>
        \E c \in Client : BalanceName(config[c]) = p /\ registry[p] = BuilderOf(c)

\* Between its two steps a client finds a builder, its own if nobody overtook it.
Waiting ==
    \A c \in Client : step[c] = "registered" =>
        /\ registry[BalanceName(config[c])] # NoBuilder
        /\ c \notin raced => registry[BalanceName(config[c])] = BuilderOf(c)

\* A client has a builder from the time it has dialled, of its policy, and its own
\* if nobody overtook it.
Served ==
    \A c \in Client :
        /\ step[c] = "dialled" <=> builder[c] # NoBuilder
        /\ step[c] = "dialled" =>
            /\ \E d \in Client : /\ builder[c] = BuilderOf(d)
                                 /\ BalanceName(config[d]) = BalanceName(config[c])
            /\ c \notin raced => builder[c] = BuilderOf(c)

RInv == Shape /\ NamesRight /\ Waiting /\ Served

-----------------------------------------------------------------------------
(* What a Config asks for. *)

\* A client is registered under the name of a policy.
LEMMA NameIsPolicy ==
    ASSUME NEW cfg \in Config
    PROVE BalanceName(cfg) \in Policy
BY PolicyAssumption DEF BalanceName

\* What is in the concatenation of two sequences is in one of them.
LEMMA InConcatenation ==
    ASSUME NEW S, NEW s \in Seq(S), NEW t \in Seq(S), NEW x
    PROVE x \in {(s \o t)[i] : i \in DOMAIN (s \o t)}
            <=> x \in {s[i] : i \in DOMAIN s} \/ x \in {t[i] : i \in DOMAIN t}
<1>1. /\ s \o t \in Seq(S)
      /\ Len(s \o t) = Len(s) + Len(t)
      /\ \A i \in 1 .. Len(s) : (s \o t)[i] = s[i]
      /\ \A i \in 1 .. Len(t) : (s \o t)[Len(s) + i] = t[i]
  OBVIOUS
<1>2. /\ DOMAIN s = 1 .. Len(s) /\ DOMAIN t = 1 .. Len(t) /\ DOMAIN (s \o t) = 1 .. Len(s \o t)
      /\ Len(s) \in Nat /\ Len(t) \in Nat
  BY <1>1
<1>3. ASSUME NEW i \in 1 .. Len(s)
      PROVE i \in DOMAIN (s \o t) /\ (s \o t)[i] = s[i]
  BY <1>1, <1>2
<1>4. ASSUME NEW i \in 1 .. Len(t)
      PROVE Len(s) + i \in DOMAIN (s \o t) /\ (s \o t)[Len(s) + i] = t[i]
  BY <1>1, <1>2
<1>5. ASSUME NEW i \in DOMAIN (s \o t)
      PROVE \/ i \in DOMAIN s /\ (s \o t)[i] = s[i]
            \/ \E j \in DOMAIN t : (s \o t)[i] = t[j]
  <2>1. CASE i <= Len(s)
    BY <1>1, <1>2, <2>1
  <2>2. CASE i > Len(s)
    <3>1. i - Len(s) \in 1 .. Len(t) /\ Len(s) + (i - Len(s)) = i
      BY <1>1, <1>2, <2>2
    <3> QED
      BY <1>1, <1>2, <3>1
  <2> QED
    BY <1>1, <1>2, <2>1, <2>2
<1>6. ASSUME NEW i \in DOMAIN (s \o t), x = (s \o t)[i]
      PROVE x \in {s[j] : j \in DOMAIN s} \/ x \in {t[j] : j \in DOMAIN t}
  BY <1>5, <1>6
<1>7. ASSUME NEW i \in DOMAIN s, x = s[i]
      PROVE \E j \in DOMAIN (s \o t) : x = (s \o t)[j]
  BY <1>2, <1>3, <1>7
<1>8. ASSUME NEW i \in DOMAIN t, x = t[i]
      PROVE \E j \in DOMAIN (s \o t) : x = (s \o t)[j]
  BY <1>2, <1>4, <1>8
<1> QED
  BY <1>6, <1>7, <1>8

\* What is in a sequence of one member, or of none.
LEMMA InOneOrNone ==
    ASSUME NEW S, NEW y \in S, NEW s \in Seq(S), NEW b \in BOOLEAN, b => s = <<y>>, ~b => s = <<>>
    PROVE \A x : x \in {s[i] : i \in DOMAIN s} <=> b /\ x = y
<1>1. CASE b
  <2>1. DOMAIN s = {1} /\ s[1] = y
    BY <1>1
  <2> QED
    BY <1>1, <2>1
<1>2. CASE ~b
  <2>1. DOMAIN s = {}
    BY <1>2
  <2> QED
    BY <1>2, <2>1
<1> QED
  BY <1>1, <1>2

\* The layers around the policy are those the Config asks for.
LEMMA LayersAsAsked ==
    ASSUME NEW cfg \in Config
    PROVE /\ Layers(cfg) \in Seq({"filter", "breaker"})
          /\ "filter" \in {Layers(cfg)[i] : i \in DOMAIN Layers(cfg)} <=> cfg.filter
          /\ "breaker" \in {Layers(cfg)[i] : i \in DOMAIN Layers(cfg)} <=> cfg.breaker
<1> DEFINE first == IF cfg.filter THEN <<"filter">> ELSE <<>>
           second == IF cfg.breaker THEN <<"breaker">> ELSE <<>>
<1>1. cfg.filter \in BOOLEAN /\ cfg.breaker \in BOOLEAN
  BY DEF Config
<1>2. /\ first \in Seq({"filter", "breaker"})
      /\ \A x : x \in {first[i] : i \in DOMAIN first} <=> cfg.filter /\ x = "filter"
  <2>1. /\ cfg.filter => first = <<"filter">>
        /\ ~cfg.filter => first = <<>>
    OBVIOUS
  <2> HIDE DEF first
  <2>2. first \in Seq({"filter", "breaker"})
    <3>1. <<"filter">> \in Seq({"filter", "breaker"})
      OBVIOUS
    <3>2. <<>> \in Seq({"filter", "breaker"})
      OBVIOUS
    <3>3. first = <<"filter">> \/ first = <<>>
      BY <1>1, <2>1, Zenon
    <3> QED
      BY <3>1, <3>2, <3>3, Zenon
  <2> QED
    BY <1>1, <2>1, <2>2, InOneOrNone
<1>3. /\ second \in Seq({"filter", "breaker"})
      /\ \A x : x \in {second[i] : i \in DOMAIN second} <=> cfg.breaker /\ x = "breaker"
  <2>1. /\ cfg.breaker => second = <<"breaker">>
        /\ ~cfg.breaker => second = <<>>
    OBVIOUS
  <2> HIDE DEF second
  <2>2. second \in Seq({"filter", "breaker"})
    <3>1. <<"breaker">> \in Seq({"filter", "breaker"})
      OBVIOUS
    <3>2. <<>> \in Seq({"filter", "breaker"})
      OBVIOUS
    <3>3. second = <<"breaker">> \/ second = <<>>
      BY <1>1, <2>1, Zenon
    <3> QED
      BY <3>1, <3>2, <3>3, Zenon
  <2> QED
    BY <1>1, <2>1, <2>2, InOneOrNone
<1>4. Layers(cfg) = first \o second
  BY DEF Layers
<1> HIDE DEF first, second
<1>5. Layers(cfg) \in Seq({"filter", "breaker"})
  BY <1>2, <1>3, <1>4
<1>6. \A x : x \in {Layers(cfg)[i] : i \in DOMAIN Layers(cfg)}
              <=> (cfg.filter /\ x = "filter") \/ (cfg.breaker /\ x = "breaker")
  BY <1>2, <1>3, <1>4, InConcatenation
<1> QED
  BY <1>1, <1>5, <1>6

\* The parts of a builder.
LEMMA BuilderParts ==
    ASSUME NEW c
    PROVE /\ BuilderOf(c).object = c
          /\ BuilderOf(c).policy = BalanceName(config[c])
          /\ BuilderOf(c).layers = Layers(config[c])
          /\ BuilderOf(c).health = config[c].health
BY DEF BuilderOf

\* What a client registers is a builder.
LEMMA BuilderTyped ==
    ASSUME NEW c \in Client, config \in [Client -> Config]
    PROVE BuilderOf(c) \in Builder /\ BuilderOf(c) # NoBuilder
<1>1. config[c] \in Config
  OBVIOUS
<1>2. config[c].health \in BOOLEAN
  BY <1>1 DEF Config
<1>3. Layers(config[c]) \in Seq({"filter", "breaker"})
  BY <1>1, LayersAsAsked
<1>4. BalanceName(config[c]) \in Policy
  BY <1>1, NameIsPolicy
<1>5. BuilderOf(c) \in Builder
  BY <1>2, <1>3, <1>4 DEF BuilderOf, Builder
<1> QED
  BY <1>5, NoBuilderAssumption

-----------------------------------------------------------------------------
(* The invariant. *)

LEMMA RInvInit == RInit => RInv
BY DEF RInit, RInv, Shape, NamesRight, Waiting, Served

\* Registering overtakes whoever waits under the same name.
LEMMA RegisterInv ==
    ASSUME RInv, NEW c \in Client, Register(c)
    PROVE RInv'
<1> DEFINE name == BalanceName(config[c])
<1> USE DEF RInv
<1>1. config' = config /\ builder' = builder
  BY DEF Register
<1>2. name \in Policy
  BY NameIsPolicy DEF Shape
<1>3. BuilderOf(c) \in Builder /\ BuilderOf(c) # NoBuilder
  BY BuilderTyped DEF Shape
<1>4. /\ registry' = [registry EXCEPT ![name] = BuilderOf(c)]
      /\ step' = [step EXCEPT ![c] = "registered"]
  BY DEF Register, Registered
<1>5. registry'[name] = BuilderOf(c)
      /\ \A p \in Policy \ {name} : registry'[p] = registry[p]
  BY <1>2, <1>4 DEF Shape
<1>6. \A d \in Client : BuilderOf(d)' = BuilderOf(d) /\ BalanceName(config'[d]) = BalanceName(config[d])
  BY <1>1 DEF BuilderOf
<1>7. Shape'
  BY <1>1, <1>3, <1>4, <1>2 DEF Shape, Register
<1>8. NamesRight'
  BY <1>5, <1>6 DEF NamesRight
<1>9. Waiting'
  <2> SUFFICES ASSUME NEW d \in Client, step'[d] = "registered"
               PROVE /\ registry'[BalanceName(config[d])] # NoBuilder
                     /\ d \notin raced' => registry'[BalanceName(config[d])] = BuilderOf(d)
    BY <1>1, <1>6 DEF Waiting
  <2>1. CASE d = c
    BY <1>3, <1>5, <2>1
  <2>2. CASE d # c
    <3>1. step[d] = "registered"
      BY <1>4, <2>2 DEF Shape
    <3>2. CASE BalanceName(config[d]) = name
      <4>1. d \in raced'
        BY <3>1, <3>2 DEF Register
      <4> QED
        BY <1>3, <1>5, <3>2, <4>1
    <3>3. CASE BalanceName(config[d]) # name
      <4>1. registry'[BalanceName(config[d])] = registry[BalanceName(config[d])]
        BY <1>5, <3>3, NameIsPolicy DEF Shape
      <4>2. raced \subseteq raced'
        BY DEF Register
      <4> QED
        BY <3>1, <4>1, <4>2 DEF Waiting
    <3> QED
      BY <3>2, <3>3
  <2> QED
    BY <2>1, <2>2
<1>10. Served'
  <2>1. \A d \in Client : step'[d] = "dialled" <=> step[d] = "dialled"
    BY <1>4 DEF Shape, Register
  <2>2. raced \subseteq raced'
    BY DEF Register
  <2> QED
    BY <1>1, <1>6, <2>1, <2>2 DEF Served
<1> QED
  BY <1>7, <1>8, <1>9, <1>10

\* Dialling looks the name up.
LEMMA DialInv ==
    ASSUME RInv, NEW c \in Client, Dial(c)
    PROVE RInv'
<1> DEFINE name == BalanceName(config[c])
<1> USE DEF RInv
<1>1. config' = config /\ registry' = registry /\ raced' = raced
  BY DEF Dial
<1>2. name \in Policy
  BY NameIsPolicy DEF Shape
<1>3. /\ builder' = [builder EXCEPT ![c] = registry[name]]
      /\ step' = [step EXCEPT ![c] = "dialled"]
      /\ step[c] = "registered"
  BY DEF Dial
<1>4. \A d \in Client : BuilderOf(d)' = BuilderOf(d)
  BY <1>1 DEF BuilderOf
<1>5. Shape'
  BY <1>1, <1>2, <1>3 DEF Shape
<1>6. NamesRight'
  BY <1>1, <1>4 DEF NamesRight
<1>7. Waiting'
  BY <1>1, <1>3, <1>4 DEF Waiting, Shape
<1>8. Served'
  <2>1. /\ registry[name] # NoBuilder
        /\ c \notin raced => registry[name] = BuilderOf(c)
    BY <1>3 DEF Waiting
  <2>2. \E d \in Client : BalanceName(config[d]) = name /\ registry[name] = BuilderOf(d)
    BY <1>2, <2>1 DEF NamesRight
  <2>3. builder'[c] = registry[name] /\ step'[c] = "dialled"
    BY <1>3 DEF Shape
  <2>4. \A d \in Client \ {c} : builder'[d] = builder[d] /\ step'[d] = step[d]
    BY <1>3 DEF Shape
  <2> QED
    BY <1>1, <1>4, <2>1, <2>2, <2>3, <2>4 DEF Served
<1> QED
  BY <1>5, <1>6, <1>7, <1>8

LEMMA FailInv ==
    ASSUME RInv, NEW c \in Client, Fail(c)
    PROVE RInv'
<1>1. UNCHANGED <<config, registry, builder, raced>>
      /\ step' = [step EXCEPT ![c] = "failed"] /\ step[c] = "registered"
  BY DEF Fail
<1>2. \A d \in Client : BuilderOf(d)' = BuilderOf(d)
  BY <1>1 DEF BuilderOf
<1> QED
  BY <1>1, <1>2 DEF RInv, Shape, NamesRight, Waiting, Served

\* A name leads to a builder of that policy, and dialling finds the client's own
\* unless the name was taken over in between.
THEOREM RegistrationInvariant == RSpec => []RInv
<1>1. RInv /\ [RNext]_rvars => RInv'
  <2> SUFFICES ASSUME RInv, [RNext]_rvars PROVE RInv'
    OBVIOUS
  <2>1. CASE UNCHANGED rvars
    BY <2>1 DEF RInv, Shape, NamesRight, Waiting, Served, BuilderOf, rvars
  <2>2. ASSUME NEW c \in Client, Register(c) PROVE RInv'
    BY <2>2, RegisterInv
  <2>3. ASSUME NEW c \in Client, Dial(c) PROVE RInv'
    BY <2>3, DialInv
  <2>4. ASSUME NEW c \in Client, Fail(c) PROVE RInv'
    BY <2>4, FailInv
  <2> QED
    BY <2>1, <2>2, <2>3, <2>4 DEF RNext
<1> QED
  BY RInvInit, <1>1, PTL DEF RSpec

\* OwnBalancer, for any number of clients and policies: whatever the interleaving of
\* NewClient calls, a client that nobody overtook has the policy, the filter, the
\* breakers and the health setting of its own Config, and shares its breakers
\* with nobody who was not overtaken.
THEOREM BalancerAlwaysOwn == RSpec => []OwnBalancer
<1>1. RInv => OwnBalancer
  <2> SUFFICES ASSUME RInv PROVE OwnBalancer
    OBVIOUS
  <2> USE DEF RInv
  <2>1. RTypeOK
    <3>1. ASSUME NEW p \in Policy, registry[p] # NoBuilder
          PROVE registry[p].policy = p
      BY <3>1, BuilderParts DEF NamesRight
    <3> QED
      BY <3>1 DEF RTypeOK, Shape, Served
  <2>2. BuiltAsConfigured
    <3> SUFFICES ASSUME NEW c \in Client, step[c] = "dialled"
                 PROVE /\ builder[c].policy = BalanceName(config[c])
                       /\ c \notin raced =>
                            /\ "filter" \in {builder[c].layers[i] : i \in DOMAIN builder[c].layers}
                                <=> config[c].filter
                            /\ "breaker" \in {builder[c].layers[i] : i \in DOMAIN builder[c].layers}
                                <=> config[c].breaker
                            /\ builder[c].health = config[c].health
      BY DEF BuiltAsConfigured
    <3>1. builder[c].policy = BalanceName(config[c])
      BY BuilderParts DEF Served
    <3>2. ASSUME c \notin raced
          PROVE builder[c].layers = Layers(config[c]) /\ builder[c].health = config[c].health
      BY <3>2, BuilderParts DEF Served
    <3>3. config[c] \in Config
      BY DEF Shape
    <3> QED
      BY <3>1, <3>2, <3>3, LayersAsAsked
  <2>3. BreakersNotShared
    <3> SUFFICES ASSUME NEW c \in Client, NEW d \in Client, builder[c] = builder[d],
                        builder[c] # NoBuilder, c \notin raced, d \notin raced
                 PROVE c = d
      BY DEF BreakersNotShared
    <3>1. builder[c] = BuilderOf(c) /\ builder[d] = BuilderOf(d)
      BY DEF Served
    <3>2. BuilderOf(c).object = c /\ BuilderOf(d).object = d
      BY BuilderParts
    <3> QED
      BY <3>1, <3>2
  <2> QED
    BY <2>1, <2>2, <2>3 DEF OwnBalancer
<1> QED
  BY <1>1, RegistrationInvariant, PTL

-----------------------------------------------------------------------------
(* The switch of pickers.                                                    *)

\* The newest picker is the pending one while a switch is under way, and only a
\* picker in use can be switched away from.
NewestWins ==
    /\ latest = IF pendingPicker = None THEN currentPicker ELSE pendingPicker
    /\ currentPicker = None => pendingPicker = None

IInv == TypeOK /\ InflightExact /\ PendingIsDrained /\ NewestWins

InFlight == {r \in Request : Counted(r)}

\* The requests under way are finitely many, so they have a natural count.
LEMMA InFlightFinite ==
    IsFiniteSet(InFlight) /\ IsFiniteSet(InFlight') /\ Cardinality(InFlight) \in Nat
BY SwitchAssumption, FS_Subset, FS_CardinalityType DEF InFlight

\* A switch without a picker satisfies the invariant.
LEMMA InvInit == Init => IInv
<1> SUFFICES ASSUME Init PROVE IInv
  OBVIOUS
<1>1. TypeOK
  BY DEF Init, TypeOK, NotPicking
<1>2. InflightExact
  <2>1. {r \in Request : Counted(r)} = {}
    BY DEF Init, Counted, NotPicking
  <2> QED BY <2>1, FS_EmptySet DEF Init, InflightExact
<1> QED BY <1>1, <1>2 DEF Init, IInv, PendingIsDrained, NewestWins

\* A picker handed over by the builder: no request is touched.
LEMMA InvBuild ==
    ASSUME IInv, NEW p \in Picker, NEW st \in State, Build(p, st)
    PROVE  IInv'
<1> USE DEF IInv
<1>1. request' = request /\ inflightCount' = inflightCount /\ latest' = p /\ p # None
  BY SwitchAssumption DEF Build, ReplaceAtOnce, ReplaceByReady, Defer
<1>2. InflightExact'
  BY <1>1 DEF InflightExact, Counted
<1>3. CASE ReplaceAtOnce(p, st)
  <2>1. TypeOK'
    BY <1>1, <1>3 DEF ReplaceAtOnce, TypeOK
  <2>2. pendingPicker = None
    BY <1>3, SwitchAssumption DEF ReplaceAtOnce, PendingIsDrained, NewestWins, TypeOK
  <2> QED BY <1>1, <1>2, <1>3, <2>1, <2>2 DEF ReplaceAtOnce, PendingIsDrained, NewestWins
<1>4. CASE ReplaceByReady(p, st)
  <2>1. TypeOK'
    BY <1>1, <1>4 DEF ReplaceByReady, PendingAfterReady, TypeOK
  <2> QED BY <1>1, <1>2, <1>4, <2>1
       DEF ReplaceByReady, PendingAfterReady, PendingIsDrained, NewestWins
<1>5. CASE Defer(p, st) /\ inflightCount = 0
  <2>1. TypeOK'
    BY <1>1, <1>5 DEF Defer, TypeOK
  <2> QED BY <1>1, <1>2, <1>5, <2>1 DEF Defer, PendingIsDrained, NewestWins
<1>6. CASE Defer(p, st) /\ inflightCount # 0
  <2>1. TypeOK'
    BY <1>1, <1>6 DEF Defer, TypeOK
  <2>2. \E d \in Drainer : drainer'[d] # "none"
    <3>1. CASE drainInProgress
      BY <1>6, <3>1 DEF Defer, PendingIsDrained
    <3>2. CASE ~drainInProgress
      <4>1. PICK d \in Drainer : drainer' = [drainer EXCEPT ![d] = "waiting"]
        BY <1>6, <3>2 DEF Defer
      <4> QED BY <4>1 DEF TypeOK
    <3> QED BY <3>1, <3>2
  <2> QED BY <1>1, <1>2, <1>6, <2>1, <2>2 DEF Defer, PendingIsDrained, NewestWins
<1> QED BY <1>3, <1>4, <1>5, <1>6 DEF Build

\* The goroutine that swaps need not be the one started for the pending picker.
LEMMA InvDrain ==
    ASSUME IInv, NEW d \in Drainer, DrainSeesNone(d) \/ DrainExpires(d) \/ DrainSwap(d)
    PROVE  IInv'
<1> USE DEF IInv
<1>1. request' = request /\ inflightCount' = inflightCount /\ latest' = latest
  BY DEF DrainSeesNone, DrainExpires, DrainSwap, switchVars
<1>2. InflightExact'
  BY <1>1 DEF InflightExact, Counted
<1>3. CASE DrainSeesNone(d) \/ DrainExpires(d)
  <2>1. PICK pc \in {"drained", "expired"} : drainer' = [drainer EXCEPT ![d] = pc]
    BY <1>3 DEF DrainSeesNone, DrainExpires
  <2>2. UNCHANGED switchVars
    BY <1>3 DEF DrainSeesNone, DrainExpires
  <2>3. TypeOK'
    BY <1>1, <2>1, <2>2 DEF TypeOK, switchVars
  <2>4. drainer'[d] # "none"
    BY <2>1 DEF TypeOK
  <2> QED BY <1>1, <1>2, <2>2, <2>3, <2>4 DEF PendingIsDrained, NewestWins, switchVars
<1>4. CASE DrainSwap(d)
  <2>1. TypeOK'
    BY <1>1, <1>4 DEF DrainSwap, TypeOK
  <2> QED BY <1>1, <1>2, <1>4, <2>1 DEF DrainSwap, Swaps, PendingIsDrained, NewestWins
<1> QED BY <1>3, <1>4

\* Pick changes the count and the requests only, and both together.
LEMMA InvPick ==
    ASSUME IInv, NEW r \in Request,
           PickLoad(r) \/ PickCount(r) \/ PickSucceeds(r) \/ PickEnds(r)
    PROVE  IInv'
<1> USE DEF IInv
<1>1. UNCHANGED <<currentPicker, currentState, pendingPicker, pendingState,
                  drainInProgress, drainer, latest>>
  BY DEF PickLoad, PickCount, PickSucceeds, PickEnds, switchVars
<1>2. PendingIsDrained' /\ NewestWins'
  BY <1>1 DEF PendingIsDrained, NewestWins
<1>3. inflightCount = Cardinality(InFlight) /\ inflightCount \in Nat
  BY DEF InflightExact, InFlight, TypeOK
<1>4. CASE PickLoad(r) \/ PickSucceeds(r)
  <2>1. InFlight' = InFlight /\ inflightCount' = inflightCount
    BY <1>4 DEF PickLoad, PickSucceeds, InFlight, Counted, switchVars, TypeOK
  <2>2. request' \in [Request -> [pc : {"idle", "loaded", "picking", "serving"},
                                  picker : Picker \cup {None}]]
    BY <1>4 DEF PickLoad, PickSucceeds, TypeOK
  <2>3. TypeOK'
    BY <1>1, <2>1, <2>2 DEF TypeOK
  <2> QED BY <1>2, <1>3, <2>1, <2>3 DEF InflightExact, InFlight
<1>5. CASE PickCount(r)
  <2>1. InFlight' = InFlight \cup {r} /\ r \notin InFlight
    BY <1>5 DEF PickCount, InFlight, Counted, TypeOK
  <2>2. Cardinality(InFlight') = Cardinality(InFlight) + 1
    BY <2>1, InFlightFinite, FS_AddElement
  <2>3. inflightCount' = inflightCount + 1
    BY <1>5 DEF PickCount
  <2>4. TypeOK'
    BY <1>1, <1>5 DEF PickCount, TypeOK
  <2> QED BY <1>2, <1>3, <2>2, <2>3, <2>4 DEF InflightExact, InFlight
<1>6. CASE PickEnds(r)
  <2>1. InFlight' = InFlight \ {r} /\ r \in InFlight
    BY <1>6 DEF PickEnds, InFlight, Counted, TypeOK, NotPicking
  <2>2. Cardinality(InFlight') = Cardinality(InFlight) - 1
    BY <2>1, InFlightFinite, FS_RemoveElement
  <2>3. inflightCount' = inflightCount - 1
    BY <1>6 DEF PickEnds, Uncounted
  <2>4. Cardinality(InFlight') \in Nat
    BY InFlightFinite, FS_CardinalityType
  <2>5. inflightCount' = Cardinality(InFlight')
    BY <1>3, <2>2, <2>3
  <2>6. TypeOK'
    BY <1>1, <1>6, <2>4, <2>5 DEF PickEnds, NotPicking, TypeOK
  <2> QED BY <1>2, <2>5, <2>6 DEF InflightExact, InFlight
<1> QED BY <1>4, <1>5, <1>6

\* Builds, drain goroutines and picks all keep the invariant.
LEMMA InvStep == IInv /\ [Next]_vars => IInv'
<1> SUFFICES ASSUME IInv, [Next]_vars PROVE IInv'
  OBVIOUS
<1>1. CASE UNCHANGED vars
  BY <1>1 DEF vars, switchVars, IInv, TypeOK, InflightExact, Counted, PendingIsDrained,
              NewestWins
<1>2. CASE Next
  BY <1>2, InvBuild, InvDrain, InvPick DEF Next
<1> QED BY <1>1, <1>2

\* The inductive invariant holds in every reachable state of the switch.
THEOREM InductiveInvariant == Spec => []IInv
BY InvInit, InvStep, PTL DEF Spec

\* Every reachable state of the switch is of its types.
THEOREM TypeCorrect == Spec => []TypeOK
BY InductiveInvariant, PTL DEF IInv

\* The count a drain waits on is exact, failed picks and late Dones included.
THEOREM CountAlwaysExact == Spec => []InflightExact
BY InductiveInvariant, PTL DEF IInv

\* The count is never negative and always exact.
THEOREM CountsRight == Spec => []Counts
BY TypeCorrect, CountAlwaysExact, PTL DEF Counts

\* A pending picker always has a goroutine that will swap it in.
THEOREM PendingAlwaysDrained == Spec => []PendingIsDrained
BY InductiveInvariant, PTL DEF IInv

\* The safety half of ImplementsHandover: an older picker never comes back.
THEOREM RefinesHandover == Spec => H!HSafe
<1>1. Init => H!HInit
  BY DEF Init, H!HInit
<1>2. ASSUME IInv, [Next]_vars PROVE [H!HNext]_(H!hvars)
  <2>1. ASSUME NEW p \in Picker, NEW st \in State, Build(p, st) PROVE H!Offer(p)
    BY <2>1 DEF Build, ReplaceAtOnce, ReplaceByReady, Defer, H!Offer
  <2>2. ASSUME NEW d \in Drainer, DrainSwap(d), pendingPicker # None,
               currentPicker' # currentPicker
        PROVE  H!Adopt
    BY <1>2, <2>2 DEF DrainSwap, Swaps, IInv, NewestWins, H!Adopt
  <2>3. ASSUME NEW d \in Drainer, DrainSwap(d) PROVE [H!HNext]_(H!hvars)
    BY <2>2, <2>3 DEF DrainSwap, Swaps, H!HNext, H!hvars
  <2>4. ASSUME UNCHANGED <<currentPicker, latest>> PROVE [H!HNext]_(H!hvars)
    BY <2>4 DEF H!hvars
  <2>5. ASSUME NEW d \in Drainer, DrainSeesNone(d) \/ DrainExpires(d)
        PROVE  UNCHANGED <<currentPicker, latest>>
    BY <2>5 DEF DrainSeesNone, DrainExpires, switchVars
  <2>6. ASSUME NEW r \in Request, PickLoad(r) \/ PickCount(r) \/ PickSucceeds(r) \/ PickEnds(r)
        PROVE  UNCHANGED <<currentPicker, latest>>
    BY <2>6 DEF PickLoad, PickCount, PickSucceeds, PickEnds, switchVars
  <2>7. CASE UNCHANGED vars
    BY <2>4, <2>7 DEF vars, switchVars
  <2>8. CASE Next
    BY <2>1, <2>3, <2>4, <2>5, <2>6, <2>8 DEF Next, H!HNext
  <2> QED BY <1>2, <2>7, <2>8
<1> QED BY <1>1, <1>2, InductiveInvariant, PTL DEF Spec, H!HSafe
=============================================================================
