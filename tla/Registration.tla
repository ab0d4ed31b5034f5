---------------------------- MODULE Registration ----------------------------
(* How a client gets its balancer: NewClient registers a builder under the   *)
(* name of its policy in gRPC's process-wide registry, in place of the one   *)
(* that was there, and grpc.NewClient looks the name up when it reads the    *)
(* service config. The Register functions of grpclient/balancer differ in the*)
(* picker builders they put around each other.                               *)
EXTENDS Naturals, Sequences

CONSTANTS
    Client,
    Policy,     \* the policies that have a name in the registry
    NoBuilder

ASSUME PolicyAssumption == "rr" \in Policy

VARIABLES
    config,     \* the Config each client is made with
    step,       \* of NewClient, for each client
    registry,   \* the builder registered under each name
    builder,    \* the builder the channel of each client uses
    raced       \* clients whose name was registered again before they dialled

rvars == <<config, step, registry, builder, raced>>

Config == [name : Policy \cup {"other"}, breaker : BOOLEAN, filter : BOOLEAN,
           health : BOOLEAN]

Builder == [object : Client, policy : Policy, layers : Seq({"filter", "breaker"}),
            health : BOOLEAN]

ASSUME NoBuilderAssumption == NoBuilder \notin Builder

\* An unknown BalanceName is replaced by round robin.
BalanceName(cfg) == IF cfg.name \in Policy THEN cfg.name ELSE "rr"

\* The picker builders around the policy's own, outermost first.
Layers(cfg) ==
    (IF cfg.filter THEN <<"filter">> ELSE <<>>)
    \o (IF cfg.breaker THEN <<"breaker">> ELSE <<>>)

\* A builder is an object of its own for every registration, and with it the
\* circuit breakers it keeps.
BuilderOf(c) ==
    [object |-> c,
     policy |-> BalanceName(config[c]),
     layers |-> Layers(config[c]),
     health |-> config[c].health]

RInit ==
    /\ config \in [Client -> Config]
    /\ step = [c \in Client |-> "new"]
    /\ registry = [p \in Policy |-> NoBuilder]
    /\ builder = [c \in Client |-> NoBuilder]
    /\ raced = {}

\* Mutant: a builder that is registered is kept.
RegisteredOnce(c) ==
    LET name == BalanceName(config[c])
    IN IF registry[name] = NoBuilder THEN [registry EXCEPT ![name] = BuilderOf(c)] ELSE registry

Registered(c) == [registry EXCEPT ![BalanceName(config[c])] = BuilderOf(c)]

Register(c) ==
    /\ step[c] = "new"
    /\ registry' = Registered(c)
    /\ step' = [step EXCEPT ![c] = "registered"]
    /\ raced' = raced \cup
        {d \in Client : step[d] = "registered" /\ BalanceName(config[d]) = BalanceName(config[c])}
    /\ UNCHANGED <<config, builder>>

Dial(c) ==
    /\ step[c] = "registered"
    /\ builder' = [builder EXCEPT ![c] = registry[BalanceName(config[c])]]
    /\ step' = [step EXCEPT ![c] = "dialled"]
    /\ UNCHANGED <<config, registry, raced>>

\* NewClient returns an error between the two: the builder stays registered.
Fail(c) ==
    /\ step[c] = "registered"
    /\ step' = [step EXCEPT ![c] = "failed"]
    /\ UNCHANGED <<config, registry, builder, raced>>

RNext == \E c \in Client : Register(c) \/ Dial(c) \/ Fail(c)

RSpec == RInit /\ [][RNext]_rvars

-----------------------------------------------------------------------------
(* Properties *)

\* Every variable has a value the program can give it.
RTypeOK ==
    /\ config \in [Client -> Config]
    /\ step \in [Client -> {"new", "registered", "dialled", "failed"}]
    /\ \A c \in Client : step[c] = "dialled" => builder[c] # NoBuilder
    /\ \A p \in Policy : registry[p] # NoBuilder => registry[p].policy = p
    /\ raced \subseteq Client

\* A client has the policy it names, whatever other clients register, and the
\* filter, the circuit breakers and the health setting of its own Config, unless
\* another NewClient registered the same policy between its two steps.
BuiltAsConfigured ==
    \A c \in Client : step[c] = "dialled" =>
        /\ builder[c].policy = BalanceName(config[c])
        /\ c \notin raced =>
            /\ "filter" \in {builder[c].layers[i] : i \in DOMAIN builder[c].layers}
                <=> config[c].filter
            /\ "breaker" \in {builder[c].layers[i] : i \in DOMAIN builder[c].layers}
                <=> config[c].breaker
            /\ builder[c].health = config[c].health

\* Two clients share circuit breakers only if one of them was overtaken.
BreakersNotShared ==
    \A c, d \in Client :
        c # d /\ builder[c] = builder[d] /\ builder[c] # NoBuilder => c \in raced \/ d \in raced

\* Whatever the interleaving of several NewClient calls, a client that nobody
\* overtook has the balancer it asked for, and for itself.
OwnBalancer == RTypeOK /\ BuiltAsConfigured /\ BreakersNotShared
=============================================================================
