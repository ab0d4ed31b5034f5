# A TLA+ model of grpcbalance

`grpcbalance` is a Go library of client-side load balancing for gRPC: a client
that finds endpoints by discovery, a resolver that hands them to gRPC, a base
balancer that keeps a connection to each, and pickers that choose a connection
per call. This directory models it in TLA+, checks it with TLC on small
instances, and proves the safety of its concurrent core with TLAPS for all sizes.

Run from this directory:

    tlc -workers 2 -config MCBaseBalancer.cfg MCBaseBalancer
    tlapm BaseBalancerProofs.tla

`PROJECT.json` lists every component, run, mutant, theorem, finding and hazard,
and maps every definition to the lines of code it models.

## 1. The system

    discovery (polling, static, etcd, Consul)
        | events on a channel with room for one: lists, errors
        v
    client: NewClient, watchDiscovery, SetEndpoints, Close
        | addresses with attributes (weight, metadata)
        v
    resolver  --->  gRPC channel  --->  base balancer  <---  SubConn state notifications
                        ^                   | READY SubConns
                        | picker, state     v
                        +-------------- picker builder
                                        (policy, circuit breaker, health, node filter,
                                         graceful switch: each wraps another)
    RPC --> picker.Pick --> SubConn --> Done callback --> counters, breakers

| component | state | operations | what is hard | what makes it correct |
|---|---|---|---|---|
| base balancer (`balancer/balancer.go`) | SubConn per address, recorded states, attributes, aggregate counters, picker, last errors; one mutex | resolver update, resolver error, SubConn state change, ExitIdle | notifications arrive late, also after a removal; a failed SubConn's retries are hidden from the aggregate; the picker is rebuilt on some transitions only; one handler calls another under the mutex both lock | counters exact, picker exactly the READY set with the latest attributes, no connection leaked or forgotten, every failed one retried |
| graceful switch (`picker/graceful.go`) | current and pending picker, in-flight count, drain flag; a lock, an atomic, a goroutine per drain | UpdatePicker, drainAndSwap, Pick/Done | Pick reads the picker and counts in two steps; drains outlive their cancellation | count exact, no pending picker forgotten, no older picker comes back, the newest one is used in the end |
| circuit breakers (`circuitbreaker/`, `picker/circuitbreaker_picker.go`) | per address: state, counts, half-open slots; a manager's map | Allow (during Build), RecordSuccess/RecordFailure (when calls end), Reset, Remove | results of one period arrive in another; slots are spent by building | thresholds count results in a row, no count survives its period, filtering never leaves nothing, a recovered endpoint is used again |
| health checker (`healthcheck/`) | map of endpoint health, loop goroutine, stop channel | Start, Stop, add/remove/set endpoints, rounds of checks, callback | list changes during a round; Start and Stop around a round; callbacks outside the lock | one loop, quiet after Stop, status agrees with the run of results, callbacks in order |
| client (`client.go`) | configuration, mutex, watcher goroutine, connection | NewClient, SetEndpoints, watchDiscovery, Close | two writers of one list, events of different age, failure at any step of NewClient, Close or the end of the user's context at any moment | the channel has the list of the configuration; no list is withheld; nothing is left running |
| discovery (`discovery/`) | last endpoints (polling), watch revision (etcd), wait index (Consul) | Watch, GetEndpoints, Close | a change between the first fetch and the watch; an index two callers share; a comparison that misses changes | every change the source can see reaches the client |
| resolver (`resolver/`) | endpoints, last state, gRPC's connection | Build, SetEndpoints, ResolveNow, Close | updates while the channel is idle, before Build and after Close | the last list is what the channel has |
| registration (`balancer/*.go`, `client.go`) | gRPC's process-wide table of builders | Register functions, look-up when a client dials | clients made at once | each client has the balancer it asked for |
| policies (`picker/*picker.go`, `priorityqueue/`) | index, weights, heap, counters, response times | Build, Pick, Done | calls end in any order, after a rebuild too; arithmetic at its width | the share of each node, the least loaded one first, counts exact |
| node filter (`picker/filter.go`) | cache of filtered pickers; slices in contexts | WithNodeFilter, Pick | pickers built while picking; slices that share an array | only admitted nodes are picked, one picker per set |
| label selectors (`label/`) | none | parse, print, match | a grammar with empty values and keywords; values in the order of a map; backtracking | a text means what its parts mean, printing loses nothing, one answer |
| subset selection (`resolver/subset.go`) | key of the client | Select | | clients spread evenly |

The balancer calls the builder under its own lock, so `Build` of one balancer is
serial, except that `filteredPicker.Pick` also builds when its cache has no
picker for the admitted nodes.

## 2. The modules

| module | models | interleaving |
|---|---|---|
| `BaseBalancer` | `balancer/balancer.go`, the SubConns around it as external | each handler is one action, being under `b.mu`, and one of them never gives it back; notifications are a queue per SubConn; `Connect` goroutines, transports and backoffs step in between |
| `GracefulSwitch` | `picker/graceful.go` | UpdatePicker and the swap are atomic (under `g.mu`); reading the picker, counting, the end of a pick, the poll of a drain and its swap are steps of their own |
| `Handover` | the promise of a graceful switch, abstract; `GracefulSwitch` implements it | |
| `CircuitBreaker` | `circuitbreaker.go`: one breaker as a record and its methods as operators | |
| `CircuitBreakerPicker` | the manager, `CircuitBreakerPickerBuilder`, `CombinedPickerBuilder`, their Pick and Done | Build asks one breaker per step; calls end, breakers are removed or reset and timeouts pass in between |
| `HealthCheck` | `healthcheck.go` | the two halves of Start and of Stop, the loop, each check and its callback |
| `Discovery` | `discovery/*.go`, with the registry as external | a source's goroutine takes one step per request, answer and send; the registry changes and fails in between |
| `Endpoint` | `endpoint/endpoint.go` as an operator | |
| `Resolver` | `resolver/resolver.go` | each method one action, being under `r.mu` |
| `Client` | `client.go`, composed of `Discovery` and `Resolver` (`R == INSTANCE Resolver`) and the gRPC channel | a step per step of NewClient; a list is written in two steps under `c.mu`; the watcher's select, fetch, lock and callback; Close in two steps; the channel goes idle and comes back |
| `WeightedRoundRobin`, `PriorityQueue` | the index arithmetic of the weighted policies, the heap of `container/heap`, as operators | |
| `Policies` | the six `picker/*picker.go`, over the two modules above | Pick is atomic where it holds a mutex; p2c's two phases, Done and rebuilding step in between |
| `Registration` | the `Register...` functions and NewClient's use of them | registering and dialling of several clients |
| `Filters` | the filters of `picker/filter.go` as operators | |
| `FilteredPicker` | contexts and `filteredPicker.Pick` | evaluation of each node, look-up, second look and build, inner pick |
| `SelectorParser` | lexer, parser and printer of `label/`, as operators | |
| `Selectors` | matching, wildcards, `LabelSelectorFilter`; a program that writes a text or adds requirements | |
| `MC...` | instances and symmetry sets for TLC | |
| `...Proofs` | the theorems of the module of that name; `SwitchProofs` has those of `GracefulSwitch` and `Registration` | |

How state corresponds to code:

* **BaseBalancer.** `csEvltr`, `state`, `subConns`, `scStates`, `scAddrs`, `picker` are
  the fields of those names; a nil map entry is `NoSubConn`, `NoState` or `NoAddr`.
  Errors are reduced to whether there is one. A picker is the set of READY SubConns it
  was built from, or the errors it reports. `published` is what `cc.UpdateState` last
  got. `conn`, `notes` and `connects` are gRPC's: the true state of each connection, the
  notifications not yet delivered, the goroutines of `SubConn.Connect`. A SubConn that
  was shut down may be made again when nothing of it is left, which stands for an
  unlimited supply. Attributes are opaque values; an address is known by its key without
  them, as in `b.subConns`. `mu` is `b.mu` between the handlers: an update to an empty
  list closes every connection, calls `ResolverError` with the mutex held
  (`balancer.go:152`) and waits for it for ever, so `mu` stays `"held"`, nothing is
  published and every handler waits. Only gRPC takes steps after that. Where several new
  addresses are resolved, NewSubConn may fail for any of them. A list with an address
  twice counts as one with the attributes of the last, as the loop treats it.
* **GracefulSwitch.** A request goes `idle` → `loaded` (read `currentPicker`) →
  `picking` (counted) → `serving` → `idle`. A drain goroutine is `waiting`,
  `drained` (it saw a count of zero) or `expired`. `Build` passes READY or
  TRANSIENT_FAILURE, as `GracefulPickerBuilder` does, so that the last branch of
  `UpdatePicker` is unreachable and not modelled. The drain timeout passes at any
  moment. `latest` is a history variable.
* **CircuitBreaker(Picker).** A breaker is `[state, failures, successes, slots,
  timedOut]`; `timedOut` replaces the clock. The inner policy is any choice
  among the SubConns of its picker. A request whose breaker was removed is an
  `orphan`: its result reaches a breaker nobody can see. `streak` is the history
  the properties compare the counts with.
* **HealthCheck.** `running` also stands for the stop channel: once started, it
  is closed exactly while the checker is not running, and a loop that waits
  remembers whether its channel is closed (`stopped`). A check's connection is
  private to it, so it is reduced to what the two calls `WaitForStateChange` and
  `GetState` may report, given whether the server answers (`Outcomes`). Counts
  stop at their threshold, where the code's go on: above it nothing depends on them.
* **Discovery.** `log` is the registry's history; an event names the revision it
  carries instead of carrying a list. `pc`, `out` and `resume` place the source's
  goroutine: at its select or request, or sending. `kind` chooses the source for a
  whole behaviour: a user's function (wrapped in polling), a static list, a user's own
  `Discovery` (which may send what it likes, in order), etcd, Consul, or none.
  `index` and `wait` are Consul's `lastIndex` and the index of the query under
  way; `watch` is the revision an etcd watch has reported. A request fails
  `MaxFaults` times, and at will once the context is cancelled.
* **Resolver.** `endpoints`, `attributes`, `lastSeenState` are its fields; `built`
  is `cc # nil`; `channel` is what `cc.UpdateState` gave the channel.
* **Client.** `phase` is where NewClient is, then the life of the client: `"failed"` if it
  has cancelled its context, `"refused"` if it returned at `client.go:286` and has not; then the
  context stays registered with the one it is derived from until that ends. The user's
  context, if there is one, may end at any moment (`ContextEnds`). A user gives
  SetEndpoints no empty list (`UserListAssumption`): it blocks in the balancer with `c.mu`
  held, which is `BaseBalancer`'s to tell; the lists of the watcher are never empty. `mu` is
  `c.mu`; between the two writes under it somebody holds it. `wpc` is where
  `watchDiscovery` is. `applied` and `refetched` are history. The user calls one
  method at a time; the channel of the application may go idle and start again.
* **Policies.** `subConns` is the order in which the map of READY SubConns was
  iterated; an index starts at 0 as in Go; `wrr` is the pair `(i, cw)`; `queue` and
  `val` are the heap and its items' values; `inflight`, `long` and `forcing` are
  p2c's counters, its nodes not picked for `forcePick`, and its flag `picked`. A
  call of a replaced picker is `Gone`: it changes counters nobody reads.
  Response times are abstract: an average is any value between old and new, in fractions
  of a microsecond (`Grain` of them make one); the heap of mrt has whole microseconds (`Micros`),
  as `mrtpicker.go:123` cuts the average off.
  Weights are `int32`: `MaxInt` is the greatest value of their type. The loops are
  written without recursion, so that the prover can use them: the positions
  `heap.down` and `heap.up` visit are the least set that has the first one and the
  next of each, the loop of `wrr.next` is the first index that reaches a bar, the
  Euclidean algorithm is the greatest common divisor.
* **Registration.** Its specification is `RSpec`, with `RInit` and `RNext`. A builder is
  what the Register function put together: policy, layers, health setting, and the
  client that made it, because the circuit breakers live in it.
* **FilteredPicker.** A context names the array its slice lies in and its length;
  `arrays` are the backing arrays, an element nobody wrote is `NoFilter`. `Rooms` is
  Go's growth of a slice: twice as much or as much as is needed, in the next of the
  allocator's `Sizes`. A call is
  `filtering`, `filtered`, `missed`, `picking`, `picked`. A health filter may answer
  anything at any time. `wanted`, `line` and `built` are history.
* **SelectorParser, Selectors.** A text is a sequence of pieces, a piece one
  character the lexer knows, a keyword, a letter or a digit; the byte 0, which the lexer
  takes for the end of the text, is none of them. Each `for` of the lexer, the
  parser and the wildcards is a `Loop`: a turn of it as an operator (`ScanTurn`,
  `ListTurn`, `ParseTurn`, `MatchTurn`), made as often as the loop can turn at most, where a
  turn after the end changes nothing. That this is often enough is proved. An index past
  the items, where Go panics, is the outcome `"panic"`. `Matches` is the set of answers over
  all orders in which a map may be iterated.

## 3. What the runs show

| run | instance | shows |
|---|---|---|
| `balancer` | 2 addresses, 2 attribute values, 2 SubConns, 2 undelivered transport changes per SubConn, symmetry of all three sets | `Books`: types, exact counters, no connection leaked, all closed when the balancer waits for itself; `PickerCorrect`, until then: READY set, latest attributes, none removed; no lost reconnect; the view of a balancer with nothing undelivered; no flapping |
| `balancer_live` | 2 addresses, 1 attribute, 2 SubConns, 1 undelivered change | a READY connection is picked in the end; a lost or failed one is retried or closed; entries of removed ones go away, unless the list is empty |
| `graceful` | 4 pickers, 2 requests, 3 drain goroutines | `Counts`: exact count; pending picker drained; refinement of `Handover` with liveness |
| `breaker` | 2 addresses, 2 requests, thresholds 2, 1 half-open slot, symmetry | `Limits`: types, no carry-over; no outage by filtering; `MovesAreEarned`: opens and closes only after runs of results |
| `breaker_recovers` | 1 address, 2 requests | a sole endpoint that stops failing is closed for good |
| `healthcheck` | 2 addresses, 2 objects, 1 user, 2 loops, thresholds 2 | `StatusEarned`; `LoopOwned`: quiet after Stop, one loop; callbacks in order; Stop returns; a dead server is found |
| `client` | each of six sources, 3 lists, 2 revisions, 2 faults, 2 errors in a row before a fetch, 1 list of the user | room for one event is kept; the channel shows the configured list; failures and Close leave nothing; nothing withheld; no going back but by its own fetch; a visible change arrives; cancelling ends all |
| `policies` | 6 policies, 3 nodes, 3 calls, weights -1 to 3 in a type up to 3, whose sums overflow, response times 0 to 2 µs with averages in halves, symmetry | `Shares` of wrr, rr and rwrr; `CountsKept` of p2c and the heap; `LeastPicked` by mc and mrt |
| `registration` | 3 clients of any configuration, 2 policies | every client that was not overtaken has its own balancer |
| `filter` | 2 nodes, 2 calls, 4 contexts besides the first, 3 lists of filters | admitted nodes only, one picker per set, contexts keep their filters |
| `selectors` | texts of up to 3 pieces after 7 beginnings; selectors of up to 2 requirements; 64 sets of labels and many attributes | `NeverPanics`: no text is read past its end; `TextsKeepMeaning`: texts mean what their parts mean, printing and parsing again loses nothing; wildcards match whatever can be cut into their pieces; one answer; `RequiresExactMatch`; metadata as labels |
| `discovery_lost_change` | as `client`, etcd, no faults | the counterexample of section 4 |

Two more configurations are kept for the counterexamples they give (section 4), apart from
the runs: `MCBaseBalancerEmptyList.cfg` violates `EmptyListRecorded`, `MCSelectorsForm.cfg`
violates `FollowsForm`.

Why the bounds are enough. Two addresses and two SubConns give an address that is
removed while another stays, one that returns with its old SubConn not yet gone (it then
has none to get, as when NewSubConn fails, or the other one), and every pair of states
in the aggregate. Two undelivered changes are a TRANSIENT_FAILURE with the IDLE that
follows it, or a READY that is lost again; a SHUTDOWN comes on top of them. A graceful
switch needs a current, a pending and a newest picker, one request inside a replaced
picker and one that starts during a drain, and a stale drain goroutine besides the
current one. With a threshold of two a single result can be told from a run; two
requests can be under way across a change of period. A health checker needs an object of
an endpoint that was removed next to the one it was given back, and a second loop to be
able to violate `OneLoop`. The client needs one change, which the source may see, miss,
or deliver after the client fetched it; two faults are what makes two errors in a row, a
bound that stands for the code's five (`client.go:401`), or one at each end of a
reconnection; the safety properties were also checked with three revisions (12.5 million
states). Its three lists are one without a weight and one with (`hasChanged` and the
defaulted weights tell them apart), and the empty one; the registry begins with the
first or the last (`First`). Averages in halves of a microsecond are the least that tell
`Micros` from the identity. Three nodes are the least for which p2c draws two of several
and a heap has two children; weights have a zero, a negative one and a pair whose sum
passes `MaxInt`. Two calls can miss one cache entry at once. Five contexts hold a parent
whose slice has room and two children of it. The beginnings of the texts carry the
parser to every state in which three more pieces still matter.

Fairness. `BaseBalancer`: gRPC delivers notifications, runs Connect goroutines
and ends backoffs (weak fairness); that connections are established is not
assumed. `GracefulSwitch`: deadlines pass and goroutines run (weak); that
requests end is not assumed, so the handover holds by force of the timeout.
`CircuitBreakerPicker`: calls end, time passes, a Build that began ends (weak),
and every endpoint that is again and again in the picker is again and again
chosen (strong), as the policies go round while callers keep calling.
`HealthCheck`: goroutines run, checks end by their timeout, the ticker ticks
(weak); Go's `select` with both channels ready chooses at random, so that a
closed channel is taken in the end (strong). `Client`: goroutines that can go on do,
requests end, tickers and backoffs fire, callbacks return (weak); a Go mutex
serves whoever waits and `select` takes every ready case in the end (strong).
Nothing makes the registry change or fail, the user call, or the channel idle.

Deadlock is checked, except in five modules that really stop: the base balancer waits
for itself after an empty list, and gRPC has nothing left to tell it; every
behaviour of `client` may end in a closed client, of `policies` in a panic of the
process, of `registration` when all clients have dialled or failed, of `selectors`
when the text is written and parsed.

Each property of a passing run has a mutant in `PROJECT.json`: a definition with a
plausible bug that makes TLC find the property violated.

## 4. Where the code and its comments disagree

* `balancer.go:152`: for a list without addresses `UpdateClientConnState`, which holds
  `b.mu` (line 85), calls `b.ResolverError`, which locks it again (line 61). A Go mutex
  is not reentrant: the goroutine waits for itself, the error is not recorded, nothing
  is published, and every later update, notification and `ExitIdle` of the channel waits
  too, while all connections are closed. `balancer.go:147` says the update returns an
  error and records it (`EmptyListRecorded`, which `MCBaseBalancerEmptyList.cfg`
  violates). `Client.SetEndpoints` with an empty list is enough to get there, since
  nothing on the way checks its length (`client.go:81`); it blocks with `c.mu` held.
* `parse.go:401`: the parser reads `=`, `>` and `<`, which the form stated above
  `ParseSelector` does not have, so that `1<1` and `a=` are accepted, although
  `parse.go:508` says that an input which does not follow the form causes an error
  (`FollowsForm`, which `MCSelectorsForm.cfg` violates). It accepts the empty text too,
  and refuses `!` with a restriction behind the key, which the form permits.
  `ParsesParts` says what the parser does accept.
* `etcd.go:122`: `Watch` fetches the list, starts its goroutine, and that
  creates the watch from the revision etcd has by then. A change in between is
  neither in the list nor in the watch, so the client keeps the old list until
  the prefix changes again; `config.go:131` says the client watches for changes and updates
  the resolver (`discovery_lost_change`). `VisibleChangeArrives` is what does hold:
  a change is delivered if the watch was there before it.

Seen while modelling. These are not runs; each is in a model as the code has it,
or is named in section 6.

Balancer and pickers:

* If the resolver reports an error before the first list, that list regenerates the picker
  in TRANSIENT_FAILURE with no error at all, and the channel reports "last resolver
  error: <nil>" (`balancer.go:168`); the library's own resolver reports none. `connErr` is
  never cleared, although `balancer.go:51` says it is.
* `mrt` orders nodes by averages cut off to whole microseconds (`mrtpicker.go:123`), so that
  one that is slower by less than that may be picked.
* A switch is meant to wait for the requests of the current picker. The count is
  read without the lock (`graceful.go:100`) and requests count after they have read
  the picker, so that a switch nobody forced may happen under a request. A
  goroutine of a cancelled drain forces a later switch at its own deadline
  (`graceful.go:110`). `inflightCount` counts the requests of all pickers.
* Half-open slots are spent by building pickers and never given back
  (`circuitbreaker_picker.go:53`): an endpoint whose slot was spent without a request is
  left out of every later picker while another circuit is closed. An open circuit
  does not block the requests of the picker in use.
* Every Build resets the counts of `mc` and the measurements of `mrt`: calls under way are
  forgotten. An endpoint of `mrt` whose calls all fail keeps its first value, zero,
  and attracts every call. `rwrr` panics where the sum of weights
  overflows an `int32` or is negative.
* Contexts made from one parent share an array when it has room, so that the second
  overwrites the first one's filter (`filter.go:29`); `ContextsKept` says that this
  is the only way to lose one. When no node passes the filters the call waits for
  another picker.
* A client whose name is registered again before it dials gets the other
  client's builder, with its circuit breakers (`client.go:198`).

Health checker:

* A Stop between Start's unlock and its `go` returns before the loop starts
  (`healthcheck.go:210`), which takes two users; a Start while another user waits in
  Stop puts a new channel in place, and that Stop waits for both loops. `LoopOwned`
  holds for one user.
* A check that reads CONNECTING fails (`healthcheck.go:321`), so a server that
  answers may be found unhealthy.

Client and discovery:

* Consul's `GetEndpoints` sets the index its watch waits on (`consul.go:199`), and the
  watcher may fetch by itself after errors and then apply an older event: together
  these can leave a client with a stale list until the next change. Hence
  `NothingWithheld` excludes clients that have fetched by themselves.
* Polling does not see a change of metadata only, nor of a repeated address
  (`discovery.go:204`). etcd's `Get` after a watch response may fail, and the
  change is then not delivered; a canceled watch is made again from a later
  revision.
* A callback that calls Close would wait for itself. One error path of the
  connection options returns without cancelling the context (`client.go:286`), which stays
  registered with the user's context until that ends.
  `SetEndpoints` keeps the attributes of the old list.

Label selectors:

* A list of values that ends in an even number of commas is refused. A constraint with a
  comma is not read back from its text. `SelectorFromSet` of a label with several values
  prints as another selector.
* `Gt` and `Lt` on a label with several values, not all numbers, answer by the order of a
  map's iteration; `AnswersOnce` excludes this case only.
* `MetadataFilter` with the empty value also keeps nodes without the key.

## 5. What is proved

All proofs assume only the named assumptions of the constants: `BalancerAssumption`
(finitely many SubConns, `NoSubConn` is none of them, room for a notification),
`SwitchAssumption` (finitely many requests, `None` is no picker), the positive
thresholds and the slot limit of `CircuitBreaker`, `PickerAssumption`,
`CheckerAssumption` (positive thresholds), `BoundsAssumption` and `ErrorsAssumption`
(there is a first list, a positive number of errors before a fetch),
`NoBuilderAssumption`, `ContextsAssumption`, `SizesAssumption` and `FiltersAssumption`
(lists of filters are not empty, `NoFilter` is no filter), `NodeAssumption` and
`RequestAssumption` (finitely many), `MaxIntAssumption`, `WeightAssumption` (weights are
values of their type), `MaxTimeAssumption`, `FirstAssumption` (the lists at the start
are some a registry may hold), `GrainAssumption` (an average has a positive number of
fractions), `UserListAssumption` (a user gives no empty list), `TextsAssumption` (texts
are sequences of pieces), `RequirementsAssumption` (what a program adds was made with
NewRequirement) and `LabelsAssumption` (labels have finitely many keys).

* **BaseBalancerProofs.** `IInv` joins type correctness to what ties the balancer to
  gRPC: live connections and addresses correspond one to one (`NoLeakedConnection`) and
  have a recorded state (`LiveIsTracked`), SHUTDOWN is only reported of connections that
  are shut down (`ShutdownReported`), SubConns in use carry what was last resolved
  (`AddrsResolved`), counters are cardinalities, the stored picker is fresh
  (`PickerFresh`), the published one is the stored one (`InStep`), and a balancer that
  waits for its own mutex has closed every connection (`HeldServesNothing`). What is
  said of the channel's picker holds until an update to an empty list keeps the mutex
  (`mu = "free"`), because the picker published before that is never replaced.
  `ChannelPickerFresh` alone is not inductive: it says nothing while the picker is an
  error, and that a late notification which rebuilds nothing leaves the picker right
  needs to know whom it can be about. From `IInv` follow `BooksAlwaysRight`,
  `PickerAlwaysCorrect` and their parts, and, for the action property, `FailureSticks`.
* **SwitchProofs.** Of `GracefulSwitch`, `IInv` adds to the count and the pending picker that the
  newest picker is the pending one, or the current one if none is pending.
  `CountsRight` and `PendingAlwaysDrained` follow; `RefinesHandover` maps every step
  to `Offer`, `Adopt` or a stutter. Of `Registration`, `Waiting` says that a client between
  its registration and its dialling finds its own builder, or is one that was overtaken;
  `Served` says the same of what it found. `BalancerAlwaysOwn` follows, for any number of
  clients.
* **CircuitBreakerPickerProofs.** `IInv` ties counts to the history of results: in the
  closed state the failure count is at most the run of failures, in the half-open
  state the success count is at most the run of successes. `NeverAnOutage`,
  `LimitsKept` and `MovesAlwaysEarned` follow.
* **HealthCheckProofs.** `BaseInv` (types and counts) holds for any number of users,
  whence `StatusAlwaysEarned`. For one user, `LifeInv` says how many loops there can
  be at each place of the user in Start and Stop, whence `LoopAlwaysOwned`; `ToldInv`
  says that an outstanding callback tells the current status and that its check is
  over, whence `CallbacksInOrder`, which uses that there is one loop.
* **ClientProofs.** `IInv` has three parts besides types. `Life`: nothing runs before
  NewClient is done or after it failed or refused, and the watcher has exited once Close
  returns. `Lists`: the configuration, the resolver and the channel differ only
  while somebody holds `c.mu`, and then by exactly the list the holder is about to
  push; the property alone does not say what the holder will push, so it is not
  inductive. `TypeCorrect`, `ChannelAlwaysShowsList` and `NothingEverLeftBehind`
  follow, for every source and any number of changes, failures and errors.
  `RInv` adds where the revisions under way are: in the watcher's hands, in the
  channel, with the source, each no older than the one before it (`InOrder`), and
  the newest of them is what the source believes it has reported (`Reported`). It is
  conditional on the watcher not having fetched by itself, because then the order is
  lost. `NothingEverWithheld` and `NeverGoesBack` follow.
* **FilteredPickerProofs.** `CacheRight` (an entry serves the nodes it is found
  under), `BuiltOnce` (the builds are the entries) and `Sound` (what a call has found
  so far fits its filters) give `PickedAlwaysKept` and `AlwaysOnePicker`. `CInv` is
  about the contexts: slices lie within their arrays, behind what their parents wrote
  (`Slices`, `Lines`), and two that share an array are one above the other or below
  a context which appended in place twice (`Trees`). Hence `ContextsAlwaysKept`: a context has its
  filters unless one it descends from had filters and was the parent of two, for any
  sizes the allocator has.
* **PoliciesProofs.** `PInv` says where each call is (`Placed`), that the heap of `mc`
  and `mrt` has each node once and every item is no smaller than the one above it
  (`Heaped`), that its values are the counts of calls or the response times in whole microseconds
  (`Valid`), and the same of p2c's counters and flag (`Counting`). Its core is
  `UpdateHeap`: after one value has changed, `heap.down` or `heap.up` puts the heap in
  order again, because the positions a loop visits form a chain along which each item moves by
  one place (`VisitedChain`, `SwappedLists`, `SinkOrders`, `RiseOrders`). `CountsAlwaysKept` and
  `LeastAlwaysPicked` follow. `SInv` says how often a node has been picked in the cycle
  under way: in `rr`, once if it lies between the first index and the next; in
  `wrr`, once for every higher bar its weight reaches and once more if its index has
  passed (`CountAt`). `WrrGoes` shows that a pick moves from one such count to the next and that
  the last pick of a cycle is the one that gives every node its share.
  `SharesAlwaysKept` follows. For `rwrr`, `RandomFalls` shows that every random
  weight falls on an index even if the sum has wrapped, so that the choice after the loop
  (`rwrrpicker.go:132`) is never reached, and `RandomShare` that an index gets as many random
  weights as its weight is.
* **SelectorsProofs.** These are theorems about loops, for texts without the byte 0 and
  names, of any length. An induction over the turns of a loop is an argument about the
  least turn that breaks an invariant (`LeastOf`, `UpTo`), and `Iterates` says that the
  loop's function exists. `ScanReadsAll`: every turn of the lexer moves on in the text
  while there is more than blanks, and what it reads lies behind what it has read
  (`ReadUpTo`), so that a text is its tokens with blanks between them; that is what
  `NothingLost` compares, and says where each token is besides. `ParsingEnds`: only the
  last item is the end (`Readable`), and every turn of the parser is at an item and
  moves on, or is over, because nothing consumes the last item but the end
  (`ListTurnType`, `ParseRequirementType`, `ParseTurnType`). So there are enough turns,
  and no item past the last is read. `SelectorsInvariant` says what a selector holds:
  validated requirements, or the unchecked ones of `SelectorFromSet`, which ask for some
  values of a label (`Held`). The four properties of matching follow from it: without it
  `OneAnswerEach` and `ExactMatches` fail, as a requirement of `>` or `~=` without a
  value would match by whatever is chosen for the value. `MatchAssigns` is the
  correctness of the greedy matcher: its invariant (`Cursors`) is that the name matches
  if and only if the rest does from the cursor on, or from one more piece given to the
  last `*`; that a later `*` makes the earlier ones irrelevant is `StarTakes`, as
  whatever an earlier one can take the later can. `Progress` is the measure: how much
  the last `*` has taken, and then how far the cursor is in the pattern, which grows in
  every turn and stays below the turns there are.

`BaseBalancerProofs` has a second invariant on top of `IInv`. `ToldTruth`: the last
undelivered notification of a SubConn is its true state, and with none the record is
right, up to a failure that sticks. `StateDue`: the state is the aggregate of the
records, or a new SubConn still has something to report, since an update of the
address list does not aggregate. With `NoLostReconnect` these are inductive, and
`NeverLostReconnect` and `ViewSettles` follow.

Only model-checked: every liveness property and the liveness half of
`ImplementsHandover` (fairness is out of the prover's reach), and one invariant of label
selectors, `TextsKeepMeaning`: `NothingLost` compares a text with its tokens joined
(`ScanReadsAll` proves this of where they are), `ParsesParts` the parser with the parts
of the text by cutting at commas, and `ReprintParses` folds requirements into a text and
parses that. Each relates two traversals of one text, both a recursion over sequences,
where the proved theorems need an invariant of one loop only. Every other invariant and
action property of the runs is a theorem.

Four properties were restated while they were being proved. `WildcardAgrees` compared the
matcher with a recursive definition that tried every split; it now says directly that the
pieces of the name can be given to those of the pattern. `NeverPanics` was part
of the invariant about texts and says by itself that parsing ends. `RandomShares` said
that `rwrr` shares out its weights if their sum, as the type holds it, is positive: three
weights of 3 in a type up to 3 wrap to a positive sum again and give one node
nothing, so it now asks for a sum that does not wrap, and the run has a weight of 3.
`ChainsAreSafe` excluded more contexts than appending in place can harm.

## 6. What is not modelled, and the plan

Left out of the modules above:

* *Balancer*: a NewSubConn that failed is not retried by the code and has no progress
  to state. *Breakers*: builds of several pickers at once over one manager, which
  the node filter makes possible; pickers replaced while a call is being picked with
  them (their calls count as those of the breaker of their address);
  `HealthAwarePickerBuilder` apart from `CombinedPickerBuilder`, whose health half is the
  same filter. Clocks everywhere are "the timeout passes".
* *Client*: dial options, credentials, message sizes, and the conversions of errors
  keep no state that anything depends on. A user who calls its methods from
  several goroutines at once, or gives it an empty list, which ends in the base balancer.
* *Discovery*: registering services (`Register`, `Unregister`), which servers do;
  a Consul agent whose index goes back; names of endpoints that cannot be parsed.
* *Policies*: the weights stay what they were from one Build to the next, which a
  new picker cannot tell; `PopItem` and `RemoveItem` of the queue have no callers.
  That p2c starves nobody is not checked: its choice is random.
* *Node filter*: filtered pickers of one set keep counters of their own, apart from
  those of other sets; the inner picker is any choice among its nodes. A
  picker that was replaced shares nothing with its successor, so there is one.
* *Label selectors*: sets of labels are functions from keys to sets of values; their
  JSON and text forms, limits of 63 characters, texts with the byte 0, and semantic versions
  beyond whole numbers are left out.

Components not modelled:

* `resolver/subset.go` chooses a window of sorted addresses by a hash: a pure
  function that user programs call and nothing in the library depends on. On a 32-bit
  build `int(clientKey) % n` may be negative, and its weighted form gives all
  clients the same first nodes.
* `picker/picker.go`, `errpicker.go`, `metrics.go`, the logger: interfaces, constants
  and output.
* `examples/`, `test/`: programs that use the library.

The rest of the plan:

1. `FilteredPicker` over `CircuitBreakerPicker`: half-open slots spent by builds at
   pick time.
2. The client composed with the base balancer, behind an abstract channel.
