# Verification of the session-affinity gateway

TLA+ modules, TLC configurations and TLAPS proofs for this repository: a gRPC
gateway that forwards calls to backend instances, keeps every session on one
instance, and moves calls off an instance that fails.

File names below are relative to `src/`; in the modules, where a comment names
lines without a file, they are lines of the file in the module's header.

## 1. The system

```
             Login                       register, heartbeat, unregister
 client ----------------> MyAuth   MyDiscoverer <------------- MyService x 3
   |                        |          ^  |                        ^
   |                      Redis        |  | Redis                  |
   |   any method           |    list, |                            |
   +------------------> MyGateway -----+                            |
                           |     one gRPC stream per attempt        |
                           +----------------------------------------+
```

One call goes through the gateway like this: the handler looks up the route of
the method (route matcher), checks and extends the headers (validator, auth
processor, header chain), obtains a connection (connection resolver, which asks
the connection pool of the cluster), opens a stream on it and copies messages
both ways (transparent proxy). When the stream fails the handler reports the
instance (`OnBackendFailure`), which closes its connection, drops it from the
list and unregisters it at the discoverer, and may try again with another one.

### MyGateway: connection pool (`MyGateway/service/connection_pool.go`)

* **State**, under one mutex: the list of instances, the session-to-instance
  bindings `keyToID`, the cached connections `instanceConn`, the rotation index
  `rr`, `closed`.
* **Operations**: `GetConnectionForKey`, `GetConnectionRoundRobin`,
  `OnBackendFailure`, `Close`; a goroutine that calls `refresh` every interval.
* **Interactions**: called by every handler through the resolver; `refresh` reads
  the discoverer *before* it takes the lock; `OnBackendFailure` calls the
  discoverer *under* the lock and ignores its error.
* **Hard**: the list applied by a refresh is stale; a caller keeps what it was
  handed for as long as it likes and reports a failure long after the pool
  changed; refresh and failure reports go on after `Close`.
* **Correct when**: an instance serves one session; open and cached connections
  are the same; a late report never closes the connection of another instance; a
  session is moved only for a reason of its own; the list follows the registry;
  the rotation is even.

### MyGateway: transparent proxy (`MyGateway/service/transparent.go`)

* **State** per call: the stream in use and its cancel function, the first client
  message, the two loop counters, the result channels of the goroutines.
* **Operations**: `Handler`, `openBackendStream`, `forwardServerToClient`,
  `forwardClientToServer`; a timer bounds an attempt on a dynamic cluster.
* **Hard**: the two goroutines report in either order and are never joined;
  `io.EOF` of the reading goroutine has two meanings; the timer races the answer
  it bounds; the first message is fetched without waiting; a transferred call
  replays one message.
* **Correct when**: the handler returns, with one of its intended results; no
  stream outlives it; each connection that failed is reported exactly once;
  attempts are bounded; OK means that a backend got what the client sent; one
  goroutine at a time sends to the client.

### MyGateway: connection resolver (`MyGateway/service/connection_resolver_generic.go`)

* **State**: the pools of the dynamic clusters, the connections of the static
  ones; not changed after start. **Operations**: `GetConnection` picks the pool by
  route and the sticky key by header; `OnBackendFailure`, `Close` delegate.
* **Correct when**: a call with the sticky header always reaches the pool with
  that key, a report reaches the pool that leased the connection.

### MyGateway: route matcher, error mapping, authentication, configuration

* `route_matcher_generic.go`: pure; the longest matching prefix wins, whatever
  the order of the configuration; an unmatched method goes to the default
  cluster or is refused, as configured.
* `grpc_error.go`: pure; which status a client sees for each error. Hard: a status
  of the gateway and one of the backend look alike to it.
* `validator.go`, `auth/token.go`, `helpers/*.go`: pure but for the clock; which
  methods need a token and when it expires. Hard: the backend checks the same token
  again, later.
* `cmd/config.go`, `cmd/main.go`: start-up; `main` closes the pools while
  handlers may still be running, which is in the pool model.
* `adapters/discoverer.go`: HTTP client of the discoverer; a 404 is an empty list.

### MyDiscoverer (`MyDiscoverer/`)

* **State**: entries with a TTL in Redis. **Operations**: register (creates or
  renews), unregister, list.
* **Hard**: listing is a `KEYS` followed by one `GET` per key, so an entry may
  expire or be deleted in between; an entry expires when heartbeats are lost.
* **Correct when**: a heartbeat keeps an instance listed; an instance that is gone
  leaves the list; a listing never names an instance that was absent throughout.

### MyService (`MyService/MyService/`)

* **Echo service**: one session per process, checked and set in two steps by
  concurrent calls (`EchoService.cs:100-117`). Correct when a second session is
  refused.
* **Registration**: register with retries, heartbeat, unregister at shutdown
  (`DiscovererRegistrationService.cs`). Hard: a gateway that unregisters a live
  instance against the instance's own heartbeat.
* **Authentication**: a second check of the token, in the local time of the process.
  Correct when it refuses only what ran out since the first.

### MyAuth (`MyAuth/`), integration tests, generated code

`Login` is one sequential handler that looks up a user and issues a token. The
integration tests and their documents are read as statements of what the system
should do; a scenario is a process of its own, which talks to the gateway while the refresh
and the processes go on. Generated stubs and container files are not modelled; the numbers of
`docker-compose.yml` (3 replicas, `RETRY_COUNT` 3, TTL 300 s, heartbeat 120 s)
guide the bounds.

## 2. The modules

| module | models | kind |
|---|---|---|
| `SessionAffinity` | what a pool promises to sessions | abstract specification |
| `ConnectionPool` | `connection_pool.go`, its callers, its refresh goroutine, the registry | implements `SessionAffinity` |
| `PoolRotation` | `ConnectionPool` with the history of the round in progress | history variable |
| `RpcLifecycle` | what the handler of one call promises to the resolver | abstract specification |
| `TransparentProxy` | `transparent.go`, the client and the backends of one call | implements `RpcLifecycle` |
| `InstanceRegistry` | what a discoverer promises to those who list it | abstract specification |
| `Discoverer` | MyDiscoverer with Redis, the registration of MyService, the adapter of the gateway | implements `InstanceRegistry` |
| `RouteTable` | `config.go`, `domain/route.go`, `route_matcher_generic.go`, the rules of `configurable_auth_processor.go`, `grpc_error.go` | pure operators |
| `AuthTokens` | a token from `jwt.go` to its two checks | pure operators |
| `BackendConfig` | the environments of MyAuth and MyService | pure operators |
| `Admission` | one call from its arrival to its status: route, token, connection, backend | composes the three above |
| `GatewayScenarios` | requests and accepted codes of the integration scenarios | extends `Admission` |
| `Gateway` | clients, gateway, processes of MyService and their sessions | composes `SessionAffinity` with the handlers and backends |
| `SessionScenarios` | the integration scenarios on sessions, the retries of the handler, the processes of MyService | extends `ConnectionPool` |
| `MCConnectionPool`, `MCPoolRotation`, `MCGateway`, `MCAdmission` | symmetry, configurations and requests | model-checking |
| `ConnectionPoolProofs`, `PoolRotationProofs`, `TransparentProxyProofs`, `DiscovererProofs`, `AdmissionProofs`, `GatewayProofs`, `SessionScenariosProofs`, `GatewayScenariosProofs` | theorems | proofs |

How they fit together: the pool is modelled in detail once and shown to implement
`SessionAffinity`; `Gateway` is built on that promise only and is shown to use nothing
but what `SessionAffinity` allows the users of a pool (`PoolKeepsPromise`). In the same
way the listing is shown to implement `InstanceRegistry`, while the pool takes whatever
list it is given. `TransparentProxy` is shown to implement `RpcLifecycle`: one connection at
a time, each reported once when it is given up, none reported that ended well. That is what
the slots of `calls` in `ConnectionPool` and the handlers of `Gateway` assume of a handler,
without its goroutines. `SessionScenarios` puts the detailed pool under real callers and is
shown to use it as `ConnectionPool` lets them (`ScenariosUseThePool`).

### ConnectionPool

| TLA+ | code |
|---|---|
| `instances`, `keyToID`, `instanceConn`, `rr`, `closed` | the fields of the pool |
| `snapshot` | the local variable of `refresh` between its fetch and its lock |
| `openConns` | the `*grpc.ClientConn` objects dialled and not closed |
| `registered` | what the discoverer would list now |
| `calls` | what each call in flight got: key, instance, connection |
| `FetchInstances`, `ApplyInstances` | `refresh` before and under the lock |
| `CallRoundRobin`, `CallSticky`, `CallRefused` | the two `GetConnection...` methods, called by a handler |
| `CallFails`, `CallEnds` | `OnBackendFailure` called by a handler; a handler that returns without |
| `Shutdown` | `Close` |
| `Register`, `Expire` | the registry moving by itself |

Each exported method holds the mutex throughout, so it is one action. A list is a
sequence without duplicates, because instance ids are Redis keys; the discoverer
gives it in any order. Dialling fails or succeeds as it likes. The request
`UnregisterInstance` may be lost. Calls that return an error and change nothing
are stuttering steps. A fetch and the callers' steps interleave freely, so a
snapshot may be arbitrarily stale when it is applied. The listing itself is atomic
here: what it really promises is `InstanceRegistry`. Failures of `GetInstances` end
`refresh` and change nothing.

### TransparentProxy

| TLA+ | code |
|---|---|
| `pc`, `attempt`, `transferAttempt` | the handler and its loops |
| `leased`, `stream` | how often `GetConnection` succeeded; the stream in `state` |
| `firstClientMsg`, `firstCh` | the variable and the channel of that name |
| `s2c`, `c2s[x]` | the goroutines of `forwardServerToClient`, `forwardClientToServer`, then what they put in their channels |
| `status`, `got`, `halfClosed`, `replies` | the backend streams |
| `reported[x]` | calls of `OnBackendFailure` for the lease of stream `x` |
| `client` | messages sent and read, half-close, cancellation |
| `GetConnection` ... `NewStreamFails` | `openBackendStream` |
| `Select*` | the `select` of the first stream |
| `Replay`, `ReplayFails`, `Await*` | a transferred stream |
| `S2C*`, `C2S*` | one receive or send of a forwarding goroutine |

The names follow the code, where "server" is the gRPC server stream towards the
client: `forwardServerToClient` carries client messages to the backend.
gRPC itself is external: `RecvMsg` and `SendMsg` answer as grpc-go documents
(`SendMsg` on a finished stream returns `io.EOF`, `RecvMsg` returns the status).
The timer of an attempt appears by its outcomes: `NewStream` fails, or it
succeeded and the stream is nevertheless cancelled. Payloads, metadata and
status texts are left out; the resolver is an oracle that answers or fails.

### Discoverer

| TLA+ | code |
|---|---|
| `ttl[i]` | the key of instance `i` in Redis and what is left of its time |
| `process[i]` | the background service of one MyService process: posting, waiting, given up, down; its attempts |
| `stray` | register requests nobody waits for any more, which are handled all the same |
| `listing` | `ListAllValues` between `KEYS` and the last `GET` |
| `answer` | what `GetInstances` last returned to the gateway |
| `kept[i]` | history: since its last registration nothing went wrong for `i` |
| `Start`, `Responds`, `TimesOut`, `Wakes`, `Stops` | `DiscovererRegistrationService`, and the death of its process at any moment |
| `RegisterInstance`, `RegisterFails`, `RegisterStray`, `UnregisterInstance` | the handlers of `http.go` over `cache.go` |
| `ListKeys`, `GetValue`, `ListingReturns` | the listing, one Redis command per step |
| `Tick` | time; nothing that is due is passed over |

The ghost fields `must` and `may` of `listing` are the instances registered throughout
and at some moment of it: they are the refinement mapping to `InstanceRegistry`.

### RouteTable, AuthTokens, BackendConfig, Admission

A configuration file is a record, a path a sequence of pieces ("/", "*", names), so that
`NormalizePrefix` and the prefix test are what they are in the code. `SortOrders` is the
set of all orders `sort.Slice` may produce: the sort is not stable, but it sees only
lengths and is deterministic, so both tables come out in the same order. A token is a
record signed with the secret of MyAuth; its claim is in seconds, the clock in ticks.
`GatewayErrorToGRPC` has the order of tests of the code.

| `Admission` | code |
|---|---|
| `raw`, `Start` | file and environment; `main` with `LoadConfig` |
| `Arrive`, `MatchRoute`, `ProcessHeaders` | `Handler`, lines 73-87 |
| `Resolve`, `ResolveFails` | `connectionResolverGeneric.GetConnection` |
| `StreamFails`, `NotImplemented` | the stream after all retries; a service without the method |
| `Login`, `Echo` | MyAuth; the interceptor of MyService and the session check |
| `Tick` | time passes between any two steps |

### Gateway

| TLA+ | code |
|---|---|
| `home`, `live` | `keyToID`, the keys of `instanceConn` |
| `rpc[c]` | the handler of one client: looking for a connection, dialling, streaming, or holding a broken stream |
| `up`, `session[i]` | the processes and `MSShared._assignedSession` of each |
| `call[h]` | code that runs at a backend: before its check, between check and write, replying, answered |
| `released` | history: the instances that lost a binding since they were last started |
| `VisitHome`, `Settle`, `NoInstanceLeft` | `GetConnectionForKey` |
| `NewStream`, `StreamFails`, `StreamEnds`, `ClientGoes` | the handler, with its report and retry |
| `Vanish`, `GatewayRestarts` | `refresh`; a new gateway with empty pools |
| `ValidateSession`, `SetSession` | `ValidateAndSetClientSession`, read and write apart |
| `Reply`, `Shutdown`, `Leave` | the three methods of the service |
| `Stop`, `Boot` | a container that is stopped, killed, started |

Code that runs at a backend outlives the call that started it: a cancelled stream
reaches the process later, and meanwhile the session may have moved. `MyServiceEcho` and
`MyServiceSubscribe` share their steps; a subscription is a call that stays at `reply`.
Which instances are listed is left open, so `Settle` may choose any free one.

### SessionScenarios

| TLA+ | code |
|---|---|
| `Script`, `test` | the run functions of `IntegrationTests/scenario`, and how far one of them is |
| `Request`, `Receive`, `CancelStream`, `Sleep`, `Verify`, ... | the statements of a run function |
| `Answered`, `Accepts` | the checks after `Echo`, `Shutdown` and `Recv`: code, and pod against the pods before |
| `handler[c]`, `GetConnection` ... `CancelledStream` | `Handler` and `openBackendStream`: next instance, retry, transfer, code at the end |
| `up`, `session`, `exiting` | the processes of MyService, and those that answered a shutdown |
| `Serve`, `Exit` | the three methods of the service; `Environment.Exit` 200 ms after a shutdown |
| `Refresh` | `refresh`, still in its two steps |

A script is a sequence of steps that are judged as the Go code judges them. The messages'
index, their texts and the polling of docker-compose are left out. A failed `NewStream` is
a refused or vanished host; one that is ended by the timer of `RETRY_TIMEOUT_MS` would
answer `CANCELLED`, which does not happen while containers answer or are gone.
`SubscribeStream` tolerates an error once two messages have come; the model never needs that.

## 3. The runs

| run | cfg | asks |
|---|---|---|
| `pool_safety` | `MCPoolRotation.cfg` | bindings, cache, list and leases stay consistent in every interleaving, the rotation is even, and the pool implements `SessionAffinity` |
| `pool_liveness` | `PoolLiveness.cfg` | the list of an open pool follows the registry in both directions |
| `pool_refresh_doc` | `PoolRefreshDoc.cfg` | finding 1 |
| `pool_sticky_doc` | `PoolStickyDoc.cfg` | finding 2 |
| `proxy` | `TransparentProxy.cfg` | reports, streams and results of one call; it implements `RpcLifecycle`; it returns and its goroutines end |
| `proxy_replay_doc` | `ProxyReplayDoc.cfg` | finding 3 |
| `proxy_retry_doc` | `ProxyRetryDoc.cfg` | finding 4 |
| `discoverer_safety` | `Discoverer.cfg` | an instance stays listed while its heartbeats succeed, returns after it was unregistered, leaves when it stops; `KEYS` and `GET`s implement the abstract registry |
| `admission` | `Admission.cfg` | route, two token checks, sticky key and cluster under many configurations; the codes of the scenarios |
| `gateway` | `Gateway.cfg` | one process per session, no conflict and no foreign session at an instance that kept its binding, correct use of the pool |
| `gateway_doc` | `GatewayDoc.cfg` | finding 5 |
| `session_scenarios` | `SessionScenarios.cfg` | every scenario on sessions ends and passes, in every interleaving with the refresh and with lost unregister requests |

**Bounds of the pool.** Two instances, two sessions, two calls: enough for a late
report of one call about an instance another session meanwhile took, with a
snapshot pending. Connection identities are reused only when nothing refers to
them; one per instance and per call suffices for a fresh one to exist whenever
the pool dials (four). The ids are interchangeable, so the safety run uses symmetry;
the liveness run does not, and keeps one session and one call.

**Bounds of the proxy.** `RetryCount = 2`: one retry of an attempt and one transfer,
the first and the last of each loop. `Messages = 2` so that a transfer can leave
one unread, `MaxReplies = 1` per stream. `Streams` is
`RetryCount * RetryCount + 1`, one more than the code opens (`LeaseBound`), so
that no property is true by the bound. The handler of a finished call is a
state without steps, so these runs do not check deadlock; that nothing stops
earlier is `HandlerReturns`.

**Bounds of the discoverer.** One instance, since instances touch each other
only in a listing; that a listing of any number of them implements
`InstanceRegistry` is a theorem, `ImplementsRegistryHolds`, and the run checks
the same of one instance that expires, is unregistered or registers between
`KEYS` and its `GET`. A request may be under way longer than its process waits
(`MaxDelay` 2, `HttpTimeout` 1), so that late requests meet a restarted process;
`Ttl` is the smallest that satisfies `HeartbeatInTime`, so that one tick less
breaks the property.

**Bounds of the admission.** About a hundred configurations: the one of
`docker-compose.yml`, each of its fields broken, every pair of four overlapping entries in
any order (also behind the login route), a default cluster, a secret with space around
it, backends that do not start. The requests are those of three scenarios and two with
a second sticky header. Two ticks per second, tokens of three ticks, five ticks in all: a
token ends within a second and between any two checks. One call at a time, since calls
share nothing but the last token.

**Bounds of the gateway.** Two instances, sessions, clients and backend calls, three
calls of clients in all and one fault (a process or the gateway stops, a refresh shrinks
the list) beside any number of failures that are reported: enough for an abandoned call
that writes its session after the instance was given to another one, for a third call to
see it, for a process that starts again, and for two calls at one instance that kept its
binding. More faults are left to the proofs, which hold for any number. The run stops at these bounds, so it
does not check deadlock.

**Bounds of the session scenarios.** The configuration of `docker-compose.yml`: three
replicas, `RETRY_COUNT` 3; the four sessions of the largest scenario; two calls, the second
being that of a stream just cancelled; two refreshes, so that a stale list is installed and
corrected. TTL and heartbeat (300 s, 120 s) outlast a scenario, so nothing expires and
nothing that was unregistered comes back but by a stale list.

**Fairness.** `ConnectionPool!FairSpec` assumes only the refresh goroutine: its
ticker fires again and again and the discoverer answers again and again. Nothing
is assumed of callers or backends. `TransparentProxy!FairSpec` assumes that the
goroutines run (`Handler`, `S2C`, and `C2SSends`/`C2SEnds`, but not that a backend
replies), that a backend which was given a half-close finishes or breaks off, and
that a client half-closes or goes away in the end. Nothing makes a client send.
`Discoverer!FairSpec` assumes that time passes, that the task of a running process wakes
when due, that requests are handled or fail, and that a registration tried again and
again succeeds some time. Nothing makes a process start or stop, a gateway list or
unregister. `SessionScenarios!ScenarioSpec` assumes that handlers, processes that are about
to exit and the test go on, and nothing of the refresh. `Admission` and `Gateway` state
safety only.

**Conditions in properties.** `OneSenderToClient` and `OkMeansServed` are stated for
a client that sent one message at most. With more, an unreadable second message
ends the reading goroutine with an error, the call moves, and the goroutine of the
old stream may still be sending; that a longer client stream is moved with its
first message only is finding 3. Both also say nothing once the client is gone.
`GoodUntilLastSecond` excludes a `JWT_SECRET` with space around it: the gateway trims
it, MyAuth and MyService do not, and then no token passes. The properties of `Gateway`
speak of instances that kept their binding (`released`). That condition is the point of
the run, not a gap in it: a process never forgets its session, so once the gateway gave a
binding up (a failed or cancelled call, a refresh, a restart) the next session there is
refused with a conflict until the process restarts; TLC reaches such states.

### Findings

1. `refresh` walks the *cached connections*, so a session bound to a removed
   instance whose connection is already closed keeps its binding, and keeps the
   instance occupied when it returns. `README.md:64` promises that sticky bindings
   are cleared (`RefreshClearsBindings`).
2. `OnBackendFailure` deletes the session's binding without comparing it with the
   instance that failed: a late report moves a session off a healthy instance.
   `README.md:58` promises stickiness until failure (`BoundUntilFailure`). What does
   hold is `BindingIsSticky`: only a report of the session itself can do it.
3. A client stream of several messages is moved with its first message only and
   may end with OK (`transparent.go:163`, `DocSingleMessageTransfer`).
4. `RETRY_COUNT` does not bound the attempts of a call. Each transfer calls
   `openBackendStream`, which counts from zero, so a call may take `RETRY_COUNT`
   connections for its first stream and for each of `RETRY_COUNT - 1` transfers.
   `transparent.go:41` calls the parameter the "max attempts for dynamic clusters" and
   line 66 says that a failed stream is retried "within retryCount" (also `transparent.go:26`,
   `MyGateway/README.md:59` and `:299`, `README.md:50` and `:84`). With `RETRY_COUNT` 2 a
   call takes a third connection (`DocRetryBudget`), and a fourth too, so the promise is
   not kept either when `RETRY_COUNT` is read as the retries after a first attempt. Each
   of these instances is unregistered. What the code does keep to is the square,
   `LeaseBound`, which is proved.
5. A backend that answers with an error has failed, for the gateway: a shutdown denied
   with `PERMISSION_DENIED` unregisters the instance and is sent to the next, and when
   the instances run out the client is told that all are busy, instead of what
   `IntegrationTests/scenario/myservice_shutdown_errors.go:28` expects (`DeniedIsTold`).
   With three instances and `RETRY_COUNT` 3 the client is told correctly, after all
   three were unregistered until their next heartbeat.

Not findings, but worth knowing:

* `connection_pool.go:70` says of `refreshLoop` that it "exits when the pool is closed", and
  goes on that its "goroutine lives until process exit". The code does the second: nothing
  in the loop tests `closed`, and a closed pool goes on asking for its instances, as the model
  does. `ClosedForGood` says that nothing comes of it; `GoneIsDropped` and
  `RegisteredIsOffered` are about an open pool only, and say nothing for either sentence.
* `ListAllValues` takes a failing `GET` for a key that is gone and leaves the instance out
  of the answer; `ImplementsRegistry` is stated for listings of which no `GET` fails.
* With three replicas `myservice_shutdown_errors` never does its second step: the denied
  shutdown of the first takes all three instances off the list, so the Echo finds none and
  the step is skipped. When a refresh overlaps the first step and brings instances back, the
  last step may run out of them and the scenario fails; `ScenariosPass` excepts that case.
* `gateway_error_unavailable` passes because `RETRY_COUNT` is not above the number of
  instances: with one attempt more the client is told `RESOURCE_EXHAUSTED`, which is the
  mutant of `ScenariosPass`.

## 4. The proofs

Checked by tlapm for every value of the constants that satisfies the named
assumptions, which TLC evaluates in every run:

* `NullsAreFresh`, `IdsAreFinite` (`ConnectionPool`): the null values differ from the
  real ones, the ids a discoverer can list are finitely many.
* `RetryCountPositive`, `ClientBounds` (`TransparentProxy`): the configuration
  refuses a `RETRY_COUNT` below one; the two bounds are numbers.
* `TimesAreNumbers`, `NoListingIsFresh` (`Discoverer`): the timers are numbers. Two
  theorems have a hypothesis of their own: `HeartbeatInTime`, that the time to live
  outlasts a heartbeat that is as late as it can be (the defaults do: 300 s against 10 s
  for a response, 120 s and the delay of a request; nothing checks other values), and that
  no `GET` fails.
* `SecondAssumption`, `LifetimeAssumption`, `ZoneAssumption` (`AuthTokens`): numbers, and
  that MyAuth or MyService runs in UTC, as both do in the containers: otherwise
  `JwtVerifier` compares local time with UTC. `ConfigsAreTyped` (`Admission`): a list of
  routes is a list.
* `BoundsAssumption`, `NoInstanceAssumption`, `NoKeyAssumption`, `NoCallAssumption`
  (`Gateway`): the bounds are numbers, the null values are not real ones.
* `ScenarioSetting` (`GatewayScenarios`): the cluster `myauth` of a loaded file serves
  the logins, `wrong` is no user's password, and every login is for the session of which
  the scenarios hold a token.

**ConnectionPoolProofs.** `Safety` proves `Spec => []IInv`; the invariants of
`pool_safety` follow from its conjuncts, `BindingIsStickyHolds` and
`DisconnectedOnlyWhenDelistedHolds` from the invariant in both states of a step,
`ImplementsAffinityHolds` maps every step to a step of `SessionAffinity` or a
stutter. Why the invariant is needed: `OneSessionPerInstance` is inductive
alone, but that the open connections are the cached ones needs the cache to be
injective (closing one entry must not close another's connection), a lease
remains good because a fresh connection is nobody's lease, and the index stays
inside the list only if the pending snapshot is itself a list without duplicates
(`SnapshotIsList`).

**TransparentProxyProofs.** `Safety` proves the invariant `IInv`: the order in which
streams are numbered (`StreamOrder`), what the handler holds when it goes round its
loop (`LoopState`; in particular it never transfers without a message), that a live
stream is the one being worked on (`LiveIsWorkedOn`), the account of reports
(`ReportAccount`) and who may send to the client (`SenderIsCurrent`).
`NoUnexpectedTermination`, `NoStreamLeftBehind`, `ReportedOnce` and
`OneSenderToClient` follow. The step is split by actor (`OpeningSafe`,
`SelectingSafe`, `TransferringSafe`, `S2CSafe`, `StreamsSafe`, `ClientSafe`).
`LeaseBoundHolds` (what the loops come to, not what the documentation allows: finding 4)
needs an account of its own, `BudgetAccount`: what was leased is
bounded by the transfers made so far, `RetryCount` each (`Spent`), plus the attempts of
the stream being opened. The product is why it is kept apart from `IInv`: its step
(`BudgetStep`) rests on two arithmetic lemmas and on the handler's actions alone.
`OkMeansServedHolds` needs an account of the messages, `ServiceAccount`: a stream that
nobody forwards yet has seen nothing and cannot have ended well (`Untouched`); what a
backend has is among what was read of the client, and the first stream has all of it but
the message that is being sent (`MessageAccount`); a backend ends well only when it was told
that its input is complete, and then it has the first message, unless the client closed
without one (`CompleteInput`). `AccountsHold` proves both accounts together.
`ImplementsLifecycleHolds` maps the phases of the handler to those of `RpcLifecycle` and
every step of a goroutine, the client or a backend to a stutter; the budget of `Take` is
where `BudgetAccount` is needed again.

**PoolRotationProofs.** `EvenRotation` compares an instance with a history of a round, so
its invariant says where that history is: the instances served in a round lie in one piece
of the list that ends behind `p.rr` (`Turns`, `RoundAccount`), and a round is under way only
while every listed instance is connected, or the pool is closed. Then the next instance is
the one after that piece, and it is a new one until the piece is the whole list. A sticky
call moves neither, a reinstalled identical list keeps the index, and every other change
of the list ends the round.

**DiscovererProofs.** `TypeOKHolds` comes with `ProcessShape`, what the parts of a process
have to do with each other. `HeartbeatKeepsListedHolds` rests on `Margin`: at each point of
its loop a process that was kept has more time left in Redis than the rest of the loop
can take, so the sum of `HeartbeatInTime` is used up term by term. `ImplementsRegistryHolds`
rests on `ListingCovers`: what a listing must name is among what it found and what it
still has to read.

**AdmissionProofs.** `FirstMatchIsLongest` is the argument of the matcher: in a list
sorted by length the first prefix that matches is a longest one, and any longest one
is a route of the file because an order is onto. `InvariantHolds` adds that a served
configuration was loaded, that the route in an RPC is that of its method, and that every
signed token was signed by MyAuth (`Genuine`). The six theorems on routes and tokens
follow. The two on the last second use that both checks and the promise round the same
instant to the same second.

**GatewayProofs.** The two safety properties are not inductive: they need that *everything*
about an instance that kept its binding belongs to one session, the session in its
memory, the calls that run in it and the leases on it (`Attached`). An instance stays
attached because bindings are one to one (`OneToOne`), because a lease is given only with
the binding, and because every step that changes a binding releases the instance; it
becomes attached again when it starts with no lease on it. `HandlersUsePool` maps every
step to a step of `SessionAffinity`, with `using` the pairs of session and instance the
handlers hold.

**SessionScenariosProofs.** For any instances, calls and `RETRY_COUNT`, and any of the nine
scripts: `ScenarioSafety` proves the pool's `IInv` together with `Rest`, the types of the
processes, handlers and the test, that an RPC has a lease exactly when it is beyond its
search and not over (`HandlersOK`), and that the test waits for one answer at a time, in a
step that is for a session (`OneAtATime`). The last is what makes it inductive: an answer
writes to what the test remembers of the session of its *current* step, which is a session
only if that step asked for the answer. That every script is made of such steps is
`ScriptsAreSound`. `PoolStep` then maps each step of the system to a step of the pool or a
stutter, and `PoolHoldsInScenarios` carries the pool's theorems over.

**GatewayScenariosProofs.** `ScenariosAlwaysHold`: the scenarios on logins and tokens send
their requests in one order, to one user store; the theorem is about any order, clock and
store, other requests in between, and any file whose routes are those of docker-compose.
A case is an echo without a good token or a login on whose answer the store has no say
(`CasesAreClear`). That the echoes are refused needs two facts about earlier steps: the
tokens issued so far are for the one session that logs in (`OneSession`), and an RPC
carries what its header says (`TokenAsSaid`). Then an echo of a case never gets beyond the
check (`EchoesRefused`), and a login reaches `myauth` and nothing else (`LoginAnswered`),
because each method has the prefix of one route only (`DockerPrefixes`).

The inductive invariants were checked by TLC before they were proved, in the configurations
of `proxy`, `pool_safety`, `admission` and `session_scenarios`; as properties of those runs they would
only repeat the theorems.

**Only model-checked:** the liveness properties and with them `ScenariosPass`, which are
out of the prover's reach.

## 5. Not modelled

Payloads, metadata, trailers, status texts, logging and metrics; the wire formats
of the discoverer and of tokens; YAML; time in the pool and the proxy, except as timeouts
that may or may not fire, so a call that waits while another one holds the pool's lock
during an unregister request is not a defect the models show. Cryptography (a signature
verifies under the secret that made it). Keepalive and reconnection inside grpc-go.
`MSShared.HasAssignedSession`, which nothing calls. Generated stubs and container files; of
the harness of the integration tests the start of the containers and its polling.

## 6. What is left

* `Gateway` leaves open when a handler stops retrying; with the budget of `RpcLifecycle` it
  could say how many instances one call may take down.
* The code a client is told in `SessionScenarios` as a theorem: `UNAVAILABLE`
  for every `RETRY_COUNT` up to the number of instances.
* Two gateways over one discoverer: nothing in the code coordinates them.
