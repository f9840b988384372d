# TLA+ models of gotechbook/pkg

This directory holds TLA+ models of the service registration and discovery
core of `gotechbook/pkg`, plus the parts of the rest of the library that have
behaviour worth model checking. The models are checked with TLC. Every
definition is translated from the Go source under `src/`. `PROJECT.json`
maps each definition to the lines it models.

## 1. Inventory

### Components, their state and operations

| Component | Source | State | Operations |
|---|---|---|---|
| etcd Registry | `endpoint/etcd/etcd.go`, `options.go` | `opts` (ctx, namespace, ttl, maxRetry), `client`, `kv`, `lease` (the lessor last made by Register) | `New`, `Register`, `Deregister`, `GetService`, `Watch`, `registerWithKV` |
| Lease supervisor | `etcd.go` `heartBeat` | per goroutine: `curLeaseID`, `kac` (keep-alive channel), `retryCnt`, `retreat`, per-attempt `idChan`/`errChan`/`cancelCtx` | keep-alive, select on the channel or `opts.ctx`, bounded re-registration loop with a 3 s timeout race, keep-alive after re-registration, first-response wait |
| Discovery | `etcd.go` `GetService`/`Watch`, `endpoint/discovery.go`, `watcher.go` | none (reads the store); the Watcher's session | prefix read + name filter; `Next`, `Stop` (`newWatcher` is not in `src/`) |
| Instance model | `endpoint/instance.go`, `endpoint.go` | immutable record | `Equal`, `Marshal`, `unmarshal`, `ParseEndpoint`, `Scheme` |
| App lifecycle | `app/app.go`, `options.go` | `ctx`/`cancel`, `instance` (under `mu`), options | `Run` (errgroup of server Start/Stop, Register, hooks, signal wait), `Stop` (beforeStop, Deregister, cancel) |
| Middleware matcher | `middleware/matcher.go` | `prefix` (sorted descending), `defaults`, `match` | `Use`, `Add`, `Matcher` |
| Middleware chain, recovery | `middleware/*.go`, `middleware/recovery` | none | `Chain`, `Recovery` |
| Logger | `logger/*.go` | global logger pointer behind a lock that readers skip | `SetLogger`, `Log`, filters |
| Codec registry | `codec/*.go` | global map | `RegisterCodec`, `GetCodec` |
| Transport, OAuth2, DB, Redis, eth, utils, errors | the rest | wrappers of third-party clients | constructors and pass-throughs |

### Interactions

* `App.Run` builds the `Instance` from the server endpoints and starts each
  server in an errgroup. It then calls `Registrar.Register` with a 10 s
  timeout. `App.Stop`, run from the signal goroutine or by a caller, calls
  `Deregister` and cancels the app context.
* `Registry.Register` grants a lease and puts the key under it. It then starts
  `heartBeat` as a detached goroutine under `r.opts.ctx`, which defaults to
  `context.Background()`. The goroutine shares `r.lease` and `r.client` with
  later Register and Deregister calls.
* `heartBeat` takes its keep-alive channel from `r.client.KeepAlive`, the
  client's built-in lessor. `r.lease` is only used for `Grant`, so closing it
  (Register, Deregister) does not stop a running keep-alive.
* Each re-registration attempt runs `registerWithKV` in its own goroutine.
  A `select` races the attempt against a 3 s timer.

### What is hard

* A detached goroutine runs concurrently with later Register and Deregister
  calls on the same Registry.
* Failures in the store: outages, lost leases, keep-alive channels that
  close, and slow calls that hit the timeout.
* Timeouts that abandon a write which may still land later.
* Bounded retries with several `continue` paths, and cancellation through
  several blocking points.
* In the App: Stop racing Run, and early returns on errors that skip the
  cleanup.

### Correctness properties per component

* Lease supervisor: the lease a healthy-looking goroutine renews is the one
  the key is on; re-registration episodes end; the goroutine gives up only
  after `maxRetry` failed attempts; at most one lease is kept alive.
* Registry: after a successful Deregister the key stays gone.
* Discovery: `GetService(name)` returns only records whose decoded name is
  `name`; a snapshot reflects the store.
* Instance: `Equal` is equality of id, name, version, metadata as a set of
  pairs and endpoints as a set.
* App: after Stop returns, the instance is not registered and every server
  has been stopped; Run returns after Stop.
* Matcher: `Matcher(op)` returns the defaults followed by the exact match,
  or else by the longest registered prefix of `op`.
* gRPC server: a panic below a Recovery middleware never kills the process;
  the service handler runs only for a skipped method or a valid bearer
  token; a request without credentials is answered Unauthenticated.
* Logger: a Filter-wrapped logger writes each pair with its value masked
  exactly when its key or value is filtered, and nothing below the level.

The hazards these properties aim at are listed, each at its line, under
`"hazards"` in `PROJECT.json`.

## 2. Plan

1. **EtcdRegistry** (done): Register, Deregister and heartBeat against an
   etcd environment. It has passing runs, violation runs for the divergences
   found, and mutants.
2. **Discovery** (done for `GetService`): the prefix read, the decode
   failure and the name filter, as an action over a store that misbehaving
   writers share. Left: the Watcher, modelled from spec §4.3
   (`spec_modelled`, because `newWatcher` is not in `src/`).
3. **Instance** (done): `Equal` as an operator checked against the
   equality of spec §3, with its in-place sort of the endpoint lists.
4. **App** (done): Run and Stop as processes, against the `Registrar`
   interface the App sees. Left: composition with EtcdRegistry through
   `INSTANCE`, where the resurrection of the registry and the Stop/Register
   race of the App would meet.
5. **LeaseSupervisor (abstract)** (done): the spec's `UNLEASED → LEASED →
   (OK ⇄ RECOVERING) → CLOSED` machine, with EtcdRegistry shown to
   implement it under a refinement mapping of `hpc`. The code's two
   departures (timeouts retried, the early give-up) are written into the
   abstract machine and shown by their own runs.
6. **Matcher** (done): Use, Add and Matcher, with the longest-prefix
   choice checked.
7. **GrpcServer** (done): a unary request through the own interceptor
   (Matcher, Chain), Recovery, the authorization interceptor and ParseToken.
8. **Logger** (done): SetLogger, the package functions, Helper, Filter and
   the std logger.
9. A violation run for the spec's backoff rule (spec §4.2: back off after
   every retriable failure, abort on timeout).

## 3. Modules

### EtcdRegistry (`EtcdRegistry.tla`, instantiated by `MCEtcdRegistry.tla`)

It models one instance, and so one key. The store keeps only the lease the
key is attached to (`keyLease`, 0 when absent, as the code's `curLeaseID`
sentinel). The serialized value is fixed and is not modelled.

| Code | Model |
|---|---|
| `Register`, lines 40-56 | `RegisterGrant` (close old lessor, new lessor, Grant), `RegisterPut` (Put, `go heartBeat`) |
| `Deregister`, lines 58-67 | `DeregisterCall` (Delete; deferred Close has no store effect), and `Deregister`, its call by a caller that makes one call at a time |
| `registerWithKV`, lines 94-104 | `GrantOk`, `PutOk`; inside a heartBeat attempt: `AttemptGrant`, `AttemptPut` |
| `heartBeat` start, lines 106-112 | `HeartBeatStart` |
| loop head and retry loop, lines 114-125 | `RetryLoop`, `StartRetry`, `NextRetry` |
| select on timer/errChan/idChan, lines 136-143 | `SelectTimeout`, `SelectErr`, `SelectId` |
| KeepAlive after re-registration and backoff, lines 145-151 | `RetryKeepAlive` |
| `<-kac` after the loop, lines 152-156 | `FinalRecv` |
| bottom select, lines 158-172 | `HeartBeatSelect` |

The environment consists of `StoreDown`/`StoreUp`, `Expire(l)`,
`LandPut(l)` and `CancelCtx`. It models clientv3's behaviour as used here:

* a keep-alive channel closes when its lease is gone or its context is done;
* `KeepAlive` returns a closed channel together with any error;
* lessor `Close` neither revokes leases nor touches another lessor's
  channels.

Each environment fault spends one unit of `MaxFaults`: an outage, the loss
of a lease in use, a timeout, or a KeepAlive error. A lease no goroutine
uses expires at no cost, as its TTL would.

**Bounds.** `MaxRetry = 2` covers both the first and the last iteration of
the retry loop. `MaxFaults = 3` allows a loss, a timeout and an outage in
one behaviour, or two consecutive episodes. `MaxLeases` follows from the
other bounds: one grant per Register call and at most `MaxRetry` per
episode, and every episode costs a fault. So a grant is never refused
because the bound ran out.

**History.** `stray` records that an abandoned Put landed on a live lease
while the store was up, until the next successful Put. The passing run
checks `KeyOnKeptAliveLeaseBarLatePut` (the invariant except after such a
landing) with late puts enabled; `late_put` shows the landing itself.

**Refinement.** `Supervisor == INSTANCE LeaseSupervisor WITH ...` maps each
goroutine's `hpc` to a supervisor state (`none` → UNLEASED, `start` →
LEASED, `watch` → OK, the retry steps → RECOVERING, `exited` → CLOSED),
`retryCnt` to `attempts`, and "in `keepalive` or `final` with attempts
left" to `acquired`. `SupervisorRefined` is the abstract `Spec`, fairness
included, checked as a property of the detailed one.

**Fairness.** The model assumes weak fairness of every goroutine step and of
the store's answer to a Grant or Put. Go schedules runnable goroutines, and
an etcd call either returns or fails. Outages, lease losses, late puts,
cancellation and the caller's calls get no fairness.

### LeaseSupervisor (`LeaseSupervisor.tla`)

The abstract supervisor, one per registration: `st`, the failed
`attempts` of the current episode, whether the current attempt `acquired`
a lease, and `cancelled`. `Start`, `Lost` and `CancelCtx` are the caller's
and the environment's; `Up`, `AttemptFailed`, `Acquire`, `Recovered`,
`GiveUp` and `Cancel` are the supervisor's own steps, with weak fairness:
it is a goroutine that Go schedules.

### Instance (`Instance.tla`, `MCInstance.tla`)

The state is a receiver `x` (an `*Instance`, possibly nil), an argument `y`
(the `interface{}` passed to `Equal`) and the last `result`. There is one
action, `CallEqual`. It computes `Equal(x, y)` and applies the side effect of
lines 40-41: when the lengths match, `sort.Strings` sorts both `Endpoints`
slices in place. An argument is an instance, a nil interface, a value of
another type or, when `TypedNilArg` holds, a nil `*Instance` in the
interface. Only the nil interface compares `== nil` in Go; the typed nil
passes the type assertion and is dereferenced (`Panic`). Metadata is a
function over the keys present, and `Lookup` returns `""` for a missing key,
as a Go map does. Endpoint URIs are numbers ordered as the strings they
stand for.

Bounds: two ids, one name and one version; metadata over two keys with
values `""` and `"v"`; endpoint lists of up to two of two URIs. Those bounds
include reordered, repeated and differently sized lists, and maps of every
size.

### Matcher (`Matcher.tla`)

The variables are `prefix`, `defaults` and `match`, as in the struct, and
`adds`, which bounds the number of `Add` calls. `Use` and `Add` are actions. `Add` includes the
append and the descending `sort.Slice`, using `StrLess`, which is Go's
bytewise string order written as a recursive operator. `Matcher(op)`
changes no state, so it is the operator `MatcherOf`. A list of middlewares
is one value of `MW`. `Chain` is the recursive operator `ChainFrom`: it
nests the lists from the last to the first, so a handler is a sequence of
layers, outermost first.

### GrpcServer (`GrpcServer.tla`, `MCGrpcServer.tla`)

It extends Matcher with `served`, the request being answered. A request is
its operation, its authorization header (absent, empty, one word, another
scheme, bearer) with a token, the language header (absent, empty, set) and
whether it carries X-Request-ID.

* `Handle` is `unaryServerInterceptor`: it asks `MatcherOf(op)`, chains
  the lists around `Inner("unary")` (the list of
  `WithServerUnaryInterceptor`, then the service, as `NewServer` orders
  the chain), and runs the layers.
* `HandleStream` is `streamServerInterceptor`: no middleware, so the
  layers are `Inner("stream")` alone and nothing recovers a panic.
* `Authorize` and `AuthorizeStream` are the authorization interceptors
  branch by branch: skip list (unary only), `val[0]` on a missing header
  (a panic), empty value, no space, scheme, `ParseToken`. `ParseToken`
  is jwt v4's order: `ClaimsValid` first, which panics on a token without
  exp or iat (`Unix()` on a nil `*NumericDate`), accepts `ExpiresAt ==
  IssuedAt` and rejects an expired token; only then the signature.
  `Bearer` is what the interceptor makes of it: the panic propagates, an
  error is returned, an accepted token goes on.
* `Language` always calls on (its `val == nil` guard). `RequestLog` calls
  on, except that the stream version's `[0]` on a missing X-Request-ID
  panics.
* `Serve` lets any middleware but Recovery, or the service, panic. `Run`
  finds the first layer that does not call on; a panic becomes an error if
  a Recovery layer is outside it, and a crash otherwise.
* `Configure` is Use and Add, which `WithServerMiddleware` calls. Requests
  are answered one at a time (`Reply` clears `served`), because they share
  only the matcher and only read it.

Bounds (`MatcherPrefix.cfg`): strings of up to two bytes over two byte
values (seven strings, the empty one being the selector `"*"`), two `Add`
calls, two middleware lists of which one holds Recovery, one skipped
method, request logging, language and authorization in both interceptor
lists, every form of each header and one token of each kind ParseToken
tells apart. That is enough for nested prefixes, for an exact and a prefix
selector for the same string, and for Recovery among the defaults, among
the selected lists, or absent.

### Logger (`Logger.tla`, `MCLogger.tla`)

`global` is the logger behind the package functions (`std` until
`SetLogger` installs the Filter). `written` is the line the std logger
writes for the last call, and `call` the call itself. `exited` is set by a
Fatal variant. `FilterLog` is `Filter.Log`: the level gate, FilterFunc on
the prefix and on the list, then the masking loop `Mask`. `StdLog` is the
std logger's empty-list case, odd-list padding and pairing. The Helper
is built over the Filter with its own message key. The reference
`Expected` states the intended line pair by pair; `FilteredAsPairs`
compares it with what the code writes. Bounds: five words, key-value
lists of up to three words (odd lists included), all five levels.
Deadlock is not checked: a Fatal call ends the process.

### Discovery (`Discovery.tla`, `MCDiscovery.tla`)

The store maps a key `<<name, id>>` to the decoded `name` field of its
value, or to `Bad` when `unmarshal` would fail. Service names are strings,
so `MCDiscovery` can take `"a"` and `"ab"`. `Put` stands for Register's Put
and for misbehaving writers (a record under another service's key, or a
value that does not decode). `Delete` stands for Deregister or lease
expiry. `GetService(n)` reads every key whose name segment starts with `n`,
as the prefix `{namespace}/{n}` does. It fails with `ErrDecode` if any of
them is `Bad`; otherwise it keeps the records whose decoded name is `n`.
`GetServiceFails` is the `kv.Get` error path. The history variable `seen`
keeps the store each call read, so results are judged against it.

Bounds: two names, one a prefix of the other, two ids and three writes.

### App (`App.tla`, `MCApp.tla`, `MCAppRegistry.tla`)

Run's program counter `rpc` walks the statements of `Run`: `RunBuild`
(buildInstance and setInstance), `RunBeforeStart`, `RunSpawn` (the `eg.Go`
calls), `RunRegister` and `RegisterReply`, `RunAfterStart` (which starts the
signal goroutine), and `RunWait`, which includes `afterStop`. Each server
has two goroutines. `startG` runs `srv.Start`: `ServerStart` listens and
serves, and `ServeReturns` fires when Serve returns after `GracefulStop`
has returned. `stopG` waits for the group's context and runs `srv.Stop`:
`ServerStop` is `health.Shutdown` and the start of `GracefulStop`, which
refuses new RPCs, and `GracefulStopDone` is its return once no RPC is in
flight. `Server.Stop` never reads the `stopTimeout` context `Run` gives it,
so nothing bounds that wait. `rpcOpen[s]` is a client RPC open on server
`s`, such as a health Watch stream: clients open one on a serving server
(`OpenRPC`) and end it (`EndRPC`) as they like.
`Stop` runs per caller: `"ext"` is any goroutine calling `App.Stop`, and
`"sig"` is the signal goroutine. Its steps are `StopBeforeStop`,
`StopDeregister` (getInstance, then Deregister) and `StopCancel`. An
error a Stop returns to the signal goroutine becomes the group's error
(`egErr`), which also cancels the group's context.

The registrar is abstract, as it is to the App. A Register whose context is
done fails without writing. Otherwise its write is sent (`RunRegister`) and
its reply comes later (`RegisterReply`). A failed Register writes nothing;
the etcd registry's own failures are EtcdRegistry's concern. Servers behave
as `transport/grpc.Server`, the only implementation in `src/`: Serve blocks
until GracefulStop has returned, and a Start after GracefulStop has begun
returns `ErrServerStopped`.
`CallsMayFail` lets every listen, Extract and registrar call fail, and every
hook that is present.

New's options are the constant `Options`, a sequence of records, one per
`Option` passed to `New`. `NewOptions` folds `ApplyOption` over it, starting
from `DefaultOptions`, as `New` applies each option to `options`. That is
how the model gets its servers, whether it has endpoints and a registrar,
and how many hooks of each kind there are. `WithServer` and `WithEndpoints`
replace what an earlier option set, and the hook options append. A hook
can fail (`HookFails`) only when at least one is configured, since `App`
skips an empty list. Options that set no part of the modelled state
(name, logger, timeouts and the like) are kind `"other"` and change
nothing. `MCApp.tla` passes two servers, one endpoint, a registrar, one
hook of each kind and a name. `MCAppRegistry.tla` passes one server, one
endpoint and the registrar for `AppRegistry`. A server is built either
bare or with `WithServerListener` (`GivenListener`), whose listener
`listenAndEndpoint` then keeps.

Each server's listener state `lsn[s]` holds three things: the port of its
listener (a listen on `":0"` takes a fresh port), the port its endpoint was
extracted from, and `s.err`. `ListenAndEndpoint` is `listenAndEndpoint`:
it listens only without a listener, and it extracts only without an
endpoint. A failure of either step sets `s.err`, which nothing resets and
which every later call returns.

With endpoints configured (`HasEndpoints`), `RunBuild` calls `Endpoint()`
on every server (`BuildCalls`) and records each endpoint's port in `adv`;
any error is Run's. `ServerStart` runs `listenAndEndpoint` again before
Serve. `AdvertisedIsServed` requires every serving server to serve on the
port the instance advertises. Its mutant drops the `s.listener == nil`
test, so Start listens on a new port.

**Bounds.** `AppStop.cfg` uses two servers, so that one server can fail
while the other is serving. Stop is called at most once by each caller.

**Fairness.** The model assumes weak fairness of Run, of both goroutines of
every server (`GracefulStopDone` included: once no RPC is open it returns),
of the signal goroutine and of every Stop in progress. The registrar's reply
is part of Run. Calling Stop, sending a signal, and opening or ending an RPC
are the users' and clients' doing and get no fairness. The two liveness
properties therefore assume `RPCsEnd`: eventually no RPC stays open. Without
that assumption they fail, because a stream a client keeps open holds
`GracefulStop`, and with it Run, for ever.

**Deadlock.** It is not checked. A state with no step is one where Run has
returned and no Stop is running: the program may end there.

### AppRegistry (`AppRegistry.tla`)

The App with the etcd Registry as its registrar. It declares the variables
of both modules and instances them: `R` is EtcdRegistry, and `A` is App with
`registered` defined as "the store holds the key" (`keyLease # NoLease`).
The App steps that do not call the registrar (`AppOnly`) leave the registry
unchanged. The heartBeat goroutines and the cluster (`RegistryOnly`) leave
the App unchanged. The three calls become registry steps:

* `RunRegisterC`: Run's Register. A done errgroup context fails the Grant.
  Otherwise `R!RegisterGrant` runs, and a failed Grant is Run's error.
* `RegisterReplyC`: registerWithKV's Put (`R!RegisterPut`). A Put that
  succeeds starts heartBeat and lets Run go on to the afterStart hooks. A
  Put that fails, or that finds the context done, is Run's error.
* `StopDeregisterC(c)`: Stop's Deregister is `R!DeregisterCall`, the Delete
  made at once whatever Register is doing. A down cluster returns Stop's
  error before `a.cancel()`.

`AppRegistryRace.cfg` runs one server, one Register call and no cluster
faults. With no faults, the key can only come back through Run's own Put.

## 4. Runs

| Run | Config | Expect | What it shows |
|---|---|---|---|
| recovery | `Recovery.cfg` | pass | A heartBeat in its select with an open channel renews the key's lease unless an abandoned Put has landed since the last good one (`KeyOnKeptAliveLeaseBarLatePut`); every re-registration episode ends (`RecoveryTerminates`); and the goroutines implement the abstract LeaseSupervisor (`SupervisorRefined`). This holds under outages, losses, timeouts, late puts, Deregister and cancel. |
| late_put | `LatePut.cfg` | violation | A timed-out Put lands after the next attempt's Put. The key ends up on a lease nobody renews while heartBeat renews another, so the instance silently vanishes at TTL. |
| resurrection | `Resurrection.cfg` | violation | Deregister does not stop heartBeat, which puts the key back. |
| double_register | `DoubleRegister.cfg` | violation | After two Registers, two leases are renewed forever. |
| early_give_up | `EarlyGiveUp.cfg` | violation | The new lease is lost before its first keep-alive response, and heartBeat quits after one of `maxRetry` attempts. |
| instance_equal | `InstanceEqual.cfg` | pass | On instances without empty metadata values or repeated endpoints, `Equal` (sorting included) is the equality of spec §3 (`EqualAgreesWithSpec`). |
| matcher_prefix | `MatcherPrefix.cfg` | pass | After any sequence of `Use` and `Add` calls, an operation without an exact selector gets the longest registered prefix (`LongestPrefixChosen`). With Recovery among the defaults no panic of a unary call crashes the server, the `Claims.Valid` panic on a token without exp included (`RecoveredUnderDefaults`). The service runs only for a skipped unary method or a valid bearer token (`AuthBeforeHandler`). |
| auth_missing_header | `AuthMissingHeader.cfg` | violation | A request without an authorization header makes the interceptor index a nil slice and panic, instead of answering Unauthenticated (`MissingCredentialsRejected`). |
| logger_filter | `LoggerFilter.cfg` | pass | Every call that reaches the Filter, through the Helper or the package functions, writes exactly the reference line (`FilteredAsPairs`). |
| discovery_read | `DiscoveryRead.cfg` | pass | Results hold only decoded records (`TypeOK`), and a successful `GetService(n)` returns all records of `n`'s own keys that it read (`GetServiceComplete`). |
| app_stop | `AppStop.cfg` | pass | Every serving server serves on the port the instance advertises for it, because Endpoint() and Start share one listener (`AdvertisedIsServed`). Provided clients end their RPCs, once a Stop has returned nil Run returns (`RunReturnsAfterStop`), and a signal ends Run even when the Stop it triggers fails before `a.cancel()`, because the signal goroutine hands the error to the errgroup (`SignalEndsRun`). This holds whichever hooks, listens, Extracts, servers or registrar calls fail. |
| app_stop_race | `AppRegistryRace.cfg` (MCAppRegistry) | violation | With the etcd Registry, a Stop whose Delete runs between Register's Grant and its Put finds no key. The Put then lands, heartBeat keeps it alive, and the instance stays registered after Stop and Run have returned nil. |

## 5. Not modelled

Bugs that one call shows, so a unit test reaches them without a model
checker:

* `x.Equal((*Instance)(nil))` dereferences nil (instance.go:36): a typed nil
  passes `o == nil`. `Instance.tla` keeps that case behind `TypedNilArg`,
  which the runs leave `FALSE`.
* `Equal` reads a missing metadata key as `""`, so `{a:""}` equals
  `{b:""}` (instance.go:53).
* `Add("a")` and `Add("a*")` share `match["a"]` (matcher.go:35).
* `buildInstance` collects server endpoints only when explicit endpoints
  are set (app.go:120), so the condition looks inverted.
* `listenAndEndpoint` keeps `s.err` after a failed listen and returns it
  even when a later call listens successfully (transport/grpc/server.go:138),
  so one transient failure makes `Endpoint` and `Start` fail for good.
  App.tla keeps `s.err` as the code does. On the App's paths a failed
  `Endpoint()` ends Run before any Start, so the stale error never shows.
* A bearer token without exp or iat, signed or not, panics in the
  authorization interceptors (oauth2_jwt.go:19), because jwt v4 runs
  `Claims.Valid` before it checks the signature. `GrpcServer.tla` models
  the panic. `RecoveredUnderDefaults` shows that Recovery among the defaults
  turns it into an error. Without Recovery, and always for streams, it
  crashes the server, as the missing-header panic of `auth_missing_header`
  does.
* `Server.Stop` ignores the `stopTimeout` context (app.go:170), and
  `GracefulStop` waits for every open RPC, so an open stream keeps Run from
  returning after a successful Stop. `App.tla` models the wait, and its
  liveness properties are stated under `RPCsEnd`.

Parts left out:

* Time: TTL values, backoff durations, timer lengths. A timeout is a
  nondeterministic fault. A sleep does not change the modelled state.
* The serialized value and the key format; lessor objects (see above).
* `Registry.Watch`: it calls `newWatcher`, which is not in `src/`, and the
  repository has no `Watcher` implementation to translate.
* `Instance` serialization (`Marshal`, `unmarshal`), `ParseEndpoint` and
  `Scheme`: these are conversions through `encoding/json` and `net/url` with
  no state. Discovery models their only effect that matters here, that a
  value may fail to decode.
* `GetService` fails the whole read on one record that does not decode,
  and the record may belong to service `"ab"` when `"a"` is read (the
  prefix has no trailing `/`). Spec §9 leaves open whether a bad record
  should fail the call, so no property states either outcome.
* A stream without the authorization or X-Request-ID header crashes the
  server, since stream calls never pass through the middleware chain.
  `HandleStream` models this. No run states whether clients must send
  X-Request-ID, because the repository does not say.
* `WithServerUnaryInterceptor` and `WithServerStreamInterceptor` replace
  their list, so a second call drops the interceptors of the first. The
  model takes the final lists as constants.
* The gRPC client (`dial`, its interceptors and options): it is
  configuration of grpc-go with no state of its own. One bug there is a
  single call: `WithClientMiddleware` calls `Use` on the nil
  `middleware.Matcher` of the `Client` `dial` builds, so it panics. Even
  if it did not, no client interceptor reads the matcher.
* Logger: `Context`/`WithContext` and the `*logger` prefix path, which need
  code that is not in `src/`; output formatting.
* Codec, token creation, the gRPC client, the HTTP server and the database
  wrappers: these are formatting, I/O and pass-through code with no state
  machine.
