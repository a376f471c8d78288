# Verification of agenthub-mcp-client-runtime

The runtime keeps a set of MCP servers connected for AgentHub: stdio servers are
child processes that speak JSON-RPC over pipes, HTTP servers are reached through
the Streamable HTTP transport. A REST API lists and calls their tools; a backend
holds the configuration the runtime follows.

This directory models the runtime in TLA+, checks it with TLC
on small instances, and proves its safety properties with TLAPS for any number
of goroutines, servers, identifiers and sessions. `PROJECT.json` is the index:
components, runs, the source lines of every definition, hazards, findings and
theorems.

Contents: 1. the system; 2. modules; 3. runs; 4. fairness; 5. proofs;
6. findings; 7. what is left out; 8. plan.

## 1. The system

| Part (source) | State | Operations | Hard behaviour | Correct when |
|---|---|---|---|---|
| JSON-RPC connection (`internal/mcp/protocol.go`) | request counter, `pendingReqs` (sync.Map of one-slot channels), write mutex | `SendRequest`, `SendNotification`, `ReadMessages`, `handleResponse` | callers race the reader; answers come late, twice, or never; a full channel or pipe blocks; the process dies | no response is lost, no call gets another call's line, the table holds the calls in flight and no others, calls return |
| Stdio client (`internal/mcp/client.go`) | `cmd`, `isRunning`, `protocol`, `serverInfo`, `mu`; the process | `Start`, `Stop`, `IsRunning`, `ListTools`, `CallTool`, ... | a mutex held over a handshake; contexts that kill the process; a process that exits unnoticed; unlocked reads of `protocol` | no process escapes `Stop`; whoever sees "running" may send requests; nobody keeps the mutex for ever |
| HTTP client (`internal/mcp/http_client.go`) | `isRunning`, session, version and server info, `authMetadata`, `dynamicClientID` | `Start`, `Stop`, calls, 401 discovery, `RegisterDynamicClient` | the mutex covers single assignments: handshakes and discoveries of several goroutines interleave; time-outs, and requests for tokens and registrations that have none | the session in use was announced; metadata never comes without its client identifier; operations return |
| Manager (`internal/mcp/manager.go`) | `clients`, RWMutex | `RegisterServer`, `UnregisterServer`, `StartServer`, `StopServer`, `ListServers`, `StopAll` | two levels of locks; a client looked up under the lock is used after it | a name has one client at a time; no removal leaves a process behind; no deadlock |
| Bootstrap, retry and refresher (`cmd/server/main.go`) | `configRefresher.mu`, `lastRefresh` | `bootstrapConfigs`, `retryBootstrap`, `Refresh` | lists that are out of date when applied; check-then-register; API calls in between; partial failure; contexts of requests that outlive them in clients | a bootstrap applies what it fetched; refreshes are spaced; the map converges to the backend |
| REST API (`internal/api/http.go`) | none of its own | handlers; `handleListAllTools` aggregates the tools of all servers | start-if-stopped under a context of the request; a list, clients and tools that are read one after the other while others change them | an answer accounts for every server that was there all along, and warns of a running one only after a race |
| Backend client, OAuth client (`internal/backend`, `internal/oauth`) | tokens are cached by x/oauth2 | `ListConfigs`, token sources, `RegisterClient` | no time-out on `http.DefaultClient` | see HTTP client and refresher |
| Migrator (`internal/migrate/migrator.go`) | the table `_schema_migrations` of each schema | `Run`: `applyDir`, `applyMigration` | several runtimes of several releases migrate one database at once; errors, crashes and lost commits between any two steps; file names sorted as strings | a migration takes effect once and with its record, in the order of versions; who serves is migrated; who failed comes up later |
| Process (`cmd/server/main.go`) | its context, the gRPC server's streams | bootstrap, signal, `StopAll`, `GracefulStop` | handlers and the retry goroutine start servers while main stops them; a cancelled context cuts handshakes; open streams keep the process | main leaves nothing behind that it started; the shutdown ends |
| gRPC service (`internal/grpc`) | - | none that can be called: `main.go:423` discards the service; the gRPC server offers reflection only (`main.go:426`) | its streams: see Process | - |

How they interact: API handlers, the boot goroutine and the refresher all call
the **manager**; the manager calls **clients** while it holds its own lock
(`UnregisterServer`, `ListServers`, `StopAll`) or after it released it
(`StartServer`, `StopServer`); a stdio client owns a **process** and a
**connection**, whose reader is a goroutine; os/exec's watcher kills the process
when the context it was spawned under ends. `handleListAllTools` calls the
manager several times for one answer, and **main** cancels its context and calls
`StopAll` while handlers go on calling the manager. The **migrator** runs before
all of this and meets other runtimes only in the database. Registering an HTTP server makes the
manager probe it in a goroutine of its own, so that one client may be started
by two goroutines at once.

## 2. Modules

Each model keeps the control flow of its source: one action per step between
two points where another goroutine can be seen (a lock, a channel, a pipe, a
request), with the early returns as guards or branches. Data is reduced to what
routes it: a line is its kind and identifier, a process is its incarnation
number, an HTTP session is a number, a configuration is one of four kinds.

| Module | Models | Correspondence |
|---|---|---|
| `Rpc` | abstract specification of a connection | fresh identifiers; a call completes only by a message bearing its identifier and fails only if the server is gone |
| `Protocol` | `protocol.go` | a caller goes `idle` - `NextRequestID` - `Store` - `LockWrite` - `Write` - `Receive` - `Return` (the deferred `Delete`); the reader is `ReadLine`, `Deliver`, `ReadEOF`; `held` is the line between `Load` and the channel send; the server process and both pipes are the environment |
| `StdioClient` | `client.go`, the start-if-stopped sequence of the handlers in `http.go` | `Start` is `LockStart`, `Refuse`/`SpawnFails`/`Spawn`, `SendInitialize`, `InitializeAnswered`, `SendInitialized`, with `mu` held throughout; a failed handshake goes to `stopping`, as the code calls `Stop`; `CancelContext` and `Watch` are the context of `exec.CommandContext` and os/exec's watcher. A call is reduced to "write, then wait for the answer": `Protocol` has the rest |
| `HTTPClient` | `http_client.go`, the handler of `/servers/:name/register-client` | one action per critical section and per exchange; `hdr` is the session a request carries; `found` is what a discovery has obtained and not yet stored; before each request `SetAuthHeader` has a token at hand, or fetches one (`auth`) with the token source's mutex held |
| `Registry` | abstract specification of the manager's map | a name gets a client only while it has none, each registration makes a new one |
| `ClientIface` | abstract specification of one stdio client as the manager meets it | a Start that finds the client stopped keeps its mutex until the handshake is over, and only then does the client run |
| `Manager` | `manager.go` | the RWMutex is `writer` and `readers`: `Announce` excludes new readers, `Drained` waits for those inside; `held` is `Client.mu` of each client, kept from `StartLock` to the end of the handshake |
| `Reconciler` | `main.go`: `bootstrapConfigs`, `retryBootstrap`, `configRefresher`; `ListConfigs` | a bootstrap goes `Fetch` - `ReadNames` - `Remove`s - `Consider`/`Register`/`Start` per name - `Finish`; each call of the manager is one step; `recent` says that `lastRefresh` is younger than `minInterval`; a client is who made it, whose context its token source has and whose context its process runs under; the API registers, unregisters, starts (`ApiStart`, under `context.Background()`) and stops, and `LazyStart` is the start-if-stopped of its handlers, whose context is over at once |
| `Migrations` | abstract specification of the migrator, per schema | a migration is applied and recorded in one step, at most once |
| `Migrator` | `migrator.go`, `runMigrations` | `applyDir` goes `SetPath` - `CreateTable` - `Check` per file, `applyMigration` is `Execute` - `Record` - `Commit`; `log` is what the statements of committed migrations have done; `Record` waits for another open transaction that inserted the same name, as a unique index makes it; every error is `log.Fatalf`, after which the runtime is started again |
| `Runtime` | `main()` around `Manager`, which it extends | main goes `Listen` - `Serve` (`signal.Notify`) - `Signal` - `StopServers` - `Exit`; handlers run from `Listen` on; `streaming` says that some reflection stream is open, for which the deferred `GracefulStop`, and so `Exit`, waits; `Bootstraps` and `Handles` say who may call what; `context` is the context a client's process was spawned under; a handshake whose context is cancelled spawns nothing, or ends like one that nobody answers |
| `Aggregation` | `handleListAllTools` over `Manager`, which it extends | a request goes `Request` - `List`, then per name `Take` - `GetClient` - `Ask` - `LazyStart` - `EndStart` - `Confirm` - `ListTools`, and `Answer`; its calls of the manager are the manager's own steps, so that locks and lookups are those of `Manager` |
| `*_proofs` | theorems and their proofs | section 5 |
| `MC*` | constant definitions for TLC | section 3 |

`Protocol` implements `Rpc`, `Manager` implements `Registry` and `Migrator`
implements `Migrations` by INSTANCE with refinement mappings (`ImplementsRpc`,
`ImplementsRegistry`, `ImplementsMigrations`). `StdioClient` implements
`ClientIface`, and `Manager` uses each of its clients as `ClientIface` says
(`ImplementsClientIface` of both): this is where the two models meet. `Manager`
knows of a client its mutex and whether it runs; in `StdioClient` these are the
mutex from the spawn to the end of the handshake, and `isRunning` outside of it. `Runtime` and `Aggregation` add
variables to `Manager`'s, so that for both `ImplementsManager` is `Manager`'s `Spec`
itself; it is proved and not part of a run. The mapping of `Rpc`
counts an identifier as used when it is stored, not when it is drawn: between
the two nobody can observe it. A message the server sends of its own, with the
identifier of a call, completes that call in the code (`protocol.go:85` tells
responses by `id` alone), so `Rpc` says "a message that bears the identifier" and
not "a response".

Variables marked *history* in the modules (`succeeded`, `disturbed`, `late`,
`escaped`, `steady`, `failed`, `raced`, `lost`, `dcrFailed`, `seen`, ...) record what happened for a property to
refer to; no action of the program reads them.

Operators whose names start with `M_` are plausible bugs of the definition
that follows them. No specification uses them. They show that the properties
can fail: with the definition replaced by its bug TLC refutes the property
that `PROJECT.json` pairs it with.

## 3. Runs

Runs that hold (each but `runtime` and `aggregation` checks the module's type
invariant as well; `RuntimeTypeOK` and `AggTypeOK` are left to their theorems
`RuntimeTypeCorrect` and `AggTypeCorrect`, as what they add to the manager's is the
ranges of a few markers):

| Run | Instance | What it shows |
|---|---|---|
| `protocol` | 2 callers, 2 identifiers, up to 2 answers per request, pipes of 1 line, a server that also speaks with no identifier or with identifier 2 and may die | `PendingExact`, `NoLostResponse`, `WedgeNeedsThreeLines`, `ImplementsRpc`, `EveryCallReturns` |
| `stdio` | 2 goroutines, 2 starts, all operations and faults (exit, refused handshake, failed spawn, expired context) | `NoOrphan`, `RunningMeansReady`, `EarlyRequestIsStale`, `ImplementsClientIface`, `StartStopReturn` |
| `http` | 2 goroutines, 2 sessions, 2 registered clients, all operations | `CurrentSessionNotified`, `FullMetadataHasClientID`, `EveryOperationReturns`, and that it never deadlocks |
| `manager` | 3 goroutines, 1 name, 2 clients in turn, handshakes that may fail | `OrphansAreLate`, `LockOrder`, `ImplementsClientIface`, `ImplementsRegistry`, `EveryCallReturns` |
| `reconciler` | 1 name, the boot process and 2 requests, a configuration with `auto_start`, 1 backend change, 1 registration or removal by the API, starts and stops by it and by lazy handlers at any time, fetches that fail | `SnapshotApplied`, `RefreshOnlyWhenStale`, `ClientNeverReplaced`, `CutUntilStopped`, `Converges`, and that it never deadlocks |
| `migrator` | 3 runtimes, 2 of one tenant, 2 releases, versions 2, 3 and 10, any schemas present at first, 1 failure (error, crash or lost commit) | `VersionOrder`, `UpIsMigrated`, `ImplementsMigrations`, `EveryRuntimeComesUp` |
| `runtime` | main, the retry goroutine and 1 handler that register and start, 2 names, 2 clients, handshakes that may fail, a reflection stream that may stay open | `SurvivorsAreLate`, `MainContextLeavesNothing`, `OneServerBlocksMain`, `ShutdownEnds` |
| `aggregation` | 2 requests and 1 handler that registers, unregisters, starts and lists, 1 name, 2 clients in turn, handshakes that may fail, calls that may fail or hang | `AllAccounted`, `FalseWarningsAreRaces`, `EveryRequestAnswered` |

Why the bounds are enough. Every bound is a constant (`MaxID`, `MaxCopies`,
`PipeCap`, `MaxStarts`, `MaxSessions`, `MaxClients`, `MaxChanges`, `MaxApi`,
`MaxFails`) and every safety property is also proved for all their values, so
that for safety the runs serve to find mistakes. For liveness the instances hold
the cases that matter: two callers contend for the mutex and the pipe while the
reader is blocked; two answers and a clashing line fill a channel and one more
wedges the reader; two starts are what it takes for one incarnation to follow
another; three goroutines are a reader inside, a writer that waits for it and a
reader that waits for the writer; one change of the backend after a fetch makes
a list out of date, and two requests and the boot process apply lists of
different ages. `reconciler` counts registrations and removals only, as starts and
stops add nothing to its state that they cannot take away again. Its instance has
no configuration that `RegisterServer` refuses; `BootstrapApplies` has them.
`manager` has one name: `ListServers` and `StopAll` wait for
clients one at a time without releasing anything, so that another name adds
clients to wait for but no new way to wait. `runtime` has two names, since
`StopAll` must be between two clients for one of them to have been passed; its
handler does not unregister, stop or list, which the theorems have.
`aggregation` has one: a request treats its names one after the other and keeps
nothing but the answer between them; two clients in turn are what it takes for
a server to be replaced between the list and the lookup, and two requests for
one to start what the other is about to. In `migrator` two runtimes of one
tenant race for a migration while a third fails, the older release lacks a
migration, and 10 is the version that strings sort before 2 and 3. There is no
symmetry reduction, as
every run of this table checks liveness.

Deadlock is checked in `http` and `reconciler` only. In the other runs the code
may really stop: a call whose server died and a start whose handshake failed are
stuck (section 6), `runtime` ends with the process, `migrator` with every runtime
up or without its schema. Their liveness properties say which ways to be stuck
there are.

Runs that find a disagreement with what the repository says:
`stdio_failed_start`, `stdio_lazy_start`, `reconciler_failed_refresh`,
`reconciler_token` (section 6). They use the same modules with fewer operations
and faults.

## 4. Fairness

`Spec` has no fairness; `FairSpec` adds it, for liveness only.

- Every goroutine that can run does (weak fairness of `CallerStep`, `Reader`,
  `ThreadStep`, `Step`): the Go scheduler is preemptive.
- Whoever waits for a mutex gets it (strong fairness of `LockWrite`, `Lock`,
  `Enter`): `sync.Mutex` enters starvation mode after 1 ms and `sync.RWMutex`
  admits waiting readers when a writer leaves. `Protocol` needs strong fairness
  for this one action only.
- `Protocol`, `StdioClient`: the server reads its input and answers each request
  at least once, while it lives. Properties allow for its death.
- `HTTPClient`: nothing is assumed of MCP servers, the 30 s time-out of
  `c.httpClient` ends every exchange (`RequestFails`). Nothing is assumed of the
  authorization server and the token endpoint either: registrations
  (`oauth/client.go:129`) and token fetches (`http_client.go:422`) have no
  time-out, and `EveryOperationReturns` names the wait for them as its exception.
- `Manager`, `Reconciler`: handshakes end, in one way or another. A server that
  stays silent during `initialize` blocks whoever waits for it; the code sets no
  limit for it.
- `Reconciler`: the clock runs, agents go on requesting `GET /api/tools`, and
  the backend answers again and again (strong fairness of `Fetch`), its token
  endpoint, for which there is no time-out, included.
- `Migrator`: a runtime that exited is started again, and the database answers;
  statements and connections fail at most `MaxFails` times. The repository's own
  tenant migration may not be of this kind: it calls `uuid_generate_v4()`
  (`db/migrations/schemas/V1.0.0/V1.0.0.001__mcp_server_config.sql:6`) while the search
  path is pinned to the tenant's schema, and the extension was created with the
  path at `agenthub` (`db/migrations/public/V1.0.0/V1.0.0.001__initial_schema.sql:4`),
  so that PostgreSQL does not find the function, every time, unless the table is
  already there or the extension was installed elsewhere on the path.
- `Runtime`, `Aggregation`: as in `Manager`; main goes on once it got the signal.
  Nobody is assumed to call anything, to answer a `tools/list`, to send the
  signal, or to end a reflection stream.
- Never assumed: that a process exits, a context expires, a server speaks first,
  the backend changes, or a request to the server fails.

## 5. Proofs

The theorems about the models have the form `Spec => []Inv`, `Spec => [][A]_vars`,
a conjunction of the two, or `Spec => Abstract!Spec`, and hold for every value of
the constants that
satisfies the module's assumption (`BoundsAssumption`, `CallersAssumption`,
`ConstantsAssumption`: bounds are naturals, markers such as `NoCaller` are not
goroutines). The sets of goroutines and names need not be finite, except that
`MutexComesBack` and `RequestsAreBounded` suppose finitely many names,
`NextFileExists` and `RunsAreBounded` finitely many migrations in a release.
Nothing else is assumed.

Of liveness under fairness, which is out of the prover's reach, the safety side
is proved: that calls, requests, refreshes, operations and runs take boundedly
many steps of their own (`CallsAreBounded`, `RequestsAreBounded`,
`MutexComesBack`, `OperationsAreBounded`, `RunsAreBounded`), that not all of those
that are under way wait for each other (`NeverDeadlocked` and its two
descendants), that the exceptions the liveness properties make are final
(`LostCallsWaitForever`, `HangsForever`, `StuckForever`, `OneServerBlocks`), and that what
`Converges` arrives at is kept (`ConvergedForGood`).

- **Protocol_proofs**: `TypeCorrect`, `PendingCorrect`, `NoResponseLost`,
  `WedgeTakesThreeLines`, `ConnectionImplementsRpc`. `PendingExact` is inductive only together with the
  fact that no two calls in flight share an identifier and that every identifier
  is at most `requestID` (`IdsOK`). `NoLostResponse` needs to know that the server
  answers only what was asked, and that what was asked was written by a caller
  beyond `Store` (`SentOK`): then the entry is in the table when the line is
  read. `LinesOK` says that the identifier of a line in the pipe, in the reader's
  hands or in a channel is one the server has written; with `GotOK` (a call that
  returns without a line returns because the server died) it gives the refinement.
  `Balance` counts the lines of an identifier: those in the pipe, in hand and in
  the channel, and one for a call that was sent and waits no more, are no more
  than the server wrote; a wedged reader accounts for three.
  `LostCallsWaitForever` says that the exceptions `EveryCallReturns` makes have no
  end: a wedged reader stays so, since the identifier in its hands was stored once
  and will not be stored again (`HeldOK`), and a call whose line cannot come any
  more waits for ever.
- **StdioClient_proofs**: `TypeCorrect`, `ProcessNeverOrphaned`,
  `RunningIsReady`, `OnlyStaleRequestsAreEarly`, `StdioImplementsClientIface`,
  `HangsForever`. The invariant says who holds the
  mutex where (`HolderOK`), what holds in mid-handshake (`HandshakeOK`), what
  holds when no Start is under way (`SteadyOK`), and that the incarnation a call
  saw running had finished its handshake (`SeenOK`). `HangsForever` is the first
  finding of section 6 for every number of goroutines and starts: a Start that
  hangs is never released. `LazyStartsAreDoomed` is the second one: the process a
  goroutine itself started for a call has a cancelled context by the time the call
  waits (`CallersOK` follows it from the Start through the cancellation), and a
  call whose process died before the answer is lost for good.
- **HTTPClient_proofs**: `TypeCorrect`, `SessionNotified` (inductive as it
  stands), `MetadataComesWithID` (with `ClientIDInv`: a discovery that is about to
  persist full metadata finds an identifier stored). `OperationsAreBounded`: every
  step of an operation brings it closer to its end, at most ten of them, a 401 that
  leads to discovery and registration and the token fetches included.
- **Manager_proofs**: `TypeCorrect`, `OrphansOnlyFromLateStarts`,
  `ManagerImplementsRegistry`, `ManagerImplementsClientIface`. `WriterInv` says
  that whoever is between `Drained`
  and its return is the writer, that a name it checked is still free, that the
  client it removes is still the one of its name, and that no two names share a
  client; `StartsInv` follows a client from its start through the removal that
  waits for it.
  `LocksTakenInOrder`, `NeverDeadlocked`, `CallsAreBounded` and `StuckForever` are
  what can be proved of `EveryCallReturns`. `LockInv` says where each lock is
  held, `OpInv` in which operation; whoever waits (`WaitsFor`) then waits for
  goroutines of a lower `Rank`, the manager's mutex before its readers before the
  mutex of a client (`LockOrder`). Ranks are five, so that chains of waiting
  goroutines end, at a call that waits for no other, however many goroutines
  there are. And calls are finite: `Measure`, the steps a call has left, decreases with
  each of its steps and is untouched by others, so that a call takes
  at most `2 * MaxClients + 6` steps. What is left to TLC is fairness, and the
  exception: a failed handshake, which `StuckForever` shows to have no end.
- **Reconciler_proofs**: `TypeCorrect`, `BootstrapApplies`, `RefreshesSpaced`,
  `ClientsKept`, `MutexComesBack`. `HoldsMutex` (who is in a refresh holds the refresher's mutex)
  spaces refreshes; `Applied` tracks the loops: what is neither disturbed nor
  still to be treated is as the fetched list wants it. `MutexComesBack` says that the
  refresher's mutex is held during a refresh and at no other time, and that a
  bootstrap of finitely many servers is finite: again by a measure, which no other
  process touches. `RequestContextsDie` is the fourth finding of section 6 in
  general, and what the second one leads to: a context of a request is in use only
  during its refresh and answer (`ContextsEnd`); a token source that has lost its
  context gets no other until the server is unregistered (`TokenCutForGood`); a
  process that was killed with its request is not replaced until the API stops the
  server or unregisters it (`CutUntilStopped`), since the client counts as running
  and every start is refused. `ConvergedForGood` is the
  safety side of `Converges`: an undisturbed bootstrap with the backend's list ends
  in a converged map, and `Settled`, which says in addition that who is applying a
  list applies the backend's, is kept by every step but a change of the backend or
  a call of the API. On the instance of run `reconciler` every fair behaviour does
  settle.
- **Migrator_proofs**: `TypeCorrect`, `MigrationsOnce`, `AppliedInOrder`,
  `ComesUpMigrated`. The invariant says that at most one open transaction has
  inserted a name and that this name is not recorded (the unique index), that
  what a runtime has passed in its loop is recorded, and that `log` and `recorded`
  of a schema hold the same migrations; order follows with `SameWidthOrder`: of
  two numbers of equally many digits the smaller one is the smaller string. This
  is about a recursive function (`Digits`) and all naturals. The library's
  induction theorems cannot be used, as they take the predicate as a parameter;
  `SetInduction` states induction for a set of naturals (a number outside the set
  would make the shift by one an injection of a finite set into itself that is no
  surjection, against `FS_Injection`), and gives the existence and uniqueness of
  finite approximations of `Digits` (`Approximation`, `ApproximationsAgree`), thus
  its defining equation (`DigitsEquation`), the length and last digit of a number,
  and by one more induction the order (`AllOrdered`). Strings of different lengths
  are compared as well: the order is total and transitive on all versions
  (`BeforeTotal`, `BeforeTransitive`), so that finitely many files have a first one
  (`NextFileExists`) and the loop never stands still; each file taken is one less
  ahead (`OneFileLess`), which bounds a run (`RunsAreBounded`).
- **Runtime_proofs**: `RuntimeImplementsManager`, `RuntimeTypeCorrect`,
  `OnlyLateStartsSurvive`, `MainLeavesNothing`, `RuntimeNeverDeadlocked`,
  `OneServerBlocks`. The manager's own invariant is
  inherited through the refinement; `PassedInv` says of a client `StopAll` has
  passed that whatever runs or shakes hands there escaped it and does not depend
  on main's context, `PhaseInv` where main is in `StopAll`. `OneServerBlocks` needs
  `StuckInv` of the manager as well: a stuck call never lets go of its client.
- **Aggregation_proofs**: `AggregationImplementsManager`, `AggTypeCorrect`,
  `AnswerAccountsForAll`, `OnlyRacesWarnFalsely`, `AggregationNeverDeadlocked`,
  `RequestsAreBounded`.
  `Covered` says that a name
  registered all along is done, at hand or left; `Caused` that a request whose
  start is about to be refused was overtaken. The measure of a request counts the
  names it has left and its place in the treatment of the one at hand; what other
  handlers register meanwhile does not add to it.

Only model-checked: the liveness properties (`EveryCallReturns` of `Protocol` and
`Manager`, `StartStopReturn`, `EveryOperationReturns`, `Converges`,
`EveryRuntimeComesUp`, `ShutdownEnds`, `EveryRequestAnswered`), as the prover
has no support for liveness under fairness or for ENABLED; the runs of section 6.
Every other property of a run that holds is also a theorem.

## 6. Findings

1. **A failed handshake locks the client** (`client.go:133`, run
   `stdio_failed_start`). `Start` holds `c.mu` and calls `Stop`, which locks it.
   The start never returns, and `ListServers` and `UnregisterServer` block on
   `IsRunning` with the manager's lock held. Proved in general: `HangsForever`,
   `OneServerBlocks`.
2. **A lazy start kills its own server** (`http.go:302`, `558` and others, run
   `stdio_lazy_start`). The handlers start a server under a context they cancel
   as soon as the start returned; `exec.CommandContext` kills the process. Proved
   of every such call: `LazyStartsAreDoomed`. The client goes on counting as running,
   so that nothing but a stop or a removal brings the server back:
   `CutUntilStopped`.
3. **A failed refresh counts as a refresh** (`main.go:408`, run
   `reconciler_failed_refresh`), against the comment at `main.go:396`.
4. **Token sources die with the request that made them** (`main.go:288`, run
   `reconciler_token`): a refresh hands the context of `GET /api/tools` to a
   token source that outlives it. Proved of every server a refresh registers:
   `RequestContextsDie`.

Behaviour of the models worth knowing, for which no run exists:

- A call whose server dies waits for ever: `SendRequest` waits for the response
  channel only (`protocol.go:54`). `EveryCallReturns` therefore excludes dead
  servers.
- A client does not notice that its process exited, and refuses to start again
  (`client.go:75`).
- A refresh unregisters servers that were registered through `POST /servers` and
  that the backend never knew (`main.go:243`).
- Two requests that both find a server stopped both start it; the slower one is
  refused (`client.go:75`), warns of a server that runs and leaves its tools out
  (`http.go:557`). `FalseWarningsAreRaces` says that nothing else does this.
- The shutdown cancels contexts first, which makes handshakes hang that were
  under way (`main.go:141`, `protocol.go:54`), and `StopAll` with them.
  `OneServerBlocksMain` says that one is enough, and that a handshake that fails
  during the bootstrap keeps main from serving at all.
- A handler may start a server after `StopAll` has passed it; its process is
  left to itself. `SurvivorsAreLate` says that nothing else is. A signal before
  `signal.Notify`, during the bootstrap or after it while handlers already run,
  ends the process at once, without `StopAll` (`DieEarly`).
- After `StopAll` main waits in the deferred `GracefulStop` (`main.go:115`) until
  every reflection stream has ended: one peer that keeps its stream keeps the
  process. `ShutdownEnds` says that this and a stuck handshake are all that does.
- An HTTP client fetches its token before every request, without a time-out
  (`http_client.go:422`), and its other requests queue behind the fetch. `Stop` does
  not.
- A tenant's schema that does not exist is hardly ever created: PostgreSQL accepts
  a search path without asking, so that the branch for it (`migrator.go:73`) is
  only reached after another error, and the runtime exits at `CREATE TABLE`. The
  model has this (`SetPath`, `CreateTable`); what the server answers is not in
  the repository, and so there is no run.
- Versions are sorted as strings (`migrator.go:171`): a release with both applies
  `V1.10.0` before `V1.2.0`, although the comment at `migrator.go:153-154` says that
  the order of versions is preserved. `VersionOrder` and its theorem
  `AppliedInOrder` leave this case out by their precondition: they are about
  versions whose numbers have the same number of digits. No version of the
  repository has two digits in a place yet.
- A runtime that loses the race for a migration exits with an error
  (`migrator.go:144`) and comes up when it is started again.
- An HTTP start that ends after a `Stop` sets `isRunning` again, a failed
  discovery downgrades complete metadata, two 401s at once register two clients,
  a request of the server's own with the identifier of a call completes that
  call.

## 7. What is left out

- `StdioClient` runs `Stop` and `IsRunning` as one step each (nothing in them
  blocks once the mutex is taken); a thread's call ends with its answer.
- `ClientIface` is the contract of a stdio client. An HTTP client allows more: it
  keeps no mutex during a handshake, so that a Stop may come in the middle of one
  and the Start set `isRunning` again (`HTTPClient` has this). `Manager` does not
  model that; there is no process that could be left behind, and nobody waits for
  an HTTP client longer than for one that keeps its mutex.
- `HTTPClient`: request bodies and the scanning of event streams are data. The
  probe goroutine of `RegisterServer` (`manager.go:61`) is a "start" by any
  thread.
- `Manager`: `ListServers` asks a client whether it runs more than once in a
  row; one visit stands for them. `GetClient` and `RegisteredNames` are the
  lookup of `StartServer` and the read lock of `ListServers`. `CheckFree` refuses a
  registration that nothing forbids as well, which is an http configuration
  without a base URL (`manager.go:50`).
- `Reconciler`: assumes a backend URL is configured (without one nothing is
  fetched and the map is the API's alone). A request whose peer disconnects
  while its own refresh runs is not modelled; its context ends with the request.
  A context of main ends with the process and is not cut. A handler's lazy start
  is one step, in which its context ends; the time between is in `StdioClient`.
- `Migrator`: what the statements of a migration do is their place in `log`. A
  migration is the number `n` of a version `V1.n.0`; the sequence numbers of files
  within a version have a fixed width and sort as they count.
- `Runtime`: the bootstrap is the calls of the manager that it makes, in any
  order (its own order is in `Reconciler`). Of the
  gRPC server, whose only service is reflection, there is whether some stream is
  open; an idle connection does not keep `GracefulStop`. Processes of clients that
  were unregistered are `Manager`'s `OrphansAreLate`.
- `Aggregation`: the refresh that comes first is in `Reconciler`, the context of
  the start in `StdioClient`, the call of `tools/list` in `Protocol`; here it
  succeeds, fails or hangs.
- Of the backend client one step is modelled, its HTTP encoding is data. Of the
  OAuth client, which context a token source depends on, that a fetch holds its
  mutex, and how a registration ends; the caching of tokens is golang.org/x/oauth2.
- Not modelled: the gRPC service, which main creates and never registers
  (`main.go:423`), so that no method of it can be called; message types, which
  are data; embedded files, banner, packaging.

## 8. Plan

Done, in this order: `Rpc` and `Protocol`; `StdioClient`; `HTTPClient`;
`Registry` and `Manager`; `Reconciler`; `Migrations` and `Migrator`; `Runtime`;
`Aggregation`; the proofs of each.

The composition of `Manager` with `StdioClient` is by way of `ClientIface`, which
both implement; the lock order of `Manager` is an invariant and a theorem.

What stays with TLC is liveness itself, with the fairness of section 4.

`Reconciler` does not use `Registry` in place of its own calls of the manager: its
clients are who made them and under which contexts, and the mapping of such a
record to a registered client would hold by its definition. What a user of the
registry could get wrong here is to replace a client, which `ClientNeverReplaced`
and its theorem exclude.
