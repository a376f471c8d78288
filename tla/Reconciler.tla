----------------------------- MODULE Reconciler -----------------------------
(***************************************************************************)
(* cmd/server/main.go: the manager's map of servers follows the            *)
(* configurations of the backend.  bootstrapConfigs fetches them once and  *)
(* then calls the manager server by server.  It is run by main, by the     *)
(* retry goroutine main leaves behind when that failed (both are the       *)
(* process Boot here), and by configRefresher.Refresh for every request    *)
(* that lists all tools (a process of Callers).  Only the refreshes        *)
(* exclude one another; the API handlers register, unregister, start and   *)
(* stop servers at any time.                                               *)
(*                                                                         *)
(* Each call of the manager is one step here; module Manager has what      *)
(* happens inside: its lock, and the Start that runs without it.           *)
(*                                                                         *)
(* Operators named M_... are plausible bugs of the definition they         *)
(* precede; no specification uses them, the project's mutation runs do.    *)
(***************************************************************************)
EXTENDS Integers, FiniteSets

CONSTANTS
    Names,       \* servers
    Callers,     \* requests GET /api/tools
    Kinds,       \* the enabled configurations the backend may hold
    MaxChanges,  \* bound: changes made in the backend
    MaxApi       \* bound: registrations and removals by the API handlers

None == "none"
Boot == "boot"
Api == "api"
Procs == Callers \union {Boot}

\* "plain" is an http server with a static token or none, or a stdio server
\* that is not started; "auto" a stdio server with auto_start; "oauth" an http
\* server whose tokens come from a token endpoint; "invalid" one that
\* RegisterServer refuses, an http server without a base URL.
KindNames == {"plain", "auto", "oauth", "invalid"}

ASSUME ConstantsAssumption ==
    /\ Boot \notin Callers /\ Api \notin Callers /\ None \notin Callers /\ "cancelled" \notin Callers
    /\ Kinds \subseteq KindNames
    /\ MaxChanges \in Nat /\ MaxApi \in Nat

Off == "off"         \* a configuration that is deleted or disabled
Configs == [Names -> Kinds \union {Off}]
EnabledIn(cfgs) == {n \in Names : cfgs[n] # Off}
ValidIn(cfgs) == {n \in Names : cfgs[n] \notin {Off, "invalid"}}

\* A registered client: who made it; whose context its token source depends on,
\* None without a token source; whose context its process was started under, Api
\* for context.Background(), None if it does not run.  A context that is over is
\* "cancelled": the token is not renewed any more, the process is killed but the
\* client still counts as running (module StdioClient).
Absent == [maker |-> None, token |-> None, process |-> None]
Client(p, kind) ==
    [maker |-> p, token |-> IF kind = "oauth" THEN p ELSE None, process |-> None]

VARIABLES
    backend,     \* the configurations the backend holds
    changes,     \* changes made in the backend so far
    servers,     \* Manager.clients
    apiCalls,    \* registrations and removals (not starts and stops) by the API handlers so far
    serving,     \* main has started the HTTP server
    mu,          \* who holds configRefresher.mu
    recent,      \* lastRefresh is less than minInterval ago
    succeeded,   \* history: the last refresh got the configurations
    pc,
    configs,     \* the configurations a bootstrap has fetched
    todo,        \* names its current loop still has to treat
    current,     \* the name it is registering or starting
    disturbed    \* history: names (un)registered by others since a process
                 \* read RegisteredNames

backendVars == <<backend, changes>>
refresherVars == <<mu, recent, succeeded>>
managerVars == <<servers, disturbed>>
locals == <<configs, todo, current>>
vars == <<backendVars, refresherVars, managerVars, apiCalls, serving, pc, locals>>

Registered == {n \in Names : servers[n] # Absent}
NoConfigs == [n \in Names |-> Off]

Init ==
    /\ backend \in Configs
    /\ changes = 0
    /\ servers = [n \in Names |-> Absent]
    /\ apiCalls = 0
    /\ serving = FALSE
    /\ mu = None
    /\ recent = FALSE
    /\ succeeded = TRUE
    /\ pc = [p \in Procs |-> IF p = Boot THEN "fetching" ELSE "idle"]
    /\ configs = [p \in Procs |-> NoConfigs]
    /\ todo = [p \in Procs |-> {}]
    /\ current = [p \in Procs |-> None]
    /\ disturbed = [p \in Procs |-> {}]

Goto(p, label) == pc' = [pc EXCEPT ![p] = label]

\* A bootstrap that has read RegisteredNames.
Reconciling == {"removing", "registering", "adding", "starting", "finishing"}

\* p registers or unregisters n.
SetServer(p, n, client) ==
    /\ servers' = [servers EXCEPT ![n] = client]
    /\ disturbed' = [q \in Procs |->
         disturbed[q] \union IF q # p /\ pc[q] \in Reconciling THEN {n} ELSE {}]

\* Client.Start with the context c: refused if the client counts as running.
StartUnder(n, c) ==
    /\ n \in Registered /\ servers[n].token = None /\ servers[n].process = None
    /\ servers' = [servers EXCEPT ![n].process = c]

\* The loop of p goes on with one name less.
Treated(p, n) == todo' = [todo EXCEPT ![p] = @ \ {n}]

-----------------------------------------------------------------------------
(* The backend, the clock and the API handlers.                            *)

ChangeBackend ==
    /\ changes < MaxChanges
    /\ changes' = changes + 1
    /\ \E n \in Names, k \in Kinds \union {Off} : backend' = [backend EXCEPT ![n] = k]
    /\ UNCHANGED <<refresherVars, managerVars, apiCalls, serving, pc, locals>>

IntervalElapses ==
    /\ recent
    /\ recent' = FALSE
    /\ UNCHANGED <<backendVars, mu, succeeded, managerVars, apiCalls, serving, pc, locals>>

M_ApiRegisterWithRequestContext(n) ==
    /\ serving /\ apiCalls < MaxApi
    /\ n \notin Registered
    /\ SetServer(Api, n, [maker |-> Api, token |-> Api, process |-> None])
    /\ apiCalls' = apiCalls + 1
    /\ UNCHANGED <<backendVars, refresherVars, serving, pc, locals>>

\* handleRegisterServer gives token sources context.Background(), which never
\* ends.  Its auto start, the next step, is ApiStart.
ApiRegister(n) ==
    /\ serving /\ apiCalls < MaxApi
    /\ n \notin Registered
    /\ SetServer(Api, n, Client(Api, "plain"))
    /\ apiCalls' = apiCalls + 1
    /\ UNCHANGED <<backendVars, refresherVars, serving, pc, locals>>

ApiUnregister(n) ==
    /\ serving /\ apiCalls < MaxApi
    /\ n \in Registered
    /\ SetServer(Api, n, Absent)
    /\ apiCalls' = apiCalls + 1
    /\ UNCHANGED <<backendVars, refresherVars, serving, pc, locals>>

\* handleStartServer, handleStopServer, and the handlers that start a client that
\* does not run: their 10 s context ends as soon as Start returns.
ApiStart(n) ==
    /\ serving /\ StartUnder(n, Api)
    /\ UNCHANGED <<backendVars, refresherVars, disturbed, apiCalls, serving, pc, locals>>

LazyStart(n) ==
    /\ serving /\ StartUnder(n, "cancelled")
    /\ UNCHANGED <<backendVars, refresherVars, disturbed, apiCalls, serving, pc, locals>>

ApiStop(n) ==
    /\ serving /\ n \in Registered
    /\ servers' = [servers EXCEPT ![n].process = None]
    /\ UNCHANGED <<backendVars, refresherVars, disturbed, apiCalls, serving, pc, locals>>

-----------------------------------------------------------------------------
(* Refresh, for a request that lists all tools, and the retries of main.   *)

Request(p) ==
    /\ p \in Callers /\ serving
    /\ pc[p] = "idle"
    /\ Goto(p, "locking")
    /\ UNCHANGED <<backendVars, refresherVars, managerVars, apiCalls, serving, locals>>

M_LockShared(p) ==
    /\ p \in Callers
    /\ pc[p] = "locking"
    /\ IF recent THEN Goto(p, "listing") ELSE Goto(p, "fetching")
    /\ UNCHANGED <<backendVars, refresherVars, managerVars, apiCalls, serving, locals>>

\* The mutex is taken; if the interval has not elapsed it is released at once.
Lock(p) ==
    /\ p \in Callers
    /\ pc[p] = "locking" /\ mu = None
    /\ IF recent
       THEN Goto(p, "listing") /\ UNCHANGED mu
       ELSE Goto(p, "fetching") /\ mu' = p
    /\ UNCHANGED <<backendVars, recent, succeeded, managerVars, apiCalls, serving, locals>>

\* time.After in retryBootstrap.
Retry ==
    /\ pc[Boot] = "waiting"
    /\ Goto(Boot, "fetching")
    /\ UNCHANGED <<backendVars, refresherVars, managerVars, apiCalls, serving, locals>>

-----------------------------------------------------------------------------
(* bootstrapConfigs.                                                       *)

Fetch(p) ==
    /\ pc[p] = "fetching"
    /\ configs' = [configs EXCEPT ![p] = backend]
    /\ succeeded' = IF p = Boot THEN succeeded ELSE TRUE
    /\ Goto(p, "reading")
    /\ UNCHANGED <<backendVars, mu, recent, managerVars, apiCalls, serving, todo, current>>

\* main then starts the HTTP server and retries behind it; Refresh ignores it.
FetchFails(p) ==
    /\ pc[p] = "fetching"
    /\ IF p = Boot
       THEN Goto(p, "waiting") /\ serving' = TRUE /\ UNCHANGED succeeded
       ELSE Goto(p, "finishing") /\ succeeded' = FALSE /\ UNCHANGED serving
    /\ UNCHANGED <<backendVars, mu, recent, managerVars, apiCalls, locals>>

M_ReadNamesRemovesNothing(p) ==
    /\ pc[p] = "reading"
    /\ todo' = [todo EXCEPT ![p] = {}]
    /\ disturbed' = [disturbed EXCEPT ![p] = {}]
    /\ Goto(p, "removing")
    /\ UNCHANGED <<backendVars, refresherVars, servers, apiCalls, serving, configs, current>>

\* RegisteredNames: what is registered and not desired is to be removed.
ReadNames(p) ==
    /\ pc[p] = "reading"
    /\ todo' = [todo EXCEPT ![p] = Registered \ EnabledIn(configs[p])]
    /\ disturbed' = [disturbed EXCEPT ![p] = {}]
    /\ Goto(p, "removing")
    /\ UNCHANGED <<backendVars, refresherVars, servers, apiCalls, serving, configs, current>>

\* UnregisterServer fails if the name is gone already; the loop goes on.
Remove(p, n) ==
    /\ pc[p] = "removing" /\ n \in todo[p]
    /\ IF n \in Registered THEN SetServer(p, n, Absent) ELSE UNCHANGED managerVars
    /\ Treated(p, n)
    /\ UNCHANGED <<backendVars, refresherVars, apiCalls, serving, pc, configs, current>>

EndRemoving(p) ==
    /\ pc[p] = "removing" /\ todo[p] = {}
    /\ todo' = [todo EXCEPT ![p] = EnabledIn(configs[p])]
    /\ Goto(p, "registering")
    /\ UNCHANGED <<backendVars, refresherVars, managerVars, apiCalls, serving, configs, current>>

\* GetClient: a name that is registered is left as it is.
Consider(p, n) ==
    /\ pc[p] = "registering" /\ n \in todo[p]
    /\ Treated(p, n)
    /\ IF n \in Registered
       THEN UNCHANGED <<pc, current>>
       ELSE Goto(p, "adding") /\ current' = [current EXCEPT ![p] = n]
    /\ UNCHANGED <<backendVars, refresherVars, managerVars, apiCalls, serving, configs>>

M_RegisterOverwrites(p) ==
    /\ pc[p] = "adding"
    /\ LET n == current[p]  kind == configs[p][n] IN
         /\ IF kind # "invalid" THEN SetServer(p, n, Client(p, kind)) ELSE UNCHANGED managerVars
         /\ IF kind = "auto" THEN Goto(p, "starting") ELSE Goto(p, "registering")
    /\ UNCHANGED <<backendVars, refresherVars, apiCalls, serving, locals>>

\* RegisterServer refuses a name that was registered meanwhile.
Register(p) ==
    /\ pc[p] = "adding"
    /\ LET n == current[p]  kind == configs[p][n] IN
         IF n \notin Registered /\ kind # "invalid"
         THEN /\ SetServer(p, n, Client(p, kind))
              /\ Goto(p, IF kind = "auto" THEN "starting" ELSE "registering")
         ELSE Goto(p, "registering") /\ UNCHANGED managerVars
    /\ UNCHANGED <<backendVars, refresherVars, apiCalls, serving, locals>>

M_StartAgain(p) ==
    /\ pc[p] = "starting"
    /\ \/ /\ current[p] \in Registered /\ servers[current[p]].token = None
          /\ servers' = [servers EXCEPT ![current[p]].process = p]
       \/ UNCHANGED servers
    /\ Goto(p, "registering")
    /\ UNCHANGED <<backendVars, refresherVars, disturbed, apiCalls, serving, locals>>

\* StartServer starts whatever client the name has now, with p's context; it
\* may fail, it does nothing to a client that is running, and only a stdio
\* client keeps the context: all three are the second disjunct.
Start(p) ==
    /\ pc[p] = "starting"
    /\ StartUnder(current[p], p) \/ UNCHANGED servers
    /\ Goto(p, "registering")
    /\ UNCHANGED <<backendVars, refresherVars, disturbed, apiCalls, serving, locals>>

EndRegistering(p) ==
    /\ pc[p] = "registering" /\ todo[p] = {}
    /\ Goto(p, "finishing")
    /\ UNCHANGED <<backendVars, refresherVars, managerVars, apiCalls, serving, locals>>

M_FinishKeepsLock(p) ==
    /\ pc[p] = "finishing"
    /\ Goto(p, IF p = Boot THEN "done" ELSE "listing")
    /\ serving' = (serving \/ p = Boot)
    /\ recent' = (recent \/ p # Boot)
    /\ configs' = [configs EXCEPT ![p] = NoConfigs]
    /\ current' = [current EXCEPT ![p] = None]
    /\ disturbed' = [disturbed EXCEPT ![p] = {}]
    /\ UNCHANGED <<backendVars, mu, succeeded, servers, apiCalls, todo>>

\* Refresh notes the time, whatever bootstrapConfigs returned, and unlocks.
Finish(p) ==
    /\ pc[p] = "finishing"
    /\ IF p = Boot
       THEN Goto(p, "done") /\ serving' = TRUE /\ UNCHANGED <<mu, recent>>
       ELSE Goto(p, "listing") /\ recent' = TRUE /\ mu' = None /\ UNCHANGED serving
    /\ configs' = [configs EXCEPT ![p] = NoConfigs]
    /\ current' = [current EXCEPT ![p] = None]
    /\ disturbed' = [disturbed EXCEPT ![p] = {}]
    /\ UNCHANGED <<backendVars, succeeded, servers, apiCalls, todo>>

Cut(p, context) == IF context = p THEN "cancelled" ELSE context

\* The request is answered, which cancels its context.
EndRequest(p) ==
    /\ pc[p] = "listing"
    /\ Goto(p, "idle")
    /\ servers' = [n \in Names |->
         [servers[n] EXCEPT !.token = Cut(p, @), !.process = Cut(p, @)]]
    /\ UNCHANGED <<backendVars, refresherVars, disturbed, apiCalls, serving, locals>>

-----------------------------------------------------------------------------

\* What a process does by itself; the backend client has a time-out.
Step(p) ==
    \/ ReadNames(p) \/ EndRemoving(p) \/ EndRegistering(p) \/ Register(p)
    \/ Finish(p) \/ EndRequest(p) \/ FetchFails(p)
    \/ \E n \in Names : Remove(p, n) \/ Consider(p, n)

Handler(n) ==
    ApiRegister(n) \/ ApiUnregister(n) \/ ApiStart(n) \/ ApiStop(n) \/ LazyStart(n)

World == ChangeBackend \/ IntervalElapses \/ \E n \in Names : Handler(n)

Next ==
    \/ World
    \/ Retry
    \/ \E p \in Procs : Request(p) \/ Lock(p) \/ Fetch(p) \/ Start(p) \/ Step(p)

Spec == Init /\ [][Next]_vars

\* The goroutines and the clock run, sync.Mutex starves nobody, the servers end
\* their handshakes, agents go on listing tools, and the backend answers again
\* and again.
FairSpec ==
    /\ Spec
    /\ WF_vars(IntervalElapses)
    /\ WF_vars(Retry)
    /\ \A p \in Procs : SF_vars(Request(p) \/ Lock(p) \/ Start(p) \/ Step(p)) /\ SF_vars(Fetch(p))

-----------------------------------------------------------------------------
(* Properties.                                                             *)

InRefresh == {"fetching", "reading", "removing", "registering", "adding", "starting", "finishing"}
Labels == InRefresh \union {"idle", "locking", "listing", "waiting", "done"}

MadeClients ==
    [maker : Procs \union {Api}, token : Procs \union {None, "cancelled"},
     process : Procs \union {Api, None, "cancelled"}]

\* Every variable keeps its type; in particular no token source depends on the
\* context of an API handler, which ends with its request (processes do: the
\* handlers of LazyStart cancel theirs).
TypeOK ==
    /\ backend \in Configs /\ configs \in [Procs -> Configs]
    /\ changes \in 0 .. MaxChanges /\ apiCalls \in 0 .. MaxApi
    /\ servers \in [Names -> {Absent} \union MadeClients]
    /\ serving \in BOOLEAN /\ recent \in BOOLEAN /\ succeeded \in BOOLEAN
    /\ mu \in Callers \union {None}
    /\ pc \in [Procs -> Labels]
    /\ todo \in [Procs -> SUBSET Names]
    /\ current \in [Procs -> Names \union {None}]
    /\ disturbed \in [Procs -> SUBSET Names]

\* main.go:224-250: when a bootstrap ends, of the names that nobody else
\* touched meanwhile exactly those enabled in what it fetched are registered,
\* up to configurations RegisterServer refuses.
SnapshotApplied ==
    \A p \in Procs : pc[p] = "finishing" /\ (p \in Callers => succeeded) =>
        LET mine == Names \ disturbed[p] IN
            /\ ValidIn(configs[p]) \intersect mine \subseteq Registered
            /\ Registered \intersect mine \subseteq EnabledIn(configs[p])

\* configRefresher: while a refresh is under way the last one is at least
\* minInterval old, however many requests arrive: those that waited for the
\* mutex do not fetch again.
RefreshOnlyWhenStale == \A p \in Callers : pc[p] \in InRefresh => ~recent

\* Manager.RegisterServer: the client of a registered server is never replaced
\* by another, although a bootstrap checks the name some steps before it
\* registers (main.go:258 and 314).
ClientNeverReplaced ==
    [][\A n \in Names : n \in Registered /\ n \in Registered'
         => servers'[n].maker = servers[n].maker]_vars

\* A stdio server whose process was killed with the request that had started it
\* counts as running, so that no later start, of a refresh, of the API or of a
\* handler that wants to call it, brings it back: only a stop by the API or its
\* removal ends that.
CutUntilStopped ==
    [][\A n \in Names :
         servers[n].process = "cancelled" =>
            servers'[n].process = "cancelled" \/ n \notin Registered' \/ ApiStop(n)]_vars

\* Once backend and API stop changing, the registered servers become those
\* enabled in the backend and remain so, whatever an earlier retry of main with
\* an old list of configurations did.
Converged == ValidIn(backend) \subseteq Registered /\ Registered \subseteq EnabledIn(backend)
Converges == <>[]Converged

\* main.go:396: Refresh skips the backend only if a refresh succeeded less than
\* minInterval ago.
SkipsOnlyAfterSuccess == [][\A p \in Callers : Lock(p) /\ recent => succeeded]_vars

\* oauth/client.go:18: the token of a registered server is renewed before it
\* expires, which needs a context that is not cancelled.
TokensRenewable == \A n \in Names : servers[n].token # "cancelled"
=============================================================================
