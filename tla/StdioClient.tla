---------------------------- MODULE StdioClient ----------------------------
(***************************************************************************)
(* internal/mcp/client.go: the life cycle of one stdio MCP client.  Any    *)
(* number of goroutines start, stop and call it: the manager, the          *)
(* reconciler and the HTTP handlers of internal/api/http.go.  Each Start   *)
(* spawns a process (an incarnation), bound to the context it was given,   *)
(* and holds the client's mutex until the handshake is over.               *)
(*                                                                         *)
(* A request over the process's pipes is reduced to what Protocol          *)
(* guarantees of SendRequest: it fails if the process is dead when it is   *)
(* written, returns if the server answers, and waits for ever otherwise.   *)
(*                                                                         *)
(* Operators named M_... are plausible bugs of the definition they         *)
(* precede; no specification uses them, the project's mutation runs do.    *)
(***************************************************************************)
EXTENDS Integers, FiniteSets

CONSTANTS
    Threads,    \* goroutines that use the client
    Free,       \* the mutex is not write-locked
    MaxStarts,  \* bound: operations that may spawn a process
    Ops,        \* operations the threads perform, see OpNames
    Faults      \* what the environment may do, see FaultNames

\* "start":   Start under a context that outlives the caller;
\* "refresh": Start under the context of a request that ends later;
\* "lazy":    a handler's IsRunning / Start under a 10 s context / request;
\* "call":    ListTools, CallTool and the like;
\* "stop":    Stop.
OpNames == {"start", "refresh", "lazy", "call", "stop"}
FaultNames == {"exit", "refuse", "spawn", "expire"}
Starting == {"start", "refresh", "lazy"}

ASSUME ConstantsAssumption ==
    /\ MaxStarts \in Nat
    /\ Ops \subseteq OpNames
    /\ Faults \subseteq FaultNames
    /\ Free \notin Threads

None == 0
Incs == 1 .. MaxStarts  \* incarnations of the server process

VARIABLES
    mu,         \* who holds Client.mu for writing
    isRunning,  \* Client.isRunning
    cmd,        \* the incarnation of Client.cmd, None without a process
    protocol,   \* the incarnation Client.protocol talks to
    info,       \* the incarnation that filled Client.serverInfo
    pc, op,     \* where each thread is, in which operation
    mine,       \* the incarnation a thread's operation spawned
    ctxDone,    \* the context of a thread's operation is cancelled
    seen,       \* the incarnation that ran when IsRunning said so
    target,     \* the incarnation a thread's request goes to
    answer,     \* what the server answered to that request
    proc,       \* the state of each incarnation
    ready,      \* incarnations that were sent "initialized"
    doomed,     \* incarnations whose context is cancelled
    begun       \* operations begun that may spawn a process

clientVars == <<mu, isRunning, cmd, protocol, info>>
opVars == <<op, mine, ctxDone, begun>>
requestVars == <<seen, target, answer>>
procVars == <<proc, ready, doomed>>
vars == <<clientVars, pc, opVars, requestVars, procVars>>

Init ==
    /\ mu = Free
    /\ isRunning = FALSE
    /\ cmd = None
    /\ protocol = None
    /\ info = None
    /\ pc = [t \in Threads |-> "idle"]
    /\ op = [t \in Threads |-> "call"]
    /\ mine = [t \in Threads |-> None]
    /\ ctxDone = [t \in Threads |-> FALSE]
    /\ seen = [t \in Threads |-> None]
    /\ target = [t \in Threads |-> None]
    /\ answer = [t \in Threads |-> "none"]
    /\ proc = [p \in Incs |-> "none"]
    /\ ready = {}
    /\ doomed = {}
    /\ begun = 0

Goto(t, label) == pc' = [pc EXCEPT ![t] = label]
Live(p) == p \in Incs /\ proc[p] = "live"

-----------------------------------------------------------------------------

Entry(o) ==
    CASE o \in {"start", "refresh"} -> "locking"
      [] o \in {"lazy", "call"} -> "checking"
      [] o = "stop" -> "stopping"

Begin(t) ==
    /\ pc[t] = "idle"
    /\ \E o \in Ops :
         /\ o \in Starting => begun < MaxStarts
         /\ begun' = IF o \in Starting THEN begun + 1 ELSE begun
         /\ op' = [op EXCEPT ![t] = o]
         /\ Goto(t, Entry(o))
    /\ mine' = [mine EXCEPT ![t] = None]
    /\ ctxDone' = [ctxDone EXCEPT ![t] = FALSE]
    /\ UNCHANGED <<clientVars, requestVars, procVars>>

M_IsRunningUnchecked(t) ==
    /\ pc[t] = "checking" /\ mu = Free
    /\ \/ /\ isRunning /\ op[t] = "lazy"
          /\ op' = [op EXCEPT ![t] = "call"]
          /\ UNCHANGED <<pc, seen>>
       \/ /\ op[t] = "call"
          /\ Goto(t, "calling")
          /\ seen' = [seen EXCEPT ![t] = cmd]
          /\ UNCHANGED op
       \/ /\ ~isRunning /\ op[t] = "lazy"
          /\ Goto(t, "locking")
          /\ UNCHANGED <<op, seen>>
    /\ UNCHANGED <<clientVars, mine, ctxDone, begun, target, answer, procVars>>

\* IsRunning reads the flag when no writer holds the mutex.  A handler that
\* finds the client running goes on to the call, which checks again.
IsRunning(t) ==
    /\ pc[t] = "checking" /\ mu = Free
    /\ \/ /\ isRunning /\ op[t] = "lazy"
          /\ op' = [op EXCEPT ![t] = "call"]
          /\ UNCHANGED <<pc, seen>>
       \/ /\ isRunning /\ op[t] = "call"
          /\ Goto(t, "calling")
          /\ seen' = [seen EXCEPT ![t] = cmd]
          /\ UNCHANGED op
       \/ /\ ~isRunning
          /\ Goto(t, IF op[t] = "lazy" THEN "locking" ELSE "idle")
          /\ UNCHANGED <<op, seen>>
    /\ UNCHANGED <<clientVars, mine, ctxDone, begun, target, answer, procVars>>

-----------------------------------------------------------------------------
(* Start, with the mutex held from Lock to its return.                     *)

LockStart(t) ==
    /\ pc[t] = "locking" /\ mu = Free
    /\ mu' = t
    /\ Goto(t, "starting")
    /\ UNCHANGED <<isRunning, cmd, protocol, info, opVars, requestVars, procVars>>

M_RefuseKeepsLock(t) ==
    /\ pc[t] = "starting" /\ isRunning
    /\ Goto(t, "refused")
    /\ UNCHANGED <<clientVars, opVars, requestVars, procVars>>

\* "client already running"
Refuse(t) ==
    /\ pc[t] = "starting" /\ isRunning
    /\ mu' = Free
    /\ Goto(t, "refused")
    /\ UNCHANGED <<isRunning, cmd, protocol, info, opVars, requestVars, procVars>>

\* No process could be started, or the context was cancelled already.
SpawnFails(t) ==
    /\ pc[t] = "starting" /\ ~isRunning
    /\ "spawn" \in Faults \/ ctxDone[t]
    /\ cmd' = None
    /\ mu' = Free
    /\ Goto(t, "refused")
    /\ UNCHANGED <<isRunning, protocol, info, opVars, requestVars, procVars>>

SpawnAs(t, p) ==
    /\ proc[p] = "none" /\ \A q \in Incs : q < p => proc[q] # "none"
    /\ proc' = [proc EXCEPT ![p] = "live"]
    /\ cmd' = p
    /\ isRunning' = TRUE
    /\ protocol' = p
    /\ mine' = [mine EXCEPT ![t] = p]
    /\ target' = [target EXCEPT ![t] = p]
    /\ answer' = [answer EXCEPT ![t] = "none"]
    /\ Goto(t, "initializing")
    /\ UNCHANGED <<info, op, ctxDone, begun, seen, ready, doomed>>

M_SpawnUnlocks(t) ==
    /\ pc[t] = "starting" /\ ~isRunning /\ ~ctxDone[t]
    /\ mu' = Free
    /\ \E p \in Incs : SpawnAs(t, p)

\* The process runs, its Protocol is published and its reader started.
Spawn(t) ==
    /\ pc[t] = "starting" /\ ~isRunning /\ ~ctxDone[t]
    /\ mu' = mu
    /\ \E p \in Incs : SpawnAs(t, p)

\* A failed handshake calls Stop, which locks the mutex Start still holds.
FailStart(t) == Goto(t, "stopping") /\ UNCHANGED <<mu, info, ready>>

SendInitialize(t) ==
    /\ pc[t] = "initializing"
    /\ IF Live(target[t])
       THEN Goto(t, "awaiting") /\ UNCHANGED <<mu, info, ready>>
       ELSE FailStart(t)
    /\ UNCHANGED <<isRunning, cmd, protocol, opVars, requestVars, proc, doomed>>

InitializeAnswered(t) ==
    /\ pc[t] = "awaiting" /\ answer[t] # "none"
    /\ IF answer[t] = "ok"
       THEN Goto(t, "notifying") /\ info' = target[t] /\ UNCHANGED <<mu, ready>>
       ELSE FailStart(t)
    /\ UNCHANGED <<isRunning, cmd, protocol, opVars, requestVars, proc, doomed>>

\* The last step of the handshake: Start returns and releases the mutex.
SendInitialized(t) ==
    /\ pc[t] = "notifying"
    /\ IF Live(target[t])
       THEN /\ Goto(t, "started") /\ mu' = Free
            /\ ready' = ready \union {target[t]} /\ UNCHANGED info
       ELSE FailStart(t)
    /\ UNCHANGED <<isRunning, cmd, protocol, opVars, requestVars, proc, doomed>>

\* Cancelling a context dooms the process that was spawned under it.
CancelContext(t) ==
    /\ ctxDone' = [ctxDone EXCEPT ![t] = TRUE]
    /\ doomed' = doomed \union ({mine[t]} \ {None})

\* The 10 s of a lazy start run out, or the client of a request goes away.
Expire(t) ==
    /\ "expire" \in Faults
    /\ op[t] \in {"refresh", "lazy"} /\ ~ctxDone[t]
    /\ pc[t] \in {"locking", "starting", "initializing", "awaiting", "notifying", "stopping"}
    /\ CancelContext(t)
    /\ UNCHANGED <<clientVars, pc, op, mine, begun, requestVars, proc, ready>>

\* Back in the caller of Start: a handler cancels its context at once and goes
\* on to the call, a request that refreshed ends.
AfterStart(t) ==
    /\ pc[t] \in {"started", "refused"}
    /\ IF op[t] = "start" THEN UNCHANGED <<ctxDone, doomed>> ELSE CancelContext(t)
    /\ IF op[t] = "lazy" /\ pc[t] = "started"
       THEN Goto(t, "checking") /\ op' = [op EXCEPT ![t] = "call"]
       ELSE Goto(t, "idle") /\ UNCHANGED op
    /\ UNCHANGED <<clientVars, mine, begun, requestVars, proc, ready>>

-----------------------------------------------------------------------------
(* Stop, and the calls.                                                    *)

Kill(p) == proc' = IF Live(p) THEN [proc EXCEPT ![p] = "dead"] ELSE proc

M_StopSkipsKill(t) ==
    /\ pc[t] = "stopping" /\ mu = Free
    /\ isRunning' = FALSE
    /\ Goto(t, "idle")
    /\ UNCHANGED <<mu, cmd, protocol, info, opVars, requestVars, procVars>>

\* Lock, body and Unlock: nothing in the body blocks.
Stop(t) ==
    /\ pc[t] = "stopping" /\ mu = Free
    /\ isRunning' = FALSE
    /\ IF isRunning THEN Kill(cmd) ELSE UNCHANGED proc
    /\ Goto(t, "idle")
    /\ UNCHANGED <<mu, cmd, protocol, info, opVars, requestVars, ready, doomed>>

\* c.protocol is read without the mutex, some time after the check.
ReadProtocol(t) ==
    /\ pc[t] = "calling"
    /\ target' = [target EXCEPT ![t] = protocol]
    /\ answer' = [answer EXCEPT ![t] = "none"]
    /\ Goto(t, "writing")
    /\ UNCHANGED <<clientVars, opVars, seen, procVars>>

WriteRequest(t) ==
    /\ pc[t] = "writing"
    /\ Goto(t, IF Live(target[t]) THEN "waiting" ELSE "idle")
    /\ UNCHANGED <<clientVars, opVars, requestVars, procVars>>

ReceiveAnswer(t) ==
    /\ pc[t] = "waiting" /\ answer[t] # "none"
    /\ Goto(t, "idle")
    /\ UNCHANGED <<clientVars, opVars, requestVars, procVars>>

-----------------------------------------------------------------------------
(* The server processes, and os/exec's watcher.                            *)

Answer(t) ==
    /\ pc[t] \in {"awaiting", "waiting"} /\ answer[t] = "none" /\ Live(target[t])
    /\ \E a \in {"ok"} \union (IF "refuse" \in Faults THEN {"error"} ELSE {}) :
         answer' = [answer EXCEPT ![t] = a]
    /\ UNCHANGED <<clientVars, pc, opVars, seen, target, procVars>>

\* exec.CommandContext kills a process whose context is done.
Watch(p) ==
    /\ p \in doomed /\ Live(p)
    /\ Kill(p)
    /\ UNCHANGED <<clientVars, pc, opVars, requestVars, ready, doomed>>

\* Nothing in the client notices: nobody waits for the process.
Exit(p) ==
    /\ "exit" \in Faults /\ Live(p)
    /\ Kill(p)
    /\ UNCHANGED <<clientVars, pc, opVars, requestVars, ready, doomed>>

-----------------------------------------------------------------------------

Lock(t) == LockStart(t) \/ Stop(t) \/ IsRunning(t)

ThreadStep(t) ==
    \/ Refuse(t) \/ SpawnFails(t) \/ Spawn(t)
    \/ SendInitialize(t) \/ InitializeAnswered(t) \/ SendInitialized(t) \/ AfterStart(t)
    \/ ReadProtocol(t) \/ WriteRequest(t) \/ ReceiveAnswer(t)

Next ==
    \/ \E t \in Threads : Begin(t) \/ Lock(t) \/ ThreadStep(t) \/ Expire(t) \/ Answer(t)
    \/ \E p \in Incs : Watch(p) \/ Exit(p)

Spec == Init /\ [][Next]_vars

\* Go runs every goroutine that can run and hands a mutex to a waiter that
\* starves; os/exec's watcher is a goroutine too; a sane server answers.
\* Contexts need not expire, processes need not exit.
Fairness ==
    /\ \A t \in Threads : WF_vars(ThreadStep(t)) /\ SF_vars(Lock(t)) /\ WF_vars(Answer(t))
    /\ \A p \in Incs : WF_vars(Watch(p))

FairSpec == Spec /\ Fairness

-----------------------------------------------------------------------------
(* Properties.                                                             *)

Labels == {"idle", "checking", "locking", "starting", "initializing", "awaiting", "notifying",
           "started", "refused", "stopping", "calling", "writing", "waiting"}

\* In a Start or a Stop, or in the IsRunning that comes before them.
Contending == Labels \ {"idle", "calling", "writing", "waiting"}

\* What each variable may hold; the mutex is free or held by one thread.
Types ==
    /\ mu \in Threads \union {Free}
    /\ isRunning \in BOOLEAN
    /\ cmd \in Incs \union {None} /\ protocol \in Incs \union {None}
    /\ info \in Incs \union {None}
    /\ pc \in [Threads -> Labels]
    /\ op \in [Threads -> OpNames]
    /\ mine \in [Threads -> Incs \union {None}]
    /\ ctxDone \in [Threads -> BOOLEAN]
    /\ seen \in [Threads -> Incs \union {None}]
    /\ target \in [Threads -> Incs \union {None}]
    /\ answer \in [Threads -> {"none", "ok", "error"}]
    /\ proc \in [Incs -> {"none", "live", "dead"}]
    /\ ready \subseteq Incs
    /\ doomed \subseteq Incs
    /\ begun \in 0 .. MaxStarts

\* c.protocol, a pointer that is nil before the first spawn, is set wherever a
\* request reads or uses it, which it does without the mutex (client.go:226):
\* the check of IsRunning lies before it and nobody sets it back.
ProtocolSet ==
    /\ isRunning => protocol # None
    /\ \A t \in Threads :
         /\ pc[t] = "calling" => protocol # None
         /\ pc[t] \in {"initializing", "awaiting", "notifying", "writing", "waiting"}
              => target[t] # None

\* Every variable keeps its type, and no request goes through a nil protocol.
TypeOK == Types /\ ProtocolSet

\* The client keeps the contract the manager relies on.  Up to the spawn of the
\* process a Start has the mutex for a moment only, and has changed nothing.
Settled == mu = Free \/ pc[mu] = "starting"
Iface == INSTANCE ClientIface WITH
    starter <- IF Settled THEN Free ELSE mu, running <- isRunning /\ Settled, NoOne <- Free
ImplementsClientIface == Iface!Spec

\* The client never loses sight of a process: whatever runs is the process of
\* c.cmd, and the client knows it is running, so that Stop will kill it (the
\* check of isRunning in Start, the order of Stop).
NoOrphan == \A p \in Incs : Live(p) => isRunning /\ cmd = p

\* Whoever sees the client running through the mutex sees a process that has
\* been through the whole handshake, and the protocol and server info of that
\* very process, never of an earlier one (Start holds c.mu to its end).
RunningMeansReady ==
    mu = Free /\ isRunning => cmd \in ready /\ protocol = cmd /\ info = cmd

\* A request that reaches a process before its handshake is over was let
\* through by a check made while an earlier process ran (IsRunning, then an
\* unsynchronised read of c.protocol).
EarlyRequestIsStale ==
    [][\A t \in Threads :
         WriteRequest(t) /\ Live(target[t]) /\ target[t] \notin ready => seen[t] # target[t]]_vars

\* The two ways a Start keeps the mutex for ever: its handshake failed and it
\* calls Stop, or its process died before answering initialize.
Hangs(t) ==
    /\ mu = t
    /\ \/ pc[t] = "stopping"
       \/ pc[t] = "awaiting" /\ ~Live(target[t]) /\ answer[t] = "none"
StartHangs == \E t \in Threads : Hangs(t)

\* Every Start and Stop returns, in whatever order they contend for the mutex
\* and whatever contexts expire, processes exit and spawns fail meanwhile,
\* unless a Start hangs in its handshake (the Unlock on every other path).
StartStopReturn ==
    \A t \in Threads :
        pc[t] \in Contending ~> (pc[t] \notin Contending \/ StartHangs)

\* http.go:533: a failure to start is reported to the caller.  A start whose
\* handshake failed returns.
FailedStartReturns ==
    \A t \in Threads : (pc[t] = "stopping" /\ op[t] \in Starting) ~> pc[t] # "stopping"

\* http.go:554: the start a handler makes serves the request that triggers it.
\* No process exits by itself here, and nobody stops the client.
LazyStartServesCall ==
    \A t \in Threads : pc[t] = "waiting" /\ target[t] = mine[t] => Live(target[t]) \/ answer[t] # "none"
=============================================================================
